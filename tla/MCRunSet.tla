------------------------------ MODULE MCRunSet ------------------------------
(* RunSet on small instances. *)
EXTENDS RunSet, TLC

RunSymmetry == Permutations(Run)

OneTitle      == {<<"fix">>}
TitleAndScout == {<<"fix">>, Scout}
=============================================================================
