--------------------------- MODULE MCTurnSession ----------------------------
(* TurnSession on small instances. *)
EXTENDS TurnSession, TLC

SessionSymmetry == Permutations(Call) \cup Permutations(Query)
=============================================================================
