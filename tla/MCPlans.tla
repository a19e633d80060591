------------------------------- MODULE MCPlans --------------------------------
(* What agents say of a plan: plainly, in two lines, and in words that read as   *)
(* fields or as a heading.                                                       *)
EXTENDS Plans

CONSTANTS t1, t2, u1, u2, home

TheProject == [t \in Task |-> home]

PlainDraft == [goal |-> Says(10), details |-> <<<<<<"words", 11>>>>, <<<<"words", 15>>>>>>]
OddDraft ==
    [goal    |-> [Says(16) EXCEPT !.sections = <<[head |-> 0, lines |-> <<>>]>>],
     details |-> <<<<<<"status", "done">>>>>>]
LongNote == [Says(12) EXCEPT !.lines = <<<<"words", 13>>>>]
OddNote ==
    [Says(12) EXCEPT !.lines = <<<<"status", "todo">>, <<"note", 14>>>>,
                     !.sections = <<[head |-> 2, lines |-> <<<<"words", 13>>>>]>>]

TheDrafts == {PlainDraft, OddDraft}
TheNotes == {LongNote, OddNote}

\* The workers are not told apart.
Alike == Permutations(Worker)
=============================================================================
