----------------------------- MODULE MCDocuments ------------------------------
(* Files, Output and Plans share no state.  Each is checked alone: one that *)
(* moves finds the two others in their initial state.                       *)
EXTENDS Files, Output, MCPlans

CONSTANTS r1, r2, p1

FilesRest ==
    /\ disk = Nothing /\ editor = {} /\ last = {} /\ ~meddled
    /\ seen = [r \in Reader |-> Nothing] /\ finding = [r \in Reader |-> Nothing]
    /\ known = [r \in Reader |-> {}]
OutputRests == bad = {} /\ capture = [s \in Stream |-> Empty]
PlansRest == projects = {}

\* Bound: a save fails beside one update at most; the odd draft is not edited and has
\* room for one of the two.
PlansBound ==
    IF \E t \in Task : ideal[t].goal = Says(OddDraft.goal.says)
    THEN edits = 0 /\ updates + failures <= 1 ELSE updates + failures <= 2

MCInit ==
    /\ FilesInit /\ OutputInit /\ PlansInit
    /\ bad = {} \/ disk = Nothing

MCNext ==
    \/ OutputRests /\ PlansRest /\ FilesNext /\ UNCHANGED <<outputVars, plansVars>>
    \/ FilesRest /\ PlansRest /\ OutputNext /\ UNCHANGED <<filesVars, plansVars>>
    \/ FilesRest /\ OutputRests /\ PlansNext /\ PlansBound' /\ UNCHANGED <<filesVars, outputVars>>

MCSpec == MCInit /\ [][MCNext]_<<filesVars, outputVars, plansVars>>

\* Neither the readers nor the workers are told apart.
AllAlike == Permutations(Reader) \cup Alike
=============================================================================
