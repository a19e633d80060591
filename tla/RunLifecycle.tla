---------------------------- MODULE RunLifecycle ----------------------------
(* What the run set promises the agents that use the subagent tool, without  *)
(* locks, calls or goroutines: the life of every run, the attempts it has    *)
(* made, and which runs have an executor at work.                            *)
EXTENDS Naturals, FiniteSets

CONSTANTS Run, MaxParallel

VARIABLES life, tries, working

lifeVars == <<life, tries, working>>

Over  == {"done", "failed", "stopped", "interrupted"}
Lives == Over \cup {"absent", "running", "paused", "blocked"}

Init == /\ life = [r \in Run |-> "absent"]
        /\ tries = [r \in Run |-> 0]
        /\ working = {}

\* Work starts only when the run has no executor and a slot is free.
Work(r) == /\ r \notin working
           /\ Cardinality(working) < MaxParallel
           /\ working' = working \cup {r}
           /\ life' = [life EXCEPT ![r] = "running"]

Spawn(r) == /\ life[r] = "absent"
            /\ Work(r)
            /\ tries' = [tries EXCEPT ![r] = 1]

\* A paused run continues its attempt; any other makes a new one.
Resume(r) == /\ life[r] \notin {"absent", "running"}
             /\ Work(r)
             /\ tries' = [tries EXCEPT ![r] = IF life[r] = "paused" THEN @ ELSE @ + 1]

Pause(r) == /\ life[r] = "running" /\ r \in working
            /\ life' = [life EXCEPT ![r] = "paused"]
            /\ UNCHANGED <<tries, working>>

\* Stopped and interrupted: the executor, if any, still has to settle.
End(r, how) == /\ life[r] \in {"running", "paused", "blocked"}
               /\ life' = [life EXCEPT ![r] = how]
               /\ UNCHANGED <<tries, working>>

\* Only an executor at work on a running run gives it an outcome.
Finish(r, how) == /\ life[r] = "running" /\ r \in working
                  /\ life' = [life EXCEPT ![r] = how]
                  /\ working' = working \ {r}
                  /\ UNCHANGED tries

\* An executor of a run that is no longer running leaves it as it is.
Settle(r) == /\ r \in working /\ life[r] # "running"
             /\ working' = working \ {r}
             /\ UNCHANGED <<life, tries>>

\* Both processes start again and know no run.
Relaunch == /\ life' = [r \in Run |-> "absent"]
            /\ tries' = [r \in Run |-> 0]
            /\ working' = {}

Next == \/ \E r \in Run : Spawn(r) \/ Resume(r) \/ Pause(r) \/ Settle(r)
        \/ \E r \in Run : End(r, "stopped") \/ End(r, "interrupted")
        \/ \E r \in Run, how \in {"done", "blocked", "failed"} : Finish(r, how)
        \/ Relaunch

Spec == Init /\ [][Next]_lifeVars
=============================================================================
