------------------------- MODULE RunSetRefines_proofs -------------------------
(* The run set implements RunLifecycle, for every set of runs and every limit: *)
(* each step of RunSet is one step of the abstract life cycle, or none.        *)
EXTENDS RunSet_proofs

\* What the steps that end a call rely on: a running run has an executor, and while the
\* lock is held the status an operation saw before its call is still there.
RefOK ==
    /\ \A r \in Run : status[r] = "running" => r \in active \cup Settling
    /\ lock.op = "resume" =>
          /\ status[lock.run] \in Settled \cup {"paused"}
          /\ lock.req.attempt = IF status[lock.run] = "paused" THEN attempt[lock.run]
                                                                ELSE attempt[lock.run] + 1
    /\ lock.op \in {"pause", "settle"} => status[lock.run] = "running"
    /\ lock.op = "settle" => lock.req.status \in Outcome
    /\ lock.op \in {"stop", "interrupt"} /\ lock.stage # "next" =>
          status[lock.req.run] \notin Terminal

SameLife == UNCHANGED <<status, attempt, active \cup Settling>>
LifeStep == SameLife \/ Lifecycle!Next

\* Cardinality in RunLifecycle and in RunSet are instances of one definition.
LEMMA SameCardinality == \A S : Lifecycle!Cardinality(S) = Cardinality(S)
BY DEF Cardinality, Lifecycle!Cardinality

-----------------------------------------------------------------------------
(* Steps the abstract life cycle does not see *)

LEMMA SpawnBeginQuiet ==
    ASSUME IndInv, RefOK, NEW t \in Thread, NEW r \in Run,
           NEW role \in {"planner", "worker"}, NEW title \in Title, SpawnBegin(t, r, role, title)
    PROVE  RefOK' /\ SameLife
<1>sent. PICK m : m.run = r /\ lock' = [Holding("spawn", t, r, {}) EXCEPT !.stage = "sent", !.req = m]
  BY DEF SpawnBegin, Send, Message
<1>1. SameLife
  BY <1>sent DEF Free, Holding, NoRequest, envVars, regVars, goVars, thrVars,
     SpawnBegin, SameLife, Settling
<1>2. RefOK'
  BY <1>sent DEF Free, Holding, NoRequest, envVars, regVars, goVars, thrVars,
     SpawnBegin, RefOK, Settling, Known, Current, IndInv, LockOK, TypeOK
<1> QED
  BY <1>1, <1>2

LEMMA PauseBeginQuiet ==
    ASSUME IndInv, RefOK, NEW t \in Thread, NEW r \in Run, PauseBegin(t, r)
    PROVE  RefOK' /\ SameLife
<1>sent. PICK m : m.run = r /\ lock' = [Holding("pause", t, r, {}) EXCEPT !.stage = "sent", !.req = m]
  BY DEF PauseBegin, Send, Message
<1>1. SameLife
  BY <1>sent DEF Free, Holding, NoRequest, envVars, regVars, goVars, thrVars,
     PauseBegin, SameLife, Settling
<1>2. RefOK'
  BY <1>sent DEF Free, Holding, NoRequest, envVars, regVars, goVars, thrVars,
     PauseBegin, RefOK, Settling, Known, Current, IndInv, LockOK, TypeOK
<1> QED
  BY <1>1, <1>2

LEMMA PauseAgainQuiet ==
    ASSUME IndInv, RefOK, NEW t \in Thread, NEW r \in Run, PauseAgain(t, r)
    PROVE  RefOK' /\ SameLife
<1>1. SameLife
  BY DEF Free, Holding, NoRequest, envVars, regVars, goVars, thrVars, PauseAgain,
     SameLife, Settling
<1>2. RefOK'
  BY DEF Free, Holding, NoRequest, envVars, regVars, goVars, thrVars, PauseAgain,
     RefOK, Settling, Known, Current, IndInv, LockOK, TypeOK
<1> QED
  BY <1>1, <1>2

LEMMA ResumeBeginQuiet ==
    ASSUME IndInv, RefOK, NEW t \in Thread, NEW r \in Run, ResumeBegin(t, r)
    PROVE  RefOK' /\ SameLife
<1>sent. PICK m : /\ m.attempt = IF Restarts(r) THEN attempt[r] + 1 ELSE attempt[r]
                  /\ lock' = [Holding("resume", t, r, {}) EXCEPT !.stage = "sent", !.req = m]
  BY DEF ResumeBegin, Send, Message
<1>idle. status[r] \in Settled \cup {"paused"} /\ (Restarts(r) <=> status[r] # "paused")
  BY DEF ResumeBegin, Owned, Known, Idle, Restarts, IndInv, TypeOK, Status,
     Settled, Terminal
<1>1. SameLife
  BY <1>sent, <1>idle DEF Free, Holding, NoRequest, envVars, regVars, goVars,
     thrVars, ResumeBegin, SameLife, Settling
<1>2. RefOK'
  BY <1>sent, <1>idle DEF Free, Holding, NoRequest, envVars, regVars, goVars,
     thrVars, ResumeBegin, RefOK, Settling, Known, Current, IndInv, LockOK, TypeOK
<1> QED
  BY <1>1, <1>2

LEMMA OpFailsQuiet ==
    ASSUME IndInv, RefOK, NEW t \in Thread, OpFails(t)
    PROVE  RefOK' /\ SameLife
<1>1. SameLife
  BY DEF Free, Holding, NoRequest, envVars, regVars, goVars, thrVars, OpFails,
     Returning, SameLife, Settling
<1>2. RefOK'
  BY DEF Free, Holding, NoRequest, envVars, regVars, goVars, thrVars, OpFails,
     Returning, RefOK, Settling, Known, Current, IndInv, LockOK, TypeOK
<1> QED
  BY <1>1, <1>2

LEMMA StopBeginQuiet ==
    ASSUME IndInv, RefOK, NEW t \in Thread, NEW r \in Run, StopBegin(t, r)
    PROVE  RefOK' /\ SameLife
<1>1. SameLife
  BY DEF Free, Holding, NoRequest, envVars, regVars, goVars, thrVars, StopBegin,
     SameLife, Settling
<1>2. RefOK'
  BY DEF Free, Holding, NoRequest, envVars, regVars, goVars, thrVars, StopBegin,
     RefOK, Settling, Known, Current, IndInv, LockOK, TypeOK
<1> QED
  BY <1>1, <1>2

LEMMA InterruptBeginQuiet ==
    ASSUME IndInv, RefOK, NEW t \in Thread, InterruptBegin(t)
    PROVE  RefOK' /\ SameLife
<1>1. SameLife
  BY DEF Free, Holding, NoRequest, envVars, regVars, goVars, thrVars,
     InterruptBegin, SameLife, Settling
<1>2. RefOK'
  BY DEF Free, Holding, NoRequest, envVars, regVars, goVars, thrVars,
     InterruptBegin, RefOK, Settling, Known, Current, IndInv, LockOK, TypeOK
<1> QED
  BY <1>1, <1>2

LEMMA HaltCallQuiet ==
    ASSUME IndInv, RefOK, NEW r \in Run, HaltCall(r)
    PROVE  RefOK' /\ SameLife
<1>sent. PICK m : m.run = r /\ lock' = [lock EXCEPT !.stage = "sent", !.req = m]
  BY DEF HaltCall, Send, Message
<1>1. SameLife
  BY <1>sent DEF Free, Holding, NoRequest, envVars, regVars, goVars, thrVars,
     HaltCall, SameLife, Settling
<1>2. RefOK'
  BY <1>sent DEF Free, Holding, NoRequest, envVars, regVars, goVars, thrVars,
     HaltCall, RefOK, Settling, Known, Current, IndInv, LockOK, TypeOK
<1> QED
  BY <1>1, <1>2

LEMMA StopSkipQuiet ==
    ASSUME IndInv, RefOK, NEW r \in Run, StopSkip(r)
    PROVE  RefOK' /\ SameLife
<1>1. SameLife
  BY DEF Free, Holding, NoRequest, envVars, regVars, goVars, thrVars, StopSkip,
     HaltMark, SameLife, Settling
<1>2. RefOK'
  BY DEF Free, Holding, NoRequest, envVars, regVars, goVars, thrVars, StopSkip,
     HaltMark, RefOK, Settling, Known, Current, IndInv, LockOK, TypeOK
<1> QED
  BY <1>1, <1>2

LEMMA HaltEndQuiet ==
    ASSUME IndInv, RefOK, NEW t \in Thread, HaltEnd(t)
    PROVE  RefOK' /\ SameLife
<1>1. SameLife
  BY DEF Free, Holding, NoRequest, envVars, regVars, goVars, thrVars, HaltEnd,
     SameLife, Settling
<1>2. RefOK'
  BY DEF Free, Holding, NoRequest, envVars, regVars, goVars, thrVars, HaltEnd,
     RefOK, Settling, Known, Current, IndInv, LockOK, TypeOK
<1> QED
  BY <1>1, <1>2

LEMMA JoinedQuiet ==
    ASSUME IndInv, RefOK, NEW t \in Thread, Joined(t)
    PROVE  RefOK' /\ SameLife
<1>1. SameLife
  BY DEF Free, Holding, NoRequest, envVars, regVars, goVars, thrVars, Joined,
     SameLife, Settling
<1>2. RefOK'
  BY DEF Free, Holding, NoRequest, envVars, regVars, goVars, thrVars, Joined,
     RefOK, Settling, Known, Current, IndInv, LockOK, TypeOK
<1> QED
  BY <1>1, <1>2

LEMMA WaitQuiet ==
    ASSUME IndInv, RefOK, NEW t \in Thread, NEW S \in SUBSET Run, Wait(t, S)
    PROVE  RefOK' /\ SameLife
<1>1. SameLife
  BY DEF Free, Holding, NoRequest, envVars, regVars, goVars, thrVars, Wait,
     SameLife, Settling
<1>2. RefOK'
  BY DEF Free, Holding, NoRequest, envVars, regVars, goVars, thrVars, Wait, RefOK,
     Settling, Known, Current, IndInv, LockOK, TypeOK
<1> QED
  BY <1>1, <1>2

LEMMA WaitAgainQuiet ==
    ASSUME IndInv, RefOK, NEW t \in Thread, WaitAgain(t)
    PROVE  RefOK' /\ SameLife
<1>1. SameLife
  BY DEF Free, Holding, NoRequest, envVars, regVars, goVars, thrVars, WaitAgain,
     SameLife, Settling
<1>2. RefOK'
  BY DEF Free, Holding, NoRequest, envVars, regVars, goVars, thrVars, WaitAgain,
     RefOK, Settling, Known, Current, IndInv, LockOK, TypeOK
<1> QED
  BY <1>1, <1>2

LEMMA WaitReturnsQuiet ==
    ASSUME IndInv, RefOK, NEW t \in Thread, WaitReturns(t)
    PROVE  RefOK' /\ SameLife
<1>1. SameLife
  BY DEF Free, Holding, NoRequest, envVars, regVars, goVars, thrVars, WaitReturns,
     SameLife, Settling
<1>2. RefOK'
  BY DEF Free, Holding, NoRequest, envVars, regVars, goVars, thrVars, WaitReturns,
     RefOK, Settling, Known, Current, IndInv, LockOK, TypeOK
<1> QED
  BY <1>1, <1>2

LEMMA SettleBeginQuiet ==
    ASSUME IndInv, RefOK, NEW x \in Executor, NEW out \in Outcome, NEW report \in BOOLEAN, SettleBegin(x, out, report)
    PROVE  RefOK' /\ SameLife
<1>sent. PICK m : m.status = out /\ lock' = [Holding("settle", x, x[1], {}) EXCEPT !.stage = "sent", !.req = m]
  BY DEF SettleBegin, Send, Message
<1>exec. x[1] \in active
  BY DEF SettleBegin, Free, IndInv, ExecOK, Live
<1>1. SameLife
  BY <1>sent, <1>exec DEF Free, Holding, NoRequest, envVars, regVars, goVars,
     thrVars, SettleBegin, SameLife, Settling
<1>2. RefOK'
  BY <1>sent, <1>exec DEF Free, Holding, NoRequest, envVars, regVars, goVars,
     thrVars, SettleBegin, RefOK, Settling, Known, Current, IndInv, LockOK, TypeOK
<1> QED
  BY <1>1, <1>2

LEMMA RegApplyQuiet ==
    ASSUME IndInv, RefOK, NEW m \in wire, RegApply(m)
    PROVE  RefOK' /\ SameLife
<1>1. UNCHANGED <<status, attempt, active>>
  BY DEF RegApply, goVars
<1>2. /\ lock'.op = lock.op /\ lock'.run = lock.run /\ lock'.req = lock.req
      /\ lock'.stage # "next" => lock.stage # "next"
  <2>1. \/ lock' = lock
        \/ lock.stage = "sent" /\ lock' = [lock EXCEPT !.stage = "ok"]
        \/ lock.stage = "sent" /\ lock' = [lock EXCEPT !.stage = "refused"]
    BY DEF RegApply, Reply
  <2> QED
    BY <2>1 DEF IndInv, TypeOK
<1>3. SameLife
  BY <1>1, <1>2 DEF SameLife, Settling
<1>4. RefOK'
  BY <1>1, <1>2 DEF RefOK, Settling
<1> QED
  BY <1>3, <1>4

LEMMA RegRefuseQuiet ==
    ASSUME IndInv, RefOK, NEW m \in wire, RegRefuse(m)
    PROVE  RefOK' /\ SameLife
<1>1. UNCHANGED <<status, attempt, active>>
  BY DEF RegRefuse, goVars
<1>2. /\ lock'.op = lock.op /\ lock'.run = lock.run /\ lock'.req = lock.req
      /\ lock'.stage # "next" => lock.stage # "next"
  <2>1. \/ lock' = lock
        \/ lock.stage = "sent" /\ lock' = [lock EXCEPT !.stage = "ok"]
        \/ lock.stage = "sent" /\ lock' = [lock EXCEPT !.stage = "refused"]
    BY DEF RegRefuse, Reply
  <2> QED
    BY <2>1 DEF IndInv, TypeOK
<1>3. SameLife
  BY <1>1, <1>2 DEF SameLife, Settling
<1>4. RefOK'
  BY <1>1, <1>2 DEF RefOK, Settling
<1> QED
  BY <1>3, <1>4

LEMMA RegDiskErrorQuiet ==
    ASSUME IndInv, RefOK, NEW m \in wire, RegDiskError(m)
    PROVE  RefOK' /\ SameLife
<1>1. UNCHANGED <<status, attempt, active>>
  BY DEF RegDiskError, goVars
<1>2. /\ lock'.op = lock.op /\ lock'.run = lock.run /\ lock'.req = lock.req
      /\ lock'.stage # "next" => lock.stage # "next"
  <2>1. \/ lock' = lock
        \/ lock.stage = "sent" /\ lock' = [lock EXCEPT !.stage = "ok"]
        \/ lock.stage = "sent" /\ lock' = [lock EXCEPT !.stage = "refused"]
    BY DEF RegDiskError, Reply
  <2> QED
    BY <2>1 DEF IndInv, TypeOK
<1>3. SameLife
  BY <1>1, <1>2 DEF SameLife, Settling
<1>4. RefOK'
  BY <1>1, <1>2 DEF RefOK, Settling
<1> QED
  BY <1>3, <1>4

LEMMA CutTurnQuiet ==
    ASSUME IndInv, RefOK, NEW t \in Turns, CutTurn(t)
    PROVE  RefOK' /\ SameLife
<1>1. SameLife
  BY DEF Free, Holding, NoRequest, envVars, regVars, goVars, thrVars, CutTurn,
     SameLife, Settling
<1>2. RefOK'
  BY DEF Free, Holding, NoRequest, envVars, regVars, goVars, thrVars, CutTurn,
     RefOK, Settling, Known, Current, IndInv, LockOK, TypeOK
<1> QED
  BY <1>1, <1>2

LEMMA DisconnectQuiet ==
    ASSUME IndInv, RefOK, Disconnect
    PROVE  RefOK' /\ SameLife
<1>1. SameLife
  BY DEF Free, Holding, NoRequest, envVars, regVars, goVars, thrVars, Disconnect,
     SameLife, Settling
<1>2. RefOK'
  BY DEF Free, Holding, NoRequest, envVars, regVars, goVars, thrVars, Disconnect,
     RefOK, Settling, Known, Current, IndInv, LockOK, TypeOK
<1> QED
  BY <1>1, <1>2

LEMMA ShutdownQuiet ==
    ASSUME IndInv, RefOK, Shutdown
    PROVE  RefOK' /\ SameLife
<1>1. SameLife
  BY DEF Free, Holding, NoRequest, envVars, regVars, goVars, thrVars, Shutdown,
     SameLife, Settling
<1>2. RefOK'
  BY DEF Free, Holding, NoRequest, envVars, regVars, goVars, thrVars, Shutdown,
     RefOK, Settling, Known, Current, IndInv, LockOK, TypeOK
<1> QED
  BY <1>1, <1>2

LEMMA DrainedQuiet ==
    ASSUME IndInv, RefOK, Drained
    PROVE  RefOK' /\ SameLife
<1>1. SameLife
  BY DEF Free, Holding, NoRequest, envVars, regVars, goVars, thrVars, Drained,
     SameLife, Settling
<1>2. RefOK'
  BY DEF Free, Holding, NoRequest, envVars, regVars, goVars, thrVars, Drained,
     RefOK, Settling, Known, Current, IndInv, LockOK, TypeOK
<1> QED
  BY <1>1, <1>2

-----------------------------------------------------------------------------
(* Steps that are steps of the abstract life cycle *)

LEMMA SpawnEndStep ==
    ASSUME IndInv, RefOK, NEW t \in Thread, SpawnEnd(t)
    PROVE  RefOK' /\ lock.run \in Run /\ Lifecycle!Spawn(lock.run)
<1>now. Settling' = {} /\ Settling = {} /\ lock.run \in Run \ active
  BY DEF Free, Holding, NoRequest, envVars, regVars, goVars, thrVars, SpawnEnd,
     Answered, Start, Settling, IndInv, LockOK
<1>slot. active \cup Settling = active /\ active' \cup Settling' = (active \cup Settling) \cup {lock.run}
  BY <1>now DEF SpawnEnd, Start
<1>free. Cardinality(active \cup Settling) < MaxParallel
  BY <1>now, <1>slot DEF SpawnEnd, IndInv, LockOK, Slot
<1>out. lock.run \notin active \cup Settling
  BY <1>now, <1>slot
<1>run. status' = [status EXCEPT ![lock.run] = "running"]
  BY DEF SpawnEnd, Start
<1>work. Lifecycle!Work(lock.run)
  BY <1>out, <1>free, <1>slot, <1>run, SameCardinality DEF Lifecycle!Work
<1>step. Lifecycle!Spawn(lock.run)
  BY <1>now, <1>work DEF Free, Holding, NoRequest, envVars, regVars, goVars,
     thrVars, SpawnEnd, Start, IndInv, LockOK, RefOK, TypeOK, Slot, Settled,
     Terminal, Lifecycle!Spawn, Lifecycle!Work
<1>ref. RefOK'
  BY <1>now DEF Free, Holding, NoRequest, envVars, regVars, goVars, thrVars,
     SpawnEnd, Start, RefOK, Settling, Known, IndInv, LockOK, TypeOK, Settled,
     Terminal, Outcome
<1> QED
  BY <1>now, <1>ref, <1>step

LEMMA ResumeEndStep ==
    ASSUME IndInv, RefOK, NEW t \in Thread, ResumeEnd(t)
    PROVE  RefOK' /\ lock.run \in Run /\ Lifecycle!Resume(lock.run)
<1>now. Settling' = {} /\ Settling = {} /\ lock.run \in Run \ active
  BY DEF Free, Holding, NoRequest, envVars, regVars, goVars, thrVars, ResumeEnd,
     Answered, Start, Settling, IndInv, LockOK
<1>slot. active \cup Settling = active /\ active' \cup Settling' = (active \cup Settling) \cup {lock.run}
  BY <1>now DEF ResumeEnd, Start
<1>free. Cardinality(active \cup Settling) < MaxParallel
  BY <1>now, <1>slot DEF ResumeEnd, IndInv, LockOK, Slot
<1>out. lock.run \notin active \cup Settling
  BY <1>now, <1>slot
<1>run. status' = [status EXCEPT ![lock.run] = "running"]
  BY DEF ResumeEnd, Start
<1>work. Lifecycle!Work(lock.run)
  BY <1>out, <1>free, <1>slot, <1>run, SameCardinality DEF Lifecycle!Work
<1>step. Lifecycle!Resume(lock.run)
  BY <1>now, <1>work DEF Free, Holding, NoRequest, envVars, regVars, goVars,
     thrVars, ResumeEnd, Start, IndInv, LockOK, RefOK, TypeOK, Slot, Settled,
     Terminal, Lifecycle!Resume, Lifecycle!Work
<1>ref. RefOK'
  BY <1>now DEF Free, Holding, NoRequest, envVars, regVars, goVars, thrVars,
     ResumeEnd, Start, RefOK, Settling, Known, IndInv, LockOK, TypeOK, Settled,
     Terminal, Outcome
<1> QED
  BY <1>now, <1>ref, <1>step

LEMMA PauseEndStep ==
    ASSUME IndInv, RefOK, NEW t \in Thread, PauseEnd(t)
    PROVE  RefOK' /\ lock.run \in Run /\ Lifecycle!Pause(lock.run)
<1>now. Settling' = {} /\ Settling = {} /\ lock.run \in Run
  BY DEF Free, Holding, NoRequest, envVars, regVars, goVars, thrVars, PauseEnd,
     Known, Settling, IndInv, LockOK
<1>step. Lifecycle!Pause(lock.run)
  BY <1>now DEF Free, Holding, NoRequest, envVars, regVars, goVars, thrVars,
     PauseEnd, RefOK, Lifecycle!Pause
<1>ref. RefOK'
  BY <1>now DEF Free, Holding, NoRequest, envVars, regVars, goVars, thrVars,
     PauseEnd, RefOK, Settling, Known, IndInv, LockOK, TypeOK, Settled, Terminal,
     Outcome
<1> QED
  BY <1>now, <1>ref, <1>step

LEMMA HaltAppliedStep ==
    ASSUME IndInv, RefOK, HaltApplied
    PROVE  RefOK' /\ lock.req.run \in Run /\ Lifecycle!End(lock.req.run, Aim)
<1>now. Settling' = {} /\ Settling = {} /\ lock.req.run \in Run
  BY DEF Free, Holding, NoRequest, envVars, regVars, goVars, thrVars, HaltApplied,
     HaltMark, CallFailed, Answered, Known, Settling, IndInv, LockOK
<1>was. status[lock.req.run] \in {"running", "paused", "blocked"}
  BY <1>now DEF Free, Holding, NoRequest, envVars, regVars, goVars, thrVars,
     HaltApplied, CallFailed, Answered, RefOK, Known, IndInv, LockOK, TypeOK,
     Status, Settled, Terminal
<1>step. Lifecycle!End(lock.req.run, Aim)
  BY <1>now, <1>was DEF Free, Holding, NoRequest, envVars, regVars, goVars,
     thrVars, HaltApplied, HaltMark, Lifecycle!End
<1>ref. RefOK'
  BY <1>now DEF Free, Holding, NoRequest, envVars, regVars, goVars, thrVars,
     HaltApplied, HaltMark, CallFailed, Answered, Aim, RefOK, Settling, Known,
     IndInv, LockOK, TypeOK, Settled, Terminal, Outcome
<1> QED
  BY <1>now, <1>ref, <1>step

LEMMA InterruptUnsavedStep ==
    ASSUME IndInv, RefOK, InterruptUnsaved
    PROVE  RefOK' /\ lock.req.run \in Run /\ Lifecycle!End(lock.req.run, "interrupted")
<1>now. Settling' = {} /\ Settling = {} /\ lock.req.run \in Run
  BY DEF Free, Holding, NoRequest, envVars, regVars, goVars, thrVars,
     InterruptUnsaved, HaltMark, CallFailed, Answered, Known, Settling, IndInv,
     LockOK
<1>was. status[lock.req.run] \in {"running", "paused", "blocked"}
  BY <1>now DEF Free, Holding, NoRequest, envVars, regVars, goVars, thrVars,
     InterruptUnsaved, CallFailed, Answered, RefOK, Known, IndInv, LockOK, TypeOK,
     Status, Settled, Terminal
<1>step. Lifecycle!End(lock.req.run, "interrupted")
  BY <1>now, <1>was DEF Free, Holding, NoRequest, envVars, regVars, goVars,
     thrVars, InterruptUnsaved, HaltMark, Lifecycle!End
<1>ref. RefOK'
  BY <1>now DEF Free, Holding, NoRequest, envVars, regVars, goVars, thrVars,
     InterruptUnsaved, HaltMark, CallFailed, Answered, Aim, RefOK, Settling,
     Known, IndInv, LockOK, TypeOK, Settled, Terminal, Outcome
<1> QED
  BY <1>now, <1>ref, <1>step

LEMMA SettleEndStep ==
    ASSUME IndInv, RefOK, NEW x \in Executor, SettleEnd(x)
    PROVE  RefOK' /\ lock.run \in Run /\ \E out \in Outcome : Lifecycle!Finish(lock.run, out)
<1>now. Settling' = {} /\ Settling = {lock.run} /\ lock.run \in Run \ active
  BY DEF SettleEnd, Free, Settling, IndInv, LockOK
<1>out. PICK out \in Outcome : status' = [status EXCEPT ![lock.run] = out]
  BY DEF SettleEnd, RefOK, Outcome, Unsaved
<1>step. Lifecycle!Finish(lock.run, out)
  BY <1>now, <1>out DEF SettleEnd, RefOK, Lifecycle!Finish
<1>ref. RefOK'
  BY <1>now, <1>out DEF SettleEnd, Free, RefOK, Outcome, IndInv, TypeOK
<1> QED
  BY <1>now, <1>ref, <1>step

LEMMA DrainStep ==
    ASSUME IndInv, RefOK, NEW x \in Executor, Drain(x)
    PROVE  RefOK' /\ x[1] \in Run /\ Lifecycle!Settle(x[1])
<1>now. Settling' = {} /\ Settling = {} /\ x[1] \in Run /\ x[1] \in active
  BY DEF Drain, Free, Settling, IndInv, ExecOK, Live, Executor
<1>step. Lifecycle!Settle(x[1])
  BY <1>now DEF Drain, Lifecycle!Settle
<1>ref. RefOK'
  BY <1>now DEF Drain, Free, RefOK
<1> QED
  BY <1>now, <1>ref, <1>step

LEMMA RestartStep ==
    ASSUME Restart
    PROVE  RefOK' /\ Lifecycle!Relaunch
<1>now. Settling' = {}
  BY DEF Restart, Free, Settling
<1>step. Lifecycle!Relaunch
  BY <1>now DEF Restart, Lifecycle!Relaunch
<1>ref. RefOK'
  BY <1>now DEF Restart, Free, RefOK
<1> QED
  BY <1>now, <1>ref, <1>step

-----------------------------------------------------------------------------
(* The refinement *)

LEMMA RefInit == Init => RefOK /\ Lifecycle!Init
BY DEF Init, RefOK, Free, Settling, Lifecycle!Init

LEMMA RefStep == IndInv /\ RefOK /\ [Next]_vars => RefOK' /\ [Lifecycle!Next]_(Lifecycle!lifeVars)
<1> SUFFICES ASSUME IndInv, RefOK, [Next]_vars
             PROVE  RefOK' /\ [Lifecycle!Next]_(Lifecycle!lifeVars)
  OBVIOUS
<1>1. ASSUME NEW t \in Thread, Operation(t) PROVE RefOK' /\ LifeStep
  <2>1. CASE SpawnEnd(t)
    BY <2>1, SpawnEndStep DEF LifeStep, Lifecycle!Next
  <2>2. CASE ResumeEnd(t)
    BY <2>2, ResumeEndStep DEF LifeStep, Lifecycle!Next
  <2>3. CASE PauseEnd(t)
    BY <2>3, PauseEndStep DEF LifeStep, Lifecycle!Next
  <2> QED
    BY <1>1, <2>1, <2>2, <2>3, SpawnBeginQuiet, PauseBeginQuiet,
       PauseAgainQuiet, ResumeBeginQuiet, StopBeginQuiet, InterruptBeginQuiet,
       HaltEndQuiet, OpFailsQuiet, JoinedQuiet, WaitQuiet, WaitAgainQuiet,
       WaitReturnsQuiet DEF Operation, LifeStep
<1>2. ASSUME Halting PROVE RefOK' /\ LifeStep
  <2>1. CASE HaltApplied
    BY <2>1, HaltAppliedStep DEF LifeStep, Lifecycle!Next, Aim
  <2>2. CASE InterruptUnsaved
    BY <2>2, InterruptUnsavedStep DEF LifeStep, Lifecycle!Next
  <2> QED
    BY <1>2, <2>1, <2>2, HaltCallQuiet, StopSkipQuiet DEF Halting, LifeStep
<1>3. ASSUME NEW x \in Executor, Execution(x) PROVE RefOK' /\ LifeStep
  <2>1. CASE Drain(x)
    BY <2>1, DrainStep DEF LifeStep, Lifecycle!Next
  <2>2. CASE SettleEnd(x)
    BY <2>2, SettleEndStep DEF LifeStep, Lifecycle!Next, Outcome
  <2> QED
    BY <1>3, <2>1, <2>2, SettleBeginQuiet DEF Execution, LifeStep
<1>4. ASSUME Registry PROVE RefOK' /\ LifeStep
  BY <1>4, RegApplyQuiet, RegRefuseQuiet, RegDiskErrorQuiet DEF Registry, LifeStep
<1>5. ASSUME Environment PROVE RefOK' /\ LifeStep
  <2>1. CASE Restart
    BY <2>1, RestartStep DEF LifeStep, Lifecycle!Next
  <2> QED
    BY <1>5, <2>1, DisconnectQuiet, ShutdownQuiet, DrainedQuiet, CutTurnQuiet
       DEF Environment, LifeStep
<1>6. ASSUME UNCHANGED vars PROVE RefOK' /\ LifeStep
  <2>1. UNCHANGED <<status, attempt, active, lock>>
    BY <1>6 DEF vars, goVars
  <2>2. SameLife
    BY <2>1 DEF SameLife, Settling
  <2>3. RefOK'
    BY <2>1 DEF RefOK, Settling
  <2> QED
    BY <2>2, <2>3 DEF LifeStep
<1>7. RefOK' /\ LifeStep
  BY <1>1, <1>2, <1>3, <1>4, <1>5, <1>6 DEF Next
<1> QED
  BY <1>7 DEF LifeStep, SameLife, Lifecycle!lifeVars

\* Whatever is lost, abandoned, refused or restarted: runs of the run set only make the
\* moves of RunLifecycle, and work starts only in a free slot, on a run without executor.
THEOREM Implements == Spec => KeepsLifecycle
<1>1. Init => IndInv /\ RefOK /\ Lifecycle!Init
  BY InitInv, RefInit
<1>2. IndInv /\ RefOK /\ [Next]_vars => (IndInv /\ RefOK)' /\ [Lifecycle!Next]_(Lifecycle!lifeVars)
  BY StepInv, RefStep
<1> QED
  BY <1>1, <1>2, PTL DEF Spec, KeepsLifecycle, Lifecycle!Spec
=============================================================================
