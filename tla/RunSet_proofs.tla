--------------------------- MODULE RunSet_proofs ---------------------------
(* Proofs about RunSet for every set of runs, titles and turns, every limit and *)
(* every choice of faults.  IndInv is the inductive invariant: the type         *)
(* invariant, what the holder of runSet.mu relies on between its steps, which   *)
(* executors can be at work, and the two safety invariants that need them.      *)
EXTENDS RunSet, FiniteSetTheorems, TLAPS

\* What an operation established before its call still holds when it ends: nobody
\* changes the run set while runSet.mu is held, and only its holder is in "lock".
LockOK ==
    /\ lock.stage # "next" => lock.req \in Request
    /\ lock.op # "free" => lock.by \in Thread /\ at[lock.by] = "lock"
    /\ lock.op \in {"spawn", "resume", "settle"} => lock.run \in Run \ active /\ Slot
    /\ lock.op = "spawn" => status[lock.run] = "absent"
    /\ lock.op \in {"pause", "resume", "stop", "settle"} => lock.run \in Known
    /\ lock.op \in {"stop", "interrupt"} =>
          lock.todo \subseteq Known /\ (lock.stage # "next" => lock.req.run \in Known)
    /\ lock.op = "resume" => epoch[lock.run] < MaxEpoch
    /\ lock.op = "settle" => lock.by \in Executor /\ lock.by = Current(lock.run)
    /\ conn => at[Detach] = "idle"

\* A run has an epoch exactly when the run set knows it.
KnownOK == /\ \A r \in Run : status[r] = "absent" <=> epoch[r] = 0
           /\ active \subseteq Known

\* An executor at work is the one of the current epoch, and its run holds a slot -
\* or it is persisting its outcome under the lock.
ExecOK == \A x \in Executor :
    Live(x) => /\ x = Current(x[1])
               /\ x[1] \in active \/ (lock.op = "settle" /\ lock.by = x)

\* The slot of an executor that persists its outcome is not given away.
SlotOK == Cardinality(active \cup Settling) <= MaxParallel

IndInv == TypeOK /\ LockOK /\ KnownOK /\ ExecOK /\ CancelReaches /\ SlotOK

USE LimitsAssumption, ThreadAssumption, RunAssumption

-----------------------------------------------------------------------------
(* Facts used by several steps *)

LEMMA MessageType ==
    ASSUME NEW i \in 0 .. MaxWire, NEW make \in BOOLEAN, NEW r \in Run, NEW st \in Status,
           NEW a \in Nat, NEW rep \in BOOLEAN
    PROVE  Message(i, make, r, st, a, rep) \in Request
BY DEF Message, Request

LEMMA CurrentType ==
    ASSUME TypeOK, KnownOK, NEW r \in Known
    PROVE  Current(r) \in Executor /\ r \in Run
<1>1. r \in Run /\ epoch[r] # 0 /\ epoch[r] \in 0 .. MaxEpoch
  BY DEF TypeOK, KnownOK, Known
<1>2. epoch[r] \in 1 .. MaxEpoch
  BY <1>1
<1> QED
  BY <1>1 DEF Current, Executor

LEMMA CancelledType ==
    ASSUME TypeOK, KnownOK, NEW r
    PROVE  Cancelled(r) \in SUBSET Executor
BY CurrentType DEF Cancelled, KnownOK

LEMMA ActiveFinite ==
    ASSUME TypeOK
    PROVE  /\ IsFiniteSet(active \cup Settling)
           /\ IsFiniteSet(active)
           /\ Cardinality(active) \in Nat
<1>1. active \cup Settling \subseteq Run \cup {None} /\ active \subseteq Run
  BY DEF TypeOK, Settling
<1>2. IsFiniteSet(Run \cup {None})
  BY FS_AddElement
<1> QED
  BY <1>1, <1>2, FS_Subset, FS_CardinalityType

\* A step that starts no executor leaves the slots as they were, or frees one.
LEMMA SlotShrinks ==
    ASSUME TypeOK, SlotOK, active' \cup Settling' \subseteq active \cup Settling
    PROVE  SlotOK'
<1>1. IsFiniteSet(active \cup Settling)
  BY ActiveFinite
<1>2. /\ IsFiniteSet(active' \cup Settling')
      /\ Cardinality(active' \cup Settling') <= Cardinality(active \cup Settling)
  BY <1>1, FS_Subset
<1>3. /\ Cardinality(active' \cup Settling') \in Nat
      /\ Cardinality(active \cup Settling) \in Nat
  BY <1>1, <1>2, FS_CardinalityType
<1> QED
  BY <1>2, <1>3 DEF SlotOK

LEMMA SlotTaken ==
    ASSUME TypeOK, Slot, NEW r \in Run
    PROVE  Cardinality(active \cup {r}) <= MaxParallel
<1>1. Cardinality(active \cup {r}) \in {Cardinality(active), Cardinality(active) + 1}
  <2>1. CASE r \in active
    <3>1. active \cup {r} = active
      BY <2>1
    <3> QED
      BY <3>1
  <2>2. CASE r \notin active
    BY ActiveFinite, FS_AddElement
  <2> QED
    BY <2>2
<1> QED
  BY <1>1, ActiveFinite DEF Slot

-----------------------------------------------------------------------------
(* spawn: the slot checked before the call is still free when the run starts *)

LEMMA SpawnBeginInv ==
    ASSUME IndInv, NEW t \in Thread, NEW r \in Run,
           NEW role \in {"planner", "worker"}, NEW title \in Title, SpawnBegin(t, r, role, title)
    PROVE  IndInv'
<1> USE DEF IndInv
<1>sent. PICK m \in Request :
            /\ m.run = r
            /\ lock' = [Holding("spawn", t, r, {}) EXCEPT !.stage = "sent", !.req = m]
            /\ wire' \in SUBSET Request
  <2>1. PICK i \in 0 .. MaxWire :
            LET m == Message(i, TRUE, r, "running", 1, FALSE)
            IN  /\ lock' = [Holding("spawn", t, r, {}) EXCEPT !.stage = "sent", !.req = m]
                /\ wire' = IF conn THEN wire \cup {m} ELSE wire
    BY DEF SpawnBegin, Send
  <2> DEFINE m == Message(i, TRUE, r, "running", 1, FALSE)
  <2>2. ("running") \in Status /\ (1) \in Nat
    BY DEF Status
  <2>3. m \in Request
    BY <2>2, MessageType
  <2>4. m.run = r
    BY DEF Message
  <2>5. wire' \in SUBSET Request
    BY <2>1, <2>3 DEF TypeOK
  <2>6. lock' = [Holding("spawn", t, r, {}) EXCEPT !.stage = "sent", !.req = m]
    BY <2>1
  <2> HIDE DEF m, IndInv
  <2> QED
    BY <2>3, <2>4, <2>5, <2>6
<1>info. [parent |-> Owner(t), role |-> role, depth |-> Depth(t), title |-> title] \in Info
  <2>1. Owner(t) \in Run \cup {Top}
    BY DEF Owner, Executor
  <2>2. Depth(t) \in Nat
    BY DEF Depth, Executor, TypeOK, Info
  <2> QED
    BY <2>1, <2>2 DEF Info
<1>1. TypeOK'
  BY CancelledType, CurrentType, <1>sent, <1>info, ZenonT(40) DEF Free, Holding, envVars,
     regVars, goVars, thrVars, SignalLocked, Status, Settled, Terminal,
     SpawnBegin, CanCall, Owner, Slot, TypeOK, LockOK, KnownOK, Executor, Thread,
     Known
<1>2. LockOK'
  BY <1>sent DEF Holding, envVars, goVars, thrVars, SignalLocked, Status, Settled,
     Terminal, SpawnBegin, CanCall, Owner, Slot, TypeOK, LockOK, KnownOK, Current,
     Executor, Thread, Known, Live, ExecOK
<1>3. KnownOK'
  BY DEF SpawnBegin, KnownOK, Known
<1>4. ExecOK'
  BY DEF Free, SpawnBegin, Owner, Slot, TypeOK, LockOK, ExecOK, Live, Current,
     Executor, Thread
<1>5. CancelReaches'
  BY DEF SpawnBegin, CancelReaches, Current
<1>6. SlotOK'
  <2>1. active' \cup Settling' \subseteq active \cup Settling
    BY <1>sent DEF Holding, SpawnBegin, CanCall, Owner, Slot, Settling, TypeOK
  <2> QED
    BY <2>1, SlotShrinks
<1> QED
  BY <1>1, <1>2, <1>3, <1>4, <1>5, <1>6

LEMMA SpawnEndInv ==
    ASSUME IndInv, NEW t \in Thread, SpawnEnd(t)
    PROVE  IndInv'
<1> USE DEF IndInv
<1>run. lock.run \in Run \ active /\ epoch[lock.run] \in 0 .. MaxEpoch - 1
  BY DEF SpawnEnd, LockOK, KnownOK
<1>new. <<lock.run, epoch[lock.run] + 1>> \in Executor
  BY <1>run DEF Executor
<1>at. PICK s \in {"work", "wait"} : at' = [Started(at, lock.run) EXCEPT ![t] = s]
  BY DEF SpawnEnd
<1>by. t = lock.by /\ t \in Thread /\ at[t] = "lock"
  BY DEF SpawnEnd, LockOK
<1>type. at' \in [Thread -> {"idle", "work", "lock", "join", "wait", "woken", "drain", "gone"}]
  BY <1>at DEF Started, SignalLocked, TypeOK
<1>live. \A x \in Executor : Live(x)' => Live(x) \/ x = <<lock.run, epoch[lock.run] + 1>>
  BY <1>at, <1>by DEF Started, SignalLocked, Live, Thread
<1>idle. at[Detach] = "idle" => at'[Detach] = "idle"
  BY <1>new, <1>at, <1>by DEF Started, SignalLocked, Thread
<1>1. TypeOK'
  <2>1. cut' \in SUBSET Thread /\ waits' \in [Thread -> SUBSET Run]
    BY <1>run DEF SpawnEnd, Returned, TypeOK
  <2>2. lock' = Free
    BY DEF SpawnEnd
  <2>3. /\ status' \in [Run -> Status \cup {"absent"}] /\ attempt' \in [Run -> Nat]
        /\ active' \in SUBSET Run /\ epoch' \in [Run -> 0 .. MaxEpoch]
    BY <1>run DEF SpawnEnd, Start, TypeOK, Status
  <2> QED
    BY <1>type, <2>1, <2>3 DEF SpawnEnd, Free, envVars, regVars, TypeOK
<1>2. LockOK'
  BY <1>idle DEF Free, envVars, SignalLocked, Status, Settled, Terminal, SpawnEnd,
     Start, Started, Returned, Answered, TypeOK, LockOK, KnownOK, Current,
     Executor, Thread, Slot, Known, Live, ExecOK
<1>3. KnownOK'
  BY DEF SpawnEnd, Start, TypeOK, KnownOK, LockOK, Known
<1>4. ExecOK'
  <2> SUFFICES ASSUME NEW x \in Executor, Live(x)'
               PROVE  x = Current(x[1])' /\ x[1] \in active'
    BY DEF ExecOK
  <2>1. CASE x = <<lock.run, epoch[lock.run] + 1>>
    BY <2>1, <1>run DEF SpawnEnd, Start, Current, TypeOK
  <2>2. CASE x # <<lock.run, epoch[lock.run] + 1>>
    <3>1. Live(x)
      BY <2>2, <1>live
    <3>2. x = Current(x[1]) /\ x[1] \in active
      BY <3>1 DEF SpawnEnd, ExecOK
    <3> QED
      BY <3>2, <1>run DEF SpawnEnd, Start, Current
  <2> QED
    BY <2>1, <2>2
<1>5. CancelReaches'
  BY CurrentType DEF SpawnEnd, Start, Returned, TypeOK, LockOK, KnownOK,
     CancelReaches, Current
<1>6. SlotOK'
  <2>1. active' \cup Settling' = active \cup {lock.run}
    BY DEF Free, Holding, SpawnEnd, Start, Settling
  <2>2. Slot /\ lock.run \in Run
    BY DEF SpawnEnd, LockOK
  <2> QED
    BY <2>1, <2>2, SlotTaken DEF SlotOK
<1> QED
  BY <1>1, <1>2, <1>3, <1>4, <1>5, <1>6

-----------------------------------------------------------------------------
(* pause *)

LEMMA PauseBeginInv ==
    ASSUME IndInv, NEW t \in Thread, NEW r \in Run, PauseBegin(t, r)
    PROVE  IndInv'
<1> USE DEF IndInv
<1>sent. PICK m \in Request :
            /\ m.run = r
            /\ lock' = [Holding("pause", t, r, {}) EXCEPT !.stage = "sent", !.req = m]
            /\ wire' \in SUBSET Request
  <2>1. PICK i \in 0 .. MaxWire :
            LET m == Message(i, FALSE, r, "paused", attempt[r], FALSE)
            IN  /\ lock' = [Holding("pause", t, r, {}) EXCEPT !.stage = "sent", !.req = m]
                /\ wire' = IF conn THEN wire \cup {m} ELSE wire
    BY DEF PauseBegin, Send
  <2> DEFINE m == Message(i, FALSE, r, "paused", attempt[r], FALSE)
  <2>2. ("paused") \in Status /\ (attempt[r]) \in Nat
    BY DEF TypeOK, Status
  <2>3. m \in Request
    BY <2>2, MessageType
  <2>4. m.run = r
    BY DEF Message
  <2>5. wire' \in SUBSET Request
    BY <2>1, <2>3 DEF TypeOK
  <2>6. lock' = [Holding("pause", t, r, {}) EXCEPT !.stage = "sent", !.req = m]
    BY <2>1
  <2> HIDE DEF m, IndInv
  <2> QED
    BY <2>3, <2>4, <2>5, <2>6
<1>1. TypeOK'
  BY CancelledType, CurrentType, <1>sent DEF Free, Holding, NoRequest, envVars,
     regVars, goVars, thrVars, SignalLocked, Status, Settled, Terminal,
     PauseBegin, CanCall, Owned, TypeOK
<1>2. LockOK'
  BY <1>sent DEF Holding, envVars, goVars, PauseBegin, TypeOK, LockOK, Known
<1>3. KnownOK'
  BY DEF goVars, PauseBegin, KnownOK, Known
<1>4. ExecOK'
  BY DEF Free, goVars, Status, Settled, Terminal, PauseBegin, CanCall, Owned,
     TypeOK, LockOK, ExecOK, Live, Current, Executor, Thread
<1>5. CancelReaches'
  BY DEF goVars, PauseBegin, CanCall, Owned, TypeOK, LockOK, KnownOK,
     CancelReaches, Current, Executor, Thread
<1>6. SlotOK'
  <2>1. active' \cup Settling' \subseteq active \cup Settling
    BY <1>sent DEF Holding, goVars, PauseBegin, Settling
  <2> QED
    BY <2>1, SlotShrinks
<1> QED
  BY <1>1, <1>2, <1>3, <1>4, <1>5, <1>6

LEMMA PauseAgainInv ==
    ASSUME IndInv, NEW t \in Thread, NEW r \in Run, PauseAgain(t, r)
    PROVE  IndInv'
<1> USE DEF IndInv
<1>1. TypeOK'
  BY CurrentType DEF envVars, regVars, goVars, PauseAgain, TypeOK, Known
<1>2. LockOK'
  BY DEF envVars, goVars, PauseAgain, LockOK, Current, Slot, Known
<1>3. KnownOK'
  BY DEF goVars, PauseAgain, Owned, CanCall, TypeOK, KnownOK, LockOK, Request, Known
<1>4. ExecOK'
  BY DEF goVars, PauseAgain, TypeOK, LockOK, ExecOK, Live, Current, Executor, Thread
<1>5. CancelReaches'
  BY DEF goVars, PauseAgain, Owned, CanCall, TypeOK, LockOK, KnownOK,
     CancelReaches, Current, Executor, Thread
<1>6. SlotOK'
  <2>1. active' \cup Settling' \subseteq active \cup Settling
    BY DEF goVars, PauseAgain, Settling
  <2> QED
    BY <2>1, SlotShrinks
<1> QED
  BY <1>1, <1>2, <1>3, <1>4, <1>5, <1>6

LEMMA PauseEndInv ==
    ASSUME IndInv, NEW t \in Thread, PauseEnd(t)
    PROVE  IndInv'
<1> USE DEF IndInv
<1>1. TypeOK'
  BY CancelledType, CurrentType DEF Free, envVars, regVars, SignalLocked, Status,
     PauseEnd, TypeOK, LockOK, Thread
<1>2. LockOK'
  BY DEF Free, Holding, envVars, SignalLocked, PauseEnd, LockOK, Thread
<1>3. KnownOK'
  BY DEF PauseEnd, KnownOK, LockOK, Known
<1>4. ExecOK'
  BY DEF SignalLocked, PauseEnd, LockOK, ExecOK, Live, Current, Thread
<1>5. CancelReaches'
  BY DEF PauseEnd, Cancelled, CancelReaches, Current
<1>6. SlotOK'
  <2>1. active' \cup Settling' \subseteq active \cup Settling
    BY DEF Free, Holding, PauseEnd, Settling
  <2> QED
    BY <2>1, SlotShrinks
<1> QED
  BY <1>1, <1>2, <1>3, <1>4, <1>5, <1>6

-----------------------------------------------------------------------------
(* resume *)

LEMMA ResumeBeginInv ==
    ASSUME IndInv, NEW t \in Thread, NEW r \in Run, ResumeBegin(t, r)
    PROVE  IndInv'
<1> USE DEF IndInv
<1>sent. PICK m \in Request :
            /\ m.run = r
            /\ lock' = [Holding("resume", t, r, {}) EXCEPT !.stage = "sent", !.req = m]
            /\ wire' \in SUBSET Request
  <2>1. PICK i \in 0 .. MaxWire :
            LET m == Message(i, FALSE, r, "running", IF Restarts(r) THEN attempt[r] + 1 ELSE attempt[r], FALSE)
            IN  /\ lock' = [Holding("resume", t, r, {}) EXCEPT !.stage = "sent", !.req = m]
                /\ wire' = IF conn THEN wire \cup {m} ELSE wire
    BY DEF ResumeBegin, Send
  <2> DEFINE m == Message(i, FALSE, r, "running", IF Restarts(r) THEN attempt[r] + 1 ELSE attempt[r], FALSE)
  <2>2. ("running") \in Status /\ (IF Restarts(r) THEN attempt[r] + 1 ELSE attempt[r]) \in Nat
    BY DEF TypeOK, Status
  <2>3. m \in Request
    BY <2>2, MessageType
  <2>4. m.run = r
    BY DEF Message
  <2>5. wire' \in SUBSET Request
    BY <2>1, <2>3 DEF TypeOK
  <2>6. lock' = [Holding("resume", t, r, {}) EXCEPT !.stage = "sent", !.req = m]
    BY <2>1
  <2> HIDE DEF m, IndInv
  <2> QED
    BY <2>3, <2>4, <2>5, <2>6
<1>1. TypeOK'
  BY CancelledType, CurrentType, <1>sent DEF Free, Holding, NoRequest, envVars,
     regVars, goVars, thrVars, SignalLocked, Status, Settled, Terminal,
     ResumeBegin, CanCall, Owned, Idle, Slot, TypeOK, LockOK
<1>2. LockOK'
  BY <1>sent DEF Holding, envVars, goVars, ResumeBegin, Owned, Idle, Slot, TypeOK,
     LockOK, Known
<1>3. KnownOK'
  BY DEF goVars, ResumeBegin, CanCall, Owned, Idle, Slot, TypeOK, KnownOK, LockOK,
     Request, Known
<1>4. ExecOK'
  BY DEF Free, goVars, Status, Settled, Terminal, ResumeBegin, CanCall, Owned,
     Idle, Slot, TypeOK, LockOK, ExecOK, Live, Current, Executor, Thread
<1>5. CancelReaches'
  BY DEF goVars, ResumeBegin, CancelReaches, Current
<1>6. SlotOK'
  <2>1. active' \cup Settling' \subseteq active \cup Settling
    BY <1>sent DEF Holding, goVars, SignalLocked, Status, Settled, Terminal,
       ResumeBegin, CanCall, Owned, Idle, Slot, Settling, TypeOK
  <2> QED
    BY <2>1, SlotShrinks
<1> QED
  BY <1>1, <1>2, <1>3, <1>4, <1>5, <1>6

LEMMA ResumeEndInv ==
    ASSUME IndInv, NEW t \in Thread, ResumeEnd(t)
    PROVE  IndInv'
<1> USE DEF IndInv
<1>run. lock.run \in Run \ active /\ epoch[lock.run] \in 0 .. MaxEpoch - 1
  BY DEF ResumeEnd, LockOK, TypeOK
<1>new. <<lock.run, epoch[lock.run] + 1>> \in Executor
  BY <1>run DEF Executor
<1>at. PICK s \in {"work", "wait"} : at' = [Started(at, lock.run) EXCEPT ![t] = s]
  BY DEF ResumeEnd
<1>by. t = lock.by /\ t \in Thread /\ at[t] = "lock"
  BY DEF ResumeEnd, LockOK
<1>type. at' \in [Thread -> {"idle", "work", "lock", "join", "wait", "woken", "drain", "gone"}]
  BY <1>at DEF Started, SignalLocked, TypeOK
<1>live. \A x \in Executor : Live(x)' => Live(x) \/ x = <<lock.run, epoch[lock.run] + 1>>
  BY <1>at, <1>by DEF Started, SignalLocked, Live, Thread
<1>idle. at[Detach] = "idle" => at'[Detach] = "idle"
  BY <1>new, <1>at, <1>by DEF Started, SignalLocked, Thread
<1>1. TypeOK'
  BY <1>type DEF ResumeEnd, Start, Returned, TypeOK, LockOK, Request, Status,
     Answered, Free, envVars, regVars
<1>2. LockOK'
  BY <1>idle DEF Free, envVars, SignalLocked, Status, Settled, Terminal,
     ResumeEnd, Start, Started, Returned, Answered, Request, TypeOK, LockOK,
     KnownOK, Current, Executor, Thread, Slot, Known, Live, ExecOK
<1>3. KnownOK'
  BY DEF ResumeEnd, Start, TypeOK, KnownOK, LockOK, Known
<1>4. ExecOK'
  <2> SUFFICES ASSUME NEW x \in Executor, Live(x)'
               PROVE  x = Current(x[1])' /\ x[1] \in active'
    BY DEF ExecOK
  <2>1. CASE x = <<lock.run, epoch[lock.run] + 1>>
    BY <2>1, <1>run DEF ResumeEnd, Start, Current, TypeOK
  <2>2. CASE x # <<lock.run, epoch[lock.run] + 1>>
    <3>1. Live(x)
      BY <2>2, <1>live
    <3>2. x = Current(x[1]) /\ x[1] \in active
      BY <3>1 DEF ResumeEnd, ExecOK
    <3> QED
      BY <3>2, <1>run DEF ResumeEnd, Start, Current
  <2> QED
    BY <2>1, <2>2
<1>5. CancelReaches'
  BY CurrentType DEF ResumeEnd, Start, Returned, TypeOK, LockOK, KnownOK,
     CancelReaches, Current
<1>6. SlotOK'
  <2>1. active' \cup Settling' = active \cup {lock.run}
    BY DEF Free, Holding, ResumeEnd, Start, Settling
  <2>2. Slot /\ lock.run \in Run
    BY DEF ResumeEnd, LockOK
  <2> QED
    BY <2>1, <2>2, SlotTaken DEF SlotOK
<1> QED
  BY <1>1, <1>2, <1>3, <1>4, <1>5, <1>6

LEMMA OpFailsInv ==
    ASSUME IndInv, NEW t \in Thread, OpFails(t)
    PROVE  IndInv'
<1> USE DEF IndInv
<1>1. TypeOK'
  BY DEF Free, envVars, regVars, goVars, SignalLocked, Status, Settled, Terminal,
     OpFails, CallFailed, Returning, Returned, Request, TypeOK, LockOK, KnownOK,
     Executor, Thread, Known
<1>2. LockOK'
  BY DEF Free, Holding, envVars, OpFails, Returning, LockOK
<1>3. KnownOK'
  BY DEF goVars, OpFails, Returned, Request, TypeOK, KnownOK, LockOK, Known
<1>4. ExecOK'
  BY DEF goVars, OpFails, Returning, LockOK, ExecOK, Live, Current
<1>5. CancelReaches'
  BY CurrentType DEF goVars, Status, Settled, Terminal, OpFails, CallFailed,
     Returning, Returned, Request, TypeOK, LockOK, KnownOK, CancelReaches,
     Current, Executor, Thread
<1>6. SlotOK'
  <2>1. active' \cup Settling' \subseteq active \cup Settling
    BY DEF Free, Holding, goVars, OpFails, Settling
  <2> QED
    BY <2>1, SlotShrinks
<1> QED
  BY <1>1, <1>2, <1>3, <1>4, <1>5, <1>6

-----------------------------------------------------------------------------
(* stop and interrupt *)

LEMMA StopBeginInv ==
    ASSUME IndInv, NEW t \in Thread, NEW r \in Run, StopBegin(t, r)
    PROVE  IndInv'
<1> USE DEF IndInv
<1>1. TypeOK'
  BY DEF Holding, envVars, regVars, goVars, SignalLocked, Status, Settled,
     Terminal, StopBegin, Owned, CanCall, Descendants, TypeOK, LockOK, KnownOK,
     Executor, Thread, Known
<1>2. LockOK'
  BY DEF Holding, envVars, goVars, SignalLocked, Status, Settled, Terminal,
     StopBegin, Owned, CanCall, Descendants, TypeOK, LockOK, KnownOK, Current,
     Executor, Thread, Slot, Known, Live, ExecOK
<1>3. KnownOK'
  BY DEF goVars, StopBegin, Owned, CanCall, Descendants, TypeOK, KnownOK, LockOK,
     Request, Known
<1>4. ExecOK'
  BY DEF Free, goVars, StopBegin, ExecOK, Live, Current
<1>5. CancelReaches'
  BY DEF goVars, StopBegin, CancelReaches, Current
<1>6. SlotOK'
  <2>1. active' \cup Settling' \subseteq active \cup Settling
    BY DEF Holding, goVars, StopBegin, Settling
  <2> QED
    BY <2>1, SlotShrinks
<1> QED
  BY <1>1, <1>2, <1>3, <1>4, <1>5, <1>6

LEMMA InterruptBeginInv ==
    ASSUME IndInv, NEW t \in Thread, InterruptBegin(t)
    PROVE  IndInv'
<1> USE DEF IndInv
<1>1. TypeOK'
  BY DEF Holding, envVars, regVars, goVars, InterruptBegin, TypeOK, Known
<1>2. LockOK'
  BY DEF Holding, envVars, goVars, InterruptBegin, TypeOK, LockOK, Known
<1>3. KnownOK'
  BY DEF goVars, InterruptBegin, KnownOK, Known
<1>4. ExecOK'
  BY DEF Free, goVars, Status, Settled, Terminal, InterruptBegin, TypeOK, LockOK,
     ExecOK, Live, Current, Executor, Thread
<1>5. CancelReaches'
  BY DEF goVars, InterruptBegin, CancelReaches, Current
<1>6. SlotOK'
  <2>1. active' \cup Settling' \subseteq active \cup Settling
    BY DEF Holding, goVars, InterruptBegin, Settling
  <2> QED
    BY <2>1, SlotShrinks
<1> QED
  BY <1>1, <1>2, <1>3, <1>4, <1>5, <1>6

LEMMA HaltCallInv ==
    ASSUME IndInv, NEW r \in Run, HaltCall(r)
    PROVE  IndInv'
<1> USE DEF IndInv
<1>sent. PICK m \in Request :
            /\ m.run = r
            /\ lock' = [lock EXCEPT !.stage = "sent", !.req = m]
            /\ wire' \in SUBSET Request
  <2>1. PICK i \in 0 .. MaxWire :
            LET m == Message(i, FALSE, r, Aim, attempt[r], FALSE)
            IN  /\ lock' = [lock EXCEPT !.stage = "sent", !.req = m]
                /\ wire' = IF conn THEN wire \cup {m} ELSE wire
    BY DEF HaltCall, Send
  <2> DEFINE m == Message(i, FALSE, r, Aim, attempt[r], FALSE)
  <2>2. (Aim) \in Status /\ (attempt[r]) \in Nat
    BY DEF Aim, TypeOK, Status, Settled, Terminal
  <2>3. m \in Request
    BY <2>2, MessageType
  <2>4. m.run = r
    BY DEF Message
  <2>5. wire' \in SUBSET Request
    BY <2>1, <2>3 DEF TypeOK
  <2>6. lock' = [lock EXCEPT !.stage = "sent", !.req = m]
    BY <2>1
  <2> HIDE DEF m, IndInv
  <2> QED
    BY <2>3, <2>4, <2>5, <2>6
<1>1. TypeOK'
  BY <1>sent DEF envVars, regVars, goVars, thrVars, HaltCall, TypeOK
<1>2. LockOK'
  BY <1>sent DEF Free, Holding, envVars, goVars, thrVars, HaltCall, Foremost, LockOK, Known
<1>3. KnownOK'
  BY DEF goVars, HaltCall, KnownOK, Known
<1>4. ExecOK'
  BY DEF goVars, thrVars, HaltCall, Foremost, TypeOK, LockOK, ExecOK, Live,
     Current, Executor, Thread
<1>5. CancelReaches'
  BY DEF goVars, thrVars, HaltCall, CancelReaches, Current
<1>6. SlotOK'
  <2>1. active' \cup Settling' \subseteq active \cup Settling
    BY <1>sent DEF Free, goVars, HaltCall, Settling
  <2> QED
    BY <2>1, SlotShrinks
<1> QED
  BY <1>1, <1>2, <1>3, <1>4, <1>5, <1>6

LEMMA HaltAppliedInv ==
    ASSUME IndInv, HaltApplied
    PROVE  IndInv'
<1> USE DEF IndInv
<1>1. TypeOK'
  BY CancelledType DEF HaltApplied, HaltMark, Aim, Answered, TypeOK, LockOK,
     Thread, Executor, Status, Settled, Terminal, Free, NoRequest, goVars,
     thrVars, envVars, regVars
<1>2. LockOK'
  BY DEF envVars, HaltApplied, HaltMark, Aim, LockOK, Known
<1>3. KnownOK'
  BY DEF HaltApplied, Aim, Answered, KnownOK, LockOK, Known
<1>4. ExecOK'
  BY DEF HaltApplied, ExecOK, Live, Current
<1>5. CancelReaches'
  BY DEF HaltApplied, HaltMark, Cancelled, Answered, Request, TypeOK, LockOK,
     KnownOK, CancelReaches, Current, Executor, Thread
<1>6. SlotOK'
  <2>1. active' \cup Settling' \subseteq active \cup Settling
    BY DEF HaltApplied, HaltMark, Settling
  <2> QED
    BY <2>1, SlotShrinks
<1> QED
  BY <1>1, <1>2, <1>3, <1>4, <1>5, <1>6

LEMMA InterruptUnsavedInv ==
    ASSUME IndInv, InterruptUnsaved
    PROVE  IndInv'
<1> USE DEF IndInv
<1>req. lock.req.run \in Run /\ lock.by \in Thread
  BY DEF InterruptUnsaved, CallFailed, LockOK, Request
<1>1. TypeOK'
  <2>1. cut' \in SUBSET Thread /\ joins' \in [Thread -> SUBSET Executor]
    BY CancelledType DEF InterruptUnsaved, HaltMark, TypeOK, Thread
  <2>2. lock' = [lock EXCEPT !.stage = "next", !.todo = @ \ {lock.req.run}, !.req = NoRequest]
    BY DEF InterruptUnsaved, HaltMark
  <2>3. status' \in [Run -> Status \cup {"absent"}] /\ doubt' \in SUBSET Run
    BY <1>req DEF InterruptUnsaved, TypeOK, Status, Settled, Terminal
  <2> QED
    BY <2>1, <2>2, <2>3 DEF InterruptUnsaved, envVars, regVars, TypeOK
<1>2. LockOK'
  BY DEF envVars, InterruptUnsaved, HaltMark, LockOK, Known
<1>3. KnownOK'
  BY DEF InterruptUnsaved, CallFailed, KnownOK, LockOK, Known
<1>4. ExecOK'
  BY DEF InterruptUnsaved, ExecOK, Live, Current
<1>5. CancelReaches'
  BY DEF InterruptUnsaved, HaltMark, Cancelled, CancelReaches, Current
<1>6. SlotOK'
  <2>1. active' \cup Settling' \subseteq active \cup Settling
    BY DEF InterruptUnsaved, HaltMark, Settling
  <2> QED
    BY <2>1, SlotShrinks
<1> QED
  BY <1>1, <1>2, <1>3, <1>4, <1>5, <1>6

LEMMA StopSkipInv ==
    ASSUME IndInv, NEW r \in Run, StopSkip(r)
    PROVE  IndInv'
<1> USE DEF IndInv
<1>1. TypeOK'
  BY CancelledType, CurrentType DEF Free, Holding, NoRequest, envVars, regVars,
     goVars, thrVars, SignalLocked, Status, Settled, Terminal, StopSkip, HaltMark,
     TypeOK, LockOK, KnownOK, Thread
<1>2. LockOK'
  BY DEF envVars, goVars, StopSkip, HaltMark, LockOK, Known
<1>3. KnownOK'
  BY DEF goVars, StopSkip, HaltMark, Cancelled, TypeOK, KnownOK, LockOK, Request, Known
<1>4. ExecOK'
  BY DEF goVars, StopSkip, TypeOK, LockOK, ExecOK, Live, Current, Executor, Thread
<1>5. CancelReaches'
  BY DEF goVars, StopSkip, HaltMark, Cancelled, TypeOK, LockOK, KnownOK,
     CancelReaches, Current, Executor, Thread
<1>6. SlotOK'
  <2>1. active' \cup Settling' \subseteq active \cup Settling
    BY DEF goVars, StopSkip, HaltMark, Settling
  <2> QED
    BY <2>1, SlotShrinks
<1> QED
  BY <1>1, <1>2, <1>3, <1>4, <1>5, <1>6

LEMMA HaltEndInv ==
    ASSUME IndInv, NEW t \in Thread, HaltEnd(t)
    PROVE  IndInv'
<1> USE DEF IndInv
<1>1. TypeOK'
  BY DEF Free, envVars, regVars, goVars, SignalLocked, Status, Settled, Terminal,
     HaltEnd, TypeOK, LockOK, KnownOK, Executor, Thread, Known
<1>2. LockOK'
  BY DEF Free, Holding, envVars, SignalLocked, HaltEnd, LockOK, Thread
<1>3. KnownOK'
  BY DEF goVars, HaltEnd, KnownOK, Known
<1>4. ExecOK'
  BY DEF goVars, SignalLocked, HaltEnd, TypeOK, LockOK, ExecOK, Live, Current,
     Executor, Thread
<1>5. CancelReaches'
  BY DEF goVars, HaltEnd, CancelReaches, Current
<1>6. SlotOK'
  <2>1. active' \cup Settling' \subseteq active \cup Settling
    BY DEF Free, Holding, goVars, HaltEnd, Settling
  <2> QED
    BY <2>1, SlotShrinks
<1> QED
  BY <1>1, <1>2, <1>3, <1>4, <1>5, <1>6

LEMMA JoinedInv ==
    ASSUME IndInv, NEW t \in Thread, Joined(t)
    PROVE  IndInv'
<1> USE DEF IndInv
<1>1. TypeOK'
  BY DEF envVars, regVars, goVars, Joined, Returned, TypeOK
<1>2. LockOK'
  BY DEF envVars, goVars, Joined, LockOK, Current, Slot, Known
<1>3. KnownOK'
  BY DEF goVars, Joined, KnownOK, Known
<1>4. ExecOK'
  BY DEF goVars, Joined, Returned, TypeOK, LockOK, ExecOK, Live, Current, Executor, Thread
<1>5. CancelReaches'
  BY CurrentType DEF Free, Holding, goVars, Status, Settled, Terminal, Joined,
     Returned, TypeOK, LockOK, KnownOK, CancelReaches, Current, Executor, Thread
<1>6. SlotOK'
  <2>1. active' \cup Settling' \subseteq active \cup Settling
    BY DEF goVars, Joined, Settling
  <2> QED
    BY <2>1, SlotShrinks
<1> QED
  BY <1>1, <1>2, <1>3, <1>4, <1>5, <1>6

-----------------------------------------------------------------------------
(* wait *)

LEMMA WaitInv ==
    ASSUME IndInv, NEW t \in Thread, NEW S \in SUBSET Run, Wait(t, S)
    PROVE  IndInv'
<1> USE DEF IndInv
<1>1. TypeOK'
  BY DEF envVars, regVars, goVars, Wait, TypeOK
<1>2. LockOK'
  BY DEF envVars, goVars, Wait, LockOK, Current, Slot, Known
<1>3. KnownOK'
  BY DEF goVars, Wait, Owned, CanCall, TypeOK, KnownOK, LockOK, Request, Known
<1>4. ExecOK'
  BY DEF goVars, Wait, TypeOK, LockOK, ExecOK, Live, Current, Executor, Thread
<1>5. CancelReaches'
  BY DEF goVars, Wait, Owned, CanCall, TypeOK, LockOK, KnownOK, CancelReaches,
     Current, Executor, Thread
<1>6. SlotOK'
  <2>1. active' \cup Settling' \subseteq active \cup Settling
    BY DEF goVars, Wait, Settling
  <2> QED
    BY <2>1, SlotShrinks
<1> QED
  BY <1>1, <1>2, <1>3, <1>4, <1>5, <1>6

LEMMA WaitAgainInv ==
    ASSUME IndInv, NEW t \in Thread, WaitAgain(t)
    PROVE  IndInv'
<1> USE DEF IndInv
<1>1. TypeOK'
  BY DEF envVars, regVars, goVars, WaitAgain, TypeOK
<1>2. LockOK'
  BY DEF envVars, goVars, WaitAgain, LockOK, Current, Slot, Known
<1>3. KnownOK'
  BY DEF goVars, WaitAgain, KnownOK, Known
<1>4. ExecOK'
  BY DEF goVars, WaitAgain, TypeOK, LockOK, ExecOK, Live, Current, Executor, Thread
<1>5. CancelReaches'
  BY DEF goVars, WaitAgain, CancelReaches, Current
<1>6. SlotOK'
  <2>1. active' \cup Settling' \subseteq active \cup Settling
    BY DEF goVars, WaitAgain, Settling
  <2> QED
    BY <2>1, SlotShrinks
<1> QED
  BY <1>1, <1>2, <1>3, <1>4, <1>5, <1>6

LEMMA WaitReturnsInv ==
    ASSUME IndInv, NEW t \in Thread, WaitReturns(t)
    PROVE  IndInv'
<1> USE DEF IndInv
<1>1. TypeOK'
  BY DEF envVars, regVars, goVars, WaitReturns, Returned, TypeOK
<1>2. LockOK'
  BY DEF envVars, goVars, Terminal, WaitReturns, WaitOver, AllSettled, Returned,
     TypeOK, LockOK, KnownOK, Current, Executor, Thread, Slot, Known, Live, ExecOK
<1>3. KnownOK'
  BY DEF goVars, WaitReturns, WaitOver, AllSettled, Returned, TypeOK, KnownOK,
     LockOK, Request, Known
<1>4. ExecOK'
  BY DEF goVars, WaitReturns, WaitOver, AllSettled, ExecOK, Live, Current
<1>5. CancelReaches'
  BY CurrentType DEF goVars, Status, Settled, Terminal, WaitReturns, WaitOver,
     AllSettled, Returned, TypeOK, LockOK, KnownOK, CancelReaches, Current,
     Executor, Thread
<1>6. SlotOK'
  <2>1. active' \cup Settling' \subseteq active \cup Settling
    BY DEF goVars, WaitReturns, Settling
  <2> QED
    BY <2>1, SlotShrinks
<1> QED
  BY <1>1, <1>2, <1>3, <1>4, <1>5, <1>6

-----------------------------------------------------------------------------
(* execute: the settling executor keeps its slot until the outcome is persisted *)

LEMMA DrainInv ==
    ASSUME IndInv, NEW x \in Executor, Drain(x)
    PROVE  IndInv'
<1> USE DEF IndInv
<1>x. x[1] \in Run /\ Halt # x
  BY DEF Executor
<1>1. TypeOK'
  BY DEF envVars, regVars, SignalLocked, Drain, TypeOK, LockOK, KnownOK, Executor,
     Thread, Known
<1>2. LockOK'
  BY DEF Free, envVars, SignalLocked, Drain, LockOK, Thread
<1>3. KnownOK'
  BY DEF Drain, KnownOK, Known
<1>4. ExecOK'
  BY DEF envVars, SignalLocked, Status, Drain, ExecOK, Live, Current, Thread
<1>5. CancelReaches'
  BY DEF Drain, CancelReaches, Current
<1>6. SlotOK'
  <2>1. active' \cup Settling' \subseteq active \cup Settling
    BY DEF Drain, Settling
  <2> QED
    BY <2>1, SlotShrinks
<1> QED
  BY <1>1, <1>2, <1>3, <1>4, <1>5, <1>6

LEMMA SettleBeginInv ==
    ASSUME IndInv, NEW x \in Executor, NEW out \in Outcome, NEW report \in BOOLEAN, SettleBegin(x, out, report)
    PROVE  IndInv'
<1> USE DEF IndInv
<1>exec. x[1] \in Run /\ x[1] \in active /\ x \in Thread /\ x = <<x[1], x[2]>>
  BY DEF SettleBegin, Free, ExecOK, Live, Executor, Thread
<1>sent. PICK m \in Request :
            /\ m.run = x[1]
            /\ lock' = [Holding("settle", x, x[1], {}) EXCEPT !.stage = "sent", !.req = m]
            /\ wire' \in SUBSET Request
  <2>1. PICK i \in 0 .. MaxWire :
            LET m == Message(i, FALSE, x[1], out, attempt[x[1]], report)
            IN  /\ lock' = [Holding("settle", x, x[1], {}) EXCEPT !.stage = "sent", !.req = m]
                /\ wire' = IF conn THEN wire \cup {m} ELSE wire
    BY DEF SettleBegin, Send
  <2> DEFINE m == Message(i, FALSE, x[1], out, attempt[x[1]], report)
  <2>2. (out) \in Status /\ (attempt[x[1]]) \in Nat
    BY <1>exec DEF Outcome, TypeOK, Status, Settled, Terminal
  <2>3. m \in Request
    BY <2>2, MessageType, <1>exec
  <2>4. m.run = x[1]
    BY DEF Message
  <2>5. wire' \in SUBSET Request
    BY <2>1, <2>3 DEF TypeOK
  <2>6. lock' = [Holding("settle", x, x[1], {}) EXCEPT !.stage = "sent", !.req = m]
    BY <2>1
  <2> HIDE DEF m, IndInv
  <2> QED
    BY <2>3, <2>4, <2>5, <2>6
<1>slot. Slot'
  <2>1. Cardinality(active \ {x[1]}) = Cardinality(active) - 1
    BY <1>exec, ActiveFinite, FS_RemoveElement
  <2>2. Cardinality(active) <= MaxParallel
    <3>1. active \cup Settling = active
      BY DEF SettleBegin, Free, Settling
    <3> QED
      BY <3>1 DEF SlotOK
  <2> QED
    BY <2>1, <2>2, ActiveFinite DEF SettleBegin, Slot
<1>1. TypeOK'
  BY CurrentType, <1>exec, <1>sent, <1>slot DEF Free, Holding, envVars, regVars,
     SettleBegin, TypeOK
<1>2. LockOK'
  BY <1>sent, <1>slot DEF Holding, envVars, SettleBegin, TypeOK, LockOK, Current,
     Executor, Thread, Known
<1>3. KnownOK'
  BY DEF SettleBegin, KnownOK, Known
<1>4. ExecOK'
  BY <1>sent, <1>slot DEF Free, Holding, SettleBegin, Live, ExecOK, Current
<1>5. CancelReaches'
  BY DEF SettleBegin, CancelReaches, Current
<1>6. SlotOK'
  <2>1. active' \cup Settling' \subseteq active \cup Settling
    BY <1>exec, <1>sent DEF Holding, SettleBegin, Settling
  <2> QED
    BY <2>1, SlotShrinks
<1> QED
  BY <1>1, <1>2, <1>3, <1>4, <1>5, <1>6

LEMMA SettleEndInv ==
    ASSUME IndInv, NEW x \in Executor, SettleEnd(x)
    PROVE  IndInv'
<1> USE DEF IndInv
<1>1. TypeOK'
  BY CancelledType, CurrentType DEF Free, Holding, NoRequest, envVars, regVars,
     goVars, thrVars, SignalLocked, Status, Settled, Terminal, SettleEnd, Outcome,
     Unsaved, Answered, CallFailed, Request, TypeOK, LockOK
<1>2. LockOK'
  BY DEF Free, Holding, envVars, SignalLocked, SettleEnd, LockOK, Thread
<1>3. KnownOK'
  BY DEF Status, Settled, Terminal, SettleEnd, Unsaved, Answered, Request, TypeOK,
     KnownOK, LockOK, Known
<1>4. ExecOK'
  BY DEF SignalLocked, SettleEnd, ExecOK, Live, Current, Thread
<1>5. CancelReaches'
  BY DEF SettleEnd, TypeOK, LockOK, CancelReaches, Current
<1>6. SlotOK'
  <2>1. active' \cup Settling' \subseteq active \cup Settling
    BY DEF Free, Holding, SettleEnd, Outcome, Unsaved, Answered, CallFailed,
       Request, Settling, TypeOK
  <2> QED
    BY <2>1, SlotShrinks
<1> QED
  BY <1>1, <1>2, <1>3, <1>4, <1>5, <1>6

-----------------------------------------------------------------------------
(* the registry *)

LEMMA RegApplyInv ==
    ASSUME IndInv, NEW m \in wire, RegApply(m)
    PROVE  IndInv'
<1> USE DEF IndInv
<1>type. reports' \in SUBSET [title : Title \cup {Scout}, attempt : Nat, by : Run]
  BY DEF RegApply, Written, ReportFile, TypeOK, Request, Info
<1>m. m.run \in Run /\ m.status \in Status /\ m.attempt \in Nat
  BY DEF TypeOK, Request
<1>lock. lock' = lock \/ lock' = [lock EXCEPT !.stage = "ok"] \/ lock' = [lock EXCEPT !.stage = "refused"]
  BY DEF RegApply, Reply
<1>1. TypeOK'
  BY <1>type, <1>m DEF RegApply, Reply, TypeOK, goVars, thrVars, envVars, regVars
<1>2. LockOK'
  BY DEF envVars, goVars, thrVars, Settled, Terminal, RegApply, Reply, Request,
     TypeOK, LockOK, KnownOK, Current, Executor, Thread, Slot, Known, Live, ExecOK
<1>3. KnownOK'
  BY DEF goVars, RegApply, KnownOK, Known
<1>4. ExecOK'
  BY DEF goVars, thrVars, RegApply, Reply, Request, TypeOK, LockOK, ExecOK, Live,
     Current, Executor, Thread
<1>5. CancelReaches'
  BY DEF goVars, thrVars, RegApply, Reply, Request, TypeOK, LockOK, KnownOK,
     CancelReaches, Current, Executor, Thread
<1>6. SlotOK'
  <2>1. active' \cup Settling' \subseteq active \cup Settling
    BY DEF goVars, RegApply, Reply, Settling
  <2> QED
    BY <2>1, SlotShrinks
<1> QED
  BY <1>1, <1>2, <1>3, <1>4, <1>5, <1>6

LEMMA RegRefuseInv ==
    ASSUME IndInv, NEW m \in wire, RegRefuse(m)
    PROVE  IndInv'
<1> USE DEF IndInv
<1>type. reports' \in SUBSET [title : Title \cup {Scout}, attempt : Nat, by : Run]
  BY DEF RegRefuse, Written, ReportFile, SamePath, TypeOK, regVars
<1>m. m.run \in Run /\ m.status \in Status /\ m.attempt \in Nat
  BY DEF TypeOK, Request
<1>lock. lock' = lock \/ lock' = [lock EXCEPT !.stage = "ok"] \/ lock' = [lock EXCEPT !.stage = "refused"]
  BY DEF RegRefuse, Reply
<1>1. TypeOK'
  BY DEF RegRefuse, Reply, TypeOK, goVars, thrVars, envVars, regVars
<1>2. LockOK'
  BY DEF envVars, goVars, thrVars, Settled, Terminal, RegRefuse, Reply, Request,
     TypeOK, LockOK, KnownOK, Current, Executor, Thread, Slot, Known, Live, ExecOK
<1>3. KnownOK'
  BY DEF goVars, RegRefuse, KnownOK, Known
<1>4. ExecOK'
  BY DEF goVars, thrVars, RegRefuse, Reply, Request, TypeOK, LockOK, ExecOK, Live,
     Current, Executor, Thread
<1>5. CancelReaches'
  BY DEF goVars, thrVars, RegRefuse, Reply, Request, TypeOK, LockOK, KnownOK,
     CancelReaches, Current, Executor, Thread
<1>6. SlotOK'
  <2>1. active' \cup Settling' \subseteq active \cup Settling
    BY DEF goVars, RegRefuse, Reply, Settling
  <2> QED
    BY <2>1, SlotShrinks
<1> QED
  BY <1>1, <1>2, <1>3, <1>4, <1>5, <1>6

LEMMA RegDiskErrorInv ==
    ASSUME IndInv, NEW m \in wire, RegDiskError(m)
    PROVE  IndInv'
<1> USE DEF IndInv
<1>type. reports' \in SUBSET [title : Title \cup {Scout}, attempt : Nat, by : Run]
  BY DEF RegDiskError, Written, ReportFile, TypeOK, Request, Info
<1>m. m.run \in Run /\ m.status \in Status /\ m.attempt \in Nat
  BY DEF TypeOK, Request
<1>lock. lock' = lock \/ lock' = [lock EXCEPT !.stage = "ok"] \/ lock' = [lock EXCEPT !.stage = "refused"]
  BY DEF RegDiskError, Reply
<1>1. TypeOK'
  BY <1>type, <1>m DEF RegDiskError, Reply, TypeOK, goVars, thrVars, envVars, regVars
<1>2. LockOK'
  BY DEF envVars, goVars, thrVars, Settled, Terminal, RegDiskError, Reply,
     Request, TypeOK, LockOK, KnownOK, Current, Executor, Thread, Slot, Known,
     Live, ExecOK
<1>3. KnownOK'
  BY DEF goVars, RegDiskError, KnownOK, Known
<1>4. ExecOK'
  BY DEF goVars, thrVars, RegDiskError, Reply, Request, TypeOK, LockOK, ExecOK,
     Live, Current, Executor, Thread
<1>5. CancelReaches'
  BY DEF goVars, thrVars, RegDiskError, Reply, Request, TypeOK, LockOK, KnownOK,
     CancelReaches, Current, Executor, Thread
<1>6. SlotOK'
  <2>1. active' \cup Settling' \subseteq active \cup Settling
    BY DEF goVars, RegDiskError, Reply, Settling
  <2> QED
    BY <2>1, SlotShrinks
<1> QED
  BY <1>1, <1>2, <1>3, <1>4, <1>5, <1>6

-----------------------------------------------------------------------------
(* the environment *)

LEMMA CutTurnInv ==
    ASSUME IndInv, NEW t \in Turns, CutTurn(t)
    PROVE  IndInv'
<1> USE DEF IndInv
<1>1. TypeOK'
  BY DEF envVars, regVars, goVars, CutTurn, TypeOK, Thread
<1>2. LockOK'
  BY DEF envVars, goVars, CutTurn, LockOK, Current, Slot, Known
<1>3. KnownOK'
  BY DEF goVars, CutTurn, KnownOK, Known
<1>4. ExecOK'
  BY DEF goVars, CutTurn, TypeOK, LockOK, ExecOK, Live, Current, Executor, Thread
<1>5. CancelReaches'
  BY DEF goVars, CutTurn, CancelReaches, Current
<1>6. SlotOK'
  <2>1. active' \cup Settling' \subseteq active \cup Settling
    BY DEF goVars, CutTurn, Settling
  <2> QED
    BY <2>1, SlotShrinks
<1> QED
  BY <1>1, <1>2, <1>3, <1>4, <1>5, <1>6

LEMMA DisconnectInv ==
    ASSUME IndInv, Disconnect
    PROVE  IndInv'
<1> USE DEF IndInv
<1>1. TypeOK'
  BY CancelledType, CurrentType, ZenonT(40) DEF Free, Holding, NoRequest, envVars, regVars,
     goVars, thrVars, SignalLocked, Status, Settled, Terminal, Disconnect, TypeOK,
     LockOK, KnownOK, Executor, Thread, Known
<1>2. LockOK'
  BY DEF goVars, Disconnect, LockOK, Current, Slot, Known
<1>3. KnownOK'
  BY DEF goVars, Disconnect, KnownOK, Known
<1>4. ExecOK'
  BY DEF goVars, Disconnect, TypeOK, LockOK, ExecOK, Live, Current, Executor, Thread
<1>5. CancelReaches'
  BY DEF goVars, Disconnect, CancelReaches, Current
<1>6. SlotOK'
  <2>1. active' \cup Settling' \subseteq active \cup Settling
    BY DEF goVars, Disconnect, Settling
  <2> QED
    BY <2>1, SlotShrinks
<1> QED
  BY <1>1, <1>2, <1>3, <1>4, <1>5, <1>6

LEMMA ShutdownInv ==
    ASSUME IndInv, Shutdown
    PROVE  IndInv'
<1> USE DEF IndInv
<1>1. TypeOK'
  BY DEF regVars, goVars, Shutdown, TypeOK, Thread
<1>2. LockOK'
  BY DEF Free, Holding, Shutdown, LockOK
<1>3. KnownOK'
  BY DEF goVars, Shutdown, KnownOK, Known
<1>4. ExecOK'
  BY DEF goVars, Shutdown, TypeOK, LockOK, ExecOK, Live, Current, Executor, Thread
<1>5. CancelReaches'
  BY DEF goVars, Shutdown, CancelReaches, Current
<1>6. SlotOK'
  <2>1. active' \cup Settling' \subseteq active \cup Settling
    BY DEF goVars, Shutdown, Settling
  <2> QED
    BY <2>1, SlotShrinks
<1> QED
  BY <1>1, <1>2, <1>3, <1>4, <1>5, <1>6

LEMMA DrainedInv ==
    ASSUME IndInv, Drained
    PROVE  IndInv'
<1> USE DEF IndInv
<1>1. TypeOK'
  BY DEF envVars, regVars, goVars, Drained, TypeOK, Thread
<1>2. LockOK'
  BY DEF envVars, goVars, Drained, LockOK, Slot, Known
<1>3. KnownOK'
  BY DEF goVars, Drained, KnownOK, Known
<1>4. ExecOK'
  BY DEF Drained, ExecOK, Live
<1>5. CancelReaches'
  BY DEF goVars, Drained, CancelReaches, Current
<1>6. SlotOK'
  <2>1. active' \cup Settling' \subseteq active \cup Settling
    BY DEF goVars, Drained, Settling
  <2> QED
    BY <2>1, SlotShrinks
<1> QED
  BY <1>1, <1>2, <1>3, <1>4, <1>5, <1>6

LEMMA RestartInv ==
    ASSUME IndInv, Restart
    PROVE  IndInv'
<1> USE DEF IndInv
<1>type. reports' \in SUBSET [title : Title \cup {Scout}, attempt : Nat, by : Run]
  BY DEF Restart, Written, ReportFile, SamePath, TypeOK, Request, Info
<1>reg. reg' \in [Run -> [status : Status \cup {"absent"}, attempt : Nat]]
  BY DEF Restart, Loaded, TypeOK, Status, Settled, Terminal
<1>info. info' \in [Run -> Info]
  BY DEF Restart, TypeOK, Info, NoInfo
<1>1. TypeOK'
  <2>1. at' \in [Thread -> {"idle", "work", "lock", "join", "wait", "woken", "drain", "gone"}]
    BY DEF Restart
  <2>2. lock' = Free /\ wire' = {} /\ active' = {} /\ cut' = {} /\ doubt' = {}
    BY DEF Restart
  <2>3. /\ waits' \in [Thread -> SUBSET Run] /\ joins' \in [Thread -> SUBSET Executor]
        /\ status' \in [Run -> Status \cup {"absent"}] /\ attempt' \in [Run -> Nat]
        /\ epoch' \in [Run -> 0 .. MaxEpoch]
    BY DEF Restart
  <2>4. stopping' \in BOOLEAN /\ conn' \in BOOLEAN
    BY DEF Restart
  <2> QED
    BY <1>type, <1>reg, <1>info, <2>1, <2>2, <2>3, <2>4 DEF Free, TypeOK
<1>2. LockOK'
  BY DEF Free, Restart, LockOK, Thread
<1>3. KnownOK'
  BY DEF Restart, KnownOK
<1>4. ExecOK'
  BY DEF Restart, ExecOK, Live, Thread
<1>5. CancelReaches'
  BY DEF Restart, CancelReaches
<1>6. SlotOK'
  <2>1. active' \cup Settling' = {}
    BY DEF Restart, Settling, Free
  <2> QED
    BY <2>1, FS_EmptySet DEF SlotOK
<1> QED
  BY <1>1, <1>2, <1>3, <1>4, <1>5, <1>6

-----------------------------------------------------------------------------
(* The invariant holds initially, and every step preserves it *)

LEMMA InitInv == Init => IndInv
<1> SUFFICES ASSUME Init PROVE IndInv
  OBVIOUS
<1>1. TypeOK
  <2>1. Top \in Run \cup {Top} /\ Scout \in Title \cup {Scout}
    OBVIOUS
  <2>2. info \in [Run -> Info]
    BY DEF Init, Info, NoInfo
  <2>3. at \in [Thread -> {"idle", "work", "lock", "join", "wait", "woken", "drain", "gone"}]
    BY DEF Init
  <2>4. lock = Free /\ wire = {} /\ active = {} /\ cut = {} /\ doubt = {} /\ reports = {}
    BY DEF Init
  <2>5. stopping \in BOOLEAN /\ conn \in BOOLEAN
    BY DEF Init
  <2>6. /\ status \in [Run -> Status \cup {"absent"}] /\ attempt \in [Run -> Nat]
        /\ epoch \in [Run -> 0 .. MaxEpoch] /\ waits \in [Thread -> SUBSET Run]
        /\ joins \in [Thread -> SUBSET Executor]
        /\ reg \in [Run -> [status : Status \cup {"absent"}, attempt : Nat]]
    BY DEF Init
  <2> QED
    BY <2>2, <2>3, <2>4, <2>5, <2>6 DEF TypeOK, Free
<1>2. LockOK
  BY DEF Init, LockOK, Free, Thread
<1>3. KnownOK
  BY DEF Init, KnownOK
<1>4. ExecOK
  BY DEF Init, ExecOK, Live, Thread
<1>5. CancelReaches
  BY DEF Init, CancelReaches
<1>6. SlotOK
  <2>1. active \cup Settling = {}
    BY DEF Init, Settling, Free
  <2> QED
    BY <2>1, FS_EmptySet DEF SlotOK
<1> QED
  BY <1>1, <1>2, <1>3, <1>4, <1>5, <1>6 DEF IndInv

LEMMA StutterInv == IndInv /\ UNCHANGED vars => IndInv'
BY DEF IndInv, TypeOK, LockOK, KnownOK, ExecOK, CancelReaches, SlotOK, vars, goVars,
   thrVars, envVars, regVars, Known, Current, Live, Settling, Slot

LEMMA StepInv == IndInv /\ [Next]_vars => IndInv'
<1> SUFFICES ASSUME IndInv, [Next]_vars PROVE IndInv'
  OBVIOUS
<1>1. ASSUME NEW t \in Thread, Operation(t) PROVE IndInv'
  BY <1>1, SpawnBeginInv, SpawnEndInv, PauseBeginInv, PauseAgainInv, PauseEndInv,
     ResumeBeginInv, ResumeEndInv, StopBeginInv, InterruptBeginInv, HaltEndInv,
     OpFailsInv, JoinedInv, WaitInv, WaitAgainInv, WaitReturnsInv DEF Operation
<1>2. ASSUME Halting PROVE IndInv'
  BY <1>2, HaltCallInv, StopSkipInv, HaltAppliedInv, InterruptUnsavedInv DEF Halting
<1>3. ASSUME NEW x \in Executor, Execution(x) PROVE IndInv'
  BY <1>3, DrainInv, SettleBeginInv, SettleEndInv DEF Execution
<1>4. ASSUME Registry PROVE IndInv'
  BY <1>4, RegApplyInv, RegRefuseInv, RegDiskErrorInv DEF Registry
<1>5. ASSUME Environment PROVE IndInv'
  BY <1>5, DisconnectInv, ShutdownInv, DrainedInv, RestartInv, CutTurnInv DEF Environment
<1>6. CASE UNCHANGED vars
  BY <1>6, StutterInv
<1> QED
  BY <1>1, <1>2, <1>3, <1>4, <1>5, <1>6 DEF Next

LEMMA Inductive == Spec => []IndInv
<1> QED
  BY InitInv, StepInv, PTL DEF Spec

-----------------------------------------------------------------------------
(* What follows from the invariant *)

\* Every variable of the run set, of its mutex and of the registry holds a value the
\* code could hold, after any sequence of operations, lost calls and restarts.
THEOREM TypeCorrect == Spec => []TypeOK
<1>1. IndInv => TypeOK
  BY DEF IndInv
<1> QED
  BY <1>1, Inductive, PTL

\* A run that was paused, stopped or interrupted while its executor works has a
\* cancelled executor, in every state: nothing goes on working for it unnoticed.
THEOREM CancellationReaches == Spec => []CancelReaches
<1>1. IndInv => CancelReaches
  BY DEF IndInv
<1> QED
  BY <1>1, Inductive, PTL

\* Resume never starts a second executor of a run: two executors at work for one run
\* would both be the executor of its current epoch.
THEOREM AtMostOneExecutor == Spec => []OneExecutor
<1>1. IndInv => OneExecutor
  BY DEF IndInv, ExecOK, OneExecutor
<1> QED
  BY <1>1, Inductive, PTL

\* Each executor at work holds a slot of its own, and spawn and resume fill only the
\* slots they found free when they took the lock: no more than MaxParallel work.
THEOREM WithinLimit == Spec => []ParallelLimit
<1>1. IndInv => ParallelLimit
  <2> SUFFICES ASSUME IndInv PROVE ParallelLimit
    OBVIOUS
  <2> DEFINE S == {x \in Executor : Live(x)}
             U == active \cup Settling
             f == [x \in S |-> x[1]]
  <2>1. IsFiniteSet(U) /\ Cardinality(U) <= MaxParallel
    BY ActiveFinite DEF IndInv, SlotOK
  <2>2. \A x \in S : x[1] \in U
    BY DEF IndInv, ExecOK, LockOK, Settling, Current
  <2>3. \A x, y \in S : x[1] = y[1] => x = y
    BY DEF IndInv, ExecOK
  <2>4. f \in Injection(S, U)
    BY <2>2, <2>3 DEF Injection, IsInjective
  <2>5. Cardinality(S) <= Cardinality(U) /\ IsFiniteSet(S)
    BY <2>1, <2>4, FS_Injection
  <2>6. Cardinality(S) \in Nat /\ Cardinality(U) \in Nat
    BY <2>1, <2>5, FS_CardinalityType
  <2> QED
    BY <2>1, <2>5, <2>6 DEF ParallelLimit
<1> QED
  BY <1>1, Inductive, PTL
=============================================================================
