-------------------------- MODULE RunSetCalls_proofs --------------------------
(* The calls of the run set to the registry and the callers of the run set, for *)
(* every set of runs, every limit and every choice of faults.  RegInv says what *)
(* both sides of a call know of each other, ReachInv whom a stop has passed and *)
(* who owns what it waits for; each is inductive together with IndInv, and     *)
(* RegInv needs RefOK as well.                                                  *)
EXTENDS RunSetRefines_proofs

\* What the lock is held for is what the call asks (the arguments of persistLocked).
CallOK ==
    /\ lock.op \in {"spawn", "pause", "resume", "settle"} => lock.stage # "next"
    /\ lock.stage # "next" =>
        /\ lock.op # "free"
        /\ lock.op \in {"spawn", "pause", "resume", "settle"} => lock.req.run = lock.run
        /\ lock.req.make <=> lock.op = "spawn"
        /\ lock.op = "spawn" => lock.req.status = "running" /\ lock.req.attempt = 1
        /\ lock.op = "pause" => lock.req.status = "paused" /\ lock.req.attempt = attempt[lock.run]
        /\ lock.op = "resume" => lock.req.status = "running"
        /\ lock.op = "settle" => lock.req.attempt = attempt[lock.run]
        /\ lock.op \in {"stop", "interrupt"} =>
              lock.req.status = Aim /\ lock.req.attempt = attempt[lock.req.run]
    /\ lock.stage \in {"ok", "refused"} => lock.req \notin wire

\* A request in flight is the one the lock is held for, or its call failed.  A request
\* to create a run is the only one about it, and there is no such run yet.
WireOK ==
    /\ \A m \in wire : m.run \in doubt \/ (lock.stage = "sent" /\ lock.req = m)
    /\ \A m \in wire : ~m.make => m.run \in Known
    /\ \A m \in wire : m.make =>
          /\ m.status = "running" /\ m.attempt = 1 /\ ~m.report
          /\ m.run \notin Known /\ reg[m.run].status = "absent"
          /\ conn => lock.op = "spawn" /\ lock.stage = "sent" /\ lock.req = m
          /\ \A n \in wire : n.run = m.run => n = m
    /\ lock.op = "spawn" => \A m \in wire : m.run = lock.run => m = lock.req

Recorded(r) == [status |-> status[r], attempt |-> attempt[r]]

\* Where the registry is while the call about a run is under way: where the run set is
\* until it answers, and then where the run set is about to go.
UnderWayOK ==
    /\ conn /\ lock.stage = "sent" /\ lock.op # "spawn" /\ lock.req.run \notin doubt =>
          reg[lock.req.run] = Recorded(lock.req.run)
    /\ lock.stage = "ok" /\ lock.req.run \notin doubt =>
          reg[lock.req.run] = [status |-> lock.req.status, attempt |-> lock.req.attempt]
    /\ conn /\ lock.op = "spawn" /\ lock.stage \in {"sent", "refused"} =>
          reg[lock.run].status = "absent"

\* An outcome "done" that the registry has acknowledged.
DoneAnswered ==
    lock.op = "settle" /\ lock.stage = "ok" /\ lock.req.status = "done" =>
          \/ reg[lock.run] = [status |-> "done", attempt |-> attempt[lock.run]]
          \/ reg[lock.run].attempt > attempt[lock.run]

RegInv ==
    /\ CallOK /\ WireOK /\ UnderWayOK /\ DoneAnswered
    /\ Agreement /\ DoneIsDurable /\ NoGhostRun /\ RefusalExplained

-----------------------------------------------------------------------------
(* Steps by their part in a call *)

\* The types that the steps below need of the lock and of the requests.
LEMMA CallType ==
    ASSUME IndInv
    PROVE  /\ lock.stage # "next" => lock.req \in Request /\ lock.req.run \in Run
           /\ lock.op \in {"spawn", "pause", "resume", "settle"} => lock.run \in Run
           /\ lock.op \in {"pause", "resume", "stop", "settle"} => lock.run \in Known
           /\ \A m \in wire : m \in Request /\ m.run \in Run /\ m.status \in Status
                              /\ m.attempt \in Nat /\ m.make \in BOOLEAN /\ m.report \in BOOLEAN
BY DEF IndInv, TypeOK, LockOK, Known, Request

\* A step that changes nothing of the runs, of the lock and of the registry.
LEMMA Elsewhere ==
    ASSUME RegInv, UNCHANGED <<status, attempt, info, lock, wire, reg, reports, doubt>>,
           conn' => conn
    PROVE  RegInv'
BY DEF RegInv, CallOK, WireOK, UnderWayOK, DoneAnswered, Agreement, DoneIsDurable, NoGhostRun,
   RefusalExplained, Known, Recorded, Aim, Reporting, PathTaken, SamePath, ReportFile

\* A step of the holder of the lock between two calls.
LEMMA Between ==
    ASSUME RegInv, UNCHANGED <<status, attempt, wire, reg, reports, doubt, conn>>,
           lock.stage = "next", lock'.stage = "next",
           lock'.op \notin {"spawn", "pause", "resume", "settle"}
    PROVE  RegInv'
BY DEF RegInv, CallOK, WireOK, UnderWayOK, DoneAnswered, Agreement, DoneIsDurable, NoGhostRun,
   RefusalExplained, Known

\* A call about a run that the run set knows goes out.
LEMMA CallSent ==
    ASSUME IndInv, RegInv, NEW m,
           lock.stage = "next", lock'.stage = "sent", lock'.req = m,
           m.run \in Known, m.make = FALSE, lock'.op # "spawn", CallOK',
           wire' \subseteq wire \cup {m},
           UNCHANGED <<status, attempt, reg, doubt, conn>>
    PROVE  RegInv'
<1>1. WireOK'
  <2>1. \A n \in wire' : n # m => n \in wire /\ n.run \in doubt
    BY DEF RegInv, WireOK
  <2>2. \A n \in wire' : ~n.make => n.run \in Known
    BY DEF RegInv, WireOK
  <2>3. \A n \in wire' : n.make => n # m /\ n \in wire /\ n.run # m.run /\ ~conn
    BY DEF RegInv, WireOK
  <2>4. Known' = Known
    BY DEF Known
  <2> QED
    BY <2>1, <2>2, <2>3, <2>4 DEF RegInv, WireOK
<1>2. \A r \in Known \ doubt : reg[r] = Recorded(r)
  BY DEF RegInv, Agreement, Recorded
<1>3. UnderWayOK' /\ DoneAnswered' /\ RefusalExplained'
  BY <1>2 DEF UnderWayOK, DoneAnswered, RefusalExplained, Recorded
<1>4. Agreement' /\ DoneIsDurable'
  BY DEF RegInv, Agreement, DoneIsDurable, Known
<1>5. NoGhostRun'
  BY DEF RegInv, CallOK, NoGhostRun, Known
<1> QED
  BY <1>1, <1>3, <1>4, <1>5 DEF RegInv

\* A call is over, with its answer or without: what has not been answered is in doubt.
LEMMA CallOver ==
    ASSUME IndInv, RegInv, lock.stage # "next", lock'.stage = "next",
           lock'.op \notin {"spawn", "pause", "resume", "settle"},
           lock.stage = "sent" => lock.req.run \in doubt' /\ (lock.op = "spawn" => ~conn),
           UNCHANGED <<wire, reg, reports, conn>>, doubt \subseteq doubt',
           Known \subseteq Known', Known' \subseteq Known \cup {lock.req.run},
           lock.req.run \notin Known /\ lock.req.run \in Known' => lock.op = "spawn" /\ lock.stage = "ok",
           Agreement', DoneIsDurable', NoGhostRun'
    PROVE  RegInv'
<1>1. WireOK'
  <2>1. \A n \in wire : n.run \in doubt'
    BY DEF RegInv, WireOK
  <2>2. \A n \in wire : ~n.make => n.run \in Known'
    BY DEF RegInv, WireOK
  <2>3. ASSUME NEW n \in wire, n.make
        PROVE  n.run \notin Known' /\ ~conn
    <3>1. ~conn
      BY <2>3 DEF RegInv, WireOK
    <3>2. n.run \notin Known
      BY <2>3 DEF RegInv, WireOK
    <3>3. n.run # lock.req.run \/ lock.op # "spawn" \/ lock.stage # "ok"
      BY <2>3 DEF RegInv, WireOK, CallOK
    <3> QED
      BY <3>1, <3>2, <3>3
  <2> QED
    BY <2>1, <2>2, <2>3 DEF RegInv, WireOK
<1>2. CallOK' /\ UnderWayOK' /\ DoneAnswered' /\ RefusalExplained'
  BY DEF CallOK, UnderWayOK, DoneAnswered, RefusalExplained
<1> QED
  BY <1>1, <1>2 DEF RegInv

-----------------------------------------------------------------------------
(* The calls go out *)

LEMMA PauseBeginReg ==
    ASSUME IndInv, RegInv, NEW t \in Thread, NEW r \in Run, PauseBegin(t, r)
    PROVE  RegInv'
<1>1. PICK m : /\ m.run = r /\ m.make = FALSE /\ m.status = "paused" /\ m.attempt = attempt[r]
               /\ lock' = [Holding("pause", t, r, {}) EXCEPT !.stage = "sent", !.req = m]
               /\ wire' \subseteq wire \cup {m}
  <2>1. PICK i \in 0 .. MaxWire :
            LET m == Message(i, FALSE, r, "paused", attempt[r], FALSE)
            IN  /\ lock' = [Holding("pause", t, r, {}) EXCEPT !.stage = "sent", !.req = m]
                /\ wire' = IF conn THEN wire \cup {m} ELSE wire
    BY DEF PauseBegin, Send
  <2>2. PICK m : m = Message(i, FALSE, r, "paused", attempt[r], FALSE)
    OBVIOUS
  <2>3. /\ lock' = [Holding("pause", t, r, {}) EXCEPT !.stage = "sent", !.req = m]
        /\ wire' \subseteq wire \cup {m}
    BY <2>1, <2>2
  <2> QED
    BY <2>2, <2>3 DEF Message
<1>2. /\ lock.stage = "next" /\ r \in Known
      /\ UNCHANGED <<status, attempt, reg, doubt, conn>>
  BY DEF PauseBegin, Free, Owned, goVars, envVars, regVars
<1>3. lock'.stage = "sent" /\ lock'.req = m /\ lock'.op = "pause" /\ lock'.run = r
  BY <1>1 DEF Holding
<1>4. CallOK'
  BY <1>1, <1>2, <1>3 DEF CallOK
<1> QED
  BY <1>1, <1>2, <1>3, <1>4, CallSent

LEMMA ResumeBeginReg ==
    ASSUME IndInv, RegInv, NEW t \in Thread, NEW r \in Run, ResumeBegin(t, r)
    PROVE  RegInv'
<1>1. PICK m : /\ m.run = r /\ m.make = FALSE /\ m.status = "running"
               /\ lock' = [Holding("resume", t, r, {}) EXCEPT !.stage = "sent", !.req = m]
               /\ wire' \subseteq wire \cup {m}
  <2>1. PICK i \in 0 .. MaxWire :
            LET m == Message(i, FALSE, r, "running", IF Restarts(r) THEN attempt[r] + 1 ELSE attempt[r], FALSE)
            IN  /\ lock' = [Holding("resume", t, r, {}) EXCEPT !.stage = "sent", !.req = m]
                /\ wire' = IF conn THEN wire \cup {m} ELSE wire
    BY DEF ResumeBegin, Send
  <2>2. PICK m : m = Message(i, FALSE, r, "running", IF Restarts(r) THEN attempt[r] + 1 ELSE attempt[r], FALSE)
    OBVIOUS
  <2>3. /\ lock' = [Holding("resume", t, r, {}) EXCEPT !.stage = "sent", !.req = m]
        /\ wire' \subseteq wire \cup {m}
    BY <2>1, <2>2
  <2> QED
    BY <2>2, <2>3 DEF Message
<1>2. /\ lock.stage = "next" /\ r \in Known
      /\ UNCHANGED <<status, attempt, reg, doubt, conn>>
  BY DEF ResumeBegin, Free, Owned, goVars, envVars, regVars
<1>3. lock'.stage = "sent" /\ lock'.req = m /\ lock'.op = "resume" /\ lock'.run = r
  BY <1>1 DEF Holding
<1>4. CallOK'
  BY <1>1, <1>2, <1>3 DEF CallOK
<1> QED
  BY <1>1, <1>2, <1>3, <1>4, CallSent

LEMMA SettleBeginReg ==
    ASSUME IndInv, RegInv, NEW x \in Executor, NEW out \in Outcome, NEW report \in BOOLEAN,
           SettleBegin(x, out, report)
    PROVE  RegInv'
<1>1. PICK m : /\ m.run = x[1] /\ m.make = FALSE /\ m.status = out /\ m.attempt = attempt[x[1]]
               /\ lock' = [Holding("settle", x, x[1], {}) EXCEPT !.stage = "sent", !.req = m]
               /\ wire' \subseteq wire \cup {m}
  <2>1. PICK i \in 0 .. MaxWire :
            LET m == Message(i, FALSE, x[1], out, attempt[x[1]], report)
            IN  /\ lock' = [Holding("settle", x, x[1], {}) EXCEPT !.stage = "sent", !.req = m]
                /\ wire' = IF conn THEN wire \cup {m} ELSE wire
    BY DEF SettleBegin, Send
  <2>2. PICK m : m = Message(i, FALSE, x[1], out, attempt[x[1]], report)
    OBVIOUS
  <2>3. /\ lock' = [Holding("settle", x, x[1], {}) EXCEPT !.stage = "sent", !.req = m]
        /\ wire' \subseteq wire \cup {m}
    BY <2>1, <2>2
  <2> QED
    BY <2>2, <2>3 DEF Message
<1>2. /\ lock.stage = "next" /\ x[1] \in Known
      /\ UNCHANGED <<status, attempt, reg, doubt, conn>>
  BY DEF SettleBegin, Free, Known, Executor, envVars, regVars
<1>3. lock'.stage = "sent" /\ lock'.req = m /\ lock'.op = "settle" /\ lock'.run = x[1]
  BY <1>1 DEF Holding
<1>4. CallOK'
  BY <1>1, <1>2, <1>3 DEF CallOK
<1> QED
  BY <1>1, <1>2, <1>3, <1>4, CallSent

LEMMA HaltCallReg ==
    ASSUME IndInv, RegInv, NEW r \in Run, HaltCall(r)
    PROVE  RegInv'
<1>1. PICK m : /\ m.run = r /\ m.make = FALSE /\ m.status = Aim /\ m.attempt = attempt[r]
               /\ lock' = [lock EXCEPT !.stage = "sent", !.req = m]
               /\ wire' \subseteq wire \cup {m}
  <2>1. PICK i \in 0 .. MaxWire :
            LET m == Message(i, FALSE, r, Aim, attempt[r], FALSE)
            IN  /\ lock' = [lock EXCEPT !.stage = "sent", !.req = m]
                /\ wire' = IF conn THEN wire \cup {m} ELSE wire
    BY DEF HaltCall, Send
  <2>2. PICK m : m = Message(i, FALSE, r, Aim, attempt[r], FALSE)
    OBVIOUS
  <2>3. /\ lock' = [lock EXCEPT !.stage = "sent", !.req = m]
        /\ wire' \subseteq wire \cup {m}
    BY <2>1, <2>2
  <2> QED
    BY <2>2, <2>3 DEF Message
<1>2. /\ lock.stage = "next" /\ r \in Known /\ lock.op \in {"stop", "interrupt"}
      /\ UNCHANGED <<status, attempt, reg, doubt, conn>>
  BY DEF HaltCall, Foremost, goVars, envVars, regVars, IndInv, LockOK
<1>3. lock'.stage = "sent" /\ lock'.req = m /\ lock'.op = lock.op
  BY <1>1 DEF IndInv, TypeOK
<1>4. CallOK'
  BY <1>1, <1>2, <1>3 DEF CallOK, Aim
<1> QED
  BY <1>1, <1>2, <1>3, <1>4, CallSent

\* create is sent for a run that neither side knows, and about which nothing is in flight.
LEMMA SpawnBeginReg ==
    ASSUME IndInv, RegInv, NEW t \in Thread, NEW r \in Run,
           NEW role \in {"planner", "worker"}, NEW title \in Title, SpawnBegin(t, r, role, title)
    PROVE  RegInv'
<1>1. PICK m : /\ m.run = r /\ m.make = TRUE /\ m.status = "running" /\ m.attempt = 1 /\ m.report = FALSE
               /\ lock' = [Holding("spawn", t, r, {}) EXCEPT !.stage = "sent", !.req = m]
               /\ wire' \subseteq wire \cup {m}
  <2>1. PICK i \in 0 .. MaxWire :
            LET m == Message(i, TRUE, r, "running", 1, FALSE)
            IN  /\ lock' = [Holding("spawn", t, r, {}) EXCEPT !.stage = "sent", !.req = m]
                /\ wire' = IF conn THEN wire \cup {m} ELSE wire
    BY DEF SpawnBegin, Send
  <2>2. PICK m : m = Message(i, TRUE, r, "running", 1, FALSE)
    OBVIOUS
  <2>3. /\ lock' = [Holding("spawn", t, r, {}) EXCEPT !.stage = "sent", !.req = m]
        /\ wire' \subseteq wire \cup {m}
    BY <2>1, <2>2
  <2> QED
    BY <2>2, <2>3 DEF Message
<1>2. /\ lock.stage = "next" /\ r \notin Known /\ reg[r].status = "absent"
      /\ \A n \in wire : n.run # r
      /\ UNCHANGED <<status, attempt, reg, reports, doubt, conn>>
  BY DEF SpawnBegin, Free, envVars, regVars
<1>3. /\ lock'.stage = "sent" /\ lock'.req = m /\ lock'.op = "spawn" /\ lock'.run = r
  BY <1>1 DEF Holding
<1>4. WireOK'
  <2>1. \A n \in wire : n \in wire /\ n.run \in doubt /\ (n.make => ~conn)
    BY <1>2 DEF RegInv, WireOK
  <2>2. \A n \in wire : ~n.make => n.run \in Known
    BY DEF RegInv, WireOK
  <2>3. \A n \in wire : n.make => /\ n.status = "running" /\ n.attempt = 1 /\ ~n.report
                                  /\ n.run \notin Known /\ reg[n.run].status = "absent"
                                  /\ \A p \in wire : p.run = n.run => p = n
    BY DEF RegInv, WireOK
  <2>4. Known' = Known
    BY <1>2 DEF Known
  <2> QED
    BY <1>1, <1>2, <1>3, <2>1, <2>2, <2>3, <2>4 DEF WireOK
<1>5. CallOK' /\ UnderWayOK' /\ DoneAnswered' /\ RefusalExplained'
  BY <1>1, <1>2, <1>3 DEF CallOK, UnderWayOK, DoneAnswered, RefusalExplained
<1>6. Agreement' /\ DoneIsDurable' /\ NoGhostRun'
  BY <1>2, <1>3 DEF RegInv, CallOK, Agreement, DoneIsDurable, NoGhostRun, Known
<1> QED
  BY <1>4, <1>5, <1>6 DEF RegInv

-----------------------------------------------------------------------------
(* The calls end *)

LEMMA SpawnEndReg ==
    ASSUME IndInv, RegInv, NEW t \in Thread, SpawnEnd(t)
    PROVE  RegInv'
<1> DEFINE u == lock.run
<1>1. /\ lock.op = "spawn" /\ lock.stage = "ok" /\ lock' = Free /\ lock.req.run = u
      /\ lock.req.status = "running" /\ lock.req.attempt = 1
      /\ u \in Run /\ u \notin Known
      /\ UNCHANGED <<wire, reg, reports, conn, doubt>>
  BY DEF SpawnEnd, Answered, RegInv, CallOK, IndInv, LockOK, Known, envVars, regVars
<1>2. /\ status' = [status EXCEPT ![u] = "running"] /\ attempt' = [attempt EXCEPT ![u] = 1]
      /\ status'[u] = "running" /\ attempt'[u] = 1
      /\ \A r \in Run \ {u} : status'[r] = status[r] /\ attempt'[r] = attempt[r]
  BY <1>1 DEF SpawnEnd, Start, IndInv, TypeOK
<1>3. Known' = Known \cup {u}
  BY <1>1, <1>2 DEF Known
<1>4. Agreement'
  <2>1. u \notin doubt => reg[u] = [status |-> "running", attempt |-> 1]
    BY <1>1 DEF RegInv, UnderWayOK
  <2>2. \A r \in Known \ doubt : reg[r] = [status |-> status[r], attempt |-> attempt[r]]
    BY <1>1 DEF RegInv, Agreement
  <2> QED
    BY <1>1, <1>2, <1>3, <2>1, <2>2 DEF Agreement, Known
<1>5. DoneIsDurable'
  BY <1>1, <1>2 DEF RegInv, DoneIsDurable
<1>6. NoGhostRun'
  BY <1>1, <1>3 DEF RegInv, NoGhostRun
<1>7. lock'.stage = "next" /\ lock'.op = "free"
  BY <1>1 DEF Free
<1> HIDE DEF u
<1> QED
  BY <1>1, <1>3, <1>4, <1>5, <1>6, <1>7, CallOver

LEMMA ResumeEndReg ==
    ASSUME IndInv, RegInv, NEW t \in Thread, ResumeEnd(t)
    PROVE  RegInv'
<1> DEFINE u == lock.run
<1>1. /\ lock.op = "resume" /\ lock.stage = "ok" /\ lock' = Free /\ lock.req.run = u
      /\ lock.req.status = "running" /\ u \in Run /\ u \in Known
      /\ UNCHANGED <<wire, reg, reports, conn, doubt>>
  BY DEF ResumeEnd, Answered, RegInv, CallOK, IndInv, LockOK, Known, envVars, regVars
<1>2. /\ status'[u] = "running" /\ attempt'[u] = lock.req.attempt
      /\ \A r \in Run \ {u} : status'[r] = status[r] /\ attempt'[r] = attempt[r]
  BY <1>1 DEF ResumeEnd, Start, IndInv, TypeOK
<1>3. Known' = Known
  BY <1>1, <1>2 DEF Known
<1>4. Agreement'
  <2>1. u \notin doubt => reg[u] = [status |-> "running", attempt |-> lock.req.attempt]
    BY <1>1 DEF RegInv, UnderWayOK
  <2>2. \A r \in Known \ doubt : r # u => reg[r] = [status |-> status[r], attempt |-> attempt[r]]
    BY <1>1 DEF RegInv, Agreement
  <2> QED
    BY <1>1, <1>2, <1>3, <2>1, <2>2 DEF Agreement, Known
<1>5. DoneIsDurable'
  BY <1>1, <1>2 DEF RegInv, DoneIsDurable
<1>6. NoGhostRun'
  BY <1>1, <1>3 DEF RegInv, NoGhostRun
<1>7. lock'.stage = "next" /\ lock'.op = "free"
  BY <1>1 DEF Free
<1> HIDE DEF u
<1> QED
  BY <1>1, <1>3, <1>4, <1>5, <1>6, <1>7, CallOver

LEMMA PauseEndReg ==
    ASSUME IndInv, RegInv, NEW t \in Thread, PauseEnd(t)
    PROVE  RegInv'
<1> DEFINE u == lock.run
<1>1. /\ lock.op = "pause" /\ lock.stage = "ok" /\ lock' = Free /\ lock.req.run = u
      /\ lock.req.status = "paused" /\ lock.req.attempt = attempt[u] /\ u \in Run /\ u \in Known
      /\ UNCHANGED <<wire, reg, reports, conn, doubt, attempt>>
  BY DEF PauseEnd, Answered, RegInv, CallOK, IndInv, LockOK, Known, envVars, regVars
<1>2. status'[u] = "paused" /\ \A r \in Run \ {u} : status'[r] = status[r]
  BY <1>1 DEF PauseEnd, IndInv, TypeOK
<1>3. Known' = Known
  BY <1>1, <1>2 DEF Known
<1>4. Agreement'
  <2>1. u \notin doubt => reg[u] = [status |-> "paused", attempt |-> attempt[u]]
    BY <1>1 DEF RegInv, UnderWayOK
  <2>2. \A r \in Known \ doubt : r # u => reg[r] = [status |-> status[r], attempt |-> attempt[r]]
    BY <1>1 DEF RegInv, Agreement
  <2> QED
    BY <1>1, <1>2, <1>3, <2>1, <2>2 DEF Agreement, Known
<1>5. DoneIsDurable'
  BY <1>1, <1>2 DEF RegInv, DoneIsDurable
<1>6. NoGhostRun'
  BY <1>1, <1>3 DEF RegInv, NoGhostRun
<1>7. lock'.stage = "next" /\ lock'.op = "free"
  BY <1>1 DEF Free
<1> HIDE DEF u
<1> QED
  BY <1>1, <1>3, <1>4, <1>5, <1>6, <1>7, CallOver

\* An acknowledged outcome is the registry's; one that was not persisted is "failed".
LEMMA SettleEndReg ==
    ASSUME IndInv, RefOK, RegInv, NEW x \in Executor, SettleEnd(x)
    PROVE  RegInv'
<1> DEFINE u == lock.run
<1>1. /\ lock.op = "settle" /\ lock.stage # "next" /\ lock' = Free /\ lock.req.run = u
      /\ lock.req.attempt = attempt[u] /\ u \in Run /\ u \in Known
      /\ UNCHANGED <<wire, reg, reports, conn, attempt>>
  BY DEF SettleEnd, RegInv, CallOK, IndInv, LockOK, Known, envVars, regVars
<1>2. PICK s \in Outcome :
          /\ status' = [status EXCEPT ![u] = s]
          /\ \/ lock.stage = "ok" /\ s = lock.req.status /\ doubt' = doubt
             \/ s = "failed" /\ doubt' = doubt \cup {u}
  BY <1>1 DEF SettleEnd, Answered, Unsaved, Outcome, RefOK
<1>3. status'[u] = s /\ \A r \in Run \ {u} : status'[r] = status[r]
  BY <1>1, <1>2 DEF IndInv, TypeOK
<1>4. Known' = Known
  BY <1>1, <1>3 DEF Known, Outcome
<1>5. Agreement'
  <2>1. u \notin doubt' => reg[u] = [status |-> s, attempt |-> attempt[u]]
    BY <1>1, <1>2 DEF RegInv, UnderWayOK
  <2>2. \A r \in Known \ doubt : r # u => reg[r] = [status |-> status[r], attempt |-> attempt[r]]
    BY <1>1 DEF RegInv, Agreement
  <2> QED
    BY <1>1, <1>2, <1>3, <1>4, <2>1, <2>2 DEF Agreement, Known
<1>6. DoneIsDurable'
  <2>1. s = "done" => \/ reg[u] = [status |-> "done", attempt |-> attempt[u]]
                      \/ reg[u].attempt > attempt[u]
    BY <1>1, <1>2 DEF RegInv, DoneAnswered
  <2> QED
    BY <1>1, <1>3, <2>1 DEF RegInv, DoneIsDurable
<1>7. NoGhostRun'
  BY <1>1, <1>4 DEF RegInv, NoGhostRun
<1>8. lock'.stage = "next" /\ lock'.op = "free"
  BY <1>1 DEF Free
<1>9. lock.stage = "sent" => u \in doubt'
  BY <1>2
<1>10. doubt \subseteq doubt'
  BY <1>2
<1> HIDE DEF u
<1> QED
  BY <1>1, <1>4, <1>5, <1>6, <1>7, <1>8, <1>9, <1>10, CallOver

\* A call that failed leaves its run in doubt.  create fails with the connection, or is
\* refused and has left nothing.
LEMMA OpFailsReg ==
    ASSUME IndInv, RegInv, NEW t \in Thread, OpFails(t)
    PROVE  RegInv'
<1>1. /\ lock.stage # "next" /\ lock' = Free
      /\ doubt' = doubt \cup {lock.req.run}
      /\ lock.op = "spawn" => ~conn \/ lock.stage = "refused"
      /\ UNCHANGED <<wire, reg, reports, conn, status, attempt>>
  BY DEF OpFails, CallFailed, goVars, envVars, regVars
<1>2. Known' = Known
  BY <1>1 DEF Known
<1>3. lock'.stage = "next" /\ lock'.op = "free"
  BY <1>1 DEF Free
<1>4. Agreement' /\ DoneIsDurable'
  BY <1>1, <1>2, <1>3 DEF RegInv, Agreement, DoneIsDurable, Known
<1>5. NoGhostRun'
  BY <1>1, <1>2 DEF RegInv, NoGhostRun, UnderWayOK
<1> QED
  BY <1>1, <1>2, <1>3, <1>4, <1>5, CallOver

LEMMA HaltAppliedReg ==
    ASSUME IndInv, RefOK, RegInv, HaltApplied
    PROVE  RegInv'
<1> DEFINE u == lock.req.run
<1>1. /\ lock.op \in {"stop", "interrupt"} /\ lock.stage = "ok"
      /\ lock.req.status = Aim /\ lock.req.attempt = attempt[u] /\ u \in Run /\ u \in Known
      /\ UNCHANGED <<wire, reg, reports, conn, attempt, doubt>>
  BY DEF HaltApplied, Answered, RegInv, CallOK, IndInv, LockOK, Known, envVars, regVars
<1>2. status'[u] = Aim /\ \A r \in Run \ {u} : status'[r] = status[r]
  BY <1>1 DEF HaltApplied, IndInv, TypeOK
<1>3. Known' = Known
  BY <1>1, <1>2 DEF Known, Aim
<1>4. lock'.stage = "next" /\ lock'.op = lock.op
  BY DEF HaltApplied, HaltMark, IndInv, TypeOK
<1>5. Agreement'
  <2>1. u \notin doubt => reg[u] = [status |-> Aim, attempt |-> attempt[u]]
    BY <1>1 DEF RegInv, UnderWayOK
  <2>2. \A r \in Known \ doubt : r # u => reg[r] = [status |-> status[r], attempt |-> attempt[r]]
    BY <1>1 DEF RegInv, Agreement
  <2> QED
    BY <1>1, <1>2, <1>3, <2>1, <2>2 DEF Agreement, Known
<1>6. DoneIsDurable'
  BY <1>1, <1>2 DEF RegInv, DoneIsDurable, Aim
<1>7. NoGhostRun'
  BY <1>1, <1>3 DEF RegInv, NoGhostRun
<1> HIDE DEF u
<1> QED
  BY <1>1, <1>3, <1>4, <1>5, <1>6, <1>7, CallOver

LEMMA InterruptUnsavedReg ==
    ASSUME IndInv, RefOK, RegInv, InterruptUnsaved
    PROVE  RegInv'
<1> DEFINE u == lock.req.run
<1>1. /\ lock.op = "interrupt" /\ lock.stage # "next" /\ u \in Run /\ u \in Known
      /\ doubt' = doubt \cup {u}
      /\ UNCHANGED <<wire, reg, reports, conn, attempt>>
  BY DEF InterruptUnsaved, CallFailed, IndInv, LockOK, Known, envVars, regVars
<1>2. status'[u] = "interrupted" /\ \A r \in Run \ {u} : status'[r] = status[r]
  BY <1>1 DEF InterruptUnsaved, IndInv, TypeOK
<1>3. Known' = Known
  BY <1>1, <1>2 DEF Known
<1>4. lock'.stage = "next" /\ lock'.op = lock.op
  BY DEF InterruptUnsaved, HaltMark, IndInv, TypeOK
<1>5. Agreement' /\ DoneIsDurable'
  BY <1>1, <1>2, <1>3 DEF RegInv, Agreement, DoneIsDurable, Known
<1>6. NoGhostRun'
  BY <1>1, <1>3 DEF RegInv, NoGhostRun
<1>7. lock.req.run \in doubt' /\ doubt \subseteq doubt'
  BY <1>1
<1> HIDE DEF u
<1> QED
  BY <1>7, <1>1, <1>3, <1>4, <1>5, <1>6, CallOver

-----------------------------------------------------------------------------
(* The registry answers *)

\* Whatever the registry does with a request, the other requests keep their place: at
\* most one is the request of the lock, and a create is alone with its run.
LEMMA ReplyReg ==
    ASSUME IndInv, RegInv, NEW m \in wire, NEW answer \in {"ok", "refused"}, Reply(m, answer),
           UNCHANGED <<status, attempt, conn>>, doubt \subseteq doubt',
           \A r \in Run \ {m.run} : reg'[r] = reg[r]
    PROVE  /\ CallOK' /\ WireOK'
           /\ Known' = Known /\ lock'.op = lock.op /\ lock'.run = lock.run /\ lock'.req = lock.req
           /\ \/ lock' = lock /\ ~(conn /\ lock.req = m /\ lock.stage = "sent")
              \/ conn /\ lock.req = m /\ lock.stage = "sent" /\ lock'.stage = answer
<1>1. /\ Known' = Known /\ lock'.op = lock.op /\ lock'.run = lock.run /\ lock'.req = lock.req
      /\ wire' = wire \ {m}
      /\ \/ lock' = lock /\ ~(conn /\ lock.req = m /\ lock.stage = "sent")
         \/ conn /\ lock.req = m /\ lock.stage = "sent" /\ lock'.stage = answer
  BY DEF Reply, Known, IndInv, TypeOK
<1>2. CallOK'
  BY <1>1 DEF RegInv, CallOK, Aim
<1>3. WireOK'
  <2>1. \A n \in wire' : n.run \in doubt' \/ (lock'.stage = "sent" /\ lock'.req = n)
    BY <1>1 DEF RegInv, WireOK
  <2>2. \A n \in wire' : ~n.make => n.run \in Known'
    BY <1>1 DEF RegInv, WireOK
  <2>3. ASSUME NEW n \in wire', n.make
        PROVE  /\ n.status = "running" /\ n.attempt = 1 /\ ~n.report
               /\ n.run \notin Known' /\ reg'[n.run].status = "absent"
               /\ conn => lock'.op = "spawn" /\ lock'.stage = "sent" /\ lock'.req = n
               /\ \A p \in wire' : p.run = n.run => p = n
    <3>1. n \in wire /\ n # m /\ n.run \in Run
      BY <1>1, <2>3, CallType
    <3>2. /\ n.status = "running" /\ n.attempt = 1 /\ ~n.report
          /\ n.run \notin Known /\ reg[n.run].status = "absent"
          /\ conn => lock.op = "spawn" /\ lock.stage = "sent" /\ lock.req = n
          /\ \A p \in wire : p.run = n.run => p = n
      BY <2>3, <3>1 DEF RegInv, WireOK
    <3>3. reg'[n.run] = reg[n.run]
      BY <3>1, <3>2
    <3> QED
      BY <1>1, <3>1, <3>2, <3>3
  <2>4. lock'.op = "spawn" => \A n \in wire' : n.run = lock'.run => n = lock'.req
    BY <1>1 DEF RegInv, WireOK
  <2> QED
    BY <2>1, <2>2, <2>3, <2>4 DEF WireOK
<1> QED
  BY <1>1, <1>2, <1>3

\* A path that is taken stays taken: a report that replaces another has its path.
LEMMA PathStays ==
    ASSUME NEW m, NEW n, reports' = reports \/ reports' = Written(m), PathTaken(n),
           info' = info
    PROVE  PathTaken(n)'
<1>1. PICK f \in reports : SamePath(f, ReportFile(n))
  BY DEF PathTaken
<1>2. \E g \in reports' : SamePath(g, ReportFile(n))
  BY <1>1 DEF Written, SamePath
<1> QED
  BY <1>2 DEF PathTaken, SamePath, ReportFile

LEMMA RegRefuseReg ==
    ASSUME IndInv, RefOK, RegInv, NEW m \in wire, RegRefuse(m)
    PROVE  RegInv'
<1>1. /\ Reply(m, "refused") /\ ~Accepts(m)
      /\ UNCHANGED <<status, attempt, info, conn, reg, reports, doubt>>
  BY DEF RegRefuse, goVars, envVars, regVars
<1>2. /\ CallOK' /\ WireOK'
      /\ Known' = Known /\ lock'.op = lock.op /\ lock'.run = lock.run /\ lock'.req = lock.req
      /\ \/ lock' = lock /\ ~(conn /\ lock.req = m /\ lock.stage = "sent")
         \/ conn /\ lock.req = m /\ lock.stage = "sent" /\ lock'.stage = "refused"
  BY <1>1, ReplyReg
<1>3. UnderWayOK' /\ DoneAnswered' /\ DoneIsDurable' /\ NoGhostRun'
  BY <1>1, <1>2 DEF RegInv, UnderWayOK, DoneAnswered, DoneIsDurable, NoGhostRun, Recorded
<1>4. ASSUME conn, lock.req = m, lock.stage = "sent", m.run \notin doubt
      PROVE  reg[m.run] = Recorded(m.run) /\ (Reporting(m) /\ PathTaken(m))
  <2>1. m.run \in Run /\ m.run \in Known /\ lock.op # "free" /\ lock.op # "spawn" /\ ~m.make
    BY <1>1, <1>4 DEF RegInv, CallOK, WireOK, Accepts, Known
  <2>2. reg[m.run] = Recorded(m.run)
    BY <1>4, <2>1 DEF RegInv, UnderWayOK
  <2>3. Allowed(Recorded(m.run), m)
    <3>1. CASE lock.op = "pause"
      BY <1>4, <3>1 DEF RegInv, CallOK, RefOK, Allowed, Recorded
    <3>2. CASE lock.op = "settle"
      BY <1>4, <3>2 DEF RegInv, CallOK, RefOK, Allowed, Recorded, Outcome
    <3>3. CASE lock.op = "resume"
      BY <1>4, <3>3 DEF RegInv, CallOK, RefOK, Allowed, Recorded, Settled, Terminal
    <3>4. CASE lock.op \in {"stop", "interrupt"}
      <4>1. status[m.run] \in {"running", "paused", "blocked"}
        BY <1>4, <2>1, <3>4 DEF RefOK, IndInv, TypeOK, Status, Settled, Terminal, Known
      <4>2. m.status \in {"stopped", "interrupted"} /\ m.attempt = attempt[m.run]
        BY <1>4, <3>4 DEF RegInv, CallOK, Aim
      <4> QED
        BY <4>1, <4>2 DEF Allowed, Recorded
    <3> QED
      BY <2>1, <3>1, <3>2, <3>3, <3>4 DEF IndInv, TypeOK
  <2> QED
    BY <1>1, <2>2, <2>3 DEF Accepts
<1>5. RefusalExplained'
  BY <1>1, <1>2, <1>4 DEF RegInv, RefusalExplained, Reporting, PathTaken, SamePath, ReportFile
<1>6. Agreement'
  BY <1>1, <1>2, <1>4 DEF RegInv, Agreement, Recorded, Known
<1> QED
  BY <1>2, <1>3, <1>5, <1>6 DEF RegInv

\* A request in doubt may be applied late: it does not touch a run whose calls all
\* came back, and from "done" the transition table leads to a later attempt only.
LEMMA RegApplyReg ==
    ASSUME IndInv, RegInv, NEW m \in wire, RegApply(m)
    PROVE  RegInv'
<1>1. /\ Reply(m, "ok") /\ Accepts(m) /\ m.run \in Run
      /\ reg'[m.run] = [status |-> m.status, attempt |-> m.attempt]
      /\ \A r \in Run \ {m.run} : reg'[r] = reg[r]
      /\ reports' = Written(m)
      /\ UNCHANGED <<status, attempt, info, conn, doubt>>
  BY CallType DEF RegApply, goVars, envVars, IndInv, TypeOK
<1>2. /\ CallOK' /\ WireOK'
      /\ Known' = Known /\ lock'.op = lock.op /\ lock'.run = lock.run /\ lock'.req = lock.req
      /\ \/ lock' = lock /\ ~(conn /\ lock.req = m /\ lock.stage = "sent")
         \/ conn /\ lock.req = m /\ lock.stage = "sent" /\ lock'.stage = "ok"
  BY <1>1, ReplyReg
<1>3. m.run \in doubt \/ (lock.stage = "sent" /\ lock.req = m)
  BY DEF RegInv, WireOK
<1>4. lock.stage # "next" => lock.req.run \in Run
  BY CallType
<1>5. m.run \in Known =>
         \/ m.attempt = reg[m.run].attempt /\ reg[m.run].status # "done"
         \/ m.attempt = reg[m.run].attempt + 1
  BY <1>1 DEF RegInv, WireOK, Accepts, Allowed
<1>6. UnderWayOK'
  <2>1. conn /\ lock'.stage = "sent" /\ lock.op # "spawn" /\ lock.req.run \notin doubt =>
           reg'[lock.req.run] = Recorded(lock.req.run)
    BY <1>1, <1>2, <1>3, <1>4 DEF RegInv, UnderWayOK
  <2>2. lock'.stage = "ok" /\ lock.req.run \notin doubt =>
           reg'[lock.req.run] = [status |-> lock.req.status, attempt |-> lock.req.attempt]
    BY <1>1, <1>2, <1>3, <1>4 DEF RegInv, UnderWayOK
  <2>3. conn /\ lock.op = "spawn" /\ lock'.stage \in {"sent", "refused"} =>
           reg'[lock.run].status = "absent"
    <3>1. conn /\ lock.op = "spawn" /\ lock'.stage \in {"sent", "refused"} => m.run # lock.run
      BY <1>2 DEF RegInv, WireOK, CallOK
    <3>2. lock.op = "spawn" => lock.run \in Run
      BY CallType
    <3> QED
      BY <1>1, <1>2, <3>1, <3>2 DEF RegInv, UnderWayOK
  <2> QED
    BY <1>1, <1>2, <2>1, <2>2, <2>3 DEF UnderWayOK, Recorded
<1>7. DoneAnswered' /\ DoneIsDurable'
  <2>1. /\ reg[m.run].attempt \in Nat /\ m.attempt \in Nat
        /\ \A r \in Run : attempt[r] \in Nat
    BY <1>1, CallType DEF IndInv, TypeOK
  <2>2. ASSUME NEW r \in Known, \/ reg[r] = [status |-> "done", attempt |-> attempt[r]]
                                \/ reg[r].attempt > attempt[r]
        PROVE  \/ reg'[r] = [status |-> "done", attempt |-> attempt[r]]
               \/ reg'[r].attempt > attempt[r]
    BY <1>1, <1>5, <2>1, <2>2 DEF Known
  <2>3. DoneIsDurable'
    BY <1>1, <2>2 DEF RegInv, DoneIsDurable, Known
  <2>4. DoneAnswered'
    <3> SUFFICES ASSUME lock.op = "settle", lock'.stage = "ok", lock.req.status = "done"
                 PROVE  \/ reg'[lock.run] = [status |-> "done", attempt |-> attempt[lock.run]]
                        \/ reg'[lock.run].attempt > attempt[lock.run]
      BY <1>1, <1>2 DEF DoneAnswered
    <3>1. lock.run \in Known /\ lock.req.run = lock.run /\ lock.req.attempt = attempt[lock.run]
      BY <1>2, CallType DEF RegInv, CallOK
    <3>2. CASE lock.stage = "ok"
      BY <2>2, <3>1, <3>2 DEF RegInv, DoneAnswered
    <3>3. CASE lock.stage # "ok"
      BY <1>1, <1>2, <3>1, <3>3
    <3> QED
      BY <3>2, <3>3
  <2> QED
    BY <2>3, <2>4
<1>8. Agreement'
  BY <1>1, <1>2, <1>3 DEF RegInv, Agreement, Known
<1>9. NoGhostRun'
  <2>1. conn => m.run \in Known \/ (lock.op = "spawn" /\ lock.run = m.run)
    BY DEF RegInv, WireOK, CallOK
  <2> QED
    BY <1>1, <1>2, <2>1 DEF RegInv, NoGhostRun
<1>10. RefusalExplained'
  <2>1. lock'.stage = "refused" => lock.stage = "refused"
    BY <1>2
  <2> QED
    BY <1>1, <1>2, <2>1, PathStays DEF RegInv, RefusalExplained, Reporting
<1> QED
  BY <1>2, <1>6, <1>7, <1>8, <1>9, <1>10 DEF RegInv

LEMMA RegDiskErrorReg ==
    ASSUME IndInv, RegInv, NEW m \in wire, RegDiskError(m)
    PROVE  RegInv'
<1>1. /\ Reply(m, "refused")
      /\ reports' = reports \/ reports' = Written(m)
      /\ doubt' = doubt \cup {m.run}
      /\ UNCHANGED <<status, attempt, info, conn, reg>>
  BY DEF RegDiskError, goVars, envVars
<1>2. /\ CallOK' /\ WireOK'
      /\ Known' = Known /\ lock'.op = lock.op /\ lock'.run = lock.run /\ lock'.req = lock.req
      /\ \/ lock' = lock /\ ~(conn /\ lock.req = m /\ lock.stage = "sent")
         \/ conn /\ lock.req = m /\ lock.stage = "sent" /\ lock'.stage = "refused"
  BY <1>1, ReplyReg
<1>3. UnderWayOK' /\ DoneAnswered' /\ DoneIsDurable' /\ NoGhostRun'
  BY <1>1, <1>2 DEF RegInv, UnderWayOK, DoneAnswered, DoneIsDurable, NoGhostRun, Recorded
<1>4. Agreement'
  BY <1>1, <1>2 DEF RegInv, Agreement, Known
<1>5. RefusalExplained'
  <2>1. CASE lock.stage = "refused"
    BY <1>1, <1>2, <2>1, PathStays DEF RegInv, RefusalExplained, Reporting
  <2>2. CASE lock.stage # "refused"
    BY <1>1, <1>2, <2>2 DEF RefusalExplained
  <2> QED
    BY <2>1, <2>2
<1> QED
  BY <1>2, <1>3, <1>4, <1>5 DEF RegInv

\* Both processes start again: no run is known, no request under way, and no entry of
\* the registry was loaded as running.
LEMMA RestartReg ==
    ASSUME IndInv, RegInv, Restart
    PROVE  RegInv'
<1>1. /\ \A r \in Run : status'[r] = "absent" /\ reg'[r].status # "running"
      /\ lock' = Free /\ wire' = {}
  BY DEF Restart, Loaded, IndInv, TypeOK
<1>2. lock'.stage = "next" /\ lock'.op = "free"
  BY <1>1 DEF Free
<1>3. CallOK' /\ WireOK' /\ UnderWayOK' /\ DoneAnswered' /\ RefusalExplained'
  BY <1>1, <1>2 DEF CallOK, WireOK, UnderWayOK, DoneAnswered, RefusalExplained
<1>4. Agreement' /\ DoneIsDurable' /\ NoGhostRun'
  BY <1>1 DEF Agreement, DoneIsDurable, NoGhostRun, Known
<1> QED
  BY <1>3, <1>4 DEF RegInv

-----------------------------------------------------------------------------

LEMMA RegInit == Init => RegInv
<1> SUFFICES ASSUME Init PROVE RegInv
  OBVIOUS
<1>1. /\ \A r \in Run : status[r] = "absent" /\ reg[r].status = "absent"
      /\ lock.stage = "next" /\ lock.op = "free" /\ wire = {}
  BY DEF Init, Free
<1> QED
  BY <1>1 DEF RegInv, CallOK, WireOK, UnderWayOK, DoneAnswered, Agreement, DoneIsDurable,
     NoGhostRun, RefusalExplained, Known

\* Every step preserves RegInv.
LEMMA RegStep == IndInv /\ RefOK /\ RegInv /\ [Next]_vars => RegInv'
<1> SUFFICES ASSUME IndInv, RefOK, RegInv, [Next]_vars PROVE RegInv'
  OBVIOUS
<1>1. CASE UNCHANGED vars
  BY <1>1, Elsewhere DEF vars, goVars, envVars, regVars
<1>2. ASSUME NEW t \in Thread, Operation(t) PROVE RegInv'
  <2>1. CASE \E r \in Run, role \in {"planner", "worker"}, title \in Title : SpawnBegin(t, r, role, title)
    BY <2>1, SpawnBeginReg
  <2>2. CASE \E r \in Run : PauseBegin(t, r) \/ ResumeBegin(t, r)
    BY <2>2, PauseBeginReg, ResumeBeginReg
  <2>3. CASE SpawnEnd(t) \/ PauseEnd(t) \/ ResumeEnd(t) \/ OpFails(t)
    BY <2>3, SpawnEndReg, PauseEndReg, ResumeEndReg, OpFailsReg
  <2>4. CASE \E r \in Run : StopBegin(t, r)
    <3>1. /\ UNCHANGED <<status, attempt, wire, reg, reports, doubt, conn>>
          /\ lock.stage = "next" /\ lock'.stage = "next" /\ lock'.op = "stop"
      BY <2>4 DEF StopBegin, goVars, regVars, envVars, Free, Holding
    <3> QED
      BY <3>1, Between
  <2>5. CASE InterruptBegin(t)
    <3>1. /\ UNCHANGED <<status, attempt, wire, reg, reports, doubt, conn>>
          /\ lock.stage = "next" /\ lock'.stage = "next" /\ lock'.op = "interrupt"
      BY <2>5 DEF InterruptBegin, goVars, regVars, envVars, Free, Holding
    <3> QED
      BY <3>1, Between
  <2>6. CASE HaltEnd(t)
    <3>1. /\ UNCHANGED <<status, attempt, wire, reg, reports, doubt, conn>>
          /\ lock.stage = "next" /\ lock'.stage = "next" /\ lock'.op = "free"
      BY <2>6 DEF HaltEnd, goVars, regVars, envVars, Free
    <3> QED
      BY <3>1, Between
  <2>7. CASE \/ \E r \in Run : PauseAgain(t, r)
             \/ Joined(t)
             \/ \E S \in SUBSET Run : Wait(t, S)
             \/ WaitAgain(t)
             \/ WaitReturns(t)
    <3>1. UNCHANGED <<status, attempt, info, lock, wire, reg, reports, doubt, conn>>
      BY <2>7 DEF PauseAgain, Joined, Wait, WaitAgain, WaitReturns, goVars, regVars, envVars
    <3> QED
      BY <3>1, Elsewhere
  <2> QED
    BY <1>2, <2>1, <2>2, <2>3, <2>4, <2>5, <2>6, <2>7 DEF Operation
<1>3. ASSUME Halting PROVE RegInv'
  <2>1. CASE \E r \in Run : HaltCall(r)
    BY <2>1, HaltCallReg
  <2>2. CASE \E r \in Run : StopSkip(r)
    <3>1. /\ UNCHANGED <<status, attempt, wire, reg, reports, doubt, conn>>
          /\ lock.stage = "next" /\ lock'.stage = "next" /\ lock'.op = "stop"
      BY <2>2 DEF StopSkip, HaltMark, goVars, regVars, envVars, IndInv, TypeOK
    <3> QED
      BY <3>1, Between
  <2> QED
    BY <1>3, <2>1, <2>2, HaltAppliedReg, InterruptUnsavedReg DEF Halting
<1>4. ASSUME NEW x \in Executor, Execution(x) PROVE RegInv'
  <2>1. CASE Drain(x)
    <3>1. UNCHANGED <<status, attempt, info, lock, wire, reg, reports, doubt, conn>>
      BY <2>1 DEF Drain, goVars, regVars, envVars
    <3> QED
      BY <3>1, Elsewhere
  <2> QED
    BY <1>4, <2>1, SettleBeginReg, SettleEndReg DEF Execution
<1>5. ASSUME Registry PROVE RegInv'
  BY <1>5, RegApplyReg, RegRefuseReg, RegDiskErrorReg DEF Registry
<1>6. ASSUME Environment PROVE RegInv'
  <2>1. CASE Restart
    BY <2>1, RestartReg
  <2>2. CASE Disconnect \/ Shutdown \/ Drained \/ \E t \in Turns : CutTurn(t)
    <3>1. /\ UNCHANGED <<status, attempt, info, lock, wire, reg, reports, doubt>>
          /\ conn' => conn
      BY <2>2 DEF Disconnect, Shutdown, Drained, CutTurn, goVars, regVars, envVars
    <3> QED
      BY <3>1, Elsewhere
  <2> QED
    BY <1>6, <2>1, <2>2 DEF Environment
<1> QED
  BY <1>1, <1>2, <1>3, <1>4, <1>5, <1>6 DEF Next

LEMMA RegInductive == Spec => [](IndInv /\ RefOK /\ RegInv)
<1>1. Init => IndInv /\ RefOK /\ RegInv
  BY InitInv, RefInit, RegInit
<1>2. IndInv /\ RefOK /\ RegInv /\ [Next]_vars => (IndInv /\ RefOK /\ RegInv)'
  BY StepInv, RefStep, RegStep
<1> QED
  BY <1>1, <1>2, PTL DEF Spec

\* The registry and the run set agree on every run none of whose calls failed, whenever
\* no call about it is under way.
THEOREM RegistryAgrees == Spec => []Agreement
<1>1. RegInv => Agreement
  BY DEF RegInv
<1> QED
  BY <1>1, RegInductive, PTL

\* A run that is done for the run set is done in the registry, whatever calls were lost,
\* unless an abandoned resume took the registry to a later attempt.
THEOREM DoneStaysDurable == Spec => []DoneIsDurable
<1>1. RegInv => DoneIsDurable
  BY DEF RegInv
<1> QED
  BY <1>1, RegInductive, PTL

\* While the connection is up every running entry of the registry has its run.
THEOREM NoGhosts == Spec => []NoGhostRun
<1>1. RegInv => NoGhostRun
  BY DEF RegInv
<1> QED
  BY <1>1, RegInductive, PTL

\* The guards of the Go operations imply the registry's transition table: it refuses an
\* update only after a failed call, for a disk error, or for the name of a report.
THEOREM RefusalsExplained == Spec => []RefusalExplained
<1>1. RegInv => RefusalExplained
  BY DEF RegInv
<1> QED
  BY <1>1, RegInductive, PTL

\* A request the registry accepts puts its report beside the others.
LEMMA WrittenKeeps ==
    ASSUME WireOK, NEW m \in wire, Accepts(m)
    PROVE  reports \subseteq Written(m)
BY DEF WireOK, Accepts, Written, Reporting, PathTaken

\* No step removes a report file or writes over one: create never reports, an update with
\* a report is accepted only when its path is free, also in the crash between the report
\* and the meta.json.
THEOREM ReportsAreKept == Spec => ReportsWrittenOnce
<1>1. ASSUME RegInv, [Next]_vars
      PROVE  [reports \subseteq reports']_reports
  <2>1. WireOK
    BY <1>1 DEF RegInv
  <2>2. CASE Registry
    <3>1. PICK m \in wire : RegApply(m) \/ RegRefuse(m) \/ RegDiskError(m)
      BY <2>2 DEF Registry
    <3>2. reports' = reports \/ (Accepts(m) /\ reports' = Written(m))
      BY <3>1 DEF RegApply, RegRefuse, RegDiskError, regVars
    <3> QED
      BY <2>1, <3>2, WrittenKeeps
  <2>3. CASE Restart
    BY <2>1, <2>3, WrittenKeeps DEF Restart
  <2>4. CASE reports' = reports
    BY <2>4
  <2>5. ASSUME NEW t \in Thread, Operation(t)
        PROVE  reports' = reports
    BY <2>5 DEF Operation, SpawnBegin, SpawnEnd, PauseBegin, PauseAgain, PauseEnd, ResumeBegin,
       ResumeEnd, StopBegin, InterruptBegin, HaltEnd, OpFails, Joined, Wait, WaitAgain,
       WaitReturns, regVars
  <2>6. Halting \/ (\E x \in Executor : Execution(x)) \/ UNCHANGED vars => reports' = reports
    BY DEF Halting, Execution, HaltCall, StopSkip, HaltApplied, InterruptUnsaved, Drain,
       SettleBegin, SettleEnd, vars, regVars
  <2>7. Environment => Restart \/ reports' = reports
    BY DEF Environment, Disconnect, Shutdown, Drained, CutTurn, regVars
  <2> QED
    BY <1>1, <2>2, <2>3, <2>4, <2>5, <2>6, <2>7 DEF Next
<1> QED
  BY <1>1, RegInductive, PTL DEF Spec, ReportsWrittenOnce

-----------------------------------------------------------------------------
(* Whom a stop reaches, and who waits *)

\* A stop has left behind only terminal runs, and takes owners before the runs they own.
StopOK ==
    lock.op = "stop" =>
        /\ lock.todo \subseteq Descendants(lock.run)
        /\ \A d \in Descendants(lock.run) \ lock.todo : status[d] \in Terminal
        /\ lock.stage # "next" =>
              lock.req.run \in lock.todo /\ info[lock.req.run].parent \notin lock.todo

\* Who stops a run or waits for it owns it: the parent's executor or a turn (ownedLocked).
CallerOK ==
    /\ lock.op \in {"spawn", "stop"} =>
          lock.by \in Turns \cup Executor /\ info[lock.run].parent = Owner(lock.by)
    /\ \A t \in Thread : at[t] \in {"wait", "woken"} =>
          /\ t \in Turns \cup Executor
          /\ \A r \in waits[t] : r \in Known /\ info[r].parent = Owner(t)

ReachInv == StopOK /\ CallerOK

\* Who is parked has something to wait for, or is cancelled; interrupt signals at its end.
WaitersOK ==
    \A t \in Thread \ cut : at[t] = "wait" =>
        lock.op = "interrupt" \/ \E r \in waits[t] : status[r] \notin Settled

\* A run is below itself, and what a run below owns is below.
LEMMA BelowClosed ==
    ASSUME NEW r \in Known
    PROVE  /\ r \in Descendants(r)
           /\ \A d \in Known : info[d].parent \in Descendants(r) => d \in Descendants(r)
BY DEF Descendants

\* Whatever else is below a run has its owner below that run.
LEMMA BelowOwned ==
    ASSUME NEW r \in Known, NEW d \in Descendants(r), d # r
    PROVE  info[d].parent \in Descendants(r)
<1> SUFFICES ASSUME info[d].parent \notin Descendants(r) PROVE FALSE
  OBVIOUS
<1>1. PICK S : S = Descendants(r) \ {d}
  OBVIOUS
<1>2. S \in SUBSET Known /\ r \in S /\ d \notin S
  BY <1>1, BelowClosed DEF Descendants
<1>3. \A c \in Known : info[c].parent \in S => c \in S
  BY <1>1, BelowClosed
<1>4. d \in S
  <2>1. \A T \in SUBSET Known :
            (r \in T /\ \A c \in Known : info[c].parent \in T => c \in T) => d \in T
    BY DEF Descendants
  <2> QED
    BY <2>1, <1>2, <1>3
<1> QED
  BY <1>2, <1>4

\* While nothing is known of a run that was not known before, nothing moves below.
LEMMA BelowSame ==
    ASSUME status' = status, info' = info, NEW r
    PROVE  Descendants(r)' = Descendants(r)
BY DEF Descendants, Known

\* A stop that waits for its answer, or is not a stop, is as it was.
LEMMA StopSame ==
    ASSUME StopOK, UNCHANGED <<status, info>>, lock'.op = lock.op, lock'.run = lock.run,
           lock'.todo = lock.todo, lock'.stage # "next" => lock.stage # "next",
           lock'.req = lock.req
    PROVE  StopOK'
<1>1. \A r : Descendants(r)' = Descendants(r)
  BY BelowSame
<1> QED
  BY <1>1 DEF StopOK

LEMMA StopBeginReach ==
    ASSUME IndInv, NEW t \in Thread, NEW r \in Run, StopBegin(t, r)
    PROVE  StopOK'
<1>1. lock' = Holding("stop", t, r, Descendants(r)) /\ UNCHANGED <<status, info>>
  BY DEF StopBegin, goVars
<1>2. lock'.run = r /\ lock'.todo = Descendants(r) /\ lock'.stage = "next"
  BY <1>1 DEF Holding
<1>3. Descendants(r)' = Descendants(r)
  BY <1>1, BelowSame
<1> QED
  BY <1>2, <1>3 DEF StopOK

LEMMA HaltCallReach ==
    ASSUME IndInv, StopOK, NEW r \in Run, HaltCall(r)
    PROVE  StopOK'
<1>1. PICK m : m.run = r /\ lock' = [lock EXCEPT !.stage = "sent", !.req = m]
  BY DEF HaltCall, Send, Message
<1>2. /\ lock'.op = lock.op /\ lock'.run = lock.run /\ lock'.todo = lock.todo /\ lock'.req = m
      /\ UNCHANGED <<status, info>> /\ (lock.op = "stop" => Foremost(r))
  BY <1>1 DEF HaltCall, goVars, IndInv, TypeOK
<1>3. \A d : Descendants(d)' = Descendants(d)
  BY <1>2, BelowSame
<1> QED
  BY <1>1, <1>2, <1>3 DEF StopOK, Foremost

\* A run leaves the list of a stop when it is terminal: it was, or the stop made it.
LEMMA HaltMarkReach ==
    ASSUME IndInv, StopOK, NEW r \in Known, HaltMark(r), info' = info,
           lock.op = "stop" => status'[r] \in Terminal,
           \A d \in Run \ {r} : status'[d] = status[d]
    PROVE  StopOK'
<1> SUFFICES ASSUME lock.op = "stop" PROVE StopOK'
  BY DEF HaltMark, StopOK, IndInv, TypeOK
<1>1. /\ lock'.op = "stop" /\ lock'.run = lock.run /\ lock'.todo = lock.todo \ {r}
      /\ lock'.stage = "next"
  BY DEF HaltMark, IndInv, TypeOK
<1>2. Known' = Known
  BY DEF Known, Terminal
<1>3. \A d : Descendants(d)' = Descendants(d)
  BY <1>2 DEF Descendants
<1>4. \A d \in Descendants(lock.run) \ lock'.todo : status'[d] \in Terminal
  BY <1>1 DEF StopOK, Descendants, Known
<1> QED
  BY <1>1, <1>3, <1>4 DEF StopOK

\* A step that makes nobody wait, and leaves to the holder of the lock what it has.
LEMMA CallerKeeps ==
    ASSUME CallerOK, info' = info, Known \subseteq Known',
           \/ lock'.op \notin {"spawn", "stop"}
           \/ lock'.op = lock.op /\ lock'.by = lock.by /\ lock'.run = lock.run,
           \A t \in Thread : at'[t] \in {"wait", "woken"} =>
               at[t] \in {"wait", "woken"} /\ waits'[t] = waits[t]
    PROVE  CallerOK'
BY DEF CallerOK, Owner

LEMMA SpawnBeginReach ==
    ASSUME IndInv, CallerOK, NEW t \in Thread, NEW r \in Run,
           NEW role \in {"planner", "worker"}, NEW title \in Title, SpawnBegin(t, r, role, title)
    PROVE  StopOK' /\ CallerOK'
<1>1. PICK m : m.run = r /\ lock' = [Holding("spawn", t, r, {}) EXCEPT !.stage = "sent", !.req = m]
  BY DEF SpawnBegin, Send, Message
<1>2. /\ lock'.op = "spawn" /\ lock'.by = t /\ lock'.run = r
      /\ t \in Turns \cup Executor /\ r \notin Known
      /\ info'[r].parent = Owner(t) /\ \A d \in Run \ {r} : info'[d] = info[d]
      /\ at' = [at EXCEPT ![t] = "lock"] /\ waits' = waits /\ status' = status
  BY <1>1 DEF Holding, SpawnBegin, CanCall, IndInv, TypeOK
<1>3. \A u \in Thread : at'[u] \in {"wait", "woken"} => at[u] \in {"wait", "woken"}
  BY <1>2 DEF IndInv, TypeOK
<1>4. \A u \in Thread : at'[u] \in {"wait", "woken"} =>
          /\ u \in Turns \cup Executor
          /\ \A d \in waits[u] : d \in Known /\ info'[d].parent = Owner(u)
  BY <1>2, <1>3 DEF CallerOK, Known
<1> QED
  BY <1>2, <1>4 DEF StopOK, CallerOK, Known, Owner

LEMMA SpawnEndReach ==
    ASSUME IndInv, CallerOK, NEW t \in Thread, SpawnEnd(t)
    PROVE  StopOK' /\ CallerOK'
<1>1. /\ lock' = Free /\ lock'.op = "free" /\ info' = info
      /\ t \in Turns \cup Executor /\ info[lock.run].parent = Owner(t)
      /\ lock.run \in Run
  BY DEF SpawnEnd, CallerOK, Free, IndInv, LockOK
<1>2. Known' = Known \cup {lock.run}
  BY <1>1 DEF SpawnEnd, Start, Known, IndInv, TypeOK
<1>3. \A u \in Thread : at'[u] \in {"wait", "woken"} =>
          \/ at[u] \in {"wait", "woken"} /\ waits'[u] = waits[u]
          \/ u = t /\ waits'[u] = {lock.run}
  BY DEF SpawnEnd, Started, SignalLocked, IndInv, TypeOK
<1>4. \A u \in Thread : at'[u] \in {"wait", "woken"} =>
          /\ u \in Turns \cup Executor
          /\ \A d \in waits'[u] : d \in Known' /\ info[d].parent = Owner(u)
  BY <1>1, <1>2, <1>3 DEF CallerOK
<1> QED
  BY <1>1, <1>4 DEF StopOK, CallerOK, Owner

LEMMA WaitReach ==
    ASSUME IndInv, CallerOK, NEW t \in Thread, NEW S \in SUBSET Run, Wait(t, S)
    PROVE  StopOK' /\ CallerOK'
<1>1. /\ lock'.op = "free" /\ info' = info /\ status' = status
      /\ t \in Turns \cup Executor /\ \A r \in S : r \in Known /\ info[r].parent = Owner(t)
      /\ waits'[t] = S
      /\ \A u \in Thread \ {t} : at'[u] = at[u] /\ waits'[u] = waits[u]
  BY DEF Wait, Free, goVars, CanCall, Owned, IndInv, TypeOK
<1>2. Known' = Known
  BY <1>1 DEF Known
<1>3. \A u \in Thread : at'[u] \in {"wait", "woken"} =>
          /\ u \in Turns \cup Executor
          /\ \A d \in waits'[u] : d \in Known /\ info[d].parent = Owner(u)
  BY <1>1 DEF CallerOK
<1> QED
  BY <1>1, <1>2, <1>3 DEF StopOK, CallerOK, Owner

\* A call is made by the operation that holds the lock.
LEMMA SentBy ==
    ASSUME NEW op, NEW t, NEW u, NEW todo, NEW make, NEW r, NEW st, NEW a, NEW rep,
           Send(Holding(op, t, u, todo), make, r, st, a, rep)
    PROVE  lock'.op = op /\ lock'.by = t /\ lock'.run = u
<1>1. PICK m : lock' = [Holding(op, t, u, todo) EXCEPT !.stage = "sent", !.req = m]
  BY DEF Send
<1> QED
  BY <1>1 DEF Holding

\* The other steps of a thread end its stop or are none, and make nobody wait anew.
LEMMA OperationReach ==
    ASSUME IndInv, ReachInv, NEW t \in Thread, Operation(t)
    PROVE  ReachInv'
<1> USE DEF ReachInv
<1>1. CASE \/ \E r \in Run, role \in {"planner", "worker"}, title \in Title : SpawnBegin(t, r, role, title)
           \/ SpawnEnd(t)
           \/ \E S \in SUBSET Run : Wait(t, S)
  BY <1>1, SpawnBeginReach, SpawnEndReach, WaitReach
<1>2. CASE \E r \in Run : StopBegin(t, r)
  <2>1. PICK r \in Run : StopBegin(t, r)
    BY <1>2
  <2>2. /\ lock'.op = "stop" /\ lock'.by = t /\ lock'.run = r /\ t \in Turns \cup Executor
        /\ info[r].parent = Owner(t) /\ Known' = Known
        /\ UNCHANGED <<info, waits>> /\ at' = [at EXCEPT ![t] = "lock"]
    BY <2>1 DEF StopBegin, Holding, CanCall, Owned, Known, goVars
  <2>3. \A u \in Thread : at'[u] \in {"wait", "woken"} => at[u] \in {"wait", "woken"}
    BY <2>2 DEF IndInv, TypeOK
  <2> QED
    BY <2>1, <2>2, <2>3, StopBeginReach DEF CallerOK, Owner
<1>3. CASE (\E r \in Run : PauseBegin(t, r) \/ ResumeBegin(t, r)) \/ InterruptBegin(t)
  <2>1. /\ lock'.op \in {"pause", "resume", "interrupt"} /\ at' = [at EXCEPT ![t] = "lock"]
        /\ UNCHANGED <<info, waits, status>>
    <3>1. CASE \E r \in Run : PauseBegin(t, r)
      BY <3>1, SentBy DEF PauseBegin, goVars
    <3>2. CASE \E r \in Run : ResumeBegin(t, r)
      BY <3>2, SentBy DEF ResumeBegin, goVars
    <3>3. CASE InterruptBegin(t)
      BY <3>3 DEF InterruptBegin, Holding, goVars
    <3> QED
      BY <1>3, <3>1, <3>2, <3>3
  <2>2. \A u \in Thread : at'[u] \in {"wait", "woken"} => at[u] \in {"wait", "woken"}
    BY <2>1 DEF IndInv, TypeOK
  <2> QED
    BY <2>1, <2>2, CallerKeeps DEF StopOK, Known
<1>4. CASE PauseEnd(t) \/ ResumeEnd(t) \/ HaltEnd(t) \/ OpFails(t)
  <2>1. lock'.op = "free" /\ UNCHANGED <<info, waits>>
    BY <1>4 DEF PauseEnd, ResumeEnd, HaltEnd, OpFails, Free, goVars
  <2>2. \A u \in Thread : at'[u] \in {"wait", "woken"} => at[u] \in {"wait", "woken"}
    BY <1>4 DEF PauseEnd, ResumeEnd, HaltEnd, OpFails, Started, SignalLocked, IndInv, TypeOK
  <2>3. Known \subseteq Known'
    BY <1>4 DEF PauseEnd, ResumeEnd, HaltEnd, OpFails, Start, goVars, Known, IndInv, TypeOK
  <2> QED
    BY <2>1, <2>2, <2>3, CallerKeeps DEF StopOK
<1>5. CASE (\E r \in Run : PauseAgain(t, r)) \/ Joined(t) \/ WaitAgain(t) \/ WaitReturns(t)
  <2>1. UNCHANGED <<info, status, lock>>
    BY <1>5 DEF PauseAgain, Joined, WaitAgain, WaitReturns, goVars
  <2>2. \A u \in Thread : at'[u] \in {"wait", "woken"} =>
            at[u] \in {"wait", "woken"} /\ waits'[u] = waits[u]
    BY <1>5 DEF PauseAgain, Joined, WaitAgain, WaitReturns, IndInv, TypeOK
  <2> QED
    BY <2>1, <2>2, CallerKeeps, StopSame DEF Known
<1> QED
  BY <1>1, <1>2, <1>3, <1>4, <1>5 DEF Operation

LEMMA HaltingReach ==
    ASSUME IndInv, ReachInv, Halting
    PROVE  ReachInv'
<1>1. /\ UNCHANGED <<at, waits, info>>
      /\ lock'.op = lock.op /\ lock'.by = lock.by /\ lock'.run = lock.run
  <2>1. ASSUME NEW r \in Run, HaltCall(r)
        PROVE  lock'.op = lock.op /\ lock'.by = lock.by /\ lock'.run = lock.run
    <3>1. PICK m : lock' = [lock EXCEPT !.stage = "sent", !.req = m]
      BY <2>1 DEF HaltCall, Send
    <3> QED
      BY <3>1 DEF IndInv, TypeOK
  <2>2. ASSUME NEW r, HaltMark(r)
        PROVE  lock'.op = lock.op /\ lock'.by = lock.by /\ lock'.run = lock.run
    BY <2>2 DEF HaltMark, IndInv, TypeOK
  <2>3. UNCHANGED <<at, waits, info>>
    BY DEF Halting, HaltCall, StopSkip, HaltApplied, InterruptUnsaved, goVars, thrVars
  <2> QED
    BY <2>1, <2>2, <2>3 DEF Halting, StopSkip, HaltApplied, InterruptUnsaved
<1>2. Known \subseteq Known'
  BY DEF Halting, HaltCall, StopSkip, HaltApplied, InterruptUnsaved, goVars, Known, IndInv, TypeOK, Aim
<1>3. CallerOK'
  BY <1>1, <1>2, CallerKeeps DEF ReachInv
<1>4. StopOK'
  <2>1. CASE \E r \in Run : HaltCall(r)
    BY <2>1, HaltCallReach DEF ReachInv
  <2>2. CASE \E r \in Run : StopSkip(r)
    <3>1. PICK r \in Run : StopSkip(r)
      BY <2>2
    <3>2. r \in Known /\ HaltMark(r) /\ UNCHANGED <<status, info>> /\ status[r] \in Terminal
      BY <3>1 DEF StopSkip, Foremost, goVars, IndInv, LockOK
    <3> QED
      BY <3>2, HaltMarkReach DEF ReachInv
  <2>3. CASE HaltApplied
    <3>1. /\ lock.req.run \in Known /\ HaltMark(lock.req.run)
          /\ status' = [status EXCEPT ![lock.req.run] = Aim] /\ info' = info
      BY <2>3 DEF HaltApplied, Answered, IndInv, LockOK
    <3>2. /\ lock.op = "stop" => status'[lock.req.run] \in Terminal
          /\ \A d \in Run \ {lock.req.run} : status'[d] = status[d]
      BY <3>1 DEF Aim, Terminal, IndInv, TypeOK, Known
    <3> QED
      BY <3>1, <3>2, HaltMarkReach DEF ReachInv
  <2>4. CASE InterruptUnsaved
    BY <2>4, <1>1 DEF InterruptUnsaved, StopOK
  <2> QED
    BY <2>1, <2>2, <2>3, <2>4 DEF Halting
<1> QED
  BY <1>3, <1>4 DEF ReachInv

LEMMA ExecutionReach ==
    ASSUME IndInv, ReachInv, NEW x \in Executor, Execution(x)
    PROVE  ReachInv'
<1>1. /\ UNCHANGED <<info, waits>>
      /\ (lock' = lock /\ status' = status) \/ lock'.op \in {"settle", "free"}
  <2>1. CASE Drain(x) \/ SettleEnd(x)
    BY <2>1 DEF Drain, SettleEnd, Free
  <2>2. CASE \E out \in Outcome, report \in BOOLEAN : SettleBegin(x, out, report)
    BY <2>2, SentBy DEF SettleBegin
  <2> QED
    BY <2>1, <2>2 DEF Execution
<1>2. \A u \in Thread : at'[u] \in {"wait", "woken"} => at[u] \in {"wait", "woken"}
  BY DEF Execution, Drain, SettleBegin, SettleEnd, SignalLocked, IndInv, TypeOK
<1>3. Known \subseteq Known'
  <2>1. CASE SettleEnd(x)
    <3>1. lock.op = "settle" /\ (Answered => lock.stage # "next" /\ lock.req \in Request)
      BY <2>1 DEF SettleEnd, Answered, IndInv, LockOK
    <3>2. lock.req \in Request => lock.req.status \in Status
      BY DEF Request
    <3> QED
      BY <2>1, <3>1, <3>2 DEF SettleEnd, Unsaved, Known, IndInv, TypeOK, Status, Settled, Terminal
  <2> QED
    BY <2>1 DEF Execution, Drain, SettleBegin, Known
<1>4. CallerOK'
  BY <1>1, <1>2, <1>3, CallerKeeps DEF ReachInv
<1>5. StopOK'
  BY <1>1, StopSame DEF ReachInv, StopOK
<1> QED
  BY <1>4, <1>5 DEF ReachInv

LEMMA RegistryReach ==
    ASSUME IndInv, ReachInv, Registry
    PROVE  ReachInv'
<1>1. /\ UNCHANGED <<status, info, at, waits>>
      /\ lock'.op = lock.op /\ lock'.by = lock.by /\ lock'.run = lock.run /\ lock'.todo = lock.todo
      /\ lock'.req = lock.req /\ (lock.stage = "next" => lock'.stage = "next")
  BY DEF Registry, RegApply, RegRefuse, RegDiskError, Reply, goVars, thrVars, IndInv, TypeOK
<1> QED
  BY <1>1, StopSame, CallerKeeps DEF ReachInv, Known

LEMMA EnvironmentReach ==
    ASSUME IndInv, ReachInv, Environment
    PROVE  ReachInv'
<1>1. CASE Restart
  <2>1. lock'.op = "free" /\ \A t \in Thread : at'[t] \notin {"wait", "woken"}
    BY <1>1 DEF Restart, Free
  <2> QED
    BY <2>1 DEF ReachInv, StopOK, CallerOK
<1>2. CASE Disconnect \/ Shutdown \/ Drained \/ \E t \in Turns : CutTurn(t)
  <2>1. UNCHANGED <<status, info, lock, waits>>
    BY <1>2 DEF Disconnect, Shutdown, Drained, CutTurn, goVars
  <2>2. \A u \in Thread : at'[u] \in {"wait", "woken"} => at[u] \in {"wait", "woken"}
    BY <1>2 DEF Disconnect, Shutdown, Drained, CutTurn, IndInv, TypeOK
  <2> QED
    BY <2>1, <2>2, StopSame, CallerKeeps DEF ReachInv, Known
<1> QED
  BY <1>1, <1>2 DEF Environment

LEMMA ReachInductive == Spec => [](IndInv /\ ReachInv)
<1>1. Init => IndInv /\ ReachInv
  <2>1. Init => ReachInv
    BY DEF Init, Free, ReachInv, StopOK, CallerOK
  <2> QED
    BY <2>1, InitInv
<1>2. IndInv /\ ReachInv /\ [Next]_vars => (IndInv /\ ReachInv)'
  <2> SUFFICES ASSUME IndInv, ReachInv, [Next]_vars PROVE ReachInv'
    BY StepInv
  <2>1. CASE UNCHANGED vars
    BY <2>1, StopSame, CallerKeeps DEF ReachInv, vars, goVars, thrVars, Known
  <2> QED
    BY <2>1, OperationReach, HaltingReach, ExecutionReach, RegistryReach, EnvironmentReach DEF Next
<1> QED
  BY <1>1, <1>2, PTL DEF Spec

\* What a stop has passed - its target and everything below it, however deep - is
\* terminal, and the executor of such a run, if it has one, cancelled.
THEOREM StopReachesAll ==
    Spec => []( /\ StopReaches
                /\ lock.op = "stop" =>
                      \A d \in Descendants(lock.run) \ lock.todo :
                          status[d] \in Terminal /\ (d \in active => Current(d) \in cut))
<1>1. ASSUME IndInv, ReachInv
      PROVE  /\ StopReaches
             /\ lock.op = "stop" =>
                   \A d \in Descendants(lock.run) \ lock.todo :
                       status[d] \in Terminal /\ (d \in active => Current(d) \in cut)
  <2> SUFFICES ASSUME lock.op = "stop"
               PROVE  StopReaches /\ \A d \in Descendants(lock.run) \ lock.todo :
                          status[d] \in Terminal /\ (d \in active => Current(d) \in cut)
    BY <1>1 DEF StopReaches
  <2>1. ASSUME NEW d \in Descendants(lock.run) \ lock.todo
        PROVE  status[d] \in Terminal /\ (d \in active => Current(d) \in cut)
    BY <1>1, <2>1 DEF ReachInv, StopOK, IndInv, CancelReaches, Terminal
  <2>2. lock.run \in Known
    BY <1>1, CallType
  <2>3. \A d \in Known : d = lock.run \/ info[d].parent = lock.run => d \in Descendants(lock.run)
    BY <2>2, BelowClosed
  <2> QED
    BY <2>1, <2>3 DEF StopReaches
<1> QED
  BY <1>1, ReachInductive, PTL

-----------------------------------------------------------------------------
(* Nobody waits in vain *)

\* The session opens a turn when the turn before it is closed, and loop.run makes the
\* tool calls of a turn one after the other.
OneTurn == \A t, u \in Turns : t = u

\* A step that parks nobody, settles no run and takes no cancellation back.
LEMMA WaitersKeep ==
    ASSUME WaitersOK, status' = status, lock.op = "interrupt" => lock'.op = "interrupt",
           \A t \in Thread : at'[t] = "wait" =>
               at[t] = "wait" /\ waits'[t] = waits[t] /\ (t \in cut => t \in cut')
    PROVE  WaitersOK'
BY DEF WaitersOK

\* A step that closes the changed channel: every parked wait looks again.
LEMMA Signalled ==
    ASSUME \A t \in Thread : at'[t] # "wait"
    PROVE  WaitersOK'
BY DEF WaitersOK

LEMMA SignalLockedWakes ==
    ASSUME IndInv
    PROVE  /\ \A t \in Thread : SignalLocked(at)[t] # "wait"
           /\ \A u, v : v # "wait" => \A t \in Thread : [SignalLocked(at) EXCEPT ![u] = v][t] # "wait"
BY DEF SignalLocked

\* An executor runs its run; whoever else owns runs is "".
LEMMA OwnerOf ==
    ASSUME NEW t \in Thread
    PROVE  /\ t \in Executor => Owner(t) = t[1] /\ t[1] \in Run
           /\ t \notin Executor => Owner(t) = Top /\ Top \notin Run
<1>1. t \in Executor => t[1] \in Run
  BY DEF Executor
<1> QED
  BY <1>1, RunAssumption DEF Owner

\* Under the lock of a stop nobody but its caller owns the target, and whoever waits for
\* a run below it is the executor of a run the stop has passed, hence cancelled.
LEMMA StopSparesWaiters ==
    ASSUME OneTurn, IndInv, ReachInv, lock.op = "stop", lock.stage # "next",
           NEW t \in Thread, at[t] = "wait", lock.req.run \in waits[t]
    PROVE  t \in cut
<1> DEFINE d == lock.req.run
<1>1. /\ t \in Turns \cup Executor /\ d \in Known /\ info[d].parent = Owner(t)
      /\ lock.by \in Turns \cup Executor /\ info[lock.run].parent = Owner(lock.by)
      /\ lock.run \in Known /\ lock.by \in Thread /\ at[lock.by] = "lock"
  BY CallType DEF ReachInv, CallerOK, IndInv, LockOK
<1>2. d \in Descendants(lock.run) /\ info[d].parent \notin lock.todo
  BY DEF ReachInv, StopOK
<1>3. CASE d = lock.run
  <2>1. Owner(t) = Owner(lock.by)
    BY <1>1, <1>3
  <2>2. t # lock.by
    BY <1>1
  <2>3. t \in Executor /\ lock.by \in Executor
    <3>1. t \in Executor <=> lock.by \in Executor
      BY <1>1, <2>1, OwnerOf
    <3>2. ~(t \in Turns /\ lock.by \in Turns)
      BY <2>2 DEF OneTurn
    <3> QED
      BY <1>1, <3>1, <3>2
  <2>4. t[1] = lock.by[1]
    BY <1>1, <2>1, <2>3, OwnerOf
  <2>5. t = Current(t[1]) /\ lock.by = Current(lock.by[1])
    BY <1>1, <2>3 DEF IndInv, ExecOK, Live
  <2> QED
    BY <2>2, <2>4, <2>5
<1>4. CASE d # lock.run
  <2>1. info[d].parent \in Descendants(lock.run)
    BY <1>1, <1>2, <1>4, BelowOwned
  <2>2. Owner(t) \in Known /\ status[Owner(t)] \in Terminal
    BY <1>1, <1>2, <2>1 DEF ReachInv, StopOK, Descendants
  <2>3. t \in Executor /\ Owner(t) = t[1]
    BY <2>2, OwnerOf DEF Known
  <2>4. t = Current(t[1]) /\ t[1] \in active
    BY <1>1, <2>3 DEF IndInv, ExecOK, Live
  <2> QED
    BY <2>2, <2>3, <2>4 DEF IndInv, CancelReaches, Terminal
<1> QED
  BY <1>3, <1>4

LEMMA OperationWaiters ==
    ASSUME IndInv, WaitersOK, NEW t \in Thread, Operation(t)
    PROVE  WaitersOK'
<1>1. CASE SpawnEnd(t)
  <2>1. lock.run \in Run /\ status'[lock.run] = "running"
    BY <1>1 DEF SpawnEnd, Start, IndInv, LockOK, TypeOK
  <2>2. \A u \in Thread : at'[u] = "wait" => u = t /\ waits'[u] = {lock.run}
    BY <1>1, SignalLockedWakes DEF SpawnEnd, Started, SignalLocked, IndInv, TypeOK
  <2> QED
    BY <2>1, <2>2 DEF WaitersOK, Settled, Terminal
<1>2. CASE PauseEnd(t) \/ ResumeEnd(t) \/ HaltEnd(t)
  <2>1. \A u \in Thread : at'[u] # "wait"
    BY <1>2, SignalLockedWakes DEF PauseEnd, ResumeEnd, HaltEnd, Started, SignalLocked
  <2> QED
    BY <2>1, Signalled
<1>3. CASE (\E S \in SUBSET Run : Wait(t, S)) \/ WaitAgain(t)
  <2>1. /\ status' = status /\ cut' = cut /\ lock' = lock /\ lock.op = "free"
        /\ \E r \in waits'[t] : status[r] \notin Settled
        /\ \A u \in Thread \ {t} : at'[u] = at[u] /\ waits'[u] = waits[u]
    BY <1>3 DEF Wait, WaitAgain, goVars, Free, IndInv, TypeOK
  <2> QED
    BY <2>1 DEF WaitersOK
<1>4. CASE InterruptBegin(t)
  BY <1>4 DEF InterruptBegin, Holding, WaitersOK
<1>5. CASE \/ \E r \in Run, role \in {"planner", "worker"}, title \in Title : SpawnBegin(t, r, role, title)
           \/ \E r \in Run : PauseBegin(t, r) \/ PauseAgain(t, r) \/ ResumeBegin(t, r) \/ StopBegin(t, r)
           \/ OpFails(t) \/ Joined(t) \/ WaitReturns(t)
  <2>1. status' = status /\ (lock.op = "interrupt" => lock' = lock)
    <3>1. CASE OpFails(t) \/ Joined(t) \/ WaitReturns(t)
      BY <3>1 DEF OpFails, Joined, WaitReturns, goVars, Returning
    <3>2. CASE \E r \in Run : PauseBegin(t, r) \/ PauseAgain(t, r) \/ ResumeBegin(t, r) \/ StopBegin(t, r)
      <4>1. lock = Free /\ status' = status
        BY <3>2 DEF PauseBegin, PauseAgain, ResumeBegin, StopBegin, goVars
      <4> QED
        BY <4>1 DEF Free
    <3>3. CASE \E r \in Run, role \in {"planner", "worker"}, title \in Title : SpawnBegin(t, r, role, title)
      <4>1. lock = Free /\ status' = status
        BY <3>3 DEF SpawnBegin
      <4> QED
        BY <4>1 DEF Free
    <3> QED
      BY <1>5, <3>1, <3>2, <3>3
  <2>2. \A u \in Thread : at'[u] = "wait" => u # t /\ at[u] = "wait" /\ waits'[u] = waits[u]
    BY <1>5 DEF SpawnBegin, PauseBegin, PauseAgain, ResumeBegin, StopBegin, OpFails, Joined,
       WaitReturns, IndInv, TypeOK
  <2>3. \A u \in cut : u # t => u \in cut'
    BY <1>5 DEF SpawnBegin, PauseBegin, PauseAgain, ResumeBegin, StopBegin, OpFails, Joined,
       WaitReturns, Returned
  <2> QED
    BY <2>1, <2>2, <2>3, WaitersKeep
<1> QED
  BY <1>1, <1>2, <1>3, <1>4, <1>5 DEF Operation

LEMMA HaltingWaiters ==
    ASSUME OneTurn, IndInv, ReachInv, WaitersOK, Halting
    PROVE  WaitersOK'
<1>1. CASE lock.op = "interrupt"
  <2>1. lock'.op = "interrupt"
    BY <1>1 DEF Halting, HaltCall, StopSkip, HaltApplied, InterruptUnsaved, HaltMark, Send, IndInv, TypeOK
  <2> QED
    BY <2>1 DEF WaitersOK
<1>2. CASE \E r \in Run : HaltCall(r) \/ StopSkip(r)
  <2>1. /\ status' = status /\ at' = at /\ waits' = waits /\ cut \subseteq cut'
    BY <1>2 DEF HaltCall, StopSkip, HaltMark, goVars, thrVars
  <2> QED
    BY <1>1, <2>1, WaitersKeep
<1>3. CASE lock.op = "stop" /\ HaltApplied
  <2>1. /\ at' = at /\ waits' = waits /\ cut \subseteq cut' /\ lock.stage # "next"
        /\ \A r \in Run \ {lock.req.run} : status'[r] = status[r]
    BY <1>3, CallType DEF HaltApplied, Answered, HaltMark, IndInv, TypeOK
  <2>2. \A t \in Thread \ cut : at[t] = "wait" => lock.req.run \notin waits[t]
    BY <1>3, <2>1, StopSparesWaiters
  <2>3. \A t \in Thread : waits[t] \subseteq Run
    BY DEF IndInv, TypeOK
  <2> QED
    BY <1>3, <2>1, <2>2, <2>3 DEF WaitersOK
<1> QED
  BY <1>1, <1>2, <1>3 DEF Halting, HaltApplied, InterruptUnsaved

LEMMA ExecutionWaiters ==
    ASSUME IndInv, WaitersOK, NEW x \in Executor, Execution(x)
    PROVE  WaitersOK'
<1>1. CASE Drain(x) \/ SettleEnd(x)
  <2>1. \A u \in Thread : at'[u] # "wait"
    BY <1>1, SignalLockedWakes DEF Drain, SettleEnd, SignalLocked
  <2> QED
    BY <2>1, Signalled
<1>2. CASE \E out \in Outcome, report \in BOOLEAN : SettleBegin(x, out, report)
  <2>1. /\ status' = status /\ cut' = cut /\ waits' = waits /\ lock.op = "free"
        /\ at' = [at EXCEPT ![x] = "lock"]
    BY <1>2 DEF SettleBegin, Free
  <2>2. \A u \in Thread : at'[u] = "wait" => at[u] = "wait"
    BY <2>1 DEF IndInv, TypeOK
  <2> QED
    BY <2>1, <2>2, WaitersKeep
<1> QED
  BY <1>1, <1>2 DEF Execution

LEMMA OthersWaiters ==
    ASSUME IndInv, WaitersOK, Registry \/ Environment \/ UNCHANGED vars
    PROVE  WaitersOK'
<1>1. CASE Registry \/ UNCHANGED vars
  <2>1. status' = status /\ cut' = cut /\ waits' = waits /\ at' = at /\ lock'.op = lock.op
    BY <1>1 DEF Registry, RegApply, RegRefuse, RegDiskError, Reply, vars, goVars, thrVars, IndInv, TypeOK
  <2> QED
    BY <2>1, WaitersKeep
<1>2. CASE Restart
  BY <1>2, Signalled DEF Restart
<1>3. CASE Disconnect \/ Shutdown \/ Drained \/ \E t \in Turns : CutTurn(t)
  <2>1. status' = status /\ cut \subseteq cut' /\ waits' = waits /\ lock' = lock
    BY <1>3 DEF Disconnect, Shutdown, Drained, CutTurn, goVars
  <2>2. \A u \in Thread : at'[u] = "wait" => at[u] = "wait"
    BY <1>3 DEF Disconnect, Shutdown, Drained, CutTurn, IndInv, TypeOK
  <2> QED
    BY <2>1, <2>2, WaitersKeep
<1> QED
  BY <1>1, <1>2, <1>3 DEF Environment

\* With one turn at a time no settling is missed: who is parked in wait has a run that
\* has not settled, or a cancelled context - also when the calls of a stop fail.
THEOREM NoWakeupMissed ==
    ASSUME OneTurn
    PROVE  Spec => []NoMissedWakeup
<1>1. Init => WaitersOK
  BY DEF Init, WaitersOK
<1>2. IndInv /\ ReachInv /\ WaitersOK /\ [Next]_vars => WaitersOK'
  BY OperationWaiters, HaltingWaiters, ExecutionWaiters, OthersWaiters DEF Next
<1>3. WaitersOK => NoMissedWakeup
  BY DEF WaitersOK, NoMissedWakeup, Free
<1> QED
  BY <1>1, <1>2, <1>3, ReachInductive, PTL DEF Spec

=============================================================================
