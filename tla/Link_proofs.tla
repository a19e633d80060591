------------------------------ MODULE Link_proofs ------------------------------
(* Proofs about Link: however many calls are made, a call that waits has     *)
(* somebody to answer it; however many notices are sent, and in whatever     *)
(* order their tasks run, the listener delivers them in the order of Go.     *)
EXTENDS Link, FiniteSetTheorems, SequenceTheorems, WellFoundedInduction, TLAPS

WaitTypes ==
    /\ caller \in [Caller -> {"idle", "listed", "waiting", "late", "done"}]
    /\ waits \subseteq Caller
    /\ answer \in [Caller -> {"none", "result", "closed"}]
    /\ closed \in BOOLEAN
    /\ step \in [Closer -> {"idle", "drained", "dropped", "over"}]
    /\ owed \in [Closer -> SUBSET Caller]

\* A call that has left its wait is in somebody's hands from then on.
HeldFromTheStart ==
    \A c \in Caller : caller[c] \in {"listed", "waiting"} /\ answer[c] = "none" =>
        c \in waits \/ \E k \in Closer : c \in owed[k]

WaitsAreOpen ==
    \A c \in waits : caller[c] \in {"listed", "waiting", "late"} /\ answer[c] = "none"

ClosedIsEmpty == closed => waits = {}

\* An id is used once: nobody holds a wait of a call that has not begun.
Fresh ==
    \A c \in Caller : caller[c] = "idle" =>
        answer[c] = "none" /\ \A k \in Closer : c \notin owed[k]

\* close_shared takes the waits out of the map before it answers them.
TakenOut == \A k \in Closer : owed[k] \cap waits = {}

NotYetTaken == \A k \in Closer : step[k] = "idle" => owed[k] = {}

Held ==
    /\ WaitTypes
    /\ HeldFromTheStart
    /\ WaitsAreOpen
    /\ ClosedIsEmpty
    /\ Fresh
    /\ TakenOut
    /\ NotYetTaken

\* The calls, Go and dispatch() keep the waits in hand.
LEMMA CallKeepsHeld ==
    ASSUME Held, NEW c \in Caller, CallSteps(c)
    PROVE  Held'
<1>1. CASE Calls(c)
  BY <1>1 DEF Calls, MayCall, Held, WaitTypes, HeldFromTheStart, WaitsAreOpen, ClosedIsEmpty,
       Fresh, TakenOut, NotYetTaken, closeVars
<1>2. CASE Sends(c)
  BY <1>2 DEF Sends, Held, WaitTypes, HeldFromTheStart, WaitsAreOpen, ClosedIsEmpty,
       Fresh, TakenOut, NotYetTaken, closeVars
<1>3. CASE Returns(c) \/ TimesOut(c)
  BY <1>3 DEF Returns, TimesOut, Held, WaitTypes, HeldFromTheStart, WaitsAreOpen, ClosedIsEmpty,
       Fresh, TakenOut, NotYetTaken, closeVars
<1>4. CASE Forgets(c)
  BY <1>4 DEF Forgets, Held, WaitTypes, HeldFromTheStart, WaitsAreOpen, ClosedIsEmpty,
       Fresh, TakenOut, NotYetTaken, closeVars
<1>5. CASE GoHandles(c)
  BY <1>5 DEF GoHandles, Held, WaitTypes, HeldFromTheStart, WaitsAreOpen, ClosedIsEmpty,
       Fresh, TakenOut, NotYetTaken, closeVars
<1>6. CASE Dispatches(c)
  BY <1>6 DEF Dispatches, Held, WaitTypes, HeldFromTheStart, WaitsAreOpen, ClosedIsEmpty,
       Fresh, TakenOut, NotYetTaken, closeVars
<1> QED
  BY <1>1, <1>2, <1>3, <1>4, <1>5, <1>6 DEF CallSteps

\* So do the three steps of either close_shared.
LEMMA ClosingKeepsHeld ==
    ASSUME Held, NEW k \in Closer, DrainsWaits(k) \/ DropsSender(k) \/ AnswersWaits(k)
    PROVE  Held'
<1>1. CASE DrainsWaits(k)
  <2>1. owed[k] = {}
    BY <1>1 DEF DrainsWaits, Held, NotYetTaken
  <2>2. WaitTypes'
    BY <1>1 DEF DrainsWaits, Held, WaitTypes, callVars
  <2>3. owed'[k] = waits /\ \A j \in Closer : j # k => owed'[j] = owed[j]
    BY <1>1 DEF DrainsWaits, Held, WaitTypes
  <2>4. HeldFromTheStart'
    BY <1>1, <2>1, <2>3 DEF DrainsWaits, Held, HeldFromTheStart, callVars
  <2>5. Fresh'
    BY <1>1, <2>3 DEF DrainsWaits, Held, Fresh, WaitsAreOpen, callVars
  <2>6. WaitsAreOpen' /\ ClosedIsEmpty' /\ TakenOut'
    BY <1>1 DEF DrainsWaits, WaitsAreOpen, ClosedIsEmpty, TakenOut
  <2>7. NotYetTaken'
    BY <1>1, <2>3 DEF DrainsWaits, Held, WaitTypes, NotYetTaken
  <2> QED
    BY <2>2, <2>4, <2>5, <2>6, <2>7 DEF Held
<1>2. CASE DropsSender(k)
  BY <1>2 DEF DropsSender, Held, WaitTypes, HeldFromTheStart, WaitsAreOpen, ClosedIsEmpty,
       Fresh, TakenOut, NotYetTaken, callVars
<1>3. CASE AnswersWaits(k)
  <2>1. WaitTypes'
    BY <1>3 DEF AnswersWaits, Held, WaitTypes
  <2>2. owed'[k] = {} /\ \A j \in Closer : j # k => owed'[j] = owed[j]
    BY <1>3 DEF AnswersWaits, Held, WaitTypes
  <2>3. HeldFromTheStart'
    BY <1>3, <2>2 DEF AnswersWaits, Held, HeldFromTheStart
  <2>4. WaitsAreOpen'
    BY <1>3 DEF AnswersWaits, Held, WaitTypes, WaitsAreOpen, TakenOut
  <2>5. Fresh' /\ TakenOut' /\ ClosedIsEmpty'
    BY <1>3, <2>2 DEF AnswersWaits, Held, Fresh, TakenOut, ClosedIsEmpty
  <2>6. NotYetTaken'
    BY <1>3, <2>2 DEF AnswersWaits, Held, WaitTypes, NotYetTaken
  <2> QED
    BY <2>1, <2>3, <2>4, <2>5, <2>6 DEF Held
<1> QED
  BY <1>1, <1>2, <1>3

\* Nothing else touches a call, its wait or its answer.
LEMMA OthersKeepHeld ==
    ASSUME Held, UNCHANGED <<caller, waits, answer, closed, closeVars>>
    PROVE  Held'
<1>1. UNCHANGED <<caller, waits, answer, closed, step, owed>>
  BY DEF closeVars
<1>2. WaitTypes' /\ WaitsAreOpen' /\ ClosedIsEmpty'
  BY <1>1 DEF Held, WaitTypes, WaitsAreOpen, ClosedIsEmpty
<1>3. HeldFromTheStart'
  BY <1>1 DEF Held, HeldFromTheStart
<1>4. Fresh'
  BY <1>1 DEF Held, Fresh
<1>5. TakenOut' /\ NotYetTaken'
  BY <1>1 DEF Held, TakenOut, NotYetTaken
<1> QED
  BY <1>2, <1>3, <1>4, <1>5 DEF Held

LEMMA InitHeld == LinkInit => Held
<1> SUFFICES ASSUME LinkInit PROVE Held
  OBVIOUS
<1>1. WaitTypes
  <2>1. /\ caller \in [Caller -> {"idle", "listed", "waiting", "late", "done"}]
        /\ answer \in [Caller -> {"none", "result", "closed"}]
    BY DEF LinkInit
  <2>2. /\ step \in [Closer -> {"idle", "drained", "dropped", "over"}]
        /\ owed \in [Closer -> SUBSET Caller]
    BY DEF LinkInit
  <2> QED
    BY <2>1, <2>2 DEF LinkInit, WaitTypes
<1>2. HeldFromTheStart /\ WaitsAreOpen /\ ClosedIsEmpty
  BY DEF LinkInit, HeldFromTheStart, WaitsAreOpen, ClosedIsEmpty
<1>3. Fresh /\ TakenOut /\ NotYetTaken
  BY DEF LinkInit, Fresh, TakenOut, NotYetTaken
<1> QED
  BY <1>1, <1>2, <1>3 DEF Held

LEMMA StepHeld == Held /\ [LinkNext]_linkVars => Held'
<1> SUFFICES ASSUME Held, [LinkNext]_linkVars PROVE Held'
  OBVIOUS
<1>1. ASSUME NEW c \in Caller, CallSteps(c) PROVE Held'
  BY <1>1, CallKeepsHeld
<1>2. CASE GoNotifies \/ Stamps \/ Listens \/ ListenerEnds
  BY <1>2, OthersKeepHeld DEF GoNotifies, Stamps, Listens, ListenerEnds, callVars
<1>3. ASSUME NEW n \in 1 .. MaxNotices, HandsOn(n) PROVE Held'
  BY <1>3, OthersKeepHeld DEF HandsOn, callVars
<1>4. CASE Loses \/ ThreadLeaves \/ TaskDropped \/ RuntimeDropped
  BY <1>4, OthersKeepHeld DEF Loses, ThreadLeaves, TaskDropped, RuntimeDropped, callVars
<1>5. ASSUME NEW k \in Closer, DrainsWaits(k) \/ DropsSender(k) \/ AnswersWaits(k)
      PROVE  Held'
  BY <1>5, ClosingKeepsHeld
<1>6. CASE Quits \/ Asked \/ Joins \/ Stops \/ ChildExits
  BY <1>6, OthersKeepHeld DEF Quits, Asked, Joins, Stops, ChildExits, callVars
<1>7. CASE UNCHANGED linkVars
  BY <1>7, OthersKeepHeld DEF linkVars, closeVars
<1> QED
  BY <1>1, <1>2, <1>3, <1>4, <1>5, <1>6, <1>7 DEF LinkNext, Closing

LEMMA HeldHolds == LinkSpec => []Held
<1> QED
  BY InitHeld, StepHeld, PTL DEF LinkSpec

\* A call that waits has somebody to answer it (Rpc::call, Pending, dispatch and
\* close_shared of src/src/rpc.rs), with the waits in hand from the moment they are
\* left as inductive invariant.
THEOREM LinkAnswers == LinkSpec => []CallsAreAnswered
<1>1. Held => CallsAreAnswered
  BY DEF Held, HeldFromTheStart, WaitsAreOpen, ClosedIsEmpty, CallsAreAnswered
<1> QED
  BY <1>1, HeldHolds, PTL

----------------------------------------------------------------------------
(* The order of the notices.                                               *)

LEMMA SmallestOf ==
    ASSUME NEW T \in SUBSET Nat, T # {}
    PROVE  \E m \in T : \A n \in T : m <= n
<1> DEFINE R == {ss \in Nat \X Nat : ss[1] < ss[2]}
<1>1. R = OpToRel(<, Nat)
  BY DEF OpToRel
<1>2. IsWellFoundedOn(R, Nat)
  BY <1>1, NatLessThanWellFounded
<1>3. \A x, y \in Nat : y < x => <<y, x>> \in R
  OBVIOUS
<1> HIDE DEF R
<1>4. PICK m \in T : \A n \in T : ~(<<n, m>> \in R)
  BY <1>2, WFMin
<1>5. ASSUME NEW n \in T
      PROVE  m <= n
  <2>1. m \in Nat /\ n \in Nat /\ ~(n < m)
    BY <1>3, <1>4
  <2> QED
    BY <2>1
<1> QED
  BY <1>5

\* The listener finds the first stamp that is missing.
LEMMA GapFound ==
    ASSUME NEW held \in SUBSET Nat, IsFiniteSet(held), next \in Nat
    PROVE  /\ Gap(held) \in Nat /\ next <= Gap(held) /\ Gap(held) \notin held
           /\ \A m \in next .. Gap(held) - 1 : m \in held
<1> DEFINE z == Cardinality(held)
           T == {n \in next .. next + z : n \notin held}
<1>1. z \in Nat
  BY FS_CardinalityType
<1>2. T # {}
  <2> SUFFICES ASSUME next .. next + z \subseteq held PROVE FALSE
    OBVIOUS
  <2> HIDE DEF z
  <2>1. Cardinality(next .. next + z) = z + 1
    <3>1. next \in Int /\ next + z \in Int /\ ~(next > next + z) /\ next + z - next + 1 = z + 1
      BY <1>1
    <3> DEFINE b == next + z
    <3> HIDE DEF b
    <3>2. Cardinality(next .. b) = IF next > b THEN 0 ELSE b - next + 1
      BY <3>1, FS_Interval DEF b
    <3>3. ~(next > b) /\ b - next + 1 = z + 1
      BY <1>1 DEF b
    <3>4. Cardinality(next .. b) = z + 1
      BY <3>2, <3>3
    <3> QED
      BY <3>4 DEF b
  <2>2. Cardinality(next .. next + z) <= z
    BY FS_Subset DEF z
  <2> QED
    BY <1>1, <2>1, <2>2
<1> HIDE DEF z
<1>3. PICK m \in T : \A n \in T : m <= n
  <2>1. T \in SUBSET Nat
    BY <1>1
  <2> HIDE DEF T
  <2> QED
    BY <1>2, <2>1, SmallestOf
<1>4. m \in next .. next + z /\ m \notin held /\ \A n \in next .. m - 1 : n \in held
  BY <1>1, <1>3
<1>5. Gap(held) \in next .. next + z /\ Gap(held) \notin held /\ \A n \in next .. Gap(held) - 1 : n \in held
  BY <1>4 DEF Gap, z
<1> QED
  BY <1>1, <1>5

\* Where each stamp is: delivered up to next, then held back, in the queue or with a
\* task, in one of these places, and in none only if the runtime or the queue is gone.
Placed ==
    /\ stamped \in Nat /\ written \in Nat /\ stamped <= written /\ written <= MaxNotices
    /\ next \in Nat /\ 1 <= next /\ next <= stamped + 1
    /\ channel \in Seq(Nat)
    /\ early \subseteq Nat /\ tasks \subseteq Nat
    /\ \A n \in early : next < n /\ n <= stamped
    /\ \A n \in tasks : next <= n /\ n <= stamped /\ n \notin early
    /\ \A i \in 1 .. Len(channel) :
        /\ next <= channel[i] /\ channel[i] <= stamped
        /\ channel[i] \notin early /\ channel[i] \notin tasks
    /\ \A i, j \in 1 .. Len(channel) : channel[i] = channel[j] => i = j

Nowhere(n) == n \notin early /\ n \notin tasks /\ \A i \in 1 .. Len(channel) : channel[i] # n

NoneLost == thread = "runs" /\ sender => \A n \in next .. stamped : ~Nowhere(n)

UpToNext == delivered = [i \in 1 .. next - 1 |-> i]

\* The shutdown waits for the listener, and the listener for the queue.
WaitsForListener ==
    /\ listener = "ended" => ~sender /\ channel = <<>>
    /\ phase \in {"stops", "done"} => listener = "ended"

InStep == Placed /\ NoneLost /\ UpToNext /\ WaitsForListener

LEMMA StampsInStep ==
    ASSUME InStep, Stamps
    PROVE  InStep'
<1>1. /\ stamped' = stamped + 1 /\ tasks' = tasks \cup {stamped + 1} /\ stamped < written
      /\ UNCHANGED <<written, channel, early, next, delivered, listener, sender, thread, phase>>
  BY DEF Stamps, endVars
<1>0. Placed
  BY DEF InStep
<1>2. Placed'
  <2>1. /\ stamped' \in Nat /\ written' \in Nat /\ stamped' <= written' /\ written' <= MaxNotices
        /\ next' \in Nat /\ 1 <= next' /\ next' <= stamped' + 1
        /\ channel' \in Seq(Nat) /\ early' \subseteq Nat /\ tasks' \subseteq Nat
    BY <1>0, <1>1 DEF Placed
  <2>2. ASSUME NEW n \in early PROVE n \in Nat /\ next < n /\ n <= stamped /\ n <= stamped'
    BY <1>0, <1>1 DEF Placed
  <2>3. ASSUME NEW n \in tasks' PROVE next <= n /\ n <= stamped' /\ n \notin early
    BY <1>0, <1>1 DEF Placed
  <2>4. ASSUME NEW i \in 1 .. Len(channel)
        PROVE  /\ next <= channel[i] /\ channel[i] <= stamped'
               /\ channel[i] \notin early /\ channel[i] \notin tasks'
    BY <1>0, <1>1 DEF Placed
  <2>5. \A i, j \in 1 .. Len(channel) : channel[i] = channel[j] => i = j
    BY <1>0 DEF Placed
  <2>6. next' = next /\ early' = early /\ channel' = channel
    BY <1>1
  <2>7. \A n \in early : next < n /\ n <= stamped'
    BY <2>2
  <2>8. \A n \in tasks' : next <= n /\ n <= stamped' /\ n \notin early
    BY <2>3
  <2> QED
    BY <2>1, <2>4, <2>5, <2>6, <2>7, <2>8 DEF Placed
<1>3. NoneLost'
  <2> SUFFICES ASSUME thread = "runs", sender, NEW n \in next .. stamped + 1 PROVE ~Nowhere(n)'
    BY <1>1 DEF NoneLost
  <2>1. CASE n = stamped + 1
    BY <1>1, <2>1 DEF Nowhere
  <2>2. CASE n # stamped + 1
    <3>1. n \in next .. stamped
      BY <2>2 DEF InStep, Placed
    <3> QED
      BY <1>1, <3>1 DEF InStep, NoneLost, Nowhere
  <2> QED
    BY <2>1, <2>2
<1>4. UpToNext' /\ WaitsForListener'
  BY <1>1 DEF InStep, UpToNext, WaitsForListener
<1> QED
  BY <1>2, <1>3, <1>4 DEF InStep

LEMMA HandsOnInStep ==
    ASSUME InStep, NEW n \in Nat, HandsOn(n)
    PROVE  InStep'
<1> DEFINE z == Len(channel)
<1>1. /\ n \in tasks /\ tasks' = tasks \ {n}
      /\ channel' = IF sender THEN Append(channel, n) ELSE channel
      /\ UNCHANGED <<written, stamped, early, next, delivered, listener, sender, thread, phase>>
  BY DEF HandsOn, endVars
<1>2. /\ channel \in Seq(Nat) /\ z \in Nat
      /\ Len(Append(channel, n)) = z + 1 /\ Append(channel, n)[z + 1] = n
      /\ Append(channel, n) \in Seq(Nat)
      /\ \A i \in 1 .. z : Append(channel, n)[i] = channel[i]
  BY DEF InStep, Placed
<1>3. CASE sender
  <2>1. /\ Len(channel') = z + 1 /\ channel'[z + 1] = n /\ channel' \in Seq(Nat)
        /\ \A i \in 1 .. z : channel'[i] = channel[i]
    BY <1>1, <1>2, <1>3
  <2>2. /\ next <= n /\ n <= stamped /\ n \notin early
        /\ \A i \in 1 .. z : channel[i] # n
    BY <1>1 DEF InStep, Placed
  <2>3. Placed'
    <3>1. ASSUME NEW i \in 1 .. z + 1
          PROVE  /\ next <= channel'[i] /\ channel'[i] <= stamped
                 /\ channel'[i] \notin early /\ channel'[i] \notin tasks'
      <4>1. CASE i = z + 1
        BY <1>1, <2>1, <2>2, <4>1
      <4>2. CASE i # z + 1
        <5>1. i \in 1 .. z
          BY <1>2, <4>2
        <5> QED
          BY <1>1, <2>1, <5>1 DEF InStep, Placed
      <4> QED
        BY <4>1, <4>2
    <3>2. ASSUME NEW i \in 1 .. z + 1, NEW j \in 1 .. z + 1, channel'[i] = channel'[j]
          PROVE  i = j
      <4>1. (i = z + 1 \/ i \in 1 .. z) /\ (j = z + 1 \/ j \in 1 .. z)
        BY <1>2
      <4> QED
        BY <2>1, <2>2, <3>2, <4>1 DEF InStep, Placed
    <3>3. tasks' \subseteq tasks
      BY <1>1
    <3> QED
      BY <1>1, <2>1, <3>1, <3>2, <3>3 DEF InStep, Placed
  <2>4. NoneLost'
    <3> SUFFICES ASSUME thread = "runs", NEW m \in next .. stamped PROVE ~Nowhere(m)'
      BY <1>1, <1>3 DEF NoneLost
    <3>1. ~Nowhere(m)
      BY <1>3 DEF InStep, NoneLost
    <3>2. CASE m = n
      <4>1. z + 1 \in 1 .. Len(channel')
        BY <1>2, <2>1
      <4> QED
        BY <2>1, <3>2, <4>1 DEF Nowhere
    <3>3. CASE m # n
      <4>1. \A i \in 1 .. z : i \in 1 .. Len(channel')
        BY <1>2, <2>1
      <4> QED
        BY <1>1, <2>1, <3>1, <3>3, <4>1 DEF Nowhere
    <3> QED
      BY <3>2, <3>3
  <2>5. UpToNext' /\ WaitsForListener'
    BY <1>1, <1>3 DEF InStep, UpToNext, WaitsForListener
  <2> QED
    BY <2>3, <2>4, <2>5 DEF InStep
<1>4. CASE ~sender
  <2>1. channel' = channel
    BY <1>1, <1>4
  <2>2. Placed'
    BY <1>1, <2>1 DEF InStep, Placed
  <2>3. NoneLost'
    BY <1>1, <1>4 DEF NoneLost
  <2>4. UpToNext' /\ WaitsForListener'
    BY <1>1, <2>1 DEF InStep, UpToNext, WaitsForListener
  <2> QED
    BY <2>2, <2>3, <2>4 DEF InStep
<1> QED
  BY <1>3, <1>4

LEMMA PrefixGrows ==
    ASSUME NEW k \in Nat, NEW l \in Nat, l <= k
    PROVE  [i \in 1 .. l |-> i] \o [i \in 1 .. k - l |-> l + 1 + i - 1] = [i \in 1 .. k |-> i]
<1> DEFINE a == [i \in 1 .. l |-> i]
           b == [i \in 1 .. k - l |-> l + 1 + i - 1]
           c == [i \in 1 .. k |-> i]
<1>1. a \in Seq(Nat) /\ Len(a) = l /\ b \in Seq(Nat) /\ Len(b) = k - l /\ k - l \in Nat
  OBVIOUS
<1>2. c \in Seq(Nat) /\ Len(c) = k
  OBVIOUS
<1>3. a \o b \in Seq(Nat) /\ Len(a \o b) = k
  BY <1>1
<1>4. ASSUME NEW i \in 1 .. k
      PROVE  (a \o b)[i] = c[i]
  <2>1. CASE i <= l
    BY <1>1, <2>1
  <2>2. CASE l < i
    BY <1>1, <2>2
  <2> QED
    BY <2>1, <2>2
<1> QED
  BY <1>2, <1>3, <1>4

\* The listener sorts its next notice in and delivers up to the first gap.
LEMMA ListensInStep ==
    ASSUME InStep, Listens
    PROVE  InStep'
<1> DEFINE head  == channel[1]
           held  == early \cup {Head(channel)}
           gap   == Gap(held)
           z     == Len(channel)
<1>1. /\ channel # <<>> /\ early' = held \ (next .. gap - 1) /\ next' = gap
      /\ delivered' = delivered \o [i \in 1 .. gap - next |-> next + i - 1]
      /\ channel' = Tail(channel)
      /\ UNCHANGED <<written, stamped, tasks, listener, sender, thread, phase>>
  BY DEF Listens, endVars
<1>2. /\ channel \in Seq(Nat) /\ z \in Nat \ {0} /\ Head(channel) = head /\ head \in Nat
      /\ Len(Tail(channel)) = z - 1 /\ Tail(channel) \in Seq(Nat)
      /\ \A i \in 1 .. z - 1 : Tail(channel)[i] = channel[i + 1] /\ i + 1 \in 1 .. z /\ i + 1 # 1
  BY <1>1 DEF InStep, Placed
<1>3. /\ next \in Nat /\ 1 <= next /\ next <= stamped + 1 /\ stamped \in Nat
      /\ early \subseteq Nat /\ tasks \subseteq Nat
      /\ next <= head /\ head <= stamped /\ head \notin tasks
      /\ \A i \in 2 .. z : channel[i] # head
  <2>1. \A i \in 2 .. z : i \in 1 .. z /\ i # 1
    BY <1>2
  <2>2. 1 \in 1 .. z
    BY <1>2
  <2> QED
    BY <2>1, <2>2 DEF InStep, Placed
<1>4. /\ held \subseteq Nat /\ \A n \in held : next <= n /\ n <= stamped /\ n \notin tasks
      /\ \A i \in 2 .. z : channel[i] \notin held
  <2>1. \A n : n \in held <=> n \in early \/ n = head
    BY <1>2
  <2> HIDE DEF held
  <2>2. \A n \in held : n \in Nat /\ next <= n /\ n <= stamped /\ n \notin tasks
    <3> SUFFICES ASSUME NEW n \in early PROVE n \in Nat /\ next <= n /\ n <= stamped /\ n \notin tasks
      BY <1>2, <1>3, <2>1
    <3> QED
      BY <1>3 DEF InStep, Placed
  <2>3. ASSUME NEW i \in 2 .. z
        PROVE  channel[i] \notin held
    <3>1. i \in 1 .. z
      BY <1>2
    <3>2. channel[i] \notin early
      BY <3>1 DEF InStep, Placed
    <3> QED
      BY <1>3, <2>1, <3>2
  <2> QED
    BY <2>2, <2>3
<1>5. /\ gap \in Nat /\ next <= gap /\ gap \notin held /\ \A n \in next .. gap - 1 : n \in held
  <2> HIDE DEF held
  <2>1. IsFiniteSet(held)
    BY <1>3, <1>4, FS_BoundedSetOfNaturals
  <2> QED
    BY <1>3, <1>4, <2>1, GapFound
<1> HIDE DEF held, gap
<1>6. gap <= stamped + 1
  <2> SUFFICES ASSUME stamped + 1 < gap PROVE FALSE
    BY <1>3, <1>5
  <2>1. stamped + 1 \in next .. gap - 1
    BY <1>3, <1>5
  <2> QED
    BY <1>3, <1>4, <1>5, <2>1
<1>7. ASSUME NEW n \in Nat, next <= n, n \notin held
      PROVE  gap <= n
  <2> SUFFICES ASSUME n < gap PROVE FALSE
    BY <1>5
  <2>1. n \in next .. gap - 1
    BY <1>3, <1>5, <1>7
  <2> QED
    BY <1>5, <1>7, <2>1
<1>8. Placed'
  <2>1. /\ stamped' \in Nat /\ written' \in Nat /\ stamped' <= written' /\ written' <= MaxNotices
        /\ next' \in Nat /\ 1 <= next' /\ next' <= stamped' + 1
        /\ channel' \in Seq(Nat) /\ early' \subseteq Nat /\ tasks' \subseteq Nat
    <3>1. written \in Nat /\ stamped <= written /\ written <= MaxNotices
      BY DEF InStep, Placed
    <3> QED
      BY <1>1, <1>2, <1>3, <1>4, <1>5, <1>6, <3>1
  <2>2. \A n \in early' : next' < n /\ n <= stamped'
    <3> SUFFICES ASSUME NEW n \in held, n \notin next .. gap - 1 PROVE gap < n /\ n <= stamped
      BY <1>1
    <3>1. n \in Nat /\ next <= n /\ n <= stamped /\ n # gap
      BY <1>4, <1>5
    <3> QED
      BY <1>3, <1>5, <3>1
  <2>3. \A n \in tasks' : next' <= n /\ n <= stamped' /\ n \notin early'
    <3> SUFFICES ASSUME NEW n \in tasks PROVE gap <= n /\ n <= stamped /\ n \notin held
      BY <1>1
    <3>1. n \in Nat /\ next <= n /\ n <= stamped /\ n \notin held
      BY <1>3, <1>4 DEF InStep, Placed
    <3> QED
      BY <1>7, <3>1
  <2>4. \A i \in 1 .. z - 1 : /\ next' <= channel'[i] /\ channel'[i] <= stamped'
                              /\ channel'[i] \notin early' /\ channel'[i] \notin tasks'
    <3> SUFFICES ASSUME NEW j \in 2 .. z
                 PROVE  /\ gap <= channel[j] /\ channel[j] <= stamped
                        /\ channel[j] \notin held /\ channel[j] \notin tasks
      <4>1. \A i \in 1 .. z - 1 : i + 1 \in 2 .. z
        BY <1>2
      <4> QED
        BY <1>1, <1>2, <4>1
    <3>1. j \in 1 .. z
      BY <1>2
    <3>2. /\ channel[j] \in Nat /\ next <= channel[j] /\ channel[j] <= stamped
          /\ channel[j] \notin held /\ channel[j] \notin tasks
      BY <1>2, <1>4, <3>1 DEF InStep, Placed
    <3> QED
      BY <1>7, <3>2
  <2>5. \A i, j \in 1 .. z - 1 : channel'[i] = channel'[j] => i = j
    <3> SUFFICES ASSUME NEW i \in 1 .. z - 1, NEW j \in 1 .. z - 1, channel[i + 1] = channel[j + 1]
                 PROVE  i = j
      BY <1>1, <1>2
    <3>1. i + 1 = j + 1
      BY <1>2 DEF InStep, Placed
    <3> QED
      BY <1>2, <3>1
  <2> QED
    BY <1>1, <1>2, <2>1, <2>2, <2>3, <2>4, <2>5 DEF Placed
<1>9. NoneLost'
  <2> SUFFICES ASSUME thread = "runs", sender, NEW n \in gap .. stamped PROVE ~Nowhere(n)'
    BY <1>1 DEF NoneLost
  <2>1. n \in next .. stamped /\ n \notin next .. gap - 1
    BY <1>3, <1>5
  <2>2. ~Nowhere(n)
    BY <2>1 DEF InStep, NoneLost
  <2>3. CASE n \in held
    BY <1>1, <2>1, <2>3 DEF Nowhere
  <2>4. CASE n \in tasks
    BY <1>1, <2>4 DEF Nowhere
  <2>5. ASSUME NEW i \in 2 .. z, channel[i] = n
        PROVE  ~Nowhere(n)'
    <3>1. i - 1 \in 1 .. z - 1 /\ (i - 1) + 1 = i
      BY <1>2
    <3>2. channel'[i - 1] = n /\ i - 1 \in 1 .. Len(channel')
      BY <1>1, <1>2, <2>5, <3>1
    <3> QED
      BY <3>2 DEF Nowhere
  <2>6. n \in held \/ n \in tasks \/ \E i \in 2 .. z : channel[i] = n
    <3>1. \A i \in 1 .. z : i = 1 \/ i \in 2 .. z
      BY <1>2
    <3>2. early \subseteq held /\ head \in held
      BY <1>2 DEF held
    <3> QED
      BY <2>2, <3>1, <3>2 DEF Nowhere
  <2> QED
    BY <2>3, <2>4, <2>5, <2>6
<1>10. UpToNext'
  <2> DEFINE l == next - 1
             k == gap - 1
  <2>1. l \in Nat /\ k \in Nat /\ l <= k
    BY <1>3, <1>5
  <2>2. k - l = gap - next /\ l + 1 = next
    BY <1>3, <1>5
  <2> HIDE DEF l, k
  <2>3. [i \in 1 .. l |-> i] \o [i \in 1 .. k - l |-> l + 1 + i - 1] = [i \in 1 .. k |-> i]
    BY <2>1, PrefixGrows
  <2>4. delivered = [i \in 1 .. l |-> i]
    BY DEF InStep, UpToNext, l
  <2>5. delivered' = [i \in 1 .. k |-> i]
    BY <1>1, <2>2, <2>3, <2>4
  <2> QED
    BY <1>1, <2>5 DEF UpToNext, k
<1>11. WaitsForListener'
  <2>1. listener # "ended"
    BY <1>1 DEF InStep, WaitsForListener
  <2> QED
    BY <1>1, <2>1 DEF InStep, WaitsForListener
<1> QED
  BY <1>8, <1>9, <1>10, <1>11 DEF InStep

\* Nothing else moves a stamp, unless it is lost with the runtime or the queue.
LEMMA OthersInStep ==
    ASSUME InStep, UNCHANGED <<stamped, channel, early, next, delivered>>,
           written' \in Nat, written <= written', written' <= MaxNotices,
           tasks' \subseteq tasks, sender' => sender, thread' = "runs" => thread = "runs",
           thread = "runs" => tasks' = tasks,
           listener' = "ended" => ~sender' /\ channel' = <<>>,
           phase' \in {"stops", "done"} => listener' = "ended",
           sender \in BOOLEAN, sender' \in BOOLEAN
    PROVE  InStep'
<1>1. Placed'
  BY DEF InStep, Placed
<1>2. NoneLost'
  BY DEF InStep, NoneLost, Nowhere
<1>3. UpToNext' /\ WaitsForListener'
  BY DEF InStep, UpToNext, WaitsForListener
<1> QED
  BY <1>1, <1>2, <1>3 DEF InStep

\* The places of the calls, the threads and the child.
PlaceTypes ==
    /\ toGo \subseteq Caller /\ replies \subseteq Caller
    /\ sender \in BOOLEAN
    /\ listener \in {"runs", "ended"}
    /\ thread \in {"runs", "drops", "closes", "ended"}
    /\ phase \in {"up", "asking", "closes", "joins", "stops", "done"}
    /\ child \in {"serves", "halts", "exited"}

Ordered == WaitTypes /\ PlaceTypes /\ InStep

LEMMA StepPlaces ==
    ASSUME WaitTypes, PlaceTypes, [LinkNext]_linkVars
    PROVE  PlaceTypes'
<1>1. ASSUME NEW c \in Caller, CallSteps(c)
      PROVE  PlaceTypes'
  BY <1>1 DEF CallSteps, Calls, Sends, Returns, TimesOut, Forgets, GoHandles, Dispatches, PlaceTypes,
       noticeVars, endVars
<1>2. CASE GoNotifies \/ Stamps \/ Listens \/ ListenerEnds \/ \E n \in 1 .. MaxNotices : HandsOn(n)
  BY <1>2 DEF GoNotifies, Stamps, Listens, ListenerEnds, HandsOn, PlaceTypes, callVars, endVars
<1>3. CASE Loses \/ ThreadLeaves \/ TaskDropped \/ RuntimeDropped
  BY <1>3 DEF Loses, ThreadLeaves, TaskDropped, RuntimeDropped, PlaceTypes, callVars, noticeVars, endVars
<1>4. ASSUME NEW k \in Closer, DrainsWaits(k) \/ DropsSender(k) \/ AnswersWaits(k)
      PROVE  PlaceTypes'
  BY <1>4 DEF DrainsWaits, DropsSender, AnswersWaits, PlaceTypes, callVars, noticeVars, endVars
<1>5. CASE Quits \/ Asked \/ Joins \/ Stops \/ ChildExits
  BY <1>5 DEF Quits, Asked, Joins, Stops, ChildExits, PlaceTypes, callVars, noticeVars
<1>6. CASE UNCHANGED linkVars
  BY <1>6 DEF linkVars, PlaceTypes
<1> QED
  BY <1>1, <1>2, <1>3, <1>4, <1>5, <1>6 DEF LinkNext, Closing

LEMMA StepInStep ==
    ASSUME Ordered, PlaceTypes', [LinkNext]_linkVars
    PROVE  InStep'
<1>w. /\ written \in Nat /\ written <= MaxNotices
      /\ listener = "ended" => ~sender /\ channel = <<>>
      /\ phase \in {"stops", "done"} => listener = "ended"
      /\ sender \in BOOLEAN /\ sender' \in BOOLEAN /\ InStep
  BY DEF Ordered, PlaceTypes, InStep, Placed, WaitsForListener
<1>1. CASE Stamps
  BY <1>w, <1>1, StampsInStep
<1>2. CASE Listens
  BY <1>w, <1>2, ListensInStep
<1>3. ASSUME NEW n \in 1 .. MaxNotices, HandsOn(n)
      PROVE  InStep'
  <2>1. n \in Nat
    BY LinkAssumption
  <2> QED
    BY <1>w, <1>3, <2>1, HandsOnInStep
<1>4. ASSUME NEW c \in Caller, CallSteps(c)
      PROVE  InStep'
  <2>1. UNCHANGED <<written, stamped, channel, early, next, delivered, tasks, sender, thread, listener, phase>>
    BY <1>4 DEF CallSteps, Calls, Sends, Returns, TimesOut, Forgets, GoHandles, Dispatches, noticeVars, endVars
  <2> QED
    BY <1>w, <2>1, OthersInStep
<1>5. CASE GoNotifies
  <2>1. /\ UNCHANGED <<stamped, channel, early, next, delivered, tasks, sender, thread, listener, phase>>
        /\ written' = written + 1 /\ written < MaxNotices
    BY <1>5 DEF GoNotifies, endVars
  <2>2. written' \in Nat /\ written <= written' /\ written' <= MaxNotices
    BY <1>w, <2>1, LinkAssumption
  <2> QED
    BY <1>w, <2>1, <2>2, OthersInStep
<1>6. CASE ListenerEnds
  <2>1. /\ UNCHANGED <<written, stamped, channel, early, next, delivered, tasks, sender, thread, phase>>
        /\ ~sender /\ channel = <<>> /\ listener' = "ended"
    BY <1>6 DEF ListenerEnds, endVars
  <2> QED
    BY <1>w, <2>1, OthersInStep
<1>7. CASE Loses \/ ThreadLeaves \/ TaskDropped \/ RuntimeDropped
  <2>1. /\ UNCHANGED <<written, stamped, channel, early, next, delivered, sender, listener, phase>>
        /\ tasks' \subseteq tasks /\ thread' # "runs"
        /\ thread = "runs" => tasks' = tasks
    BY <1>7 DEF Loses, ThreadLeaves, TaskDropped, RuntimeDropped, noticeVars, endVars
  <2> QED
    BY <1>w, <2>1, OthersInStep
<1>8. ASSUME NEW k \in Closer, DrainsWaits(k) \/ DropsSender(k) \/ AnswersWaits(k)
      PROVE  InStep'
  <2>1. /\ UNCHANGED <<written, stamped, channel, early, next, delivered, tasks, listener>>
        /\ sender' => sender
        /\ thread' = "runs" => thread = "runs"
        /\ phase' \in {"stops", "done"} => phase' = phase
    BY <1>8 DEF DrainsWaits, DropsSender, AnswersWaits, noticeVars, endVars
  <2> QED
    BY <1>w, <2>1, OthersInStep
<1>9. CASE Quits \/ Asked \/ Joins \/ Stops \/ ChildExits
  <2>1. /\ UNCHANGED <<written, stamped, channel, early, next, delivered, tasks, listener, sender, thread>>
        /\ phase' \in {"stops", "done"} => listener = "ended"
    BY <1>w, <1>9 DEF Quits, Asked, Joins, Stops, ChildExits, noticeVars
  <2> QED
    BY <1>w, <2>1, OthersInStep
<1>10. CASE UNCHANGED linkVars
  <2>1. UNCHANGED <<written, stamped, channel, early, next, delivered, tasks, sender, thread, listener, phase>>
    BY <1>10 DEF linkVars
  <2> QED
    BY <1>w, <2>1, OthersInStep
<1> QED
  BY <1>1, <1>2, <1>3, <1>4, <1>5, <1>6, <1>7, <1>8, <1>9, <1>10 DEF LinkNext, Closing

LEMMA OrderedHolds == LinkSpec => []Ordered
<1>1. LinkInit => Ordered
  <2> SUFFICES ASSUME LinkInit PROVE Ordered
    OBVIOUS
  <2>1. WaitTypes
    BY InitHeld DEF Held
  <2>2. PlaceTypes
    BY DEF LinkInit, PlaceTypes
  <2>3. /\ written = 0 /\ stamped = 0 /\ next = 1 /\ early = {} /\ tasks = {} /\ channel = <<>>
        /\ delivered = <<>> /\ listener = "runs" /\ phase = "up" /\ MaxNotices \in Nat
    BY LinkAssumption DEF LinkInit
  <2>4. Placed
    BY <2>3 DEF Placed
  <2>5. NoneLost /\ UpToNext /\ WaitsForListener
    BY <2>3 DEF NoneLost, UpToNext, WaitsForListener
  <2> QED
    BY <2>1, <2>2, <2>4, <2>5 DEF Ordered, InStep
<1>2. Held /\ Ordered /\ Held' /\ [LinkNext]_linkVars => Ordered'
  BY StepPlaces, StepInStep DEF Ordered, Held
<1> QED
  BY <1>1, <1>2, HeldHolds, PTL DEF LinkSpec

\* The types of the connection (src/src/rpc.rs, src/src/ipc.rs, src/src/main.rs).
THEOREM LinkTyped == LinkSpec => []LinkTypeOK
<1>1. Ordered => LinkTypeOK
  <2> SUFFICES ASSUME Ordered PROVE LinkTypeOK
    OBVIOUS
  <2> USE DEF Ordered, InStep, Placed
  <2>1. /\ written \in 0 .. MaxNotices /\ stamped \in 0 .. MaxNotices /\ next \in 1 .. MaxNotices + 1
        /\ tasks \subseteq 1 .. MaxNotices /\ early \subseteq 1 .. MaxNotices
    BY LinkAssumption
  <2>2. channel \in Seq(1 .. MaxNotices)
    <3>1. channel \in Seq(Nat) /\ \A i \in 1 .. Len(channel) : channel[i] \in 1 .. MaxNotices
      BY LinkAssumption
    <3>2. DOMAIN channel = 1 .. Len(channel) /\ Len(channel) \in Nat /\ channel = [i \in 1 .. Len(channel) |-> channel[i]]
      BY <3>1
    <3>3. channel \in [1 .. Len(channel) -> 1 .. MaxNotices]
      BY <3>1, <3>2
    <3> HIDE DEF Ordered, InStep, Placed
    <3> QED
      BY <3>2, <3>3, SeqDef
  <2>3. delivered \in Seq(1 .. MaxNotices)
    <3>1. \A i \in 1 .. next - 1 : i \in 1 .. MaxNotices
      BY LinkAssumption
    <3> QED
      BY <3>1 DEF UpToNext
  <2> QED
    BY <2>1, <2>2, <2>3 DEF WaitTypes, PlaceTypes, LinkTypeOK
<1> QED
  BY <1>1, OrderedHolds, PTL

\* The interface sees the notices in the order of Go, none twice and none skipped
\* (the reader and send_notice of src/src/rpc.rs, listen of src/src/ipc.rs), and the
\* shutdown of src/src/main.rs waits for all that was handed on.
THEOREM LinkSorts == LinkSpec => []NoticesInOrder
<1>1. Ordered => NoticesInOrder
  <2> SUFFICES ASSUME Ordered PROVE NoticesInOrder
    OBVIOUS
  <2>1. /\ stamped \in Nat /\ next \in Nat /\ 1 <= next /\ next <= stamped + 1 /\ next \notin early
        /\ delivered = [i \in 1 .. next - 1 |-> i]
    BY DEF Ordered, InStep, Placed, UpToNext
  <2>2. DOMAIN delivered = 1 .. next - 1 /\ Len(delivered) = next - 1
    BY <2>1
  <2>3. ASSUME thread = "runs", sender, tasks = {}, channel = <<>>
        PROVE  Len(delivered) = stamped
    <3> SUFFICES ASSUME next <= stamped PROVE FALSE
      BY <2>1, <2>2
    <3>1. ~Nowhere(next)
      BY <2>1, <2>3 DEF Ordered, InStep, NoneLost
    <3> QED
      BY <2>1, <2>3, <3>1 DEF Nowhere
  <2>4. phase \in {"stops", "done"} => channel = <<>>
    BY DEF Ordered, InStep, WaitsForListener
  <2> QED
    BY <2>1, <2>2, <2>3, <2>4 DEF NoticesInOrder
<1> QED
  BY <1>1, OrderedHolds, PTL
=============================================================================
