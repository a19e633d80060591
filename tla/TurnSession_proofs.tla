-------------------------- MODULE TurnSession_proofs --------------------------
(* Proofs about TurnSession: for any turns, messages and faults, one answer  *)
(* runs and it is the active one, what was shown is on disk, what was closed *)
(* stays, the history can be read again, and a message is steered once.      *)
EXTENDS TurnSession, FiniteSetTheorems, TLAPS

USE BoundsAssumption

\* m keeps what the interface shows as typed or closed.
Extends(m) ==
    /\ messages.asked \subseteq m.asked
    /\ \A c \in Call : messages.answer[c].status \in Final => m.answer[c] = messages.answer[c]

\* No turn is active while the process is down.
DownIsIdle == ~up => active = None

\* Every line of the history is whole while the process is up.
TailOK == errors = 0 => tail # "broken" /\ (up => tail = "clean")

\* What the process does to its state and its files while it is up: nothing, or one
\* commit that extends what is shown, done or failed.
DiskStep ==
    \/ UNCHANGED <<messages, diskVars, errors>>
    \/ \E m \in Talk : Extends(m) /\ (Commit(m) \/ CommitFails(m))

----------------------------------------------------------------------------
(* The messages of each operation are a conversation that extends what is  *)
(* shown, because only a running or an absent answer is changed.           *)

Answer == [status : Final \cup {"absent", "running"}, text : Seq(1 .. MaxChunks)]

LEMMA StatusTyped ==
    ASSUME NEW answer \in [Call -> Answer], NEW c \in Call, NEW s \in Final \cup {"running"}
    PROVE  [answer EXCEPT ![c].status = s] \in [Call -> Answer]
<1>1. [answer[c] EXCEPT !.status = s] \in Answer
  <2>1. answer[c] \in Answer
    OBVIOUS
  <2> QED
    BY <2>1 DEF Answer
<1> QED
  BY <1>1

LEMMA TextTyped ==
    ASSUME NEW answer \in [Call -> Answer], NEW c \in Call, NEW n \in 1 .. MaxChunks
    PROVE  [answer EXCEPT ![c].text = Append(@, n)] \in [Call -> Answer]
<1>1. [answer[c] EXCEPT !.text = Append(@, n)] \in Answer
  <2>1. answer[c] \in Answer
    OBVIOUS
  <2>2. Append(answer[c].text, n) \in Seq(1 .. MaxChunks)
    BY <2>1 DEF Answer
  <2> QED
    BY <2>1, <2>2 DEF Answer
<1> QED
  BY <1>1

LEMMA ShownTyped ==
    ASSUME TypeOK
    PROVE  /\ messages.answer \in [Call -> Answer] /\ messages.asked \in SUBSET (Query \X Call)
           /\ replay.answer \in [Call -> Answer] /\ replay.asked \in SUBSET (Query \X Call)
           /\ messages = [answer |-> messages.answer, asked |-> messages.asked]
           /\ replay = [answer |-> replay.answer, asked |-> replay.asked]
BY DEF TypeOK, Talk, Answer

LEMMA Changed ==
    ASSUME NEW t \in Talk, NEW a, NEW b
    PROVE  /\ [t EXCEPT !.asked = b] = [answer |-> t.answer, asked |-> b]
           /\ [t EXCEPT !.answer = a] = [answer |-> a, asked |-> t.asked]
BY DEF Talk

LEMMA TalkTyped ==
    ASSUME NEW answer \in [Call -> Answer], NEW asked \in SUBSET (Query \X Call)
    PROVE  [answer |-> answer, asked |-> asked] \in Talk
BY DEF Talk, Answer

LEMMA OpenedExtends ==
    ASSUME TypeOK, NEW c \in Call, NEW q \in Query, Fresh(c)
    PROVE  Opened(c, q) \in Talk /\ Extends(Opened(c, q))
<1>1. [messages.answer EXCEPT ![c].status = "running"] \in [Call -> Answer]
  BY ShownTyped, StatusTyped
<1>2. messages.asked \cup {<<q, c>>} \in SUBSET (Query \X Call)
  BY ShownTyped
<1>3. Opened(c, q) \in Talk
  BY <1>1, <1>2, TalkTyped DEF Opened
<1>4. Extends(Opened(c, q))
  BY DEF TypeOK, Talk, Opened, Extends, Fresh, Final
<1> QED
  BY <1>3, <1>4

LEMMA SteeredExtends ==
    ASSUME TypeOK, active # None, NEW q \in Query
    PROVE  Steered(q) \in Talk /\ Extends(Steered(q))
<1>1. messages.asked \cup {<<q, active>>} \in SUBSET (Query \X Call)
  BY ShownTyped DEF TypeOK
<1>2. Steered(q) = [answer |-> messages.answer, asked |-> messages.asked \cup {<<q, active>>}]
  BY Changed DEF Steered, TypeOK
<1>3. Steered(q) \in Talk
  BY <1>1, <1>2, ShownTyped, TalkTyped
<1> QED
  BY <1>2, <1>3 DEF Extends

LEMMA ClosedExtends ==
    ASSUME TypeOK, OneRunning, up, active # None, NEW how \in Final
    PROVE  Closed(how) \in Talk /\ Extends(Closed(how))
<1>1. active \in Call /\ messages.answer[active].status = "running"
  BY DEF TypeOK, OneRunning
<1>2. [messages.answer EXCEPT ![active].status = how] \in [Call -> Answer]
  BY <1>1, ShownTyped, StatusTyped
<1>3. Closed(how) \in Talk
  <2>1. Closed(how) = [answer |-> [messages.answer EXCEPT ![active].status = how],
                       asked  |-> messages.asked]
    BY Changed DEF Closed, TypeOK
  <2> QED
    BY <1>2, <2>1, ShownTyped, TalkTyped
<1>4. Extends(Closed(how))
  BY <1>1 DEF TypeOK, Talk, Closed, Extends, Final
<1> QED
  BY <1>3, <1>4

LEMMA GrownExtends ==
    ASSUME TypeOK, OneRunning, up, active # None, NEW n \in 1 .. MaxChunks
    PROVE  Grown(n) \in Talk /\ Extends(Grown(n))
<1>1. active \in Call /\ messages.answer[active].status = "running"
  BY DEF TypeOK, OneRunning
<1>2. [messages.answer EXCEPT ![active].text = Append(@, n)] \in [Call -> Answer]
  BY <1>1, ShownTyped, TextTyped
<1>3. Grown(n) \in Talk
  <2>1. Grown(n) = [answer |-> [messages.answer EXCEPT ![active].text = Append(@, n)],
                    asked  |-> messages.asked]
    BY Changed DEF Grown, TypeOK
  <2> QED
    BY <1>2, <2>1, ShownTyped, TalkTyped
<1>4. Extends(Grown(n))
  BY <1>1 DEF TypeOK, Talk, Grown, Extends, Final
<1> QED
  BY <1>3, <1>4

LEMMA CloseIsDiskStep ==
    ASSUME TypeOK, OneRunning, up, NEW c \in Call, NEW how \in Final, Close(c, how)
    PROVE  DiskStep /\ (active' = active \/ active' = None) /\ cancel' \in BOOLEAN
<1>1. CASE active = c
  <2>1. Closed(how) \in Talk /\ Extends(Closed(how))
    BY <1>1, ClosedExtends
  <2> QED
    BY <1>1, <2>1 DEF Close, ActiveTurn, ActiveEnds, DiskStep, TypeOK
<1>2. CASE active # c
  BY <1>2 DEF Close, ActiveTurn, DiskStep, TypeOK
<1> QED
  BY <1>1, <1>2

LEMMA FirstNotice ==
    ASSUME TypeOK, notices # <<>>
    PROVE  Head(notices) \in Notice /\ Tail(notices) \in Seq(Notice)
BY DEF TypeOK

LEMMA DeliverIsDiskStep ==
    ASSUME TypeOK, OneRunning, Deliver
    PROVE  DiskStep /\ (active' = active \/ active' = None) /\ cancel' \in BOOLEAN
<1>1. Head(notices) \in Notice /\ up
  BY FirstNotice DEF Deliver
<1>2. CASE Head(notices).kind = "chunk" /\ Chunk(Head(notices).call, Head(notices).n)
              /\ UNCHANGED <<active, cancel>>
  <2>1. Head(notices).n \in 1 .. MaxChunks
    BY <1>1, <1>2 DEF Notice
  <2>2. CASE active = Head(notices).call
    <3>1. active # None
      BY <1>1, <2>2 DEF Notice
    <3>2. Grown(Head(notices).n) \in Talk /\ Extends(Grown(Head(notices).n))
      BY <1>1, <2>1, <3>1, GrownExtends
    <3> QED
      BY <1>2, <2>2, <3>2 DEF Chunk, ActiveTurn, DiskStep, TypeOK
  <2>3. CASE active # Head(notices).call
    BY <1>2, <2>3 DEF Chunk, ActiveTurn, DiskStep, TypeOK
  <2> QED
    BY <2>2, <2>3
<1>3. CASE Head(notices).kind = "closed" /\ Close(Head(notices).call, Head(notices).status)
  <2>1. Head(notices).call \in Call /\ Head(notices).status \in Final
    BY <1>1, <1>3 DEF Notice
  <2> QED
    BY <1>1, <1>3, <2>1, CloseIsDiskStep
<1> QED
  BY <1>2, <1>3 DEF Deliver

\* Every step but the end and the start of the process is one of these.
Up == \/ Command \/ Deliver
      \/ \E c \in Call : Sending(c)
      \/ up /\ Serving
      \/ \E c \in Call : up /\ Turn(c)
      \/ Disconnect \/ Quit

LEMMA UpIsDiskStep ==
    ASSUME TypeOK, OneRunning, Up
    PROVE  DiskStep
<1>1. ASSUME NEW c \in Call, NEW q \in Query, Open(c, q)
      PROVE  DiskStep
  BY <1>1, OpenedExtends DEF Open, DiskStep
<1>2. ASSUME NEW q \in Query, Queue(q)
      PROVE  DiskStep
  BY <1>2, SteeredExtends DEF Queue, DiskStep
<1>3. CASE Deliver
  BY <1>3, DeliverIsDiskStep
<1>4. ASSUME NEW c \in Call, SenderCloses(c)
      PROVE  DiskStep
  BY <1>4, CloseIsDiskStep DEF SenderCloses, Final
<1>5. CASE Quit
  <2>1. CASE active = None
    BY <1>5, <2>1 DEF Quit, DiskStep
  <2>2. CASE active # None
    <3>1. active \in Call
      BY <2>2 DEF TypeOK
    <3> QED
      BY <1>5, <2>2, <3>1, CloseIsDiskStep DEF Quit, Final
  <2> QED
    BY <2>1, <2>2
<1>6. CASE Stop \/ Disconnect \/ (\E c \in Call : SenderAccepted(c) \/ SenderGivesUp(c))
  BY <1>6 DEF Stop, Disconnect, SenderAccepted, SenderGivesUp, DiskStep, sessVars
<1>7. CASE Serving \/ \E c \in Call : Turn(c)
  BY <1>7 DEF Serving, GoStarts, GoCancels, Turn, GoChunk, GoSteer, Drain, GoEnds, DiskStep, sessVars
<1> QED
  BY <1>1, <1>2, <1>3, <1>4, <1>5, <1>6, <1>7 DEF Up, Command, Sending

LEMMA NextSplits == [Next]_vars => Up \/ Crash \/ Restart \/ UNCHANGED vars
BY DEF Next, Ending, Up

----------------------------------------------------------------------------
(* What follows of a disk step.                                            *)

LEMMA DiskStepTyped ==
    ASSUME TypeOK, DiskStep
    PROVE  /\ messages' \in Talk /\ replay' \in Talk
           /\ tail' \in {"clean", "torn", "broken"}
           /\ errors' \in 0 .. MaxErrors
<1>1. CASE UNCHANGED <<messages, diskVars, errors>>
  BY <1>1 DEF TypeOK, diskVars
<1>2. ASSUME NEW m \in Talk, Commit(m) \/ CommitFails(m)
      PROVE  /\ messages' \in Talk /\ replay' \in Talk
             /\ tail' \in {"clean", "torn", "broken"}
             /\ errors' \in 0 .. MaxErrors
  BY <1>2 DEF Commit, CommitFails, Failing, PartlyRecorded, Recorded, Logged, TypeOK, diskVars
<1> QED
  BY <1>1, <1>2 DEF DiskStep

LEMMA DiskStepDurable ==
    ASSUME TypeOK, ShownIsDurable, DiskStep
    PROVE  ShownIsDurable'
<1>1. CASE UNCHANGED <<messages, diskVars, errors>>
  BY <1>1 DEF ShownIsDurable, diskVars
<1>2. ASSUME NEW m \in Talk, Extends(m), Commit(m)
      PROVE  ShownIsDurable'
  BY <1>2 DEF Commit, Recorded, ShownIsDurable
<1>3. ASSUME NEW m \in Talk, Extends(m), CommitFails(m)
      PROVE  ShownIsDurable'
  <2>1. messages' = messages /\ (replay' = replay \/ replay' = m)
    BY <1>3 DEF CommitFails, PartlyRecorded, Recorded, diskVars
  <2> QED
    BY <1>3, <2>1 DEF ShownIsDurable, Extends
<1> QED
  BY <1>1, <1>2, <1>3 DEF DiskStep

LEMMA DiskStepTail ==
    ASSUME TypeOK, up, up', TailOK, DiskStep
    PROVE  TailOK'
BY DEF TypeOK, TailOK, DiskStep, Commit, CommitFails, Failing, Recorded, Logged, diskVars

LEMMA DiskStepKeepsClosed ==
    ASSUME DiskStep, NEW c \in Call, messages.answer[c].status \in Final
    PROVE  messages'.answer[c] = messages.answer[c]
BY DEF DiskStep, Commit, CommitFails, Extends

----------------------------------------------------------------------------
(* The steps of the process while it is up.                                *)

\* The types of what is not on disk.
RestOK ==
    /\ active \in Call \cup {None} /\ cancel \in BOOLEAN
    /\ queued \in Seq(Query)
    /\ up \in BOOLEAN /\ quit \in BOOLEAN /\ conn \in BOOLEAN
    /\ sender \in [Call -> {"none", "start", "giveup", "left"}]
    /\ requests \in SUBSET Request
    /\ goAt \in [Call -> {"none", "refused", "work", "steer", "over"}]
    /\ ctxDone \in SUBSET Call
    /\ sent \in [Call -> 0 .. MaxChunks]
    /\ drains \in SUBSET Call
    /\ told \in [Call -> Seq(Query)]
    /\ notices \in Seq(Notice)

LEMMA SentTyped ==
    ASSUME NEW c \in Call, NEW method \in {"turn.start", "turn.cancel"}, NEW who \in {"send", "stop"}
    PROVE  Sent(method, c, who) \in SUBSET Request
BY DEF Sent, Request

LEMMA CommandTyped ==
    ASSUME TypeOK, OneRunning, Command \/ Deliver \/ (\E c \in Call : Sending(c))
    PROVE  RestOK'
<1> USE DEF RestOK
<1>1. ASSUME NEW c \in Call, NEW q \in Query, Open(c, q)
      PROVE  RestOK'
  <2>1. Sent("turn.start", c, "send") \in SUBSET Request
    BY SentTyped
  <2>2. requests' \in SUBSET Request /\ sender' \in [Call -> {"none", "start", "giveup", "left"}]
    BY <1>1, <2>1 DEF Open, TypeOK
  <2>3. active' \in Call \cup {None} /\ cancel' \in BOOLEAN
    BY <1>1 DEF Open, TypeOK
  <2> QED
    BY <1>1, <2>2, <2>3 DEF Open, TypeOK, procVars, goVars
<1>2. ASSUME NEW q \in Query, Queue(q)
      PROVE  RestOK'
  <2>1. queued \in Seq(Query) /\ Append(queued, q) \in Seq(Query)
    BY DEF TypeOK
  <2>2. queued' \in Seq(Query)
    BY <1>2, <2>1 DEF Queue
  <2> QED
    BY <1>2, <2>2 DEF Queue, TypeOK, procVars, goVars
<1>3. CASE Stop
  <2>1. Sent("turn.cancel", active, "stop") \in SUBSET Request
    BY <1>3, SentTyped DEF Stop, TypeOK
  <2> QED
    BY <1>3, <2>1 DEF Stop, TypeOK, procVars, goVars, diskVars
<1>4. CASE Deliver
  <2>1. (active' = active \/ active' = None) /\ cancel' \in BOOLEAN
    BY <1>4, DeliverIsDiskStep
  <2>2. notices' \in Seq(Notice)
    BY <1>4, FirstNotice DEF Deliver
  <2> QED
    BY <1>4, <2>1, <2>2 DEF Deliver, TypeOK, procVars, goVars
<1>5. ASSUME NEW c \in Call, SenderAccepted(c) \/ SenderGivesUp(c)
      PROVE  RestOK'
  <2>1. Sent("turn.cancel", c, "send") \in SUBSET Request
    BY SentTyped
  <2> QED
    BY <1>5, <2>1 DEF SenderAccepted, SenderGivesUp, TypeOK, sessVars, procVars, goVars
<1>6. ASSUME NEW c \in Call, SenderCloses(c)
      PROVE  RestOK'
  <2>1. (active' = active \/ active' = None) /\ cancel' \in BOOLEAN
    BY <1>6, CloseIsDiskStep DEF SenderCloses, Final
  <2> QED
    BY <1>6, <2>1 DEF SenderCloses, TypeOK, procVars, goVars
<1> QED
  BY <1>1, <1>2, <1>3, <1>4, <1>5, <1>6 DEF Command, Sending

LEMMA GoTyped ==
    ASSUME TypeOK, Serving \/ \E c \in Call : Turn(c)
    PROVE  RestOK'
<1> USE DEF RestOK
<1>1. ASSUME NEW r \in requests, GoStarts(r.call) \/ GoCancels(r)
      PROVE  RestOK'
  <2>1. r.call \in Call
    BY DEF TypeOK, Request
  <2>2. requests' \subseteq Request
    BY <1>1 DEF GoStarts, GoCancels, TypeOK
  <2>3. goAt' \in [Call -> {"none", "refused", "work", "steer", "over"}]
    BY <1>1, <2>1 DEF GoStarts, GoCancels, TypeOK
  <2> QED
    BY <1>1, <2>1, <2>2, <2>3 DEF GoStarts, GoCancels, TypeOK, sessVars, procVars
<1>2. ASSUME NEW c \in Call, GoChunk(c)
      PROVE  RestOK'
  <2>1. [kind |-> "chunk", call |-> c, n |-> sent[c] + 1] \in Notice
    BY <1>2 DEF GoChunk, TypeOK, Notice
  <2>2. notices' \in Seq(Notice)
    BY <1>2, <2>1 DEF GoChunk, TypeOK
  <2>3. sent' \in [Call -> 0 .. MaxChunks]
    BY <1>2 DEF GoChunk, TypeOK
  <2> QED
    BY <1>2, <2>2, <2>3 DEF GoChunk, TypeOK, sessVars, procVars
<1>3. ASSUME NEW c \in Call, GoSteer(c)
      PROVE  RestOK'
  BY <1>3 DEF GoSteer, TypeOK, sessVars, procVars
<1>4. ASSUME NEW c \in Call, Drain(c)
      PROVE  RestOK'
  <2>1. Told(c) \in Seq(Query) /\ QueueTaken \in Seq(Query)
    BY DEF Told, QueueTaken, TypeOK
  <2>2. told' \in [Call -> Seq(Query)]
    BY <1>4, <2>1 DEF Drain, TypeOK
  <2>3. goAt' \in [Call -> {"none", "refused", "work", "steer", "over"}]
    BY <1>4 DEF Drain, TypeOK
  <2> QED
    BY <1>4, <2>1, <2>2, <2>3 DEF Drain, TypeOK, procVars
<1>5. ASSUME NEW c \in Call, NEW how \in Final, GoEnds(c, how)
      PROVE  RestOK'
  <2>1. [kind |-> "closed", call |-> c, status |-> how] \in Notice
    BY DEF Notice
  <2>2. notices' \in Seq(Notice)
    BY <1>5, <2>1 DEF GoEnds, TypeOK
  <2> QED
    BY <1>5, <2>2 DEF GoEnds, TypeOK, sessVars, procVars
<1> QED
  BY <1>1, <1>2, <1>3, <1>4, <1>5 DEF Serving, Turn

LEMMA UpTyped ==
    ASSUME TypeOK, OneRunning, Up
    PROVE  TypeOK'
<1>1. RestOK'
  <2>1. CASE Command \/ Deliver \/ (\E c \in Call : Sending(c))
    BY <2>1, CommandTyped
  <2>2. CASE Serving \/ \E c \in Call : Turn(c)
    BY <2>2, GoTyped
  <2>3. CASE Disconnect
    <3>1. PICK k \in 0 .. Len(notices) : notices' = SubSeq(notices, 1, k)
      BY <2>3 DEF Disconnect
    <3>2. notices' \in Seq(Notice)
      BY <3>1 DEF TypeOK
    <3>3. goAt' \in [Call -> {"none", "refused", "work", "steer", "over"}]
      BY <2>3 DEF Disconnect, TypeOK
    <3> QED
      BY <2>3, <3>2, <3>3 DEF Disconnect, TypeOK, RestOK, sessVars
  <2>4. CASE Quit
    <3>1. (active' = active \/ active' = None) /\ cancel' \in BOOLEAN
      <4>1. CASE active = None
        BY <2>4, <4>1 DEF Quit, TypeOK
      <4>2. CASE active # None
        BY <2>4, <4>2, CloseIsDiskStep DEF Quit, TypeOK, Final
      <4> QED
        BY <4>1, <4>2
    <3> QED
      BY <2>4, <3>1 DEF Quit, TypeOK, RestOK, goVars
  <2> QED
    BY <2>1, <2>2, <2>3, <2>4 DEF Up
<1>2. /\ messages' \in Talk /\ replay' \in Talk
      /\ tail' \in {"clean", "torn", "broken"}
      /\ errors' \in 0 .. MaxErrors
  BY UpIsDiskStep, DiskStepTyped
<1> QED
  BY <1>1, <1>2 DEF RestOK, TypeOK

----------------------------------------------------------------------------
(* One answer runs.                                                        *)

LEMMA UpOneRunning ==
    ASSUME TypeOK, OneRunning, up, Up
    PROVE  OneRunning'
<1>1. ASSUME UNCHANGED <<messages, active>>
      PROVE  OneRunning'
  BY <1>1 DEF OneRunning
<1>2. ASSUME NEW c \in Call, NEW how \in Final, Close(c, how)
      PROVE  OneRunning'
  <2>1. CASE active = c /\ messages' = Closed(how) /\ active' = None
    <3>1. \A d \in Call : messages'.answer[d].status =
                            IF d = c THEN how ELSE messages.answer[d].status
      BY <2>1, ShownTyped DEF Closed
    <3>2. how # "running"
      BY DEF Final
    <3> QED
      BY <2>1, <3>1, <3>2 DEF OneRunning
  <2>2. CASE UNCHANGED <<messages, active>>
    BY <1>1, <2>2
  <2> QED
    BY <1>2, <2>1, <2>2 DEF Close, ActiveTurn, ActiveEnds, Commit, CommitFails
<1>3. ASSUME NEW c \in Call, NEW q \in Query, Open(c, q)
      PROVE  OneRunning'
  <2>1. CASE messages' = Opened(c, q) /\ active' = c /\ active = None
    <3>1. \A d \in Call : messages'.answer[d].status =
                            IF d = c THEN "running" ELSE messages.answer[d].status
      BY <2>1, ShownTyped DEF Opened
    <3> QED
      BY <2>1, <3>1 DEF OneRunning
  <2>2. CASE UNCHANGED <<messages, active>>
    BY <1>1, <2>2
  <2> QED
    BY <1>3, <2>1, <2>2 DEF Open, Commit, CommitFails
<1>4. ASSUME NEW q \in Query, Queue(q)
      PROVE  OneRunning'
  <2>1. messages'.answer = messages.answer /\ UNCHANGED active
    BY <1>4, ShownTyped DEF Queue, Commit, CommitFails, Steered
  <2> QED
    BY <2>1 DEF OneRunning
<1>5. CASE Deliver
  <2>1. Head(notices) \in Notice
    BY <1>5, FirstNotice DEF Deliver
  <2>2. CASE Chunk(Head(notices).call, Head(notices).n) /\ UNCHANGED active
    <3>1. CASE active \in Call /\ messages' = Grown(Head(notices).n)
      <4>1. \A d \in Call : messages'.answer[d].status = messages.answer[d].status
        BY <3>1, ShownTyped DEF Grown, Answer
      <4> QED
        BY <2>2, <4>1 DEF OneRunning
    <3>2. CASE UNCHANGED messages
      BY <1>1, <2>2, <3>2
    <3> QED
      <4>1. Head(notices).call \in Call
        BY <2>1 DEF Notice
      <4> QED
        BY <2>2, <3>1, <3>2, <4>1 DEF Chunk, ActiveTurn, Commit, CommitFails
  <2>3. CASE Head(notices).kind = "closed" /\ Close(Head(notices).call, Head(notices).status)
    <3>1. Head(notices).call \in Call /\ Head(notices).status \in Final
      BY <2>1, <2>3 DEF Notice
    <3> QED
      BY <1>2, <2>3, <3>1
  <2> QED
    BY <1>5, <2>2, <2>3 DEF Deliver
<1>6. ASSUME NEW c \in Call, SenderCloses(c)
      PROVE  OneRunning'
  BY <1>2, <1>6 DEF SenderCloses, Final
<1>7. CASE Quit
  <2>1. CASE active = None
    BY <1>1, <1>7, <2>1 DEF Quit
  <2>2. CASE active # None
    BY <1>2, <1>7, <2>2 DEF Quit, TypeOK, Final
  <2> QED
    BY <2>1, <2>2
<1>8. CASE Stop \/ Disconnect \/ (\E c \in Call : SenderAccepted(c) \/ SenderGivesUp(c))
  BY <1>1, <1>8 DEF Stop, Disconnect, SenderAccepted, SenderGivesUp, sessVars
<1>9. CASE Serving \/ \E c \in Call : Turn(c)
  BY <1>1, <1>9 DEF Serving, GoStarts, GoCancels, Turn, GoChunk, GoSteer, Drain, GoEnds, sessVars
<1> QED
  BY <1>2, <1>3, <1>4, <1>5, <1>6, <1>7, <1>8, <1>9 DEF Up, Command, Sending

----------------------------------------------------------------------------
(* The end and the start of the process.                                   *)

LEMMA UnderWayExtends ==
    ASSUME TypeOK, OneRunning, up, NEW m \in UnderWay
    PROVE  m \in Talk /\ Extends(m)
<1>1. CASE active = None
  <2>1. PICK c \in Call, q \in Query : Fresh(c) /\ m = Opened(c, q)
    BY <1>1 DEF UnderWay
  <2> QED
    BY <2>1, OpenedExtends
<1>2. CASE active # None
  <2>1. CASE \E q \in Query : m = Steered(q)
    BY <1>2, <2>1, SteeredExtends
  <2>2. CASE \E how \in Final : m = Closed(how)
    BY <1>2, <2>2, ClosedExtends
  <2>3. CASE \E n \in 1 .. MaxChunks : m = Grown(n)
    BY <1>2, <2>3, GrownExtends
  <2>4. \A i \in DOMAIN notices : notices[i] \in Notice
    BY DEF TypeOK
  <2>5. \A n \in Notice : IF n.kind = "chunk" THEN n.n \in 1 .. MaxChunks ELSE n.status \in Final
    BY DEF Notice
  <2>6. "failed" \in Final /\ "cancelled" \in Final
    BY DEF Final
  <2>7. \/ \E q \in Query : m = Steered(q)
        \/ m = Closed("failed") \/ m = Closed("cancelled")
        \/ \E i \in DOMAIN notices : m = IF notices[i].kind = "chunk" THEN Grown(notices[i].n)
                                         ELSE Closed(notices[i].status)
    BY <1>2 DEF UnderWay
  <2> QED
    BY <2>1, <2>2, <2>3, <2>4, <2>5, <2>6, <2>7
<1> QED
  BY <1>1, <1>2

Safe == TypeOK /\ OneRunning /\ ShownIsDurable /\ DownIsIdle /\ TailOK

LEMMA CrashKeepsSafe ==
    ASSUME Safe, Crash
    PROVE  Safe'
<1>1. /\ messages' = messages /\ errors' = errors /\ up /\ up' = FALSE /\ active' = None
      /\ \/ UNCHANGED diskVars
         \/ \E m \in Talk : Extends(m) /\ PartlyRecorded(m)
  <2>1. up
    BY DEF Crash
  <2>2. \A m \in UnderWay : m \in Talk /\ Extends(m)
    BY <2>1, UnderWayExtends DEF Safe
  <2> QED
    BY <2>1, <2>2 DEF Crash
<1>2. /\ replay' \in Talk /\ tail' \in {"clean", "torn", "broken"}
      /\ ShownIsDurable'
  <2>1. CASE UNCHANGED diskVars
    BY <1>1, <2>1 DEF Safe, TypeOK, ShownIsDurable, diskVars
  <2>2. ASSUME NEW m \in Talk, Extends(m), PartlyRecorded(m)
        PROVE  /\ replay' \in Talk /\ tail' \in {"clean", "torn", "broken"}
               /\ ShownIsDurable'
    <3>1. replay' = replay \/ replay' = m
      BY <2>2 DEF PartlyRecorded, Recorded, diskVars
    <3>2. ShownIsDurable'
      BY <1>1, <2>2, <3>1 DEF Safe, ShownIsDurable, Extends
    <3> QED
      BY <2>2, <3>1, <3>2 DEF PartlyRecorded, Recorded, Logged, diskVars, Safe, TypeOK
  <2> QED
    BY <1>1, <2>1, <2>2
<1>3. TailOK'
  BY <1>1 DEF Safe, TailOK, PartlyRecorded, Recorded, Logged, diskVars
<1>4. RestOK'
  <2>1. <<>> \in Seq(Query) /\ <<>> \in Seq(Notice)
    OBVIOUS
  <2>2. /\ Each(0) \in [Call -> 0 .. MaxChunks]
        /\ Each(<<>>) \in [Call -> Seq(Query)]
        /\ Each("none") \in [Call -> {"none", "start", "giveup", "left"}]
        /\ Each("none") \in [Call -> {"none", "refused", "work", "steer", "over"}]
    BY <2>1 DEF Each
  <2> QED
    BY <2>1, <2>2 DEF Crash, RestOK
<1> QED
  BY <1>1, <1>2, <1>3, <1>4 DEF Safe, TypeOK, RestOK, OneRunning, DownIsIdle

LEMMA RestartKeepsSafe ==
    ASSUME Safe, Restart
    PROVE  Safe' /\ \A c \in Call : messages.answer[c].status \in Final =>
                                        messages'.answer[c] = messages.answer[c]
<1>1. /\ ~up /\ up' /\ active = None /\ active' = None /\ messages' = replay'
      /\ replay' = [answer |-> Reload(replay.answer), asked |-> replay.asked]
      /\ tail' = "clean" /\ errors' = errors
  BY Changed DEF Restart, Repaired, Safe, DownIsIdle, TypeOK
<1>2. \A c \in Call :
        /\ Reload(replay.answer)[c] \in Answer
        /\ Reload(replay.answer)[c].status # "running"
        /\ replay.answer[c].status # "running" =>
             Reload(replay.answer)[c] = replay.answer[c]
  <2> SUFFICES ASSUME NEW c \in Call
               PROVE  LET a == replay.answer[c]
                          b == IF a.status = "running" THEN [a EXCEPT !.status = "cancelled"] ELSE a
                      IN  b \in Answer /\ b.status # "running" /\ (a.status # "running" => b = a)
    BY DEF Reload
  <2>1. replay.answer[c] \in Answer
    BY ShownTyped DEF Safe
  <2> QED
    BY <2>1 DEF Answer, Final
<1>3. Reload(replay.answer) \in [Call -> Answer]
  <2>1. Reload(replay.answer) = [c \in Call |-> Reload(replay.answer)[c]]
    BY DEF Reload
  <2> QED
    BY <1>2, <2>1
<1>4. replay' \in Talk
  BY <1>1, <1>3, TalkTyped, ShownTyped DEF Safe
<1>5. TypeOK'
  BY <1>1, <1>4 DEF Restart, Safe, TypeOK, goVars
<1>6. OneRunning' /\ ShownIsDurable' /\ DownIsIdle' /\ TailOK'
  <2>1. messages'.answer = Reload(replay.answer)
    BY <1>1
  <2>2. OneRunning'
    BY <1>1, <1>2, <2>1 DEF OneRunning, Safe, TypeOK
  <2>3. ShownIsDurable'
    BY <1>1 DEF ShownIsDurable
  <2> QED
    BY <1>1, <2>2, <2>3 DEF DownIsIdle, TailOK
<1>7. ASSUME NEW c \in Call, messages.answer[c].status \in Final
      PROVE  messages'.answer[c] = messages.answer[c]
  <2>1. replay.answer[c] = messages.answer[c] /\ replay.answer[c].status # "running"
    BY <1>7 DEF Safe, ShownIsDurable, Final
  <2>2. messages'.answer = Reload(replay.answer)
    BY <1>1
  <2> QED
    BY <1>2, <2>1, <2>2
<1> QED
  BY <1>5, <1>6, <1>7 DEF Safe

LEMMA StepKeepsSafe ==
    ASSUME Safe, [Next]_vars
    PROVE  Safe'
<1>1. CASE Up
  <2>1. up /\ up'
    <3>1. CASE Command \/ Deliver \/ \E c \in Call : Sending(c)
      BY <3>1 DEF Command, Open, Queue, Stop, Deliver, Sending, SenderAccepted, SenderGivesUp,
           SenderCloses, procVars
    <3>2. CASE Disconnect \/ Quit
      BY <3>2 DEF Disconnect, Quit
    <3>3. CASE up /\ Serving
      BY <3>3 DEF Serving, GoStarts, GoCancels, procVars
    <3>4. CASE \E c \in Call : up /\ Turn(c)
      BY <3>4 DEF Turn, GoChunk, GoSteer, Drain, GoEnds, procVars
    <3> QED
      BY <1>1, <3>1, <3>2, <3>3, <3>4 DEF Up
  <2>2. TypeOK' /\ OneRunning'
    BY <1>1, <2>1, UpTyped, UpOneRunning DEF Safe
  <2>3. DiskStep
    BY <1>1, UpIsDiskStep DEF Safe
  <2>4. ShownIsDurable' /\ TailOK'
    BY <2>1, <2>3, DiskStepDurable, DiskStepTail DEF Safe
  <2> QED
    BY <2>1, <2>2, <2>4 DEF Safe, DownIsIdle
<1>2. CASE Crash
  BY <1>2, CrashKeepsSafe
<1>3. CASE Restart
  BY <1>3, RestartKeepsSafe
<1>4. CASE UNCHANGED vars
  <2>1. UNCHANGED <<messages, replay, tail, errors, up, active>>
    BY <1>4 DEF vars, sessVars, diskVars, procVars
  <2>2. TypeOK'
    <3>1. TypeOK
      BY DEF Safe
    <3>2. /\ UNCHANGED <<messages, replay, tail, errors>>
          /\ UNCHANGED <<active, cancel, queued, up, quit, conn, sender, requests>>
          /\ UNCHANGED <<goAt, ctxDone, sent, drains, told, notices>>
      BY <1>4 DEF vars, sessVars, diskVars, procVars, goVars
    <3> QED
      BY <3>1, <3>2 DEF TypeOK
  <2> QED
    BY <2>1, <2>2 DEF Safe, OneRunning, ShownIsDurable, DownIsIdle, TailOK
<1> QED
  BY <1>1, <1>2, <1>3, <1>4, NextSplits

LEMMA InitSafe == Init => Safe
<1> SUFFICES ASSUME Init PROVE Safe
  OBVIOUS
<1>1. /\ <<>> \in Seq(Query) /\ <<>> \in Seq(Notice) /\ <<>> \in Seq(1 .. MaxChunks)
  OBVIOUS
<1>2. Each([status |-> "absent", text |-> <<>>]) \in [Call -> Answer]
  BY <1>1 DEF Each, Answer
<1>3. Nothing \in Talk
  BY <1>2, TalkTyped DEF Nothing
<1>4. /\ Each(0) \in [Call -> 0 .. MaxChunks]
      /\ Each(<<>>) \in [Call -> Seq(Query)]
      /\ Each("none") \in [Call -> {"none", "start", "giveup", "left"}]
      /\ Each("none") \in [Call -> {"none", "refused", "work", "steer", "over"}]
  BY <1>1 DEF Each
<1>5. TypeOK
  <2>1. /\ sender \in [Call -> {"none", "start", "giveup", "left"}]
        /\ goAt \in [Call -> {"none", "refused", "work", "steer", "over"}]
        /\ sent \in [Call -> 0 .. MaxChunks]
        /\ told \in [Call -> Seq(Query)]
    BY <1>4 DEF Init
  <2>2. /\ messages \in Talk /\ replay \in Talk
        /\ queued \in Seq(Query) /\ notices \in Seq(Notice)
    BY <1>1, <1>3 DEF Init
  <2>3. /\ active \in Call \cup {None} /\ cancel \in BOOLEAN
        /\ tail \in {"clean", "torn", "broken"}
        /\ up \in BOOLEAN /\ quit \in BOOLEAN /\ conn \in BOOLEAN
    BY DEF Init
  <2>4. errors \in 0 .. MaxErrors
    BY DEF Init
  <2>5. requests \in SUBSET Request /\ ctxDone \in SUBSET Call /\ drains \in SUBSET Call
    BY DEF Init
  <2> QED
    BY <2>1, <2>2, <2>3, <2>4, <2>5 DEF TypeOK
<1>6. \A c \in Call : messages.answer[c].status = "absent"
  BY DEF Init, Nothing, Each
<1>7. OneRunning /\ ShownIsDurable
  BY <1>6 DEF Init, OneRunning, ShownIsDurable, Final
<1> QED
  BY <1>5, <1>7 DEF Init, Safe, DownIsIdle, TailOK

LEMMA SafeHolds == Spec => []Safe
<1>1. Init => Safe
  BY InitSafe
<1>2. Safe /\ [Next]_vars => Safe'
  BY StepKeepsSafe
<1> QED
  BY <1>1, <1>2, PTL DEF Spec

----------------------------------------------------------------------------
\* The types of the session and its files (Sess and State of src/src/sess.rs).
THEOREM SessionTyped == Spec => []TypeOK
<1>1. Safe => TypeOK
  BY DEF Safe
<1> QED
  BY <1>1, SafeHolds, PTL

\* One answer runs and it is the active one (send, close, shutdown and new of Sess).
THEOREM SessionRunsOne == Spec => []OneRunning
<1>1. Safe => OneRunning
  BY DEF Safe
<1> QED
  BY <1>1, SafeHolds, PTL

\* What the interface showed as typed or closed is on disk (Sess::commit and
\* Store::record of src/src/store.rs), whichever write fails or is cut short.
THEOREM SessionDurable == Spec => []ShownIsDurable
<1>1. Safe => ShownIsDurable
  BY DEF Safe
<1> QED
  BY <1>1, SafeHolds, PTL

\* The history can be read again unless a write failed (Store::open).
THEOREM SessionReadable == Spec => []HistoryReadable
<1>1. Safe => HistoryReadable
  BY DEF Safe, TailOK, HistoryReadable
<1> QED
  BY <1>1, SafeHolds, PTL

\* What was closed stays closed as it was, over every later step and every restart.
THEOREM SessionKeepsClosed == Spec => ClosedStays
<1> DEFINE Stays == \A c \in Call : messages.answer[c].status \in Final =>
                                     messages'.answer[c] = messages.answer[c]
<1>1. Safe /\ [Next]_vars => [Stays]_messages
  <2> SUFFICES ASSUME Safe, [Next]_vars, messages' # messages PROVE Stays
    OBVIOUS
  <2>1. CASE Up
    BY <2>1, UpIsDiskStep, DiskStepKeepsClosed DEF Safe
  <2>2. CASE Restart
    BY <2>2, RestartKeepsSafe
  <2>3. CASE Crash \/ UNCHANGED vars
    BY <2>3 DEF Crash, vars, sessVars
  <2> QED
    BY <2>1, <2>2, <2>3, NextSplits
<1> QED
  BY <1>1, SafeHolds, PTL DEF Spec, ClosedStays
----------------------------------------------------------------------------
(* The steering queue (Sess::drain and drainSteer of src/go/loop.go).       *)

\* A steered message has one place, in the queue or in the history of one turn, and was
\* asked; a process that is down has none.
QueueDistinct == \A i, j \in 1 .. Len(queued) : queued[i] = queued[j] => i = j
ToldDistinct ==
    \A c, d \in Call : \A i \in 1 .. Len(told[c]), j \in 1 .. Len(told[d]) :
        told[c][i] = told[d][j] => c = d /\ i = j
ToldNotQueued ==
    \A c \in Call : \A i \in 1 .. Len(told[c]), j \in 1 .. Len(queued) : told[c][i] # queued[j]
QueueAsked == \A i \in 1 .. Len(queued) : \E c \in Call : <<queued[i], c>> \in messages.asked
ToldAsked  ==
    \A d \in Call : \A i \in 1 .. Len(told[d]) : \E c \in Call : <<told[d][i], c>> \in messages.asked
DownEmpty  == ~up => Len(queued) = 0 /\ \A c \in Call : Len(told[c]) = 0

QueueOK == QueueDistinct /\ ToldDistinct /\ ToldNotQueued /\ QueueAsked /\ ToldAsked /\ DownEmpty

LEMMA DiskStepAsks ==
    ASSUME DiskStep
    PROVE  messages.asked \subseteq messages'.asked
BY DEF DiskStep, Extends, Commit, CommitFails

LEMMA QueueSame ==
    ASSUME QueueOK, UNCHANGED <<queued, told>>, messages.asked \subseteq messages'.asked, up' \/ ~up
    PROVE  QueueOK'
<1>1. queued' = queued /\ told' = told
  OBVIOUS
<1>2. QueueDistinct' /\ ToldDistinct' /\ ToldNotQueued'
  BY <1>1 DEF QueueOK, QueueDistinct, ToldDistinct, ToldNotQueued
<1>3. QueueAsked'
  BY <1>1 DEF QueueOK, QueueAsked
<1>4. ToldAsked'
  BY <1>1 DEF QueueOK, ToldAsked
<1>5. DownEmpty'
  BY <1>1 DEF QueueOK, DownEmpty
<1> QED
  BY <1>2, <1>3, <1>4, <1>5 DEF QueueOK

\* Nothing is queued and nothing told.
LEMMA QueueEmpty ==
    ASSUME Len(queued) = 0, \A c \in Call : Len(told[c]) = 0
    PROVE  QueueOK
<1>1. 1 .. Len(queued) = {} /\ \A c \in Call : 1 .. Len(told[c]) = {}
  OBVIOUS
<1>2. QueueDistinct /\ QueueAsked
  BY <1>1 DEF QueueDistinct, QueueAsked
<1>3. ToldDistinct /\ ToldNotQueued /\ ToldAsked
  BY <1>1 DEF ToldDistinct, ToldNotQueued, ToldAsked
<1>4. DownEmpty
  BY DEF DownEmpty
<1> QED
  BY <1>2, <1>3, <1>4 DEF QueueOK

\* Nothing stays queued and nothing told.
LEMMA QueueEmptied ==
    ASSUME Len(queued') = 0, \A c \in Call : Len(told'[c]) = 0
    PROVE  QueueOK'
<1>1. 1 .. Len(queued') = {} /\ \A c \in Call : 1 .. Len(told'[c]) = {}
  OBVIOUS
<1>2. QueueDistinct' /\ QueueAsked'
  BY <1>1 DEF QueueDistinct, QueueAsked
<1>3. ToldDistinct' /\ ToldNotQueued' /\ ToldAsked'
  BY <1>1 DEF ToldDistinct, ToldNotQueued, ToldAsked
<1>4. DownEmpty'
  BY DEF DownEmpty
<1> QED
  BY <1>2, <1>3, <1>4 DEF QueueOK

\* A message that is typed was nowhere before.
LEMMA QueuesOnce ==
    ASSUME Safe, QueueOK, NEW q \in Query, Queue(q)
    PROVE  QueueOK'
<1>1. /\ up /\ up' /\ told' = told /\ active \in Call /\ queued \in Seq(Query) /\ q \in Query
      /\ \A c \in Call : told[c] \in Seq(Query)
  BY DEF Queue, procVars, goVars, Safe, TypeOK
<1>2. messages.asked \subseteq messages'.asked
  BY SteeredExtends, DiskStepAsks DEF Queue, DiskStep, Safe
<1>3. CASE queued' = queued
  BY <1>1, <1>2, <1>3, QueueSame
<1>4. CASE Commit(Steered(q)) /\ queued' = Append(queued, q)
  <2>1. \A i \in 1 .. Len(queued) : queued[i] # q
    BY DEF Queue, Untyped, QueueOK, QueueAsked
  <2>2. \A c \in Call : \A i \in 1 .. Len(told[c]) : told[c][i] # q
    BY DEF Queue, Untyped, QueueOK, ToldAsked
  <2>3. <<q, active>> \in messages'.asked
    BY <1>1, <1>4, ShownTyped, Changed DEF Commit, Steered, Safe, TypeOK
  <2>4. /\ Len(queued') = Len(queued) + 1 /\ queued'[Len(queued) + 1] = q /\ Len(queued) \in Nat
        /\ \A i \in 1 .. Len(queued) : queued'[i] = queued[i]
    BY <1>1, <1>4
  <2>5. \A i \in 1 .. Len(queued') : i \in 1 .. Len(queued) \/ i = Len(queued) + 1
    BY <2>4
  <2>6. QueueDistinct'
    BY <2>1, <2>4, <2>5 DEF QueueOK, QueueDistinct
  <2>7. QueueAsked'
    BY <1>1, <1>2, <2>3, <2>4, <2>5 DEF QueueOK, QueueAsked
  <2>8. ToldNotQueued'
    <3> SUFFICES ASSUME NEW c \in Call, NEW i \in 1 .. Len(told[c]), NEW j \in 1 .. Len(queued')
                 PROVE  told[c][i] # queued'[j]
      BY <1>1 DEF ToldNotQueued
    <3>1. CASE j = Len(queued) + 1
      BY <2>2, <2>4, <3>1
    <3>2. CASE j \in 1 .. Len(queued)
      <4>1. told[c][i] # queued[j]
        BY <3>2 DEF QueueOK, ToldNotQueued
      <4> QED
        BY <2>4, <3>2, <4>1
    <3> QED
      BY <2>5, <3>1, <3>2
  <2>9. ToldAsked'
    BY <1>1, <1>2 DEF QueueOK, ToldAsked
  <2>10. ToldDistinct'
    <3>1. told' = told /\ ToldDistinct
      BY <1>1 DEF QueueOK
    <3> QED
      BY <3>1 DEF ToldDistinct
  <2>11. DownEmpty'
    BY <1>1 DEF DownEmpty
  <2> QED
    BY <2>6, <2>7, <2>8, <2>9, <2>10, <2>11 DEF QueueOK
<1> QED
  BY <1>3, <1>4 DEF Queue

\* What is drained leaves the queue and is told to one turn, or to nobody.
LEMMA DrainsOnce ==
    ASSUME Safe, QueueOK, NEW c \in Call, Drain(c)
    PROVE  QueueOK'
<1>1. /\ up /\ up' /\ messages' = messages /\ queued \in Seq(Query) /\ told \in [Call -> Seq(Query)]
  BY DEF Drain, procVars, Safe, TypeOK
<1>2. CASE UNCHANGED <<queued, told>>
  BY <1>1, <1>2, QueueSame
<1>3. CASE queued' = <<>> /\ told' = told
  <2>1. Len(queued') = 0
    BY <1>3
  <2>2. QueueDistinct' /\ QueueAsked'
    BY <2>1 DEF QueueDistinct, QueueAsked
  <2>3. ToldNotQueued'
    BY <2>1 DEF ToldNotQueued
  <2>4. ToldDistinct'
    BY <1>3 DEF QueueOK, ToldDistinct
  <2>5. ToldAsked'
    BY <1>1, <1>3 DEF QueueOK, ToldAsked
  <2>6. DownEmpty'
    BY <1>1 DEF DownEmpty
  <2> QED
    BY <2>2, <2>3, <2>4, <2>5, <2>6 DEF QueueOK
<1>4. CASE queued' = <<>> /\ told' = [told EXCEPT ![c] = told[c] \o queued]
  <2>1. told[c] \in Seq(Query) /\ told'[c] = told[c] \o queued /\ \A d \in Call \ {c} : told'[d] = told[d]
    BY <1>1, <1>4
  <2>2. /\ Len(told[c]) \in Nat /\ Len(queued) \in Nat
        /\ Len(told'[c]) = Len(told[c]) + Len(queued)
        /\ \A i \in 1 .. Len(told[c]) : told'[c][i] = told[c][i]
        /\ \A i \in Len(told[c]) + 1 .. Len(told[c]) + Len(queued) :
              told'[c][i] = queued[i - Len(told[c])]
    BY <1>1, <2>1
  <2> DEFINE Old(i) == i \in 1 .. Len(told[c]) /\ told'[c][i] = told[c][i]
             New(i) == i - Len(told[c]) \in 1 .. Len(queued) /\ told'[c][i] = queued[i - Len(told[c])]
  <2>3. \A i \in 1 .. Len(told'[c]) : Old(i) \/ New(i)
    BY <2>2
  <2>4. ASSUME NEW d \in Call \ {c}, NEW i \in 1 .. Len(told[d]), NEW j \in 1 .. Len(told'[c])
        PROVE  told[d][i] # told'[c][j]
    <3>1. CASE Old(j)
      BY <3>1 DEF QueueOK, ToldDistinct
    <3>2. CASE New(j)
      BY <3>2 DEF QueueOK, ToldNotQueued
    <3> QED
      BY <2>3, <3>1, <3>2
  <2>5. ASSUME NEW i \in 1 .. Len(told'[c]), NEW j \in 1 .. Len(told'[c]), told'[c][i] = told'[c][j]
        PROVE  i = j
    <3>1. CASE Old(i) /\ Old(j)
      <4>1. i \in 1 .. Len(told[c]) /\ j \in 1 .. Len(told[c]) /\ told[c][i] = told[c][j]
        BY <2>5, <3>1
      <4>2. \A k, l \in 1 .. Len(told[c]) : told[c][k] = told[c][l] => k = l
        BY DEF QueueOK, ToldDistinct
      <4> QED
        BY <4>1, <4>2
    <3>2. CASE New(i) /\ New(j)
      <4>1. i - Len(told[c]) = j - Len(told[c])
        BY <2>5, <3>2 DEF QueueOK, QueueDistinct
      <4> QED
        BY <2>2, <4>1
    <3>3. CASE Old(i) /\ New(j)
      BY <2>5, <3>3 DEF QueueOK, ToldNotQueued
    <3>4. CASE New(i) /\ Old(j)
      BY <2>5, <3>4 DEF QueueOK, ToldNotQueued
    <3> QED
      BY <2>3, <3>1, <3>2, <3>3, <3>4
  <2>6. ToldDistinct'
    <3> SUFFICES ASSUME NEW d \in Call, NEW e \in Call, NEW i \in 1 .. Len(told'[d]),
                        NEW j \in 1 .. Len(told'[e]), told'[d][i] = told'[e][j]
                 PROVE  d = e /\ i = j
      BY DEF ToldDistinct
    <3>1. CASE d = c /\ e = c
      BY <2>5, <3>1
    <3>2. CASE d # c /\ e # c
      BY <2>1, <3>2 DEF QueueOK, ToldDistinct
    <3>3. CASE d = c /\ e # c
      BY <2>1, <2>4, <3>3
    <3>4. CASE d # c /\ e = c
      <4>1. i \in 1 .. Len(told[d]) /\ told[d][i] = told'[c][j] /\ j \in 1 .. Len(told'[c])
        BY <2>1, <3>4
      <4> QED
        BY <2>4, <3>4, <4>1
    <3> QED
      BY <3>1, <3>2, <3>3, <3>4
  <2>7. ToldAsked'
    <3> SUFFICES ASSUME NEW d \in Call, NEW i \in 1 .. Len(told'[d])
                 PROVE  \E e \in Call : <<told'[d][i], e>> \in messages.asked
      BY <1>1 DEF ToldAsked
    <3>1. CASE d # c
      BY <2>1, <3>1 DEF QueueOK, ToldAsked
    <3>2. CASE d = c
      <4>1. CASE Old(i)
        BY <3>2, <4>1 DEF QueueOK, ToldAsked
      <4>2. CASE New(i)
        BY <3>2, <4>2 DEF QueueOK, QueueAsked
      <4> QED
        BY <2>3, <3>2, <4>1, <4>2
    <3> QED
      BY <3>1, <3>2
  <2>8. Len(queued') = 0
    BY <1>4
  <2>9. QueueDistinct' /\ QueueAsked'
    BY <2>8 DEF QueueDistinct, QueueAsked
  <2>10. ToldNotQueued'
    BY <2>8 DEF ToldNotQueued
  <2>11. DownEmpty'
    BY <1>1 DEF DownEmpty
  <2> QED
    BY <2>6, <2>7, <2>9, <2>10, <2>11 DEF QueueOK
<1>5. \/ UNCHANGED <<queued, told>>
      \/ queued' = <<>> /\ told' = told
      \/ queued' = <<>> /\ told' = [told EXCEPT ![c] = told[c] \o queued]
  <2>1. [told EXCEPT ![c] = told[c]] = told
    BY <1>1
  <2>2. CASE active = c
    BY <2>2 DEF Drain, Told, QueueTaken
  <2>3. CASE active # c
    BY <2>1, <2>3 DEF Drain
  <2> QED
    BY <2>2, <2>3
<1> QED
  BY <1>2, <1>3, <1>4, <1>5

LEMMA StepKeepsQueue ==
    ASSUME Safe, QueueOK, [Next]_vars
    PROVE  QueueOK'
<1>1. CASE Up
  <2>1. messages.asked \subseteq messages'.asked
    BY <1>1, UpIsDiskStep, DiskStepAsks DEF Safe
  <2>2. CASE (\E q \in Query : Queue(q)) \/ (\E c \in Call : Drain(c))
    BY <2>2, QueuesOnce, DrainsOnce
  <2>3. CASE ~((\E q \in Query : Queue(q)) \/ (\E c \in Call : Drain(c)))
    <3>1. CASE Command
      <4>1. UNCHANGED <<queued, told, up>>
        BY <2>3, <3>1 DEF Command, Stop, Open, goVars, procVars
      <4> QED
        BY <2>1, <4>1, QueueSame
    <3>2. CASE Deliver \/ \E c \in Call : Sending(c)
      <4>1. UNCHANGED <<queued, told, up>>
        BY <3>2 DEF Deliver, Sending, SenderAccepted, SenderGivesUp, SenderCloses, sessVars, goVars, procVars
      <4> QED
        BY <2>1, <4>1, QueueSame
    <3>3. CASE Serving \/ \E c \in Call : Turn(c)
      <4>1. UNCHANGED <<queued, told, up>>
        BY <2>3, <3>3 DEF Serving, GoStarts, GoCancels, Turn, GoChunk, GoSteer, GoEnds, sessVars, procVars
      <4> QED
        BY <2>1, <4>1, QueueSame
    <3>4. CASE Disconnect \/ Quit
      <4>1. UNCHANGED <<queued, told, up>>
        BY <3>4 DEF Disconnect, Quit, sessVars, goVars
      <4> QED
        BY <2>1, <4>1, QueueSame
    <3> QED
      BY <1>1, <3>1, <3>2, <3>3, <3>4 DEF Up
  <2> QED
    BY <2>2, <2>3
<1>2. CASE Crash
  <2>1. queued' = <<>> /\ \A c \in Call : told'[c] = <<>>
    BY <1>2 DEF Crash, Each
  <2>2. Len(queued') = 0 /\ \A c \in Call : Len(told'[c]) = 0
    BY <2>1
  <2> QED
    BY <2>2, QueueEmptied
<1>3. CASE Restart
  <2>1. queued' = queued /\ told' = told /\ ~up
    BY <1>3 DEF Restart, goVars
  <2>2. Len(queued') = 0 /\ \A c \in Call : Len(told'[c]) = 0
    BY <2>1 DEF QueueOK, DownEmpty
  <2> QED
    BY <2>2, QueueEmptied
<1>4. CASE UNCHANGED vars
  BY <1>4, QueueSame DEF vars, sessVars, goVars, procVars
<1> QED
  BY <1>1, <1>2, <1>3, <1>4, NextSplits

\* A set without two members is no larger than one.
LEMMA AtMostOne ==
    ASSUME NEW S, \A x, y \in S : x = y
    PROVE  Cardinality(S) <= 1
<1>1. CASE S = {}
  BY <1>1, FS_EmptySet
<1>2. CASE S # {}
  <2>1. PICK x : x \in S
    BY <1>2
  <2>2. S = {x}
    BY <2>1
  <2> QED
    <3>1. Cardinality({x}) = 1
      BY FS_Singleton
    <3> QED
      BY <2>2, <3>1
<1> QED
  BY <1>1, <1>2

\* A steered message is drained once, by one decision point of one turn: whatever turns
\* begin and end, calls are abandoned and processes restart in between.
THEOREM SessionSteersOnce == Spec => []SteeredOnce
<1>1. Init => QueueOK
  <2> SUFFICES ASSUME Init PROVE QueueOK
    OBVIOUS
  <2>1. queued = <<>> /\ \A c \in Call : told[c] = <<>>
    BY DEF Init, Each
  <2>2. Len(queued) = 0 /\ \A c \in Call : Len(told[c]) = 0
    BY <2>1
  <2> QED
    BY <2>2, QueueEmpty
<1>2. Safe /\ QueueOK /\ [Next]_vars => QueueOK'
  BY StepKeepsQueue
<1>3. Safe /\ QueueOK => SteeredOnce
  <2> SUFFICES ASSUME Safe, QueueOK, NEW q \in Query
               PROVE  Cardinality(Places(q)) <= 1
    BY DEF SteeredOnce
  <2>1. DOMAIN queued = 1 .. Len(queued) /\ \A c \in Call : DOMAIN told[c] = 1 .. Len(told[c])
    BY DEF Safe, TypeOK
  <2>2. \A x \in Places(q) :
            \/ \E i \in 1 .. Len(queued) : x = <<"queued", i>> /\ queued[i] = q
            \/ \E c \in Call : \E i \in 1 .. Len(told[c]) : x = <<c, "told", i>> /\ told[c][i] = q
    BY <2>1 DEF Places
  <2>3. \A x, y \in Places(q) : x = y
    BY <2>2 DEF QueueOK, QueueDistinct, ToldDistinct, ToldNotQueued
  <2> QED
    BY <2>3, AtMostOne
<1> QED
  BY <1>1, <1>2, <1>3, SafeHolds, PTL DEF Spec
=============================================================================
