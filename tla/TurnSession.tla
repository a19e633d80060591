---------------------------- MODULE TurnSession -----------------------------
(* One conversation of pippo, from the commands of the interface to the turn *)
(* in the Go process and back: Sess (src/src/sess.rs) with its files         *)
(* (src/src/store.rs), the commands send and stop and the listener           *)
(* (src/src/ipc.rs), and the turns of the Go loop (src/go/loop.go).          *)
(*                                                                           *)
(* Each call between the processes is handled by a task of its own, so       *)
(* requests are a set; notices of turns are delivered in the order they were *)
(* sent (the listener sorts them by the stamp of the reader).  Sess.state is *)
(* locked across the two file operations of a commit, which may fail or be   *)
(* cut short by the end of the process at every point between them.          *)
(*                                                                           *)
(* Abstracted: a query is its identity, a chunk the number of its place in   *)
(* what Go sent for the turn, and of the history only its last line.          *)
EXTENDS Naturals, Sequences, FiniteSets

CONSTANTS
    Call,        \* turns, by the ids that Sess generates
    Query,       \* messages of the user, each typed once
    None,
    MaxChunks,   \* bound: chunks of an answer
    MaxNotices,  \* bound: notices under way
    MaxErrors,   \* bound: commits that fail in a process that goes on
    Faults       \* which of {"timeout","refuse","emit","crash","disconnect","quit"} occur

ASSUME BoundsAssumption == MaxChunks \in Nat /\ MaxNotices \in Nat
                           /\ MaxErrors \in Nat /\ None \notin Call

VARIABLES
    messages,         \* State.messages: the answers, and who asked what in which turn
    active, cancel,   \* State.active and its cancel flag
    queued,           \* State.queued
    replay,           \* replay.json, as messages
    tail,             \* messages.jsonl: is its last line whole
    up, quit, conn,   \* the Rust process; Shutdown.started; the websocket
    sender,           \* where the send command that opened a turn is
    requests,         \* calls of Rust that Go has not handled yet
    goAt, ctxDone,    \* where the turn is in Go; the turns whose context is cancelled
    sent,             \* chunks Go has sent for the turn
    drains,           \* runtime.steer calls under way
    told,             \* steered messages in the history of the Go turn
    errors,           \* commits that failed, no code
    notices           \* turn.chunk and turn.closed under way

sessVars == <<messages, active, cancel, queued>>
diskVars == <<replay, tail>>
procVars == <<up, quit, conn>>
goVars   == <<goAt, ctxDone, sent, drains, told>>
vars     == <<sessVars, diskVars, errors, procVars, sender, requests, goVars, notices>>

Each(v)  == [c \in Call |-> v]
Final    == {"done", "failed", "cancelled"}
Nothing  == [answer |-> Each([status |-> "absent", text |-> <<>>]), asked |-> {}]
Request  == [method : {"turn.start", "turn.cancel"}, call : Call, by : {"send", "stop"}]
Notice   == [kind : {"chunk"}, call : Call, n : 1 .. MaxChunks]
               \cup [kind : {"closed"}, call : Call, status : Final]

Init ==
    /\ messages = Nothing /\ replay = Nothing
    /\ active = None /\ cancel = FALSE /\ queued = <<>>
    /\ tail = "clean" /\ errors = 0
    /\ up = TRUE /\ quit = FALSE /\ conn = TRUE
    /\ sender = Each("none") /\ requests = {}
    /\ goAt = Each("none") /\ ctxDone = {} /\ sent = Each(0)
    /\ drains = {} /\ told = Each(<<>>)
    /\ notices = <<>>

-----------------------------------------------------------------------------
(* Store::record and Sess::commit of the next messages *)

\* the lines of the history are whole but for the last one, which an append that
\* was cut short leaves torn; a further line is then appended to the torn one
Logged == tail' = IF tail = "clean" THEN "clean" ELSE "broken"

Recorded(m) == Logged /\ replay' = m

\* cut short before, in or after the append, or after the rename
PartlyRecorded(m) ==
    \/ UNCHANGED diskVars
    \/ tail = "clean" /\ tail' = "torn" /\ UNCHANGED replay
    \/ Logged /\ UNCHANGED replay
    \/ Recorded(m)

Commit(m) == Recorded(m) /\ messages' = m /\ UNCHANGED errors

Failing == errors < MaxErrors /\ errors' = errors + 1
CommitFailsLate(m) ==                   \* mutant: the state is changed before it is recorded
    Failing /\ PartlyRecorded(m) /\ messages' = m
CommitFails(m) ==
    Failing /\ PartlyRecorded(m) /\ UNCHANGED messages

-----------------------------------------------------------------------------
(* send and stop *)

Untyped(q) == \A c \in Call : <<q, c>> \notin messages.asked \cup replay.asked
Fresh(c)   == messages.answer[c].status = "absent" /\ replay.answer[c].status = "absent"

Opened(c, q) == [answer |-> [messages.answer EXCEPT ![c].status = "running"],
                 asked |-> messages.asked \cup {<<q, c>>}]
Steered(q)   == [messages EXCEPT !.asked = @ \cup {<<q, active>>}]

\* rpc.call fails at once when the connection is closed
Sent(method, c, who) == IF conn THEN {[method |-> method, call |-> c, by |-> who]} ELSE {}

\* sess.send without an active turn, then rpc.call("turn.start")
Open(c, q) ==
    /\ up /\ active = None /\ Untyped(q) /\ Fresh(c)
    /\ \/ /\ Commit(Opened(c, q))
          /\ active' = c /\ cancel' = FALSE
          /\ \/ /\ sender' = [sender EXCEPT ![c] = "start"]
                /\ requests' = requests \cup Sent("turn.start", c, "send")
             \/ /\ "emit" \in Faults        \* the interface did not take the event
                /\ sender' = [sender EXCEPT ![c] = "giveup"]
                /\ UNCHANGED requests
       \/ CommitFails(Opened(c, q)) /\ UNCHANGED <<active, cancel, sender, requests>>
    /\ UNCHANGED <<queued, procVars, goVars, notices>>

\* sess.send while a turn is active
Queue(q) ==
    /\ up /\ active # None /\ Untyped(q)
    /\ \/ Commit(Steered(q)) /\ queued' = Append(queued, q)
       \/ CommitFails(Steered(q)) /\ UNCHANGED queued
    /\ UNCHANGED <<active, cancel, procVars, sender, requests, goVars, notices>>

\* request_cancel, then rpc.call("turn.cancel"), whose result only the interface sees
Stop ==
    /\ up /\ active # None
    /\ cancel' = TRUE
    /\ requests' = requests \cup Sent("turn.cancel", active, "stop")
    /\ UNCHANGED <<messages, active, queued, diskVars, errors, procVars, sender, goVars, notices>>

StartedNever(c) == FALSE                \* mutant: a stop before the turn started is forgotten
started(c) == active = c /\ cancel

Pending(c, method) == [method |-> method, call |-> c, by |-> "send"] \in requests

\* the answer "accepted" arrives before the timeout; a stop that Go may have handled
\* before it knew the turn is sent again
SenderAccepted(c) ==
    /\ up /\ sender[c] = "start"
    /\ ~Pending(c, "turn.start") /\ goAt[c] \notin {"none", "refused"}
    /\ sender' = [sender EXCEPT ![c] = "left"]
    /\ requests' = IF started(c) THEN requests \cup Sent("turn.cancel", c, "send") ELSE requests
    /\ UNCHANGED <<sessVars, diskVars, errors, procVars, goVars, notices>>

\* an error, a timeout or the closed connection: cancel_quietly
SenderGivesUp(c) ==
    /\ up /\ sender[c] = "start"
    /\ goAt[c] = "refused" \/ "timeout" \in Faults \/ ~conn
    /\ sender' = [sender EXCEPT ![c] = "giveup"]
    /\ requests' = requests \cup Sent("turn.cancel", c, "send")
    /\ UNCHANGED <<sessVars, diskVars, errors, procVars, goVars, notices>>

AnyTurn(c)    == active # None          \* mutant: the turn that is active now is meant
ActiveTurn(c) == active = c

Closed(how) == [messages EXCEPT !.answer[active].status = how]

ActiveStays == active                   \* mutant: close forgets next.active = None
ActiveEnds  == None

\* Sess::close, unless the turn is not the active one
Close(c, how) ==
    \/ ActiveTurn(c) /\ Commit(Closed(how)) /\ active' = ActiveEnds /\ cancel' = FALSE
    \/ ActiveTurn(c) /\ CommitFails(Closed(how)) /\ UNCHANGED <<active, cancel>>
    \/ ~ActiveTurn(c) /\ UNCHANGED <<messages, active, cancel, diskVars, errors>>

CanClose(c) == sender[c] = "giveup" /\ (~Pending(c, "turn.cancel") \/ "timeout" \in Faults)

\* close_failed, after the answer to the cancellation or its timeout
SenderCloses(c) ==
    /\ up /\ CanClose(c)
    /\ Close(c, "failed")
    /\ sender' = [sender EXCEPT ![c] = "left"]
    /\ UNCHANGED <<queued, procVars, requests, goVars, notices>>

-----------------------------------------------------------------------------
(* The listener: deliver *)

Grown(n) == [messages EXCEPT !.answer[active].text = Append(@, n)]

\* Sess::chunk
Chunk(c, n) ==
    \/ ActiveTurn(c) /\ (Commit(Grown(n)) \/ CommitFails(Grown(n)))
    \/ ~ActiveTurn(c) /\ UNCHANGED <<messages, diskVars, errors>>

\* an error of the session is only logged: the notice is spent
Deliver ==
    /\ up /\ notices # <<>>
    /\ LET n == Head(notices)
       IN  \/ n.kind = "chunk" /\ Chunk(n.call, n.n) /\ UNCHANGED <<active, cancel>>
           \/ n.kind = "closed" /\ Close(n.call, n.status)
    /\ notices' = Tail(notices)
    /\ UNCHANGED <<queued, procVars, sender, requests, goVars>>

-----------------------------------------------------------------------------
(* Sess::drain, called by runtime.steer *)

QueueKept  == queued                    \* mutant: drain copies the queue
QueueTaken == <<>>

ToldAsOne(c) == Append(told[c], queued) \* mutant: the list is pushed, not its messages
Told(c)      == told[c] \o queued

\* what is drained reaches the turn if it still waits for it, and if its context is
\* cancelled only by chance
Drain(c) ==
    /\ up /\ c \in drains
    /\ drains' = drains \ {c}
    /\ queued' = IF active = c THEN QueueTaken ELSE queued
    /\ \/ /\ goAt[c] = "steer"
          /\ told' = [told EXCEPT ![c] = IF active = c THEN Told(c) ELSE @]
          /\ goAt' = [goAt EXCEPT ![c] = "work"]
       \/ goAt[c] # "steer" /\ UNCHANGED <<told, goAt>>
    /\ UNCHANGED <<messages, active, cancel, diskVars, errors, procVars, sender, requests, ctxDone, sent, notices>>

-----------------------------------------------------------------------------
(* The Go process *)

Live(c) == goAt[c] \in {"work", "steer"}

\* startTurn and loop.start; the provider, the roles or the settings may be missing
GoStarts(c) ==
    /\ Pending(c, "turn.start")
    /\ requests' = requests \ {[method |-> "turn.start", call |-> c, by |-> "send"]}
    /\ \/ goAt' = [goAt EXCEPT ![c] = "work"]
       \/ "refuse" \in Faults /\ goAt' = [goAt EXCEPT ![c] = "refused"]
    /\ UNCHANGED <<sessVars, diskVars, errors, procVars, sender, ctxDone, sent, drains, told, notices>>

\* cancelTurn: a turn that is not there (yet) is not cancelled
GoCancels(r) ==
    /\ r \in requests /\ r.method = "turn.cancel"
    /\ requests' = requests \ {r}
    /\ ctxDone' = IF Live(r.call) THEN ctxDone \cup {r.call} ELSE ctxDone
    /\ UNCHANGED <<sessVars, diskVars, errors, procVars, sender, goAt, sent, drains, told, notices>>

GoChunk(c) ==
    /\ conn /\ goAt[c] = "work" /\ sent[c] < MaxChunks /\ Len(notices) < MaxNotices
    /\ sent' = [sent EXCEPT ![c] = @ + 1]
    /\ notices' = Append(notices, [kind |-> "chunk", call |-> c, n |-> sent[c] + 1])
    /\ UNCHANGED <<sessVars, diskVars, errors, procVars, sender, requests, goAt, ctxDone, drains, told>>

\* drainSteer, at every decision point
GoSteer(c) ==
    /\ conn /\ goAt[c] = "work" /\ c \notin drains
    /\ goAt' = [goAt EXCEPT ![c] = "steer"]
    /\ drains' = drains \cup {c}
    /\ UNCHANGED <<sessVars, diskVars, errors, procVars, sender, requests, ctxDone, sent, told, notices>>

\* stream ends: a cancelled context shows in the status, also of a turn that waited
\* for its steering and forgets that call
GoEnds(c, how) ==
    /\ conn /\ Len(notices) < MaxNotices
    /\ \/ goAt[c] = "work" /\ (c \in ctxDone <=> how = "cancelled")
       \/ goAt[c] = "steer" /\ c \in ctxDone /\ how = "cancelled"
    /\ goAt' = [goAt EXCEPT ![c] = "over"]
    /\ ctxDone' = ctxDone \ {c}
    /\ notices' = Append(notices, [kind |-> "closed", call |-> c, status |-> how])
    /\ UNCHANGED <<sessVars, diskVars, errors, procVars, sender, requests, sent, drains, told>>

-----------------------------------------------------------------------------
(* The ends of the connection and of the process *)

\* what the reader has not read is lost, a task it spawned goes on; the Go process
\* shuts its turns down
Disconnect ==
    /\ "disconnect" \in Faults /\ up /\ conn
    /\ conn' = FALSE
    /\ requests' = {} /\ drains' \in SUBSET drains
    /\ \E k \in 0 .. Len(notices) : notices' = SubSeq(notices, 1, k)
    /\ goAt' = [c \in Call |-> IF Live(c) THEN "over" ELSE goAt[c]] /\ ctxDone' = {}
    /\ UNCHANGED <<sessVars, diskVars, errors, up, quit, sender, sent, told>>

CanQuit == "quit" \in Faults /\ ~quit

\* Sess::shutdown, the first step of Shutdown::run, which runs once
Quit ==
    /\ up /\ CanQuit
    /\ quit' = TRUE
    /\ IF active = None THEN UNCHANGED <<messages, active, cancel, diskVars, errors>>
                        ELSE Close(active, "cancelled")
    /\ UNCHANGED <<queued, up, conn, sender, requests, goVars, notices>>

\* the commits that may be under way when the process ends
UnderWay ==
    IF active = None THEN {Opened(c, q) : c \in {d \in Call : Fresh(d)}, q \in {p \in Query : Untyped(p)}}
    ELSE {Steered(q) : q \in {p \in Query : Untyped(p)}}
         \cup {Closed("failed") : c \in {d \in {active} : CanClose(d)}}
         \cup {Closed("cancelled") : x \in {y \in {CanQuit} : y}}
         \cup {IF n.kind = "chunk" THEN Grown(n.n) ELSE Closed(n.status) :
                   n \in {notices[i] : i \in {j \in DOMAIN notices : j = 1 /\ notices[j].call = active}}}

\* both processes end; messages is now what the interface showed last
Crash ==
    /\ "crash" \in Faults /\ up
    /\ UNCHANGED diskVars \/ \E m \in UnderWay : PartlyRecorded(m)
    /\ up' = FALSE /\ quit' = FALSE /\ conn' = TRUE
    /\ active' = None /\ cancel' = FALSE /\ queued' = <<>>
    /\ sender' = Each("none") /\ requests' = {}
    /\ goAt' = Each("none") /\ ctxDone' = {} /\ sent' = Each(0)
    /\ drains' = {} /\ told' = Each(<<>>)
    /\ notices' = <<>>
    /\ UNCHANGED <<messages, errors>>

ReloadAsIs(a) == a                      \* mutant: running answers are loaded as they are
\* a turn left running would never close again
Reload(a) ==
    [c \in Call |-> IF a[c].status = "running" THEN [a[c] EXCEPT !.status = "cancelled"] ELSE a[c]]

TailKept == tail                        \* mutant: the torn line is skipped, not cut off
Repaired == "clean"

\* Store::open drops a torn last line and refuses any other broken one; Sess::new
\* writes the replay again when a turn was left running
Restart ==
    /\ ~up /\ tail # "broken"
    /\ up' = TRUE
    /\ replay' = [replay EXCEPT !.answer = Reload(@)]
    /\ messages' = replay'
    /\ tail' = Repaired
    /\ UNCHANGED <<active, cancel, queued, errors, quit, conn, sender, requests,
                   goVars, notices>>

Sending(c) == SenderAccepted(c) \/ SenderGivesUp(c) \/ SenderCloses(c)
Command == Stop \/ \E q \in Query : Queue(q) \/ \E c \in Call : Open(c, q)
Serving == \E r \in requests : GoStarts(r.call) \/ GoCancels(r)
Turn(c) == \/ GoChunk(c) \/ GoSteer(c) \/ Drain(c)
           \/ \E how \in Final : GoEnds(c, how)
Ending  == Disconnect \/ Quit \/ Crash \/ Restart

Next == \/ Command \/ Deliver
        \/ \E c \in Call : Sending(c)
        \/ up /\ Serving
        \/ \E c \in Call : up /\ Turn(c)
        \/ Ending

Spec == Init /\ [][Next]_vars
-----------------------------------------------------------------------------
(* What makes the conversation correct *)

Talk == [answer : [Call -> [status : Final \cup {"absent", "running"}, text : Seq(1 .. MaxChunks)]],
         asked : SUBSET (Query \X Call)]

\* The type invariant: every variable holds a value the code could hold.
TypeOK ==
    /\ messages \in Talk /\ replay \in Talk
    /\ active \in Call \cup {None} /\ cancel \in BOOLEAN
    /\ queued \in Seq(Query)
    /\ tail \in {"clean", "torn", "broken"}
    /\ up \in BOOLEAN /\ quit \in BOOLEAN /\ conn \in BOOLEAN
    /\ sender \in [Call -> {"none", "start", "giveup", "left"}]
    /\ requests \in SUBSET Request
    /\ goAt \in [Call -> {"none", "refused", "work", "steer", "over"}]
    /\ ctxDone \in SUBSET Call
    /\ sent \in [Call -> 0 .. MaxChunks]
    /\ drains \in SUBSET Call
    /\ told \in [Call -> Seq(Query)]
    /\ errors \in 0 .. MaxErrors
    /\ notices \in Seq(Notice)

\* The answer that is running is the one of the active turn, whatever fails, closes,
\* times out or restarts in between: no answer stays running for nobody.
OneRunning == up => \A c \in Call : messages.answer[c].status = "running" <=> active = c

\* What was closed stays closed as it was: late and foreign notices, failed commands, a
\* second close, an abandoned turn of Go and a restart leave it alone.
ClosedStays ==
    [][\A c \in Call : messages.answer[c].status \in Final =>
           messages'.answer[c] = messages.answer[c]]_messages

\* The interface shows what is committed; whatever was shown closed or typed is in the
\* replay, with every failure and cut of the two files of a commit.
ShownIsDurable ==
    /\ messages.asked \subseteq replay.asked
    /\ \A c \in Call : messages.answer[c].status \in Final => replay.answer[c] = messages.answer[c]

Places(q) == {<<"queued", i>> : i \in {j \in DOMAIN queued : queued[j] = q}}
                 \cup UNION {{<<c, "told", i>> : i \in {j \in DOMAIN told[c] : told[c][j] = q}} : c \in Call}

\* A steered message is drained once: no two decision points, of one turn or of two,
\* are told the same message.
SteeredOnce == \A q \in Query : Cardinality(Places(q)) <= 1

\* A turn is only told what was typed while it ran ("queued for it", sess.rs:475).
SteeredToItsTurn == \A c \in Call : \A i \in DOMAIN told[c] : <<told[c][i], c>> \in messages.asked

\* Unless the disk fails under a process that goes on, a broken line of the history is
\* the last one, and the next start repairs it.
HistoryReadable == errors = 0 => tail # "broken"

\* An answer that is done holds every chunk that Go sent for it, in their order, unless
\* an I/O error dropped one: no notice of another turn, given up or not, ends it early.
AnswerWhole ==
    errors = 0 => \A c \in Call :
        messages.answer[c].status = "done" /\ goAt[c] # "none" =>
            messages.answer[c].text = [i \in 1 .. sent[c] |-> i]

Durable == INSTANCE Conversation WITH answer <- replay.answer, asked <- replay.asked

\* What is on disk is a conversation, also over crashes in the middle of a commit.
KeepsConversation == Durable!Spec

-----------------------------------------------------------------------------
(* Liveness.  Go handles its requests and a turn whose context is cancelled ends;
   Rust handles its requests and notices and its calls return.  Nothing is assumed about
   turns that were not cancelled. *)

Fairness ==
    /\ WF_vars(Deliver)
    /\ \A c \in Call : /\ WF_vars(Sending(c))
                       /\ WF_vars(GoStarts(c))
                       /\ \A who \in {"send", "stop"} :
                              WF_vars(GoCancels([method |-> "turn.cancel", call |-> c, by |-> who]))
                       /\ SF_vars(c \in ctxDone /\ GoEnds(c, "cancelled"))

FairSpec == Spec /\ Fairness

\* A turn that the user stops closes, also when the stop overtakes the start of the turn.
StoppedCloses == \A c \in Call : up /\ active = c /\ cancel ~> ~up \/ active # c
=============================================================================
