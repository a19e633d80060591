-------------------------------- MODULE Link --------------------------------
(* The websocket seen from the Rust process: calls to Go with their        *)
(* timeouts, the turn notices of Go that concurrent tasks hand on, and the *)
(* shutdown that has to end all of it (src/src/rpc.rs, listen in           *)
(* src/src/ipc.rs, Shutdown and Service in src/src/main.rs, src/go/rpc.go).*)
(*                                                                         *)
(* A call is named by its id, which is used once.  A notice is named by    *)
(* its place in the order in which Go wrote it.  What the tasks of the     *)
(* runtime and the sheets do while it is dropped is the subject of Sheets. *)
EXTENDS Integers, Sequences, FiniteSets

CONSTANTS
    Caller,      \* calls of the Rust process
    Quitter,     \* the one that asks Go to shut down
    MaxNotices,  \* bound: notices Go sends
    LinkFaults   \* subset of {"lost"}

VARIABLES
    caller,     \* where each call is
    waits,      \* Pending.waits
    answer,     \* the channel of each call: empty, a result, or the closing
    closed,     \* Pending.closed
    toGo,       \* requests that Go has not handled
    replies,    \* answers of Go that no task has dispatched
    written,    \* notices Go has written
    stamped,    \* notices the reader has stamped and given to a task
    tasks,      \* stamped notices whose task has not run
    channel,    \* the queue of Shared.notices
    sender,     \* the sending half is still there
    early,      \* what the listener holds back
    next,       \* the stamp it delivers next
    delivered,  \* what it has delivered
    listener,   \* the turn-events thread
    thread,     \* the thread of the connection
    step,       \* how far either close_shared is: of this thread, of the main one
    owed,       \* the waits it has drained and not answered
    phase,      \* Shutdown::run
    child       \* the Go process

linkVars == <<caller, waits, answer, closed, toGo, replies, written, stamped, tasks,
              channel, sender, early, next, delivered, listener, thread, step, owed,
              phase, child>>

callVars == <<caller, answer, toGo, replies>>
noticeVars == <<written, stamped, tasks, channel, early, next, delivered, listener>>
closeVars == <<step, owed>>
endVars == <<thread, phase, child>>

Closer == {"thread", "main"}

ASSUME LinkAssumption ==
    /\ Quitter \in Caller
    /\ MaxNotices \in Nat

LinkInit ==
    /\ caller = [c \in Caller |-> "idle"]
    /\ waits = {}
    /\ answer = [c \in Caller |-> "none"]
    /\ closed = FALSE
    /\ toGo = {} /\ replies = {}
    /\ written = 0 /\ stamped = 0
    /\ tasks = {}
    /\ channel = <<>>
    /\ sender = TRUE
    /\ early = {} /\ next = 1 /\ delivered = <<>>
    /\ listener = "runs"
    /\ thread = "runs"
    /\ step = [k \in Closer |-> "idle"]
    /\ owed = [k \in Closer |-> {}]
    /\ phase = "up"
    /\ child = "serves"

----------------------------------------------------------------------------
(* Rpc::call.  The main thread calls only from Shutdown::run.              *)

MayCall(c) == caller[c] = "idle" /\ (c = Quitter => phase = "asking")

\* Mutant: the wait is left without a look at closed.
CallsBlindly(c) ==
    /\ MayCall(c)
    /\ caller' = [caller EXCEPT ![c] = "listed"]
    /\ waits' = waits \cup {c}
    /\ UNCHANGED <<answer, closed, toGo, replies, noticeVars, sender, closeVars, endVars>>

\* Whether the connection is closed is seen and the wait is left under one lock.
Calls(c) ==
    /\ MayCall(c)
    /\ IF closed
       THEN caller' = [caller EXCEPT ![c] = "done"] /\ UNCHANGED waits
       ELSE caller' = [caller EXCEPT ![c] = "listed"] /\ waits' = waits \cup {c}
    /\ UNCHANGED <<answer, closed, toGo, replies, noticeVars, sender, closeVars, endVars>>

\* The writer takes the request, or is gone: then the wait is forgotten.  While the
\* runtime is dropped the queue of the writer may still be there, and loses it.
Sends(c) ==
    /\ caller[c] = "listed"
    /\ \/ /\ thread \in {"runs", "drops"}
          /\ caller' = [caller EXCEPT ![c] = "waiting"]
          /\ toGo' = IF thread = "runs" THEN toGo \cup {c} ELSE toGo
          /\ UNCHANGED waits
       \/ /\ thread # "runs"
          /\ caller' = [caller EXCEPT ![c] = "done"]
          /\ waits' = waits \ {c}
          /\ UNCHANGED toGo
    /\ UNCHANGED <<answer, closed, replies, noticeVars, sender, closeVars, endVars>>

Returns(c) ==
    /\ caller[c] = "waiting"
    /\ answer[c] # "none"
    /\ caller' = [caller EXCEPT ![c] = "done"]
    /\ UNCHANGED <<waits, answer, closed, toGo, replies, noticeVars, sender, closeVars, endVars>>

TimesOut(c) ==
    /\ caller[c] = "waiting"
    /\ answer[c] = "none"
    /\ caller' = [caller EXCEPT ![c] = "late"]
    /\ UNCHANGED <<waits, answer, closed, toGo, replies, noticeVars, sender, closeVars, endVars>>

Forgets(c) ==
    /\ caller[c] = "late"
    /\ caller' = [caller EXCEPT ![c] = "done"]
    /\ waits' = waits \ {c}
    /\ UNCHANGED <<answer, closed, toGo, replies, noticeVars, sender, closeVars, endVars>>

\* Go answers in a goroutine of its own; a shutdown begins there.
GoHandles(c) ==
    /\ c \in toGo
    /\ child # "exited"
    /\ toGo' = toGo \ {c}
    /\ replies' = IF thread = "runs" THEN replies \cup {c} ELSE replies
    /\ child' = IF c = Quitter THEN "halts" ELSE child
    /\ UNCHANGED <<caller, waits, answer, closed, noticeVars, sender, closeVars, thread, phase>>

\* dispatch() of an answer: to the wait that is there, else to nobody.
Dispatches(c) ==
    /\ c \in replies
    /\ replies' = replies \ {c}
    /\ IF c \in waits
       THEN waits' = waits \ {c} /\ answer' = [answer EXCEPT ![c] = "result"]
       ELSE UNCHANGED <<waits, answer>>
    /\ UNCHANGED <<caller, closed, toGo, noticeVars, sender, closeVars, endVars>>

----------------------------------------------------------------------------
(* Notices: Go writes them in order, the reader stamps them and starts a   *)
(* task for each, the tasks run in any order, the listener sorts.          *)

GoNotifies ==
    /\ child # "exited"
    /\ thread = "runs"
    /\ written < MaxNotices
    /\ written' = written + 1
    /\ UNCHANGED <<callVars, waits, closed, stamped, tasks, channel, early, next, delivered,
                   listener, sender, closeVars, endVars>>

\* Mutant: the stamp is taken before it is counted.
StampsFromZero ==
    /\ thread = "runs"
    /\ stamped < written
    /\ stamped' = stamped + 1
    /\ tasks' = tasks \cup {stamped}
    /\ UNCHANGED <<callVars, waits, closed, written, channel, early, next, delivered,
                   listener, sender, closeVars, endVars>>

Stamps ==
    /\ thread = "runs"
    /\ stamped < written
    /\ stamped' = stamped + 1
    /\ tasks' = tasks \cup {stamped + 1}
    /\ UNCHANGED <<callVars, waits, closed, written, channel, early, next, delivered,
                   listener, sender, closeVars, endVars>>

\* send_notice: a notice that cannot be decoded is sent too, as an error.
HandsOn(n) ==
    /\ n \in tasks
    /\ tasks' = tasks \ {n}
    /\ channel' = IF sender THEN Append(channel, n) ELSE channel
    /\ UNCHANGED <<callVars, waits, closed, written, stamped, early, next, delivered,
                   listener, sender, closeVars, endVars>>

\* The first stamp that is missing.
Gap(held) == CHOOSE n \in next .. next + Cardinality(held) :
                 n \notin held /\ \A m \in next .. n - 1 : m \in held

\* Mutant: a notice is delivered when it comes.
ListensUnsorted ==
    /\ channel # <<>>
    /\ delivered' = Append(delivered, Head(channel))
    /\ next' = next + 1
    /\ channel' = Tail(channel)
    /\ UNCHANGED <<callVars, waits, closed, written, stamped, tasks, early, listener, sender,
                   closeVars, endVars>>

Listens ==
    /\ channel # <<>>
    /\ LET held == early \cup {Head(channel)}
           gap == Gap(held)
       IN  /\ early' = held \ (next .. gap - 1)
           /\ next' = gap
           /\ delivered' = delivered \o [i \in 1 .. gap - next |-> next + i - 1]
    /\ channel' = Tail(channel)
    /\ UNCHANGED <<callVars, waits, closed, written, stamped, tasks, listener, sender,
                   closeVars, endVars>>

ListenerEnds ==
    /\ listener = "runs"
    /\ ~sender
    /\ channel = <<>>
    /\ listener' = "ended"
    /\ UNCHANGED <<callVars, waits, closed, written, stamped, tasks, channel, early, next,
                   delivered, sender, closeVars, endVars>>

----------------------------------------------------------------------------
(* The end of the connection.                                              *)

Loses ==
    /\ "lost" \in LinkFaults
    /\ thread = "runs"
    /\ thread' = "drops"
    /\ UNCHANGED <<callVars, waits, closed, noticeVars, sender, closeVars, phase, child>>

\* The writer has sent the closing, or the reader finds that Go has gone.
ThreadLeaves ==
    /\ thread = "runs"
    /\ phase = "joins" \/ child = "exited"
    /\ thread' = "drops"
    /\ UNCHANGED <<callVars, waits, closed, noticeVars, sender, closeVars, phase, child>>

\* A task that had not begun is dropped with the runtime.
TaskDropped ==
    /\ thread = "drops"
    /\ \/ /\ \E n \in tasks : tasks' = tasks \ {n}
          /\ UNCHANGED replies
       \/ /\ \E c \in replies : replies' = replies \ {c}
          /\ UNCHANGED tasks
    /\ UNCHANGED <<caller, answer, toGo, waits, closed, written, stamped, channel, early,
                   next, delivered, listener, sender, closeVars, endVars>>

RuntimeDropped ==
    /\ thread = "drops"
    /\ tasks = {} /\ replies = {}
    /\ thread' = "closes"
    /\ UNCHANGED <<callVars, waits, closed, noticeVars, sender, closeVars, phase, child>>

Running(k) == IF k = "thread" THEN thread = "closes" ELSE phase = "closes"

\* close_shared, in its three steps.  Shells and sheets are in Sheets.
DrainsWaits(k) ==
    /\ Running(k) /\ step[k] = "idle"
    /\ closed' = TRUE
    /\ owed' = [owed EXCEPT ![k] = waits]
    /\ waits' = {}
    /\ step' = [step EXCEPT ![k] = "drained"]
    /\ UNCHANGED <<callVars, noticeVars, sender, endVars>>

\* Mutant: the listener keeps somebody to listen to.
KeepsSender(k) ==
    /\ step[k] = "drained"
    /\ step' = [step EXCEPT ![k] = "dropped"]
    /\ UNCHANGED <<callVars, waits, closed, noticeVars, sender, owed, endVars>>

DropsSender(k) ==
    /\ step[k] = "drained"
    /\ sender' = FALSE
    /\ step' = [step EXCEPT ![k] = "dropped"]
    /\ UNCHANGED <<callVars, waits, closed, noticeVars, owed, endVars>>

AnswersWaits(k) ==
    /\ step[k] = "dropped"
    /\ answer' = [c \in Caller |-> IF c \in owed[k] THEN "closed" ELSE answer[c]]
    /\ owed' = [owed EXCEPT ![k] = {}]
    /\ step' = [step EXCEPT ![k] = "over"]
    /\ IF k = "thread"
       THEN thread' = "ended" /\ UNCHANGED phase
       ELSE phase' = "joins" /\ UNCHANGED thread
    /\ UNCHANGED <<caller, toGo, replies, waits, closed, noticeVars, sender, child>>

----------------------------------------------------------------------------
(* Shutdown::run, on the main thread, and Service::stop.                   *)

Quits ==
    /\ phase = "up"
    /\ phase' = "asking"
    /\ UNCHANGED <<callVars, waits, closed, noticeVars, sender, closeVars, thread, child>>

\* Whatever came of the request, and so with every later step: errors are kept.
Asked ==
    /\ phase = "asking"
    /\ caller[Quitter] = "done"
    /\ phase' = "closes"
    /\ UNCHANGED <<callVars, waits, closed, noticeVars, sender, closeVars, thread, child>>

Joins ==
    /\ phase = "joins"
    /\ thread = "ended"
    /\ listener = "ended"
    /\ phase' = "stops"
    /\ UNCHANGED <<callVars, waits, closed, noticeVars, sender, closeVars, thread, child>>

\* The child has gone, or its time is over and it is killed.
Stops ==
    /\ phase = "stops"
    /\ phase' = "done"
    /\ child' = "exited"
    /\ UNCHANGED <<callVars, waits, closed, noticeVars, sender, closeVars, thread>>

\* loop.stop has returned and the answer is written: Go leaves by itself.
ChildExits ==
    /\ child = "halts"
    /\ child' = "exited"
    /\ UNCHANGED <<callVars, waits, closed, noticeVars, sender, closeVars, thread, phase>>

----------------------------------------------------------------------------

CallSteps(c) ==
    Calls(c) \/ Sends(c) \/ Returns(c) \/ TimesOut(c) \/ Forgets(c) \/ GoHandles(c) \/ Dispatches(c)

Closing ==
    \/ ThreadLeaves \/ TaskDropped \/ RuntimeDropped
    \/ \E k \in Closer : DrainsWaits(k) \/ DropsSender(k) \/ AnswersWaits(k)

LinkNext ==
    \/ \E c \in Caller : CallSteps(c)
    \/ GoNotifies \/ Stamps \/ Listens \/ ListenerEnds
    \/ \E n \in 1 .. MaxNotices : HandsOn(n)
    \/ Loses \/ Closing
    \/ Quits \/ Asked \/ Joins \/ Stops \/ ChildExits

LinkSpec == LinkInit /\ [][LinkNext]_linkVars

\* Threads and tasks run and timeouts expire.  Nothing is assumed of Go, of the
\* connection, or of who calls, except the main thread inside Shutdown::run.
LinkFairness ==
    /\ \A c \in Caller :
        /\ WF_linkVars(Sends(c) \/ Returns(c) \/ TimesOut(c) \/ Forgets(c))
        /\ WF_linkVars(Dispatches(c))
    /\ WF_linkVars(Calls(Quitter))
    /\ WF_linkVars(Stamps \/ \E n \in 1 .. MaxNotices : HandsOn(n))
    /\ WF_linkVars(Listens \/ ListenerEnds)
    /\ WF_linkVars(Closing)
    /\ WF_linkVars(Asked \/ Joins \/ Stops)

FairLinkSpec == LinkSpec /\ LinkFairness

----------------------------------------------------------------------------

LinkTypeOK ==
    /\ caller \in [Caller -> {"idle", "listed", "waiting", "late", "done"}]
    /\ waits \subseteq Caller
    /\ answer \in [Caller -> {"none", "result", "closed"}]
    /\ closed \in BOOLEAN
    /\ toGo \subseteq Caller
    /\ replies \subseteq Caller
    /\ written \in 0 .. MaxNotices
    /\ stamped \in 0 .. MaxNotices
    /\ tasks \subseteq 1 .. MaxNotices
    /\ channel \in Seq(1 .. MaxNotices)
    /\ sender \in BOOLEAN
    /\ early \subseteq 1 .. MaxNotices
    /\ next \in 1 .. MaxNotices + 1
    /\ delivered \in Seq(1 .. MaxNotices)
    /\ listener \in {"runs", "ended"}
    /\ thread \in {"runs", "drops", "closes", "ended"}
    /\ step \in [Closer -> {"idle", "drained", "dropped", "over"}]
    /\ owed \in [Closer -> SUBSET Caller]
    /\ phase \in {"up", "asking", "closes", "joins", "stops", "done"}
    /\ child \in {"serves", "halts", "exited"}

\* A call is not left alone: while it waits somebody has its wait, the map of an
\* open connection or a close_shared that will answer it, and a wait in the map
\* is that of a call that has not returned.  So an answer that races the timeout
\* or the closing reaches its call or nobody, and a call made while the
\* connection closes does not sit out its timeout.
CallsAreAnswered ==
    /\ \A c \in Caller : caller[c] = "waiting" /\ answer[c] = "none" =>
        c \in waits \/ \E k \in Closer : c \in owed[k]
    /\ \A c \in waits : caller[c] \in {"listed", "waiting", "late"} /\ answer[c] = "none"
    /\ closed => waits = {}

\* The interface sees the notices of a turn in the order Go wrote them, none twice
\* and none skipped, in whatever order the tasks ran; nothing is held back once
\* the tasks have run, unless the runtime was dropped; and the shutdown does not
\* go on to kill Go before all that was handed on is delivered.
NoticesInOrder ==
    /\ \A i \in DOMAIN delivered : delivered[i] = i
    /\ Len(delivered) <= stamped
    /\ thread = "runs" /\ sender /\ tasks = {} /\ channel = <<>> => Len(delivered) = stamped
    /\ phase \in {"stops", "done"} => channel = <<>>

\* A shutdown comes to its end, and Go with it, whether or not Go answers and
\* whatever becomes of the connection.
ShutdownEnds == phase = "asking" ~> phase = "done" /\ child = "exited"
=============================================================================
