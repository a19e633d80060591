------------------------------- MODULE Sheets -------------------------------
(* Tool calls that need the user: approvals and clarifications, and the    *)
(* shell commands behind them (src/src/rpc.rs, src/src/tool/shell.rs, the  *)
(* callers in src/go/tool.go, the sheets of src/ui/src/app/App.tsx).       *)
(*                                                                         *)
(* A call of Go is a task of its own in the Rust process.  The task asks   *)
(* the rulebook; when that says "ask" it takes the only sheet there is,    *)
(* registers itself, announces the sheet and waits for an answer.  A call  *)
(* whose context ends leaves, and says so in notifications that are tasks  *)
(* of their own too: they may run before, between or after the steps of    *)
(* the call they cancel.  A sheet is named by the call it is for, because  *)
(* a call opens at most one.                                               *)
EXTENDS Rules, FiniteSets

CONSTANTS
    Req,      \* the calls
    Scenes,   \* which of them are made together
    Kind,     \* Kind[r] \in {"clarify", "file", "shell"}: file is find, write or edit
    Request,  \* what the rulebook is asked about a call that is not a clarification
    Faults    \* subset of {"quit", "lost"}

VARIABLES
    go,       \* the caller in Go: it waits for its answer, or has left
    at,       \* the task of the call in Rust
    wire,     \* notifications that are not handled yet
    sheet,    \* Shared.sheet.active
    asked,    \* Shared.clarify.active, Shared.approval.active
    taken,    \* answers taken up by a resolve that has not finished
    answer,   \* the channel of the call; it keeps what was sent
    allowed,  \* Book.allowed
    events,   \* interactions on their way to the interface
    shown,    \* the sheets the interface shows
    stops,    \* Shells.running: no entry, a flag that is clear or set
    effects,  \* calls whose command was started or whose file was touched
    conn,     \* the connection: open, lost, or the user quits
    closer    \* close_shared: what it has done

vars == <<go, at, wire, sheet, asked, taken, answer, allowed, events, shown,
          stops, effects, conn, closer>>

goVars == <<go, wire>>
sheetVars == <<sheet, asked, taken, answer, allowed>>
uiVars == <<events, shown>>
runVars == <<stops, effects>>
endVars == <<conn, closer>>

Slot(r) == IF Kind[r] = "clarify" THEN "clarify" ELSE "approval"
Slots == {"clarify", "approval"}
Shells == {r \in Req : Kind[r] = "shell"}
Choice == {"once", "session", "deny", "cancelled", "closed"}
Consent == {"once", "session"}
Notes == {"clarify.cancel", "approval.cancel", "shell.cancel"}
Phase == {"sent", "asking", "opened", "registered", "waiting", "cleared",
          "starting", "running", "done"}

Key(r) == AllowKey(Request[r])
\* What the user may say; "deny" is also the closing of the sheet.
AnswersTo(r) == IF Kind[r] = "clarify" THEN {"once", "deny"} ELSE {"once", "session", "deny"}

ASSUME ReqAssumption ==
    /\ None \notin Req \cup Choice
    /\ Kind \in [Req -> {"clarify", "file", "shell"}]
    /\ Faults \subseteq {"quit", "lost"}
    /\ Scenes \subseteq SUBSET Req

\* Every call of a scene has been sent: a task that has not begun is not seen by
\* any other.  A call that is not made counts as ended.
Init ==
    /\ \E scene \in Scenes :
        /\ go = [r \in Req |-> IF r \in scene THEN "calling" ELSE "left"]
        /\ at = [r \in Req |-> IF r \in scene THEN "sent" ELSE "done"]
    /\ wire = {}
    /\ sheet = None
    /\ asked = [k \in Slots |-> None]
    /\ taken = [r \in Req |-> None]
    /\ answer = [r \in Req |-> None]
    /\ allowed = {}
    /\ events = <<>>
    /\ shown = [k \in Slots |-> None]
    /\ stops = [r \in Req |-> "none"]
    /\ effects = {}
    /\ conn = "open"
    /\ closer = "idle"

Goes(r, phase) == at' = [at EXCEPT ![r] = phase]
Emit(kind, r) == events' = Append(events, <<kind, r>>)
Listening == closer # "closed"

----------------------------------------------------------------------------
(* The caller in Go.  An answer may be under way for ever, so a caller that *)
(* has its answer is not told from one that waits for it.                  *)

\* The context of the call ends: the caller tells Rust, for a shell twice.
Leaves(r) ==
    /\ go[r] = "calling"
    /\ conn # "lost"
    /\ go' = [go EXCEPT ![r] = "left"]
    /\ wire' = wire \cup
        (CASE Kind[r] = "clarify" -> {<<"clarify.cancel", r>>}
           [] Kind[r] = "file"    -> {<<"approval.cancel", r>>}
           [] Kind[r] = "shell"   -> {<<"shell.cancel", r>>, <<"approval.cancel", r>>})
    /\ UNCHANGED <<at, sheetVars, uiVars, runVars, endVars>>

\* The connection is gone: the call fails and there is nobody to notify.
Severed(r) ==
    /\ go[r] = "calling"
    /\ conn = "lost"
    /\ go' = [go EXCEPT ![r] = "left"]
    /\ UNCHANGED <<at, wire, sheetVars, uiVars, runVars, endVars>>

----------------------------------------------------------------------------
(* The task of a call: gate() and start_clarify().                         *)

\* A request that cannot be decoded, has no scope or is out of bounds.
Invalid(r) ==
    /\ at[r] = "sent"
    /\ Goes(r, "done")
    /\ UNCHANGED <<goVars, sheetVars, uiVars, runVars, endVars>>

Decides(r) ==
    /\ at[r] = "sent"
    /\ Kind[r] # "clarify"
    /\ LET decision == Decide(Request[r], allowed)
       IN  Goes(r, CASE decision = "allow" -> "cleared"
                     [] decision = "deny"  -> "done"
                     [] decision = "ask"   -> "asking")
    /\ UNCHANGED <<goVars, sheetVars, uiVars, runVars, endVars>>

MayAsk(r) == at[r] = IF Kind[r] = "clarify" THEN "sent" ELSE "asking"

\* There is one sheet: a second request is refused, it does not queue.
OpenSheet(r) ==
    /\ MayAsk(r)
    /\ sheet = None
    /\ sheet' = r
    /\ Goes(r, "opened")
    /\ UNCHANGED <<goVars, asked, taken, answer, allowed, uiVars, runVars, endVars>>

Busy(r) ==
    /\ MayAsk(r)
    /\ sheet # None
    /\ Goes(r, "done")
    /\ UNCHANGED <<goVars, sheetVars, uiVars, runVars, endVars>>

Register(r) ==
    /\ at[r] = "opened"
    /\ asked' = [asked EXCEPT ![Slot(r)] = r]
    /\ Goes(r, "registered")
    /\ UNCHANGED <<goVars, sheet, taken, answer, allowed, uiVars, runVars, endVars>>

\* Mutant: no sheet for a caller that has left.
AnnounceToCaller(r) ==
    /\ at[r] = "registered"
    /\ Listening
    /\ IF go[r] = "calling" THEN Emit("opened", r) ELSE UNCHANGED events
    /\ Goes(r, "waiting")
    /\ UNCHANGED <<goVars, sheetVars, shown, runVars, endVars>>

Announce(r) ==
    /\ at[r] = "registered"
    /\ Listening
    /\ Emit("opened", r)
    /\ Goes(r, "waiting")
    /\ UNCHANGED <<goVars, sheetVars, shown, runVars, endVars>>

\* Mutant: the task fails and leaves its sheet open.
FailsSilently(r) ==
    /\ at[r] = "registered"
    /\ ~Listening
    /\ Goes(r, "done")
    /\ UNCHANGED <<goVars, sheetVars, uiVars, runVars, endVars>>

\* Nobody listens any more: the task resolves its own sheet and fails.
CannotAnnounce(r) ==
    /\ at[r] = "registered"
    /\ ~Listening
    /\ IF asked[Slot(r)] = r
       THEN /\ asked' = [asked EXCEPT ![Slot(r)] = None]
            /\ sheet' = IF sheet = r THEN None ELSE sheet
       ELSE UNCHANGED <<asked, sheet>>
    /\ Goes(r, "done")
    /\ UNCHANGED <<goVars, taken, answer, allowed, uiVars, runVars, endVars>>

\* Mutant: everything but a denial goes on.
WakesUnlessDenied(r) ==
    /\ at[r] = "waiting"
    /\ answer[r] # None
    /\ Goes(r, IF Kind[r] # "clarify" /\ answer[r] # "deny" THEN "cleared" ELSE "done")
    /\ UNCHANGED <<goVars, sheetVars, uiVars, runVars, endVars>>

\* What gate() makes of the answer.
Wakes(r) ==
    /\ at[r] = "waiting"
    /\ answer[r] # None
    /\ Goes(r, IF Kind[r] # "clarify" /\ answer[r] \in Consent THEN "cleared" ELSE "done")
    /\ UNCHANGED <<goVars, sheetVars, uiVars, runVars, endVars>>

----------------------------------------------------------------------------
(* What the call is for.  Read evidence is modelled in Files.              *)

TouchesFile(r) ==
    /\ at[r] = "cleared"
    /\ Kind[r] = "file"
    /\ effects' = effects \cup {r}
    /\ Goes(r, "done")
    /\ UNCHANGED <<goVars, sheetVars, uiVars, stops, endVars>>

\* Shells::run finds the flag of an early cancellation, or makes one; the entry
\* goes when the command is over.
EntersShell(r) ==
    /\ at[r] = "cleared"
    /\ Kind[r] = "shell"
    /\ IF stops[r] = "set"
       THEN stops' = [stops EXCEPT ![r] = "none"] /\ Goes(r, "done")
       ELSE stops' = [stops EXCEPT ![r] = "clear"] /\ Goes(r, "starting")
    /\ UNCHANGED <<goVars, sheetVars, uiVars, effects, endVars>>

Spawns(r) ==
    /\ at[r] = "starting"
    /\ effects' = effects \cup {r}
    /\ Goes(r, "running")
    /\ UNCHANGED <<goVars, sheetVars, uiVars, stops, endVars>>

\* The command could not be started, has ended, has reached its time limit, or
\* its flag is found set.
Ends(r) ==
    /\ at[r] \in {"starting", "running"}
    /\ stops' = [stops EXCEPT ![r] = "none"]
    /\ Goes(r, "done")
    /\ UNCHANGED <<goVars, sheetVars, uiVars, effects, endVars>>

----------------------------------------------------------------------------
(* Answers.  A resolve takes the registered call, then closes the sheet.   *)

\* Mutant: what is remembered does not name the rule that asked.
TakeUnnamed(r, choice) ==
    /\ asked' = [asked EXCEPT ![Slot(r)] = None]
    /\ taken' = [taken EXCEPT ![r] = choice]
    /\ allowed' = IF choice = "session" THEN allowed \cup {Fingerprint(Request[r])} ELSE allowed

Take(r, choice) ==
    /\ asked' = [asked EXCEPT ![Slot(r)] = None]
    /\ taken' = [taken EXCEPT ![r] = choice]
    /\ allowed' = IF choice = "session" THEN allowed \cup {Key(r)} ELSE allowed

UserAnswers(r, choice) ==
    /\ shown[Slot(r)] = r
    /\ conn # "quit"      \* the thread that takes commands is in Shutdown::run
    /\ choice \in AnswersTo(r)
    /\ asked[Slot(r)] = r
    /\ Take(r, choice)
    /\ UNCHANGED <<goVars, at, sheet, answer, uiVars, runVars, endVars>>

\* runtime.clarify.cancel and runtime.approval.cancel: nothing is taken, and
\* nothing is remembered, when the call is not registered.
HandlesCancel(r) ==
    /\ \E note \in {"clarify.cancel", "approval.cancel"} :
        /\ <<note, r>> \in wire
        /\ wire' = wire \ {<<note, r>>}
    /\ IF asked[Slot(r)] = r
       THEN Take(r, "cancelled")
       ELSE UNCHANGED <<asked, taken, allowed>>
    /\ UNCHANGED <<go, at, sheet, answer, uiVars, runVars, endVars>>

FinishesResolve(r) ==
    /\ taken[r] # None
    /\ IF Listening THEN Emit("closed", r) ELSE UNCHANGED events
    /\ sheet' = IF sheet = r THEN None ELSE sheet
    /\ answer' = [answer EXCEPT ![r] = taken[r]]
    /\ taken' = [taken EXCEPT ![r] = None]
    /\ UNCHANGED <<goVars, at, asked, allowed, shown, runVars, endVars>>

\* Mutant: a command that has no entry yet cannot be cancelled.
HandlesStopIfRunning(r) ==
    /\ <<"shell.cancel", r>> \in wire
    /\ wire' = wire \ {<<"shell.cancel", r>>}
    /\ stops' = [stops EXCEPT ![r] = IF @ = "none" THEN "none" ELSE "set"]
    /\ UNCHANGED <<go, at, sheetVars, uiVars, effects, endVars>>

\* runtime.shell.cancel: the flag is made when the command has none yet.
HandlesStop(r) ==
    /\ <<"shell.cancel", r>> \in wire
    /\ wire' = wire \ {<<"shell.cancel", r>>}
    /\ stops' = [stops EXCEPT ![r] = "set"]
    /\ UNCHANGED <<go, at, sheetVars, uiVars, effects, endVars>>

----------------------------------------------------------------------------
(* The interface: it shows what was opened last and closes by identity.    *)

Displays ==
    /\ events # <<>>
    /\ LET kind == Head(events)[1]
           r == Head(events)[2]
       IN  shown' = [shown EXCEPT ![Slot(r)] =
                        IF kind = "opened" THEN r
                        ELSE IF @ = r THEN None ELSE @]
    /\ events' = Tail(events)
    /\ UNCHANGED <<goVars, at, sheetVars, runVars, endVars>>

----------------------------------------------------------------------------
(* The end: close_shared runs when the user quits, or when the connection  *)
(* is lost and the runtime has been dropped.  The runtime waits for its    *)
(* blocking tasks before it is dropped; a clarification waits in a thread. *)

Quit ==
    /\ "quit" \in Faults
    /\ conn = "open"
    /\ conn' = "quit"
    /\ UNCHANGED <<goVars, at, sheetVars, uiVars, runVars, closer>>

Lose ==
    /\ "lost" \in Faults
    /\ conn = "open"
    /\ conn' = "lost"
    /\ UNCHANGED <<goVars, at, sheetVars, uiVars, runVars, closer>>

\* A task that had not begun when the runtime was dropped never runs.
Dropped ==
    /\ conn = "lost"
    /\ \/ \E r \in Req : at[r] = "sent" /\ Goes(r, "done") /\ UNCHANGED wire
       \/ \E note \in wire : wire' = wire \ {note} /\ UNCHANGED at
    /\ UNCHANGED <<go, sheetVars, uiVars, runVars, endVars>>

InThread(r) == Kind[r] = "clarify" /\ at[r] = "waiting"
RuntimeDropped ==
    /\ conn = "lost"
    /\ wire = {}
    /\ \A r \in Req :
        /\ taken[r] # "cancelled"
        /\ at[r] = "done" \/ InThread(r)

\* cancel_all sets the flags there are.
CloseBegin ==
    /\ closer = "idle"
    /\ conn = "quit" \/ RuntimeDropped
    /\ closer' = "clarify"
    /\ stops' = [r \in Req |-> IF stops[r] = "none" THEN "none" ELSE "set"]
    /\ UNCHANGED <<goVars, at, sheetVars, uiVars, effects, conn>>

\* Mutant: what is registered is forgotten without an answer.
CloseUnanswered(slot) ==
    /\ closer = slot
    /\ closer' = IF slot = "clarify" THEN "approval" ELSE "events"
    /\ asked' = [asked EXCEPT ![slot] = None]
    /\ sheet' = IF asked[slot] = None \/ sheet # asked[slot] THEN sheet ELSE None
    /\ UNCHANGED <<goVars, at, taken, answer, allowed, uiVars, runVars, conn>>

\* Takes what is registered, closes the sheet, answers, and says so.  One step:
\* what may come between is another sheet's opening, and the interface closes
\* by identity.
CloseSlot(slot) ==
    /\ closer = slot
    /\ closer' = IF slot = "clarify" THEN "approval" ELSE "events"
    /\ IF asked[slot] = None
       THEN UNCHANGED <<asked, sheet, answer, events>>
       ELSE LET r == asked[slot] IN
            /\ asked' = [asked EXCEPT ![slot] = None]
            /\ sheet' = IF sheet = r THEN None ELSE sheet
            /\ answer' = [answer EXCEPT ![r] = "closed"]
            /\ Emit("closed", r)
    /\ UNCHANGED <<goVars, at, taken, allowed, shown, runVars, conn>>

CloseEvents ==
    /\ closer = "events"
    /\ closer' = "closed"
    /\ UNCHANGED <<goVars, at, sheetVars, uiVars, runVars, conn>>

----------------------------------------------------------------------------

Works(r) ==
    \/ Decides(r) \/ OpenSheet(r) \/ Busy(r) \/ Register(r)
    \/ Announce(r) \/ CannotAnnounce(r) \/ Wakes(r)
    \/ TouchesFile(r) \/ EntersShell(r) \/ Spawns(r) \/ Ends(r)

Closes == CloseBegin \/ (\E slot \in Slots : CloseSlot(slot)) \/ CloseEvents

Next ==
    \/ \E r \in Req :
        \/ Leaves(r) \/ Severed(r)
        \/ Invalid(r) \/ Works(r)
        \/ HandlesCancel(r) \/ HandlesStop(r) \/ FinishesResolve(r)
        \/ \E choice \in Choice : UserAnswers(r, choice)
    \/ Displays
    \/ Quit \/ Lose \/ Dropped
    \/ Closes

Spec == Init /\ [][Next]_vars

Answered == \E r \in Req, choice \in Choice : UserAnswers(r, choice)

Progress ==
    \/ \E r \in Req : Works(r) \/ HandlesCancel(r) \/ HandlesStop(r) \/ FinishesResolve(r)
    \/ Displays \/ Dropped \/ Closes

\* Tasks and threads run, the interface displays, the user answers what is
\* shown.  Nobody has to leave or to quit.  No step can be taken twice for a call,
\* so that fairness of the union is fairness of each.
FairSpec == Spec /\ WF_vars(Progress \/ Answered)

\* The same without the user, who may look elsewhere.
UnattendedSpec == Spec /\ WF_vars(Progress)

----------------------------------------------------------------------------

TypeOK ==
    /\ go \in [Req -> {"calling", "left"}]
    /\ at \in [Req -> Phase]
    /\ wire \subseteq Notes \X Req
    /\ sheet \in Req \cup {None}
    /\ asked \in [Slots -> Req \cup {None}]
    /\ taken \in [Req -> Choice \cup {None}]
    /\ answer \in [Req -> Choice \cup {None}]
    /\ allowed \subseteq {Key(r) : r \in {q \in Req : Kind[q] # "clarify"}}
    /\ events \in Seq({"opened", "closed"} \X Req)
    /\ shown \in [Slots -> Req \cup {None}]
    /\ stops \in [Req -> {"none", "clear", "set"}]
    /\ effects \subseteq Req
    /\ conn \in {"open", "lost", "quit"}
    /\ closer \in {"idle", "clarify", "approval", "events", "closed"}

\* The one sheet is never left behind: whoever holds it is about to register,
\* is registered, or is being answered; who is registered holds the sheet; and
\* a call that waits still has somebody to answer it.  A sheet that leaks makes
\* every later approval fail as busy.
SheetHasOwner ==
    /\ sheet # None =>
        \/ at[sheet] = "opened"
        \/ asked[Slot(sheet)] = sheet
        \/ taken[sheet] # None
    /\ \A k \in Slots : asked[k] # None =>
        /\ sheet = asked[k]
        /\ Slot(asked[k]) = k
        /\ at[asked[k]] \in {"registered", "waiting"}
    /\ \A r \in Req : at[r] = "waiting" =>
        \/ asked[Slot(r)] = r
        \/ taken[r] # None
        \/ answer[r] # None

\* No command starts and no file is touched unless no rule refuses it and a rule
\* allows it, or the user allowed this very call, or the user allowed the same
\* thing for the session; a cancelled, closed or denied sheet never counts.
EffectsAllowed ==
    /\ \A r \in effects :
        /\ Kind[r] # "clarify"
        /\ ~Refused(Request[r])
        /\ \/ Matched(Request[r], "allow") # {}
           \/ answer[r] \in Consent
           \/ Key(r) \in allowed
    /\ \A key \in allowed :
        \E r \in Req : /\ Kind[r] # "clarify"
                      /\ Key(r) = key
                      /\ "session" \in {answer[r], taken[r]}

\* A command that was cancelled is not started later: once the cancellation is
\* handled its flag is set until the command is over, also when it came before
\* the command had an entry, and however long the approval takes.
StopKept ==
    \A r \in Shells :
        /\ go[r] = "left"
        /\ conn # "lost"
        /\ <<"shell.cancel", r>> \notin wire
        => stops[r] = "set" \/ at[r] = "done"

\* A sheet that was closed before it was announced: the interface opens it after
\* its closing and keeps it, and whatever the user says about it is refused.
Stale(r) == r # None /\ answer[r] \in {"cancelled", "closed"}

\* The user can see what a call waits for: once the interface has displayed what
\* was announced, it shows the sheet of a call that waits.  The exception is a
\* stale sheet in its place (a call cancelled between Register and Announce).
WaitingIsShown ==
    \A r \in Req :
        /\ asked[Slot(r)] = r
        /\ at[r] = "waiting"
        /\ events = <<>>
        => shown[Slot(r)] = r \/ Stale(shown[Slot(r)])

\* A call that registered after close_shared had looked at its slot.
Missed(r) ==
    /\ asked[Slot(r)] = r
    /\ \/ closer \in {"events", "closed"}
       \/ closer = "approval" /\ Slot(r) = "clarify"

Hidden(r) == asked[Slot(r)] = r /\ Stale(shown[Slot(r)])

\* Every call ends: with an answer of the user, refused, cancelled, or because
\* the program ends, also when its cancellation came too early.  The exceptions
\* are a sheet that is registered while close_shared runs, and one that a stale
\* sheet hides for good.
EndsUnlessUnseen ==
    \A r \in Req : <>(at[r] = "done") \/ <>[](Missed(r) \/ Hidden(r))

\* rpc_policy_test.rs:231: a disconnect unblocks an approval.
DisconnectUnblocks ==
    \A r \in Req : conn = "lost" ~> at[r] = "done"
============================================================================
