------------------------------- MODULE RunSet -------------------------------
(* Subagent runs of pippo: the Go runtime's run set (src/go/run.go) together *)
(* with the durable run registry of the Rust process (Runs in                *)
(* src/src/sess.rs), which Go reaches by the "runtime.run" call.             *)
(*                                                                           *)
(* runSet.mu is held ACROSS the call that persists a transition, so an       *)
(* operation is three steps: it takes the lock and sends its request, the    *)
(* registry applies or refuses the request, and the operation ends with the  *)
(* answer - or with an error, when its caller's context is cancelled or the  *)
(* connection closes while the request is in flight.  Such a request is not  *)
(* withdrawn: the registry may still apply it later.                         *)
(*                                                                           *)
(* Abstracted: prompts, history, media and questions of a run; the task of a *)
(* run is folded into its title (two runs with one title are two runs of one *)
(* task with that title), and Scout is the title of a run without a task.    *)
(* A title is a sequence of words: that is what a report's file name keeps.  *)
EXTENDS Naturals, FiniteSets, Sequences

CONSTANTS
    Run,          \* run identifiers
    Title,        \* titles the callers give, with Scout if they start scouts
    Scout,        \* stands for "no task": no run directory and no report file
    Turns,        \* orchestrator turns that use the subagent tool
    User,         \* the run.resume request behind the Proceed button
    Detach,       \* the goroutine of state.detach, which interrupts a lost peer
    Halt,         \* the goroutine of beginShutdown, which runs loop.stop
    Top,          \* the owner of the runs that no planner owns (parent "")
    None,
    MaxParallel,  \* settings.max_parallel_runs
    MaxDepth,     \* settings.max_depth
    MaxEpoch,     \* bound: executors started per run
    MaxWire,      \* bound: requests the registry has not applied yet
    Faults        \* which of {"cut","disconnect","restart","disk","halt"} occur

Executor == Run \X (1 .. MaxEpoch)
Thread   == Executor \cup Turns \cup {User, Detach, Halt}

ASSUME LimitsAssumption == /\ MaxParallel \in Nat
                           /\ MaxDepth \in Nat
                           /\ MaxEpoch \in Nat \ {0}
                           /\ MaxWire \in Nat
ASSUME ThreadAssumption == /\ (Turns \cup {User, Detach, Halt}) \cap Executor = {}
                           /\ {User, Detach, Halt} \cap Turns = {}
                           /\ User # Detach /\ User # Halt /\ Detach # Halt
                           /\ None \notin Thread
ASSUME RunAssumption    == IsFiniteSet(Run) /\ Top \notin Run /\ None \notin Run

VARIABLES
    status, attempt,   \* run.meta.Status ("absent": not in s.runs), run.meta.Attempt
    active, epoch,     \* the runs with run.active; run.epoch
    info,              \* what a run keeps from its creation: parent, role, depth, title
    lock,              \* who holds runSet.mu, in which operation, and its call
    at, cut,           \* where each goroutine is; the goroutines with a cancelled context
    waits, joins,      \* the runs a parked wait is for; the executors a pause or stop awaits
    stopping, conn,    \* s.stopping; the websocket is open
    wire,              \* requests sent and not yet applied by the registry
    reg, reports,      \* the registry's entries, and the report files on disk
    doubt              \* history: runs with a call that failed or was abandoned (no code)

goVars  == <<status, attempt, active, epoch, info>>
regVars == <<reg, reports>>
envVars == <<stopping, conn>>
thrVars == <<at, cut, waits, joins>>
vars    == <<goVars, lock, thrVars, envVars, wire, regVars, doubt>>

Outcome   == {"blocked", "done", "failed"}
Terminal  == {"done", "failed", "stopped", "interrupted"}
Settled   == Terminal \cup {"blocked"}
Status    == Settled \cup {"running", "paused"}
Info      == [parent : Run \cup {Top}, role : {"planner", "worker"},
              depth : Nat, title : Title \cup {Scout}]
NoInfo    == [parent |-> Top, role |-> "worker", depth |-> 0, title |-> Scout]
Request   == [id : 0 .. MaxWire, make : BOOLEAN, run : Run, status : Status,
              attempt : Nat, report : BOOLEAN]
NoRequest == [id |-> 0]
Free      == [op |-> "free", by |-> None, run |-> None, todo |-> {},
              stage |-> "next", req |-> NoRequest]

Known         == {r \in Run : status[r] # "absent"}
Owner(t)      == IF t \in Executor THEN t[1] ELSE Top
Owned(t, r)   == r \in Known /\ info[r].parent = Owner(t)
Current(r)    == <<r, epoch[r]>>
StopTargetOnly(r) == {r}                \* mutant: stop forgets the runs below
Descendants(r) ==
    {d \in Known : \A S \in SUBSET Known :
        (r \in S /\ \A c \in Known : info[c].parent \in S => c \in S) => d \in S}

SignalNobody(a) == a                    \* mutant: the changed channel is not closed
\* close(s.changed): every parked wait looks again
SignalLocked(a) == [t \in Thread |-> IF a[t] = "wait" THEN "woken" ELSE a[t]]
\* the caller's tool returns; a turn whose context was cancelled gives way to the next one
Returned(c, t)  == IF t \in Turns /\ ~stopping THEN c \ {t} ELSE c

Init ==
    /\ status = [r \in Run |-> "absent"]
    /\ attempt = [r \in Run |-> 0]
    /\ active = {}
    /\ epoch = [r \in Run |-> 0]
    /\ info = [r \in Run |-> NoInfo]
    /\ lock = Free
    /\ at = [t \in Thread |-> IF t \in Turns \cup {User} THEN "work" ELSE "idle"]
    /\ cut = {}
    /\ waits = [t \in Thread |-> {}]
    /\ joins = [t \in Thread |-> {}]
    /\ stopping = FALSE
    /\ conn = TRUE
    /\ wire = {}
    /\ reg = [r \in Run |-> [status |-> "absent", attempt |-> 0]]
    /\ reports = {}
    /\ doubt = {}

-----------------------------------------------------------------------------
(* The lock, and the call an operation makes while it holds it. *)

Holding(op, t, r, todo) ==
    [op |-> op, by |-> t, run |-> r, todo |-> todo, stage |-> "next", req |-> NoRequest]

FreeId(i) == \A m \in wire : m.id # i

Message(i, make, r, st, a, rep) ==
    [id |-> i, make |-> make, run |-> r, status |-> st, attempt |-> a, report |-> rep]

\* peer.call sends the request; on a closed connection it is never sent (id 0)
Send(held, make, r, st, a, rep) ==
    \E i \in 0 .. MaxWire :
        LET m == Message(i, make, r, st, a, rep)
        IN  /\ IF conn THEN i # 0 /\ FreeId(i) /\ \A j \in 1 .. MaxWire : j < i => ~FreeId(j)
                       ELSE i = 0
            /\ lock' = [held EXCEPT !.stage = "sent", !.req = m]
            /\ wire' = IF conn THEN wire \cup {m} ELSE wire

\* select in peer.call: an answer, or ctx.Done, or the closed connection; when
\* several are ready any of them is taken.  Only these three use the caller's context.
CallFailedUnheard == lock.stage = "sent" /\ ~conn   \* mutant: an error answer is dropped
Answered   == lock.stage = "ok"
CallFailed == \/ lock.stage = "refused"
              \/ /\ lock.stage \in {"sent", "ok"}
                 /\ \/ ~conn
                    \/ lock.op \in {"pause", "resume", "stop"} /\ lock.by \in cut

\* activeLocked() < s.maxParallel
SlotByStatus == Cardinality({r \in active : status[r] = "running"}) < MaxParallel  \* mutant
Slot         == Cardinality(active) < MaxParallel

CanCall(t) == t \in Turns \/ (t \in Executor /\ info[t[1]].role = "planner")

-----------------------------------------------------------------------------
(* runSet.spawn *)

Depth(t) == IF t \in Executor THEN info[t[1]].depth + 1 ELSE 1

SpawnBegin(t, r, role, title) ==
    /\ lock = Free /\ at[t] = "work" /\ CanCall(t)
    /\ t \in Executor => role # "planner" /\ title # Scout
    /\ title = Scout => role # "planner"
    /\ ~stopping
    /\ t \in Executor => status[t[1]] = "running"
    /\ Depth(t) <= MaxDepth
    /\ Slot
    /\ r \notin Known /\ reg[r].status = "absent" /\ \A m \in wire : m.run # r
    /\ Send(Holding("spawn", t, r, {}), TRUE, r, "running", 1, FALSE)
    /\ info' = [info EXCEPT ![r] = [parent |-> Owner(t), role |-> role,
                                     depth |-> Depth(t), title |-> title]]
    /\ at' = [at EXCEPT ![t] = "lock"]
    /\ UNCHANGED <<status, attempt, active, epoch, cut, waits, joins, envVars, regVars, doubt>>

StartSameAttempt(r, a) ==               \* mutant: a restart keeps the old attempt
    /\ status' = [status EXCEPT ![r] = "running"]
    /\ attempt' = [attempt EXCEPT ![r] = IF @ = 0 THEN a ELSE @]
    /\ active' = active \cup {r}
    /\ epoch' = [epoch EXCEPT ![r] = @ + 1]

\* startLocked: a fresh context, settled channel and epoch, and a goroutine
Start(r, a) ==
    /\ status' = [status EXCEPT ![r] = "running"]
    /\ attempt' = [attempt EXCEPT ![r] = a]
    /\ active' = active \cup {r}
    /\ epoch' = [epoch EXCEPT ![r] = @ + 1]

Started(a, r) == [SignalLocked(a) EXCEPT ![<<r, epoch[r] + 1>>] = "work"]

SpawnEnd(t) ==
    /\ lock.op = "spawn" /\ lock.by = t /\ Answered
    /\ Start(lock.run, 1)
    /\ lock' = Free
    /\ \/ /\ at' = [Started(at, lock.run) EXCEPT ![t] = "work"]     \* args.Wait = false
          /\ cut' = Returned(cut, t)
          /\ UNCHANGED waits
       \/ /\ at' = [Started(at, lock.run) EXCEPT ![t] = "wait"]     \* args.Wait = true
          /\ waits' = [waits EXCEPT ![t] = {lock.run}]
          /\ UNCHANGED cut
    /\ UNCHANGED <<info, joins, envVars, wire, regVars, doubt>>

-----------------------------------------------------------------------------
(* runSet.pause *)

PauseBegin(t, r) ==
    /\ lock = Free /\ at[t] = "work" /\ CanCall(t) /\ Owned(t, r)
    /\ status[r] = "running"
    /\ Send(Holding("pause", t, r, {}), FALSE, r, "paused", attempt[r], FALSE)
    /\ at' = [at EXCEPT ![t] = "lock"]
    /\ UNCHANGED <<goVars, cut, waits, joins, envVars, regVars, doubt>>

\* a run that is paused already: only wait for its executor to settle
PauseAgain(t, r) ==
    /\ lock = Free /\ at[t] = "work" /\ CanCall(t) /\ Owned(t, r)
    /\ status[r] = "paused"
    /\ at' = [at EXCEPT ![t] = "join"]
    /\ joins' = [joins EXCEPT ![t] = {Current(r)}]
    /\ UNCHANGED <<goVars, lock, cut, waits, envVars, wire, regVars, doubt>>

CancelNothing(r) == {}                  \* mutant: the context is never cancelled
\* run.cancel(), when there is an executor to cancel
Cancelled(r) == IF r \in active THEN {Current(r)} ELSE {}

PauseEnd(t) ==
    /\ lock.op = "pause" /\ lock.by = t /\ Answered
    /\ status' = [status EXCEPT ![lock.run] = "paused"]
    /\ cut' = cut \cup Cancelled(lock.run)
    /\ at' = [SignalLocked(at) EXCEPT ![t] = "join"]
    /\ joins' = [joins EXCEPT ![t] = {Current(lock.run)}]
    /\ lock' = Free
    /\ UNCHANGED <<attempt, active, epoch, info, waits, envVars, wire, regVars, doubt>>

-----------------------------------------------------------------------------
(* runSet.resume, and runSet.reopen: the same with the owner "" and no answers *)

RestartsTerminal(r) == status[r] \in Terminal   \* mutant: forgets the blocked runs
\* restart: blocked and terminal runs make a new attempt, a paused run continues its own
Restarts(r) == status[r] \in Settled

NotRunning(r) == status[r] # "running"          \* mutant: does not wait for run.active
\* neither "still settling" nor "already running"
Idle(r) == r \notin active /\ status[r] # "running"

ResumeBegin(t, r) ==
    /\ lock = Free /\ at[t] = "work" /\ (CanCall(t) \/ t = User) /\ Owned(t, r)
    /\ Idle(r)
    /\ t = User => status[r] # "blocked"
    /\ Slot
    /\ epoch[r] < MaxEpoch
    /\ Send(Holding("resume", t, r, {}), FALSE, r, "running",
            IF Restarts(r) THEN attempt[r] + 1 ELSE attempt[r], FALSE)
    /\ at' = [at EXCEPT ![t] = "lock"]
    /\ UNCHANGED <<goVars, cut, waits, joins, envVars, regVars, doubt>>

ResumeEnd(t) ==
    /\ lock.op = "resume" /\ lock.by = t /\ Answered
    /\ Start(lock.run, lock.req.attempt)
    /\ at' = [Started(at, lock.run) EXCEPT ![t] = "work"]
    /\ cut' = Returned(cut, t)
    /\ lock' = Free
    /\ UNCHANGED <<info, waits, joins, envVars, wire, regVars, doubt>>

Returning == {"spawn", "pause", "resume", "stop"}

\* spawn, pause, resume and stop return at the first failed call: they unlock and
\* signal nobody, and what a stop did to earlier runs stays done
OpFails(t) ==
    /\ lock.op \in Returning /\ lock.by = t /\ CallFailed
    /\ lock' = Free
    /\ at' = [at EXCEPT ![t] = "work"]
    /\ cut' = Returned(cut, t)
    /\ doubt' = doubt \cup {lock.req.run}
    /\ UNCHANGED <<goVars, waits, joins, envVars, wire, regVars>>

-----------------------------------------------------------------------------
(* runSet.stop and runSet.interrupt: one lock, one call per run *)

StopBegin(t, r) ==
    /\ lock = Free /\ at[t] = "work" /\ CanCall(t) /\ Owned(t, r)
    /\ lock' = Holding("stop", t, r, Descendants(r))
    /\ at' = [at EXCEPT ![t] = "lock"]
    /\ joins' = [joins EXCEPT ![t] = {}]
    /\ UNCHANGED <<goVars, cut, waits, envVars, wire, regVars, doubt>>

InterruptBegin(t) ==
    /\ lock = Free /\ at[t] = "work" /\ t \in {Detach, Halt}
    /\ lock' = Holding("interrupt", t, None, {r \in Known : status[r] \notin Terminal})
    /\ at' = [at EXCEPT ![t] = "lock"]
    /\ UNCHANGED <<goVars, cut, waits, joins, envVars, wire, regVars, doubt>>

\* owners come before the runs they own
Foremost(r) == r \in lock.todo /\ info[r].parent \notin lock.todo

AimCancelled == IF lock.op = "stop" THEN "cancelled" ELSE "interrupted"  \* mutant: a turn's status
Aim == IF lock.op = "stop" THEN "stopped" ELSE "interrupted"

HaltCall(r) ==
    /\ lock.op \in {"stop", "interrupt"} /\ lock.stage = "next"
    /\ IF lock.op = "stop" THEN Foremost(r) ELSE r \in lock.todo
    /\ status[r] \notin Terminal
    /\ Send(lock, FALSE, r, Aim, attempt[r], FALSE)
    /\ UNCHANGED <<goVars, thrVars, envVars, regVars, doubt>>

\* cancels the executor of r and moves on; stop also remembers what to wait for
HaltMark(r) ==
    /\ cut' = cut \cup Cancelled(r)
    /\ joins' = IF lock.op = "stop"
                THEN [joins EXCEPT ![lock.by] = @ \cup Cancelled(r)] ELSE joins
    /\ lock' = [lock EXCEPT !.stage = "next", !.todo = @ \ {r}, !.req = NoRequest]

HaltApplied ==
    /\ lock.op \in {"stop", "interrupt"} /\ Answered
    /\ status' = [status EXCEPT ![lock.req.run] = Aim]
    /\ HaltMark(lock.req.run)
    /\ UNCHANGED <<attempt, active, epoch, info, at, waits, envVars, wire, regVars, doubt>>

\* interrupt ignores the error of persistLocked
InterruptUnsaved ==
    /\ lock.op = "interrupt" /\ CallFailed
    /\ status' = [status EXCEPT ![lock.req.run] = "interrupted"]
    /\ HaltMark(lock.req.run)
    /\ doubt' = doubt \cup {lock.req.run}
    /\ UNCHANGED <<attempt, active, epoch, info, at, waits, envVars, wire, regVars>>

\* stop persists nothing for a run that is terminal, but still cancels and awaits it
StopSkip(r) ==
    /\ lock.op = "stop" /\ lock.stage = "next" /\ Foremost(r)
    /\ status[r] \in Terminal
    /\ HaltMark(r)
    /\ UNCHANGED <<goVars, at, waits, envVars, wire, regVars, doubt>>

HaltEnd(t) ==
    /\ lock.op \in {"stop", "interrupt"} /\ lock.by = t
    /\ lock.stage = "next" /\ lock.todo = {}
    /\ at' = [SignalLocked(at) EXCEPT ![t] =
                 IF t = Halt THEN "drain" ELSE IF t = Detach THEN "gone" ELSE "join"]
    /\ lock' = Free
    /\ UNCHANGED <<goVars, cut, waits, joins, envVars, wire, regVars, doubt>>

\* pause and stop return when the executors they cancelled have settled, or on ctx.Done
\* (run.settled is closed when execute takes the lock, but the status to return is
\* read under the lock again: at the earliest when the executor is gone)
Joined(t) ==
    /\ at[t] = "join"
    /\ t \in cut \/ \A x \in joins[t] : at[x] = "gone"
    /\ at' = [at EXCEPT ![t] = "work"]
    /\ cut' = Returned(cut, t)
    /\ joins' = [joins EXCEPT ![t] = {}]
    /\ UNCHANGED <<goVars, lock, waits, envVars, wire, regVars, doubt>>

-----------------------------------------------------------------------------
(* runSet.wait: the status of every run under the lock, then the changed channel *)

Wait(t, S) ==
    /\ lock = Free /\ at[t] = "work" /\ CanCall(t)
    /\ S # {} /\ \A r \in S : Owned(t, r)
    /\ \E r \in S : status[r] \notin Settled
    /\ at' = [at EXCEPT ![t] = "wait"]
    /\ waits' = [waits EXCEPT ![t] = S]
    /\ UNCHANGED <<goVars, lock, cut, joins, envVars, wire, regVars, doubt>>

WaitAgain(t) ==
    /\ lock = Free /\ at[t] = "woken"
    /\ \E r \in waits[t] : status[r] \notin Settled
    /\ at' = [at EXCEPT ![t] = "wait"]
    /\ UNCHANGED <<goVars, lock, cut, waits, joins, envVars, wire, regVars, doubt>>

AllSettled(t) == lock = Free /\ at[t] = "woken" /\ \A r \in waits[t] : status[r] \in Settled
WaitOverSettled(t) == AllSettled(t)     \* mutant: select without ctx.Done
WaitOver(t) == AllSettled(t) \/ (at[t] = "wait" /\ t \in cut)

WaitReturns(t) ==
    /\ WaitOver(t)
    /\ at' = [at EXCEPT ![t] = "work"]
    /\ cut' = Returned(cut, t)
    /\ waits' = [waits EXCEPT ![t] = {}]
    /\ UNCHANGED <<goVars, lock, joins, envVars, wire, regVars, doubt>>

-----------------------------------------------------------------------------
(* runSet.execute, from the end of runSet.run on *)

\* the run is no longer running (paused, stopped, interrupted): nothing to report
Drain(x) ==
    /\ lock = Free /\ at[x] = "work" /\ x = Current(x[1])
    /\ status[x[1]] # "running"
    /\ active' = active \ {x[1]}
    /\ at' = [SignalLocked(at) EXCEPT ![x] = "gone"]
    /\ cut' = cut \ {x}
    /\ UNCHANGED <<status, attempt, epoch, info, lock, waits, joins, envVars, wire, regVars, doubt>>

Outcomes(r) == IF info[r].role = "planner" THEN {"done", "failed"} ELSE Outcome

SettleBegin(x, out, report) ==
    /\ lock = Free /\ at[x] = "work" /\ x = Current(x[1])
    /\ status[x[1]] = "running" /\ out \in Outcomes(x[1])
    /\ out # "done" => report
    /\ active' = active \ {x[1]}
    /\ Send(Holding("settle", x, x[1], {}), FALSE, x[1], out, attempt[x[1]], report)
    /\ at' = [at EXCEPT ![x] = "lock"]
    /\ UNCHANGED <<status, attempt, epoch, info, cut, waits, joins, envVars, regVars, doubt>>

UnsavedAsIs == lock.req.status          \* mutant: the error of persistLocked is ignored
Unsaved     == "failed"

SettleEnd(x) ==
    /\ lock.op = "settle" /\ lock.by = x
    /\ \/ /\ Answered
          /\ status' = [status EXCEPT ![lock.run] = lock.req.status]
          /\ UNCHANGED doubt
       \/ /\ CallFailed
          /\ status' = [status EXCEPT ![lock.run] = Unsaved]
          /\ doubt' = doubt \cup {lock.run}
    /\ lock' = Free
    /\ at' = [SignalLocked(at) EXCEPT ![x] = "gone"]
    /\ cut' = cut \ {x}
    /\ UNCHANGED <<attempt, active, epoch, info, waits, joins, envVars, wire, regVars>>

-----------------------------------------------------------------------------
(* Runs.create and Runs.update in the Rust process *)

Allowed(from, to) ==
    \/ from.status = "running"
       /\ to.status \in {"paused", "blocked", "done", "failed", "stopped", "interrupted"}
       /\ to.attempt = from.attempt
    \/ from.status = "paused"
       /\ to.status \in {"running", "stopped", "interrupted"}
       /\ to.attempt = from.attempt
    \/ from.status \in {"blocked", "done", "failed", "stopped", "interrupted"}
       /\ to.status = "running"
       /\ to.attempt = from.attempt + 1
    \/ from.status = "blocked"
       /\ to.status \in {"stopped", "interrupted"}
       /\ to.attempt = from.attempt

\* a report is a file of the project; its name is the title and, from the second
\* attempt on, the attempt: the second report of "Fix" is the first of "Fix (2)"
report_path(title, n) == IF n > 1 THEN Append(title, n) ELSE title

Reporting(m)   == m.report /\ info[m.run].title # Scout
ReportFile(m)  == [title |-> info[m.run].title, attempt |-> m.attempt, by |-> m.run]
SamePath(f, g) == report_path(f.title, f.attempt) = report_path(g.title, g.attempt)
PathTakenByRun(m) == ReportFile(m) \in reports   \* mutant: only the run's own reports count
PathTaken(m)   == \E f \in reports : SamePath(f, ReportFile(m))
Written(m)     == IF Reporting(m) THEN {f \in reports : ~SamePath(f, ReportFile(m))}
                                       \cup {ReportFile(m)}
                                  ELSE reports

Accepts(m) == m.make \/ (Allowed(reg[m.run], m) /\ ~(Reporting(m) /\ PathTaken(m)))

\* the answer reaches the call that waits for it, unless the connection is closed
Reply(m, answer) ==
    /\ wire' = wire \ {m}
    /\ lock' = IF conn /\ lock.req = m /\ lock.stage = "sent"
                THEN [lock EXCEPT !.stage = answer] ELSE lock

RegApply(m) ==
    /\ m \in wire /\ Accepts(m)
    /\ reg' = [reg EXCEPT ![m.run] = [status |-> m.status, attempt |-> m.attempt]]
    /\ reports' = Written(m)
    /\ Reply(m, "ok")
    /\ UNCHANGED <<goVars, thrVars, envVars, doubt>>

RegRefuse(m) ==
    /\ m \in wire /\ ~Accepts(m)
    /\ Reply(m, "refused")
    /\ UNCHANGED <<goVars, thrVars, envVars, regVars, doubt>>

\* an I/O error after the checks; the report may have been written when meta.json fails
\* (for a new run also an unknown task or related report)
RegDiskError(m) ==
    /\ "disk" \in Faults
    /\ m \in wire /\ Accepts(m)
    /\ reports' \in {reports, Written(m)}
    /\ Reply(m, "refused")
    /\ doubt' = doubt \cup {m.run}
    /\ UNCHANGED <<goVars, thrVars, envVars, reg>>

-----------------------------------------------------------------------------
(* Cancellation, the connection, shutdown and a new start of the program *)

\* turn.cancel of a turn that is inside the subagent tool
CutTurn(t) ==
    /\ "cut" \in Faults /\ t \in Turns \ cut /\ at[t] # "work"
    /\ cut' = cut \cup {t}
    /\ UNCHANGED <<goVars, lock, at, waits, joins, envVars, wire, regVars, doubt>>

\* the websocket closes: rpc.close, then state.detach; the turns' contexts end with it
Disconnect ==
    /\ "disconnect" \in Faults /\ conn
    /\ conn' = FALSE
    /\ at' = [at EXCEPT ![Detach] = "work"]
    /\ cut' = cut \cup Turns
    /\ UNCHANGED <<goVars, lock, waits, joins, stopping, wire, regVars, doubt>>

\* loop.stop cancels the turns and calls runSet.shutdown, which sets stopping under the lock
Shutdown ==
    /\ "halt" \in Faults /\ lock = Free /\ ~stopping
    /\ stopping' = TRUE
    /\ at' = [at EXCEPT ![Halt] = "work"]
    /\ cut' = cut \cup Turns
    /\ UNCHANGED <<goVars, lock, waits, joins, conn, wire, regVars, doubt>>

\* wg.Wait
Drained ==
    /\ at[Halt] = "drain" /\ \A x \in Executor : at[x] \in {"idle", "gone"}
    /\ at' = [at EXCEPT ![Halt] = "gone"]
    /\ UNCHANGED <<goVars, lock, cut, waits, joins, envVars, wire, regVars, doubt>>

LoadedAsIs(r) == IF info[r].title = Scout THEN [status |-> "absent", attempt |-> 0]
                 ELSE reg[r]            \* mutant: a running run stays running
\* load_runs: a running run is interrupted; a run without a task was never on disk
Loaded(r) ==
    IF info[r].title = Scout THEN [status |-> "absent", attempt |-> 0]
    ELSE IF reg[r].status = "running" THEN [reg[r] EXCEPT !.status = "interrupted"]
    ELSE reg[r]

\* both processes end at any point - also between the report and the meta.json of
\* an update - and start again; the new Go process knows no run
Restart ==
    /\ "restart" \in Faults
    /\ reg' = [r \in Run |-> Loaded(r)]
    /\ reports' \in {reports} \cup {Written(m) : m \in {n \in wire : Accepts(n)}}
    /\ status' = [r \in Run |-> "absent"]
    /\ attempt' = [r \in Run |-> 0]
    /\ active' = {}
    /\ epoch' = [r \in Run |-> 0]
    /\ info' = [r \in Run |-> IF reg'[r].status = "absent" THEN NoInfo ELSE info[r]]
    /\ lock' = Free
    /\ at' = [t \in Thread |-> IF t \in Turns \cup {User} THEN "work" ELSE "idle"]
    /\ cut' = {}
    /\ waits' = [t \in Thread |-> {}]
    /\ joins' = [t \in Thread |-> {}]
    /\ stopping' = FALSE
    /\ conn' = TRUE
    /\ wire' = {}
    /\ doubt' = {}

-----------------------------------------------------------------------------

Operation(t) ==
    \/ \E r \in Run, role \in {"planner", "worker"}, title \in Title : SpawnBegin(t, r, role, title)
    \/ SpawnEnd(t)
    \/ \E r \in Run : PauseBegin(t, r)
    \/ \E r \in Run : PauseAgain(t, r)
    \/ PauseEnd(t)
    \/ \E r \in Run : ResumeBegin(t, r)
    \/ ResumeEnd(t)
    \/ \E r \in Run : StopBegin(t, r)
    \/ InterruptBegin(t)
    \/ HaltEnd(t)
    \/ OpFails(t)
    \/ Joined(t)
    \/ \E S \in SUBSET Run : Wait(t, S)
    \/ WaitAgain(t)
    \/ WaitReturns(t)

Halting == \/ \E r \in Run : HaltCall(r) \/ StopSkip(r)
           \/ HaltApplied
           \/ InterruptUnsaved

Execution(x) ==
    \/ Drain(x)
    \/ \E out \in Outcome, report \in BOOLEAN : SettleBegin(x, out, report)
    \/ SettleEnd(x)

Registry == \E m \in wire : RegApply(m) \/ RegRefuse(m) \/ RegDiskError(m)

Environment == Disconnect \/ Shutdown \/ Drained \/ Restart \/ \E t \in Turns : CutTurn(t)

Next == \/ \E t \in Thread : Operation(t)
        \/ Halting
        \/ \E x \in Executor : Execution(x)
        \/ Registry
        \/ Environment

Spec == Init /\ [][Next]_vars
-----------------------------------------------------------------------------
(* What makes the run set correct *)

\* The type invariant: every variable holds a value the code could hold.
TypeOK ==
    /\ status \in [Run -> Status \cup {"absent"}]
    /\ attempt \in [Run -> Nat]
    /\ active \in SUBSET Run
    /\ epoch \in [Run -> 0 .. MaxEpoch]
    /\ info \in [Run -> Info]
    /\ lock \in [op : {"free", "spawn", "pause", "resume", "stop", "interrupt", "settle"},
                 by : Thread \cup {None}, run : Run \cup {None}, todo : SUBSET Run,
                 stage : {"next", "sent", "ok", "refused"}, req : Request \cup {NoRequest}]
    /\ at \in [Thread -> {"idle", "work", "lock", "join", "wait", "woken", "drain", "gone"}]
    /\ cut \in SUBSET Thread
    /\ waits \in [Thread -> SUBSET Run]
    /\ joins \in [Thread -> SUBSET Executor]
    /\ stopping \in BOOLEAN /\ conn \in BOOLEAN
    /\ wire \in SUBSET Request
    /\ reg \in [Run -> [status : Status \cup {"absent"}, attempt : Nat]]
    /\ reports \in SUBSET [title : Title \cup {Scout}, attempt : Nat, by : Run]
    /\ doubt \in SUBSET Run

Live(x) == at[x] \notin {"idle", "gone"}

\* A run never has two executors at work: resume starts one only after the executor
\* of the paused or stopped attempt has settled (run.active, epoch).
OneExecutor == \A x, y \in Executor : Live(x) /\ Live(y) /\ x[1] = y[1] => x = y

\* No interleaving of spawn, resume and slowly settling executors puts more
\* executors to work than settings.max_parallel_runs.
ParallelLimit == Cardinality({x \in Executor : Live(x)}) <= MaxParallel

\* A run that left "running" while its executor works has a cancelled executor:
\* nothing goes on working for a run that was paused, stopped or interrupted.
CancelReaches == \A r \in active : status[r] # "running" => Current(r) \in cut

\* While stop works through its list, every run it has passed - the target and
\* whatever is below it - is terminal, and its executor, if any, cancelled.
StopReaches ==
    lock.op = "stop" =>
        \A d \in Known \ lock.todo :
            d = lock.run \/ info[d].parent = lock.run =>
                /\ status[d] \in Terminal
                /\ d \in active => Current(d) \in cut

\* As long as no call about a run failed or was abandoned, the registry and the
\* run set agree on it whenever no call about it is under way.
Agreement ==
    \A r \in Known \ doubt :
        (lock.stage \in {"sent", "ok"} => lock.req.run # r) =>
            reg[r] = [status |-> status[r], attempt |-> attempt[r]]

\* The guards of the Go operations imply the transition table of the registry: an
\* update is refused only for a run whose earlier call failed or was abandoned, for
\* a disk error, or because another report of the task has the same file name.
RefusalExplained ==
    lock.stage = "refused" =>
        \/ lock.req.run \in doubt
        \/ Reporting(lock.req) /\ PathTaken(lock.req)

\* Whatever calls were lost: a run that is done for the run set is done in the
\* registry, unless an abandoned resume has taken the registry to a later attempt.
DoneIsDurable ==
    \A r \in Run : status[r] = "done" =>
        \/ reg[r] = [status |-> "done", attempt |-> attempt[r]]
        \/ reg[r].attempt > attempt[r]

\* While the connection is up, a running entry of the registry has a run in the run
\* set or is being created: no entry is left running by a restart.
NoGhostRun ==
    conn => \A r \in Run : reg[r].status = "running" =>
                r \in Known \/ (lock.op = "spawn" /\ lock.run = r)

\* A parked wait that was not cancelled has a run that has not settled: no
\* settling is ever missed between reading the statuses and the changed channel.
NoMissedWakeup ==
    lock = Free => \A t \in Thread \ cut :
        at[t] = "wait" => \E r \in waits[t] : status[r] \notin Settled

\* The registry says "report version already exists for run {id}" (sess.rs:213) only
\* when that run has written its report of that attempt already.
ReportVersionIsOwn ==
    lock.stage = "refused" /\ Reporting(lock.req) /\ lock.req.run \notin doubt =>
        ReportFile(lock.req) \in reports

\* A report file, once written, is never overwritten, by any run, attempt or restart.
ReportsWrittenOnce == [][reports \subseteq reports']_reports

\* While the outcome of a run is being persisted the executor is still at work: the
\* lock hides run.active = false until the outcome is known.
Settling == IF lock.op = "settle" THEN {lock.run} ELSE {}

Lifecycle == INSTANCE RunLifecycle WITH
                 life <- status, tries <- attempt, working <- active \cup Settling

\* Under every interleaving of the operations, their calls and their failures, the
\* run set keeps the promise of RunLifecycle: runs only make the moves it lists.
KeepsLifecycle == Lifecycle!Spec

-----------------------------------------------------------------------------
(* Liveness.  The Rust dispatcher answers while the connection is up, a holder of
   runSet.mu goes on, select returns when a case is ready, and a Go mutex is not
   starved (strong fairness where an executor needs the lock).  Nothing is assumed
   about executors that were not cancelled: a model may take any time. *)

Ends(t) == \/ SpawnEnd(t) \/ PauseEnd(t) \/ ResumeEnd(t) \/ HaltEnd(t) \/ OpFails(t)
           \/ (t \in Executor /\ SettleEnd(t))

Fairness ==
    /\ WF_vars(\E m \in wire : RegApply(m) \/ RegRefuse(m))
    /\ WF_vars(\E m \in wire : lock.req = m /\ (RegApply(m) \/ RegRefuse(m)))
    /\ WF_vars(Halting)
    /\ WF_vars(\E t \in Thread : Ends(t))
    /\ \A t \in Turns \cup Executor :
           WF_vars(Joined(t)) /\ SF_vars(WaitAgain(t)) /\ SF_vars(WaitReturns(t))
    /\ \A x \in Executor : SF_vars(Drain(x))

FairSpec == Spec /\ Fairness

\* The mutex held across calls is always given back, whatever becomes of the call.
LockFreed == []<>(lock = Free)

\* An executor that was cancelled settles: it is not kept by a call, a wait or a
\* join it is in, nor by the executor that waits for it.
CancelledSettles == \A x \in Executor : x \in cut ~> ~Live(x)

\* pause and stop return to their caller.
JoinReturns == \A t \in Thread : at[t] = "join" ~> at[t] # "join"
=============================================================================
