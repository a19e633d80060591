# pippo: specifications, model checking and proofs

pippo is a desktop assistant made of two processes and an interface:

- the **Rust process** (`src/src/*.rs`, Tauri): windows and commands, everything that is durable
  (sessions, run registry, projects, tasks, plans), the tools that touch the machine (shell, files,
  search), approvals and clarifications;
- the **Go process** `pippod` (`src/go/*.go`): the agent loop, the subagent runs, the model adapter.
  It is a child of the Rust process and serves one websocket; either side calls the other
  (`src/src/rpc.rs`, `src/go/rpc.go`);
- the **interface** (`src/ui`), driven by the events of the Rust process.

What is hard here: a Go mutex is held across calls to the other process; goroutines and tokio tasks
interleave; a call may be abandoned while its request is still applied on the other side; agents are
cancelled at any point of their work; either process may go away and start again; the durable state is
several files.

This directory models the parts of that which carry the program's own logic, checks them with TLC on
small instances and proves what matters most with TLAPS for every instance:

| Module | Models | Instance | Proofs |
|---|---|---|---|
| `RunSet`, `RunLifecycle` | subagent runs with their registry; the life cycle they implement | `MCRunSet` | `RunSet_proofs`, `RunSetRefines_proofs`, `RunSetCalls_proofs` |
| `TurnSession`, `Conversation` | a conversation with its turns, files and calls; what its files promise | `MCTurnSession` | `TurnSession_proofs`, `TurnSessionRefines_proofs` |
| `Sheets`, `Rules` | calls that need the user: approvals, clarifications, shell commands; the rulebook | `MCSheets` | `Sheets_proofs` |
| `Link` | the websocket seen from Rust: calls, notices, the shutdown | `MCLink` | `Link_proofs` |
| `Plans` over `PlanText` | projects, tasks and plans, and Proceed; the text of a plan | `MCPlans`, `MCDocuments` | `Documents_proofs` |
| `Files` | what was read and what may be replaced | `MCDocuments` | `Documents_proofs` |
| `Output` | what is kept and shown of the output of a command | `MCDocuments` | `Documents_proofs` |

## 1. Inventory

| Component (source) | State it keeps | Operations | Interacts with |
|---|---|---|---|
| subagent run set (`go/run.go`) | `runs` (meta, active, epoch, cancel, settled), `changed` channel, `stopping`, one mutex | spawn, pause, resume, stop, wait, execute, reopen, interrupt, shutdown | run registry by the call `runtime.run`; agents by the `subagent` tool; Proceed by `run.resume` |
| run registry (`src/sess.rs`, `Runs`) | `HashMap` of entries, `meta.json` per run, report files of the project | create, update, reports, open (load_runs) | called by Go; reads and writes the project directory |
| session (`src/sess.rs`, `Sess`) | messages, active turn with its cancel flag, steering queue | send, queue, drain, started, chunk, close, cancel, shutdown | turn notices from Go; store |
| store (`src/store.rs`) | append-only history, replaced replay | append, record, replace_replay, flush | files; a crash may truncate the last line |
| Rust RPC client (`src/rpc.rs`) | waiting calls, open sheet, approvals, clarifications, stamps | call, dispatch, start/cancel/resolve of sheets, run, plan, steer, close_shared | Go, interface |
| commands, event delivery (`src/ipc.rs`) | next stamp and the `BTreeMap` of early notices | listen, send, stop, proceed, deliver | session, projects, Rust RPC |
| projects, tasks, plans (`src/proj.rs`) | `task.json`, `plan.json` | create, update, plan_create, plan_update, plan_edit, plan_proceed | Go by `runtime.plan`; commands |
| Go RPC (`go/rpc.go`) | waiting calls, live peer, `draining` | call, close, detach, beginShutdown | all of Go |
| turns in Go (`go/loop.go`) | current turn, its cancel, pending cancel | start, finish, cancel, stop, run, drainSteer | sessions in Rust, run set |
| shell tool (`src/tool/shell.rs`) | running commands and cancelled ids | run, cancel, cancel_all, execute | process groups |
| file tools (`src/tool/write.rs`, `find.rs`) | evidence of what was read | mark, write, edit | file system |
| step guard (`go/guard.go`) | counters of steps | step, notice | agent loop |
| policy rules (`src/rule.rs`) | none | decide | tools, approvals |
| start and end (`src/main.rs`, `go/main.go`) | child process, ready line | spawn, shutdown, kill | both |
| tools, roles, context (`go/tool.go`, `role.go`, `ctx.go`) | none | validate, assemble | agent loop |
| model adapter (`go/model`), keys, configuration, interface | - | - | external services, disk, user |

What makes each component correct:

- **run set**: one executor per run; the parallel limit; whatever leaves `running` is cancelled; a stop
  reaches the runs below its target; no `wait` misses a settling; the lock comes back; the statuses only
  move as the life cycle allows.
- **registry**: agrees with the run set unless a call was lost; refuses nothing the Go guards let
  through; what is done is durable; no entry stays running after a restart; a report is written once.
- **session, store**: one open turn; a steered message is delivered once, to its turn; after a crash the
  replay is that of a prefix of what happened.
- **RPC, commands**: an answer reaches its call once or nobody; turn notices are handled in the order of
  their stamps; a sheet is resolved once and never waits for nobody; a timed-out `turn.start` leaves no
  orphan turn.
- **plans**: what the processes leave behind can be opened again; a plan that is marked as being executed has
  had its planner resumed (the other way round does not hold: the mark may fail after the resume); the text
  of a plan says what creation, edits and updates meant, and an update leaves the other steps alone. What the
  code has nothing against is stated as the exceptions of section 7: a hand edit or an update can be lost to an
  update that read the plan before, and a note with lines that read as fields or headings changes more than a note.
- **shell and file tools**: every started command ends with its session; a file is written only over
  what the agent has read.

`PROJECT.json` lists the components with their status and, under `hazards`, each place where one of
these can go wrong, with the property that would catch it or the reason why none does.

## 2. Plan

The most important behaviour came first; every module of the plan is written.

1. **RunSet** with the abstract specification **RunLifecycle**, which it is shown to implement.
2. **TurnSession** with the abstract specification **Conversation**: `Sess` over the store, with an end of
   the process inside a commit, the steering queue, the timeouts of `turn.start` and `turn.cancel`.
3. **Sheets** over **Rules**: clarifications, approvals, the shell commands behind them, `close_shared`.
4. **Link**: calls with their timeouts, the order of the notices, the shutdown of both processes.
5. **Plans** over **PlanText**: `proj.rs` and `ipc.proceed`, with what Proceed needs of the planner's run; the text
   that a plan is written as and read from.
6. **Files** and **Output**: evidence of what was read; the bounds of captured output.

`MCDocuments` checks Plans, Files and Output, which share no state, in one run; the drafts and notes it gives to
Plans are in `MCPlans`. What the modules have in common is cut at a message: RunSet and TurnSession see `call`
of Go with a lost or late answer, and Link shows of the Rust side that a call always ends; TurnSession has its
notices in order, and Link shows that the listener restores that order; Sheets has `close_shared` of the sheets,
and Link that of the calls.

Left out: the step guard (`src/go/guard.go`), a counter inside one goroutine. Every invariant and every action
property of the runs that pass has a theorem; what section 8 lists as model-checked only is liveness.

## 3. RunSet: subagent runs and their registry

`RunSet.tla` models `runSet` of `src/go/run.go` and `Runs` of `src/src/sess.rs` in one module, because
their interaction is what can go wrong: `runSet.mu` is held **across** the call that persists a
transition. An operation is therefore up to three steps: it takes the lock, checks its guards and sends
its request (`...Begin`); the registry applies or refuses it (`RegApply`, `RegRefuse`, `RegDiskError`);
the operation applies the transition and unlocks (`...End`), or fails (`OpFails`).

| Variable | Code |
|---|---|
| `status`, `attempt`, `info` | `run.meta`; "absent" is not in `s.runs` |
| `active`, `epoch` | `run.active`, `run.epoch` |
| `lock` | `runSet.mu`: holder, operation, target, the runs a stop or interrupt has still to do, and its request |
| `at`, `cut` | where every goroutine is; those whose context is cancelled |
| `waits`, `joins` | what a `wait` waits for; the `settled` channels a pause or stop collected |
| `stopping`, `conn` | `s.stopping`; the websocket is open |
| `wire` | requests sent and not yet handled by Rust; an abandoned one stays there |
| `reg`, `reports` | the registry's entries; the report files |
| `doubt` | history variable, no code: runs with a call that failed or was abandoned |

Goroutines: an executor `<<run, epoch>>` for every start of a run, the turns of the orchestrator, the
`run.resume` request behind Proceed (`User`), the goroutine of `state.detach` that interrupts a lost
peer, and the one of `beginShutdown` that runs `loop.stop` (`Halt`). Executors are callers too: a planner
spawns, pauses, stops and waits for runs of its own, which is how runs nest.

| Actions | Code |
|---|---|
| `SpawnBegin`, `SpawnEnd` | `spawn`: limits, then create, then `startLocked`; with `wait` it goes on as a wait |
| `PauseBegin`, `PauseEnd`, `PauseAgain`, `Joined` | `pause`, also of a run that is paused already |
| `ResumeBegin`, `ResumeEnd` | `resume`: a paused run keeps its attempt, any other gets the next |
| `StopBegin`, `HaltCall`, `HaltApplied`, `StopSkip`, `HaltEnd` | `stop`: target and descendants, one call each |
| `InterruptBegin`, `HaltCall`, `HaltApplied`, `InterruptUnsaved`, `HaltEnd` | `interrupt`, which ignores the errors of its calls |
| `Wait`, `WaitAgain`, `WaitReturns` | `wait`: statuses read under the lock, then parked on `changed` |
| `Drain`, `SettleBegin`, `SettleEnd` | `execute` after the agent loop: a run that is no longer running, or the outcome persisted |
| `OpFails` | the error paths of spawn, pause, resume and stop |
| `RegApply`, `RegRefuse`, `RegDiskError` | `Runs::create`, `Runs::update` with transition table and report file |
| `CutTurn`, `Disconnect`, `Shutdown`, `Drained`, `Restart` | a cancelled turn; a lost connection; `loop.stop`; `reopen`; both processes start again |

`call` in `src/go/rpc.go` is a `select` over answer, `ctx.Done` and the closed connection: when several
are ready any is taken, so `CallFailed` may also be chosen over an answer that has arrived, and the request is
not withdrawn.

Abstracted: prompts, media, history and questions; what an agent does between two calls (the executor
chooses freely what it calls and when it ends with which outcome); text and layout of the report. The task of
a run is folded into its title. File names of reports keep what the code does with title and attempt
(`report_path`).

### Runs

All runs use `MCRunSet`; a run that finishes has explored every reachable state of its instance.

| Run | Instance | Shows |
|---|---|---|
| `nested` | 2 runs, depth 2, limit 2, 2 executors per run, no faults, symmetry | `TypeOK`, `OneExecutor`, `CancelReaches`, `StopReaches`, `NoMissedWakeup`, `RefusalExplained`, and that RunSet implements RunLifecycle (`KeepsLifecycle`) |
| `calls` | 1 run, 3 executors, 2 requests in flight; cancelled turns, restarts, disk errors; titled runs and scouts | `Agreement`, `DoneIsDurable` |
| `faults` | 2 runs of one title, limit 1; lost connection, shutdown, cancelled turns, restarts, disk errors | `ParallelLimit`, `NoGhostRun`, `ReportsWrittenOnce` |
| `live` | 2 runs, depth 2, limit 2, 1 executor each, fairness | `LockFreed`, `CancelledSettles`, `JoinReturns` |
| `titles` | 2 runs of one title | a counterexample to `ReportVersionIsOwn`, see Findings |

Bounds, and why they are enough:

- `Run` has two members where runs nest or compete for a slot or a report file: a planner and its
  worker, or two siblings. `calls` is about one run and its history of requests, so it has one.
- `MaxEpoch` bounds the executors ever started per run. Two are needed for an executor that settles late
  beside a new attempt; `calls` has three, so that an abandoned request can be two attempts old.
- `MaxWire` bounds the requests the registry has not applied. Only an abandoned call leaves one behind,
  so two are one late and one current request.
- `Faults` selects which of cut, disconnect, restart, disk and halt occur. They are split over
  the runs to keep each exhaustive; no guard of the module depends on the bound otherwise.

`CHECK_DEADLOCK FALSE`: an agent need not call anything and all runs may have settled, and the system then
rests; a shut-down process has no step left; the bounds also end behaviours. That nothing gets stuck is
stated by the liveness properties.

### Fairness

`FairSpec` assumes: Rust handles a request that it was sent, in particular the one a holder of the lock is
waiting for (its dispatcher starts a task per request and has no wait in `runtime.run`); the holder of
the mutex goes on when its call ended; a ready `select` case is taken; and the Go mutex is not starved
(it hands over to a waiter that waited for a millisecond), hence strong fairness where an executor or a
wait needs the lock and others may keep taking it. Nothing is assumed about an executor that was not cancelled: a
model may take any time. A cancelled one ends its loop at the next check of its context, which is the fairness
of `Drain`. The run has no cut, disconnect or restart: those only free the waiters earlier.

### Findings

`titles`: a report's file is named by project, task, title and attempt (`report_path`,
`src/src/sess.rs:328`), and two runs of one task may have one title. The second one's report is refused
with "report version already exists for run {id}" although that run has written none. Go keeps `failed`
as the outcome of the run, and the registry still has it running.

## 4. TurnSession: a conversation and its turns

`TurnSession.tla` follows a message from the command of the interface to the turn in Go and back: `Sess`
of `src/src/sess.rs` over `src/src/store.rs`, the commands `send` and `stop` and the delivery of notices in
`src/src/ipc.rs`, and `start`, `cancel`, `stream` and `drainSteer` of `src/go/loop.go`.

| Variable | Code |
|---|---|
| `messages` | `State.messages`: per turn the assistant message (status, chunks), and which message of the user belongs to which turn |
| `active`, `cancel`, `queued` | `State.active` with its flag; `State.queued` |
| `replay`, `tail` | `replay.json`; whether the last line of `messages.jsonl` is whole ("clean"), cut ("torn") or continued after a cut ("broken") |
| `up`, `quit`, `conn` | the Rust process, `Shutdown.started`, the websocket |
| `sender` | where the `send` command that opened a turn is: waiting for `turn.start`, giving up, gone |
| `requests`, `notices` | `turn.start` and `turn.cancel` that Go has not handled; `turn.chunk` and `turn.closed` under way |
| `goAt`, `ctxDone`, `sent`, `drains`, `told` | where the turn is in Go, cancelled contexts, chunks sent, `runtime.steer` under way, steered messages in the history of the turn |
| `errors` | commits that failed; no code, it counts against `MaxErrors` |

| Actions | Code |
|---|---|
| `Open`, `Queue` | `send`: a turn is opened and started, or the message queued; a commit that fails; an event the interface does not take |
| `SenderAccepted`, `SenderGivesUp`, `SenderCloses` | the rest of `send`: accepted and perhaps cancelled again (`started`); `cancel_quietly`; `close_failed` |
| `Stop` | `stop`: `request_cancel`, then `turn.cancel` |
| `Deliver` | `deliver`: `Sess::chunk`, `Sess::close`; an error is logged and the notice spent |
| `GoStarts`, `GoCancels` | `startTurn`, `cancelTurn`; a turn that is not there (yet) is not cancelled |
| `GoChunk`, `GoSteer`, `Drain`, `GoEnds` | `run` and `stream`: chunks, the decision point, `Sess::drain` on the Rust side, `turn.closed` |
| `Disconnect`, `Quit` | `close_shared` with `state.detach`; `Sess::shutdown` |
| `Crash`, `Restart` | both processes end, perhaps inside a commit; `Store::open` and `Sess::new` |

Every commit is `Store::record`: append a line, replace the replay, then change the state.
`PartlyRecorded` is that sequence cut short, used for a commit that fails and for the one that is under
way when the process ends (`UnderWay`). Requests are a set, since each is handled by a task or goroutine of
its own: `turn.cancel` may overtake `turn.start`. Notices are a queue: that the listener puts them back
into the order of their stamps is shown in Link (`NoticesInOrder`).

`Conversation.tla` is what the files promise: one answer at a time, growing by the next chunk, closing
once, every message asked in the turn that ran. `KeepsConversation` maps it to `replay`, so it also says
that an end of the process at any point of a commit and the new start make only such steps.

| Run | Instance | Shows |
|---|---|---|
| `session` | 2 turns, 2 messages, 1 chunk per answer, 1 notice under way, 1 failed commit; timeouts, a lost connection, shutdown; symmetry | `TypeOK`, `OneRunning`, `ShownIsDurable`, `SteeredOnce`, `AnswerWhole`, `ClosedStays` |
| `session_live` | 2 turns, 2 messages, 2 chunks; refused turns, an interface that takes no event, ends of the process; fairness | `HistoryReadable`, `KeepsConversation`, `StoppedCloses` |
| `steer` | 3 messages, no faults | a counterexample to `SteeredToItsTurn`, see below |

Bounds: two turns make a late or foreign notice, a late answer of a command and a left-over queue meet
the next turn; a third adds no new pair. Two messages open two turns or steer one; two chunks show order, one
already shows loss. `MaxNotices` is one notice on its way while the turn goes on; more only delay what
`Deliver` does. One failed commit can leave each partial result of `Store::record`. The faults are split to
keep each run exhaustive. `CHECK_DEADLOCK FALSE`: when all messages are typed and turns closed, the system
rests.

Fairness (`FairSpec`): the listener delivers, a `send` command goes on, Go handles its requests, and a turn
whose context is cancelled ends. The last is strong fairness, because the bound on notices under way may
disable it; in the code the send never waits that way. A turn that nobody cancels may take for ever. Lost
connections, timeouts and failed commits are not in the liveness run: after a lost connection no code
closes the active turn before the shutdown, and a close whose commit fails is not tried again. The
hazards list both.

Finding, `steer`: a doc comment says that a message typed while a turn runs "is queued for it"
(`src/src/sess.rs:475`). `close` leaves the queue as it is and `drain` gives it to whichever turn is
active, so a message that missed the last decision point of its turn is told to the next one as typed
in the middle of that, which has it in its transcript already.

## 5. Sheets: calls that need the user

`Sheets.tla` is about the tool calls of Go that Rust may not simply do: a clarification, a file tool and a
shell command. Each call is a task of its own in Rust (`dispatch`), and so is each notification that cancels
one, so a cancellation may run before, between or after the steps of its call. There is one sheet in the
program; a call that finds it taken is refused.

| Variable | Code |
|---|---|
| `go`, `wire` | the caller in Go waits or has left (`callTool`); notifications not handled yet |
| `at` | the task of the call, by the next thing it does in `gate`, `start_clarify` and the tool |
| `sheet`, `asked` | `Shared.sheet.active`; `Shared.clarify.active` and `Shared.approval.active` |
| `taken`, `answer` | a resolve that took the entry and has not answered; the channel of the call |
| `allowed` | `Book.allowed`, the approvals for the session |
| `events`, `shown` | interactions sent and not displayed; the sheets `App.tsx` shows |
| `stops`, `effects` | `Shells.running`; calls that started a command or touched a file |
| `conn`, `closer` | the connection; how far `close_shared` is |

| Actions | Code |
|---|---|
| `Invalid`, `Decides`, `OpenSheet`, `Busy`, `Register`, `Announce`, `CannotAnnounce`, `Wakes` | `gate`, `start_clarify`, `open_sheet`, `emit_interaction` |
| `TouchesFile`, `EntersShell`, `Spawns`, `Ends` | the tools; `Shells::run` and `execute` |
| `UserAnswers`, `HandlesCancel`, `FinishesResolve` | `resolve_clarify`, `resolve_approval`, `cancel_clarify`, `cancel_approval`: take, then close, emit and answer |
| `HandlesStop` | `Shells::cancel`, also of a command that has not come yet |
| `Displays` | `watchInteractions`: opens what is opened, closes by identity |
| `Leaves`, `Severed`, `Quit`, `Lose`, `Dropped`, `RuntimeDropped`, `CloseBegin`, `CloseSlot`, `CloseEvents` | a caller whose context ends; the quit; the lost connection, whose runtime waits for its blocking tasks; `close_shared` |

`Rules.tla` is `Book` of `src/src/rule.rs`: `decide` with its order (explorer's inspection, home, deny,
allow, ask), the rule that asks, and the key under which an approval is remembered. A pattern is the set of
what it matches; which parts of a command only inspect is given by the instance.

| Run | Instance | Shows |
|---|---|---|
| `sheets` | three scenes of two calls each: two equal writes outside the project; a clarification and a command that asks; a write inside the project and a command of an explorer. Quit and lost connection | `TypeOK`, `SheetHasOwner`, `EffectsAllowed`, `WaitingIsShown`, `StopKept`, `EndsUnlessUnseen` |
| `disconnect` | one write, lost connection, a user who does not answer | a counterexample to `DisconnectUnblocks`, see below |

Bounds: there is one sheet, so two calls are enough to be in each other's way: two of one slot that share an
approval key, two of different slots, and two that the rulebook settles without asking. Every call
may be cancelled once, which is all the code can do. `CHECK_DEADLOCK FALSE`: when the calls have ended
the system rests.

Fairness: `FairSpec` is weak fairness of every step of tasks, threads, interface and `close_shared`, and of the
user who answers a sheet that is shown. Callers need not leave, nobody has to quit. `UnattendedSpec` leaves the
user out. It is one condition for the union: no step can be taken twice for a call, so the union cannot be
enabled for ever by one of them at the cost of another.

Two exceptions in `EndsUnlessUnseen` are real: a sheet registered while `close_shared` runs (`Missed`), and one
that a stale sheet covers (`Hidden`): a call cancelled between its registration and its announcement opens a
sheet that was closed already, which the interface then keeps.

Finding, `disconnect`: the test `disconnect_unblocks_an_approval_without_a_side_effect`
(`src/src/rpc_policy_test.rs:231`) says in its name what the code does only when somebody calls
`close_shared`, as the test's own shutdown does. The thread of the connection drops its tokio runtime before
`fail_all` answers what is open (`src/src/rpc.rs:317`); the runtime waits for its blocking tasks, and an
approval waits in one.

## 6. Link: calls, notices and the shutdown

`Link.tla` is the rest of `src/src/rpc.rs`, the listener of `src/src/ipc.rs` and the shutdown of
`src/src/main.rs`.

| Variable | Code |
|---|---|
| `caller`, `waits`, `answer`, `closed` | where a `call` is; `Pending.waits` and `.closed`; its channel |
| `toGo`, `replies` | requests Go has not handled; answers no task has dispatched |
| `written`, `stamped`, `tasks` | notices Go wrote, the reader stamped, and those whose task has not run |
| `channel`, `sender` | the queue of `Shared.notices` and its sending half |
| `early`, `next`, `delivered`, `listener` | `listen`: the `BTreeMap`, the stamp it waits for, what it delivered |
| `thread`, `step`, `owed` | the thread of the connection; `close_shared` of either caller and the waits it drained |
| `phase`, `child` | `Shutdown::run` and `Service::stop`; the Go process |

| Actions | Code |
|---|---|
| `Calls`, `Sends`, `Returns`, `TimesOut`, `Forgets`, `Dispatches` | `Rpc::call`, `forget`, `dispatch` of an answer |
| `GoHandles`, `GoNotifies`, `ChildExits` | the Go side |
| `Stamps`, `HandsOn`, `Listens`, `ListenerEnds` | the reader, `send_notice`, `listen` |
| `Loses`, `ThreadLeaves`, `TaskDropped`, `RuntimeDropped` | the end of the connection and of its runtime |
| `DrainsWaits`, `DropsSender`, `AnswersWaits` | `close_shared`, called by the connection's thread and by the main one |
| `Quits`, `Asked`, `Joins`, `Stops` | `Shutdown::run`: ask Go, close, join, stop the child |

Run `link`: one call and the shutdown's, three notices, a lost connection; `LinkTypeOK`, `CallsAreAnswered`,
`NoticesInOrder`, `ShutdownEnds`. Three notices are needed for the listener to hold back two and to release
them at once; two calls for one to be in the map while the other comes, times out or is drained. A further
call adds no state the two do not have, since calls only meet at the map.

Fairness: threads and tasks run and timeouts expire. Nothing is assumed of Go: it may never answer; of
the connection; or of callers other than the main thread inside the shutdown. `Stops` needs no assumption
about Go because it kills the child when its time is over.

## 7. Plans, Files and Output

The run `documents` checks the three: each starts alone, so its states are those of the three
modules side by side and not their product.

**Plans** (`src/src/proj.rs`, `proceed` of `src/src/ipc.rs`). Most operations hold the lock throughout and are
one step with their partial results: a save that fails before its rename or after it (`Save`), a plan's file
that is written although its reference is not. `plan_update` and `plan_edit` read under the lock and write
without it, so each is `...Reads` and `...Writes`; Proceed reads, resumes the planner in Go
(`Resumes`, or `ProceedFails`, which may have resumed it all the same), and marks the plan (`Proceeds`).
`store::replace` uses one temporary name per file, so that a writer may put another one's text in place
(`InTemp`). `Reopen` is the end of both processes and a new start.

| Variable | Code |
|---|---|
| `meta`, `saved` | `State.meta` and `session/meta.json`: statuses of tasks, the active one, plan references |
| `projects`, `file` | registered projects; the plan of each task as it is on disk |
| `work` | what a concurrent caller has read, and will write |
| `planner` | the run Proceed resumes |
| `ideal`, `overlapped`, `misread`, `resumed`, `overtaken` | history: each plan as creation, edits and updates meant it; plans with a write that missed another one; plans in which an agent's words read as structure; plans whose planner Proceed resumed; plans marked by a Proceed that had read another |

`PlanText` has `render_plan` and `parse_plan` line by line. A text is given by its split at the headings behind a line
break, which is the first thing `parse_plan` does: the goal above them, and sections of an id and lines, where a line
that reads as a field is told apart from words. What somebody gives for a field is a `Passage`: the words on
the field's own line, the lines that follow, and the sections its headings make. A note therefore comes back as
its first line, its other lines become part of the step's detail, lines in it that read as a status or a
note win over the ones above them, and its headings are steps; `RenderStep` and `ParseStep` do that with each of them,
again at every later update. `ByHand` are edits that matter to the steps: one taken out; the goal's line taken
out, so that the first heading becomes the goal; steps turned round with one stripped, which makes two steps of
one id. An edit is written as it is.

| Property | Says |
|---|---|
| `FileIsThePlan` | read back, through any number of rounds, the text is what creation, edits and updates one after the other meant. Two exceptions: plans with a write that missed another one (`overlapped`), and plans in which a line of an agent reads as structure (`misread`); both end with the next edit or plan that has none of it |
| `UpdateKeepsOthers` | an update, also one with such a note, leaves every other step as it was: those above stay above, those below are last, and what the note adds is in between. Excepted is `overlapped` |
| `ReopensWhole` | whatever is left behind at any point can be opened |
| `ProceedResumes` | a plan is marked only when its planner was resumed |

The two exceptions stand for what the code does, and TLC reaches both. `overlapped`: `plan_update` reads the plan
under the lock and writes the whole text without (`src/src/proj.rs:457`, `465`), so a hand edit or an update that
lands in between is gone, although "a hand edit by the user is read back as the new content"
(`src/src/proj.rs:469`). `misread`: a note is only trimmed (`src/src/proj.rs:453`), and headings, which are refused in
the fields of a new step (`src/src/proj.rs:410`), are not in notes and goals. With a line that reads as a status the step
comes back with that status, and with a heading there is a step nobody planned, although the tool is said to "update
one step's progress" (`src/go/tool.go:157`). `UpdateKeepsOthers` has no such exception: it bounds what a note can do.
`PlansTypeOK` is in no run; it is proved (section 8).

**Files** (`Reads` of `src/src/tool/write.rs`, `src/src/tool/find.rs`). `find` reads a file and leaves its
evidence later without a lock between; write and edit hold the lock from their look at the file to its
replacement; others write the file at any time. `ReplacesWhatItSaw` is the promise to the agent and the
user: what an edit replaced is what its diff says and its reader was shown. The code cannot keep it against
somebody who writes between the look and the rename, which is the exception `meddled`.

**Output** (`Capture`, `render`, `bounded` of `src/src/tool/shell.rs`). The state is head, tail and total of both
streams, changed by reads of any size. `OutputKept` says that each stream is shown `Abridged`: a
beginning of it and an end of it, no byte twice, with nothing but elision between; that both together stay within
the limit; and that text which fits is shown whole. Bytes that are no text take three bytes when rendered, so the
second cut (`Bound`) is needed, and each of its sides may leave two bytes of its half unused.

| Bound | Value | Why it is enough |
|---|---|---|
| tasks, planned tasks | 2, 1 | a second task to be active while the first is closed; one plan, since plans meet only in meta |
| workers | 2 | every pair of operations overlaps, and two Proceeds race |
| drafts, notes | a plain draft of two steps, and one whose goal has a heading and whose detail reads as a status; a note of two lines, and one with a status, a note and a heading of another step's id | each kind of line is tried in each place where it may stand; two steps are the fewest with a duplicate id and with one above or below |
| updates, edits, failing saves | 2, 1, 1; two updates or one with a failing save, and one of the two, without edit, while the plan is the odd draft (`PlansBound`) | a second update reads what the first one wrote, and overlaps with it; each failure is tried in every place; meta.json and the text meet only in whether a plan has a file |
| reported status | "done" | differs from the "todo" of a new step, of an odd note and of a stripped section |
| readers, files, contents | 2, 1, 2 texts and one that is none | evidence is per file; a second reader drops or renews the first one's |
| `Half`, `Mark`, bytes, chunk | 4, 3, 9, 6 | each limit is passed by one, a chunk fills head and tail at once, and the elision fits and does not |

`CHECK_DEADLOCK FALSE`: the output of a command ends, and so do the bounded edits.

## 8. Proofs

TLAPS proves for every value of the constants, the bounds included:

| Theorem | Statement |
|---|---|
| `TypeCorrect`, `AtMostOneExecutor`, `CancellationReaches`, `WithinLimit` | `TypeOK`, `OneExecutor`, `CancelReaches`, `ParallelLimit` of RunSet |
| `Implements` | `Spec => KeepsLifecycle`: every step of RunSet is one step of RunLifecycle, or none |
| `SessionTyped`, `SessionRunsOne`, `SessionDurable`, `SessionReadable`, `SessionKeepsClosed` | `TypeOK`, `OneRunning`, `ShownIsDurable`, `HistoryReadable` and the action property `ClosedStays` of TurnSession |
| `SheetsTyped`, `SheetsOwned`, `SheetsAllowed`, `SheetsStop` | `TypeOK`, `SheetHasOwner`, `EffectsAllowed`, `StopKept` of Sheets |
| `RegistryAgrees`, `DoneStaysDurable`, `NoGhosts`, `RefusalsExplained`, `ReportsAreKept` | `Agreement`, `DoneIsDurable`, `NoGhostRun`, `RefusalExplained` and the action property `ReportsWrittenOnce` of RunSet |
| `StopReachesAll` | `StopReaches` of RunSet, for runs nested to any depth |
| `NoWakeupMissed` | `NoMissedWakeup` of RunSet, when a session has one turn at a time |
| `SessionWhole`, `SessionSteersOnce` | `AnswerWhole`, `SteeredOnce` of TurnSession |
| `SheetsShown` | `WaitingIsShown` of Sheets |
| `SessionImplements` | `Spec => KeepsConversation` when `MaxErrors = 0`: every step of TurnSession is one step of Conversation on disk, or none |
| `LinkTyped`, `LinkAnswers`, `LinkSorts` | `LinkTypeOK`, `CallsAreAnswered`, `NoticesInOrder` of Link |
| `PlansTypeCorrect`, `PlansReopen`, `PlansProceed`, `PlansKeepThePlan`, `UpdatesKeepOthers` | `PlansTypeOK`, `ReopensWhole`, `ProceedResumes`, `FileIsThePlan` and the action property `UpdateKeepsOthers` of Plans |
| `FilesSafe` | `ReplacesWhatItSaw` of Files |
| `OutputIsKept` | `OutputKept` of Output |

**Assumptions** are those named in the modules, and no more. RunSet: limits are natural numbers, at least one
executor per run, the goroutines that are no executors are different values, runs are finitely many. The other
modules say that bounds are natural numbers, that "none" is not a member of the sets beside it, and
which set a constant function maps into. Plans says besides that drafts and notes are passages, that a draft has a step and a
note is not empty, which the code refuses, and that the words of a draft's goal are none an edit writes, by which the
model tells the two apart. Nothing is assumed about the rulebook by a proof. Output says that a
marker is longer than one byte: the code's takes some thirty, and a byte that does not fit as three leaves two.
`NoWakeupMissed` alone has a hypothesis, `OneTurn`: no two turns of a session are open together. A session
opens a turn when the one before is closed, and an agent makes its tool calls one after the other; two
turns overlap only when a `turn.start` that timed out leaves an orphan. TLC refutes the property
without it when saves fail too: a stop that fails half way returns at `src/go/run.go:415` without waking the waiters
of the runs it has stopped already.

None of the properties is inductive alone. What each proof adds:

**RunSet.** `IndInv == TypeOK /\ LockOK /\ KnownOK /\ ExecOK /\ CancelReaches /\ SlotOK`. `OneExecutor` follows
from `ExecOK`: a goroutine that is alive is the *current* executor of its run, and its run is active, or it is
the holder that persists its outcome. To keep that, a start must know that the run is not active and a
slot is free; it learnt it before its call, so `LockOK` says what the holder of the lock may still rely on after
the call. `KnownOK` ties `epoch` to the run being known. `SlotOK` counts the active runs together with the run
that is being settled, because `SettleBegin` clears `active` in the model while the code does so under the lock
it still holds; `ParallelLimit` follows by an injection from live executors to these runs.

**The refinement** maps `life`, `tries` and `working` to `status`, `attempt` and `active` with the run being
settled. `RefOK` adds to `IndInv` what the steps that end a call rely on: a running run has an executor, and
the status an operation saw before its call is still there when the call ends.

**Calls and the registry.** A call to Rust is made under the lock, may be given up, and may be applied long after
that; it may be refused, or fail half way. `RegInv` adds to `IndInv /\ RefOK` what makes the two sides agree
in spite of that: what the holder of the lock asks for (`CallOK`); that a request in flight is
the lock's, or its run is in doubt, and that a create is alone with its run (`WireOK`); where the registry is
while the call is under way (`UnderWayOK`); and that a run which is done was answered (`DoneAnswered`).
`Agreement`, `DoneIsDurable`, `NoGhostRun` and `RefusalExplained` are inductive only together with these.

**Stop and the waiters.** `ReachInv` follows a stop down the runs below its target: those it has passed are terminal and
owners come before what they own (`StopOK`), and whoever stops or waits owns what it names (`CallerOK`).
`WaitersOK` says that a waiter which is parked has a run that has not settled, or an interrupt holds the lock
and signals at its end.

**TurnSession.** `Safe` adds to the properties that a process that is down has no active turn, and that the
last line of the history is clean while the process is up unless an append failed. One lemma (`DiskStep`)
carries most of it: a step of the running process commits nothing, or one record of messages that extend
what is shown; a record that is cut short leaves the replay as one of the two.

**What an answer holds.** `SessionWhole` and the second refinement rest on the order of the notices. `InLine` says
that the chunks under way for the active answer continue it one by one and that its end comes after all of
them; `Complete` that none is missing while the turn lives in Go (a lost connection may cut the rest off).
The queue lemmas keep these over a notice that is appended, taken or cut off. `Begun` says that Go knows
nothing of a turn nobody opened, so a new turn starts with nothing under way; `Mirrors` and `Orderly`
that the disk holds what is shown, and at most one running answer, which is the one a restart cancels. The
assumption `MaxErrors = 0` is needed: a chunk whose write fails is dropped, so the next one leaves a gap.

**What is steered.** `QueueOK`: what is in the queue is there once and was asked for, what was told was told once and
is no longer queued, and a process that is down has no queue.

**Sheets.** `SheetHasOwner` needs who holds the sheet in each phase (`Holders`), that a call is answered once
(`AnsweredOnce`), and that somebody attends to every registered call (`Attended`). `EffectsAllowed` needs that
a call past the gate was permitted, that one which asks is not refused, and that each remembered key was
said for a call of that key. That a permission outlives its step follows from `allowed` only growing.
`WaitingIsShown` is about three places that change at different times: the call, the events under way and the
interface. `Seen` says that a call which is not yet announced is shown nowhere and was not answered by the user (`Unseen`),
and that one which waits is shown, or its opening is under way and only sheets that are stale by then
follow it (`Visible`).

**Link.** `Held` says who has the wait of a call from its registration to its answer: the map while the
connection is open, then one of the two `close_shared`; what is drained has left the map, and an id that has not
been used is held by nobody. For the notices, `Placed` gives each stamp one place (a task, the queue, held
back, or delivered), and `NoneLost` says that none is missing while the runtime and the queue's sender are
there. The listener finds a gap because what it holds is finite (`GapFound`).

**Plans.** For `ReopensWhole` the state in memory has to be whole as well, since the next save makes a record of
it. For `ProceedResumes`, between the resume and the mark it is the job that remembers, unless the plan was
replaced. For `FileIsThePlan` (`PlansKeepThePlan`), an update that is not stale still has the plan the file holds
(`FreshUpdates`), so what it writes is what the update makes of a plan that reads as it is meant. The rest is about
the text, for plans, notes and details of any length. `StepRead` says how a step whose words are only words comes back,
`ReadAgain` that what was read once is read the same again, and `ChangedRead` what a plan reads as when one of its steps
was rewritten with any note: the steps above and below, the step itself, and as many new ones as the note has
headings. `UpdateAgrees` and `CreateAgrees` compare that with what was meant; `UpdatesKeepOthers` is the part
of `ChangedRead` about the other steps. The flattening of sections and lines (`FlattenSeq`) is a recursive
function, for which the provers have no induction: `Flattens` shows that it is the last of a sequence of partial
results, and what holds of the first and passes from one to the next holds of all because a set of numbers
that is not all of them has a least counterexample (`Climb`).

**Files.** Whoever has evidence was shown it, and the editor's old content is on disk unless somebody meddled.

**Output.** `CapturesKept` says of each stream that the head is its first bytes and the tail the last of the
rest, as many of both as fit; a read keeps that, by cases on whether head and tail are full. For what is shown,
the first lemmas say that the cut of a stream from the left (`Upto`) and from the right (`From`) exist and are the
longest that fit: there is a least one because the subsets of a finite set are well-founded, so that no induction
over data is needed. A cut on the left that stops below its half leaves at most two bytes, so the cut on
the right never reaches back over the marker (`BoundAbridges`); the rest is what `Abridged` asks of each case.

**Model-checked only**: the liveness properties `LockFreed`, `CancelledSettles`, `JoinReturns` of RunSet,
`StoppedCloses` of TurnSession, `EndsUnlessUnseen` of Sheets and `ShutdownEnds` of Link, with the three runs
that expect a violation. Liveness under fairness and ENABLED are out of the prover's reach, and so are
induction over data and RECURSIVE operators; the modules have none (`Descendants` is a closure by quantification
over sets, and what depends on the length of a stream is a maximum or minimum of a set).

## 9. Not modelled

- Of the runs: the agent loop inside an executor, its history, media and questions, `Runs::reports`.
- Of the conversation: texts, errors and the transcript, contents of the history before its last line.
- Of the sheets: questions and answers themselves, media, the diff and the preview; which words make a command
  an inspection, and how patterns match strings; a path that is resolved once for the rulebook and again
  by the tool; that an approval of `find` holds a worker of the runtime (`src/src/rpc.rs:545`).
- Of the link: the handshake and frames, the start of the child; `pippod` outliving a Rust process that crashes;
  updates of `loop.stop` that are lost when the connection closes right after it was accepted.
- Of the shell: process groups and signals, which are one step; the reading of pipes beyond `Capture`.
- Of the files: matching, paging, ignore rules and diffs; that evidence of old turns is never pruned.
- Of the plans: the fields files, verify and risk with their lines (and commas in file names), titles and headings of
  several lines, white space, and a goal that begins with `#`; a torn text of two writers in one temporary file
  (`src/src/store.rs:41`); a planner that stays resumed although the mark of its plan fails; a plan that is created between the `run.resume` of a Proceed and its mark is the
  exception `overtaken`.
- The step guard (`src/go/guard.go`): a counter inside one goroutine without a protocol.
- The model adapter, keys and configuration, the rendering of the interface, the validation of tools, roles and
  prompts: they have no protocol or state of their own, or are services outside the repository.
