------------------------------- MODULE Plans --------------------------------
(* Tasks and their plans: Proj of src/src/proj.rs, the Proceed command of  *)
(* src/src/ipc.rs, and as much of the planner's run as Proceed depends on. *)
(*                                                                         *)
(* A plan is a file that the agents rewrite step by step and the user      *)
(* rewrites by hand.  An update and an edit read it under the lock and     *)
(* write it without; Proceed reads the plan, resumes the planner in Go and *)
(* marks the plan at the end.  Everything else holds the lock throughout,  *)
(* so it is one step with its partial results: a file or a meta.json that  *)
(* is replaced although the operation fails, or nothing.                   *)
EXTENDS PlanText

CONSTANTS
    Task,
    Project,
    ProjectOf,   \* where each task works
    Planned,     \* bound: the tasks that get a planner
    Worker,      \* tasks and threads of Rust that run an operation
    Drafts,      \* bound: the goal and the steps' details of a plan that is created
    Reported,    \* bound: what an update makes of a step
    Notes,       \* bound: what it says of it
    MaxUpdates,  \* bound: updates
    MaxEdits,    \* bound: edits of the user
    MaxFailures, \* bound: saves that fail
    Nil

VARIABLES
    meta,       \* State.meta: tasks, the active one, and the plan of each
    saved,      \* session/meta.json
    projects,   \* projects that are registered
    file,       \* the text of each task's plan
    work,       \* what each worker is in the middle of
    planner,    \* the run that made the plan of each task
    updates,    \* updates so far
    edits,      \* edits so far
    failures,   \* saves that failed so far
    ideal,      \* history: each plan if no two writes ever overlapped
    overlapped, \* history: plans with a write that missed another one
    misread,    \* history: plans with words of an agent that read as something else
    resumed,    \* history: plans whose planner was resumed by Proceed
    overtaken   \* history: plans marked by a Proceed that had read another one

boundVars == <<updates, edits>>
historyVars == <<ideal, overlapped, misread, resumed, overtaken>>
plansVars == <<meta, saved, projects, file, work, planner, boundVars, failures, historyVars>>

Idle == [kind |-> "idle"]
None == [goal |-> 0, sections |-> <<>>]

ASSUME PlansAssumption ==
    /\ ProjectOf \in [Task -> Project]
    /\ Planned \subseteq Task
    /\ Nil \notin Task \cup Worker
    /\ \A d \in Drafts : /\ d.goal \in Passage
                         /\ d.goal.says > MaxEdits  \* not what the user writes
                         /\ d.details \in Seq(Seq(Line)) /\ d.details # <<>>
    /\ Reported \subseteq Status
    /\ \A note \in Notes : note \in Passage /\ note.says # 0
    /\ MaxUpdates \in Nat /\ MaxEdits \in Nat /\ MaxFailures \in Nat

NoMeta == [tasks |-> [t \in Task |-> "none"], active |-> Nil, plans |-> [t \in Task |-> "none"]]

PlansInit ==
    /\ meta = NoMeta /\ saved = NoMeta
    /\ projects = {}
    /\ file = [t \in Task |-> None]
    /\ work = [w \in Worker |-> Idle]
    /\ planner = [t \in Task |-> "none"]
    /\ updates = 0 /\ edits = 0 /\ failures = 0
    /\ ideal = [t \in Task |-> ParsePlan(None)]
    /\ overlapped = {} /\ misread = {} /\ resumed = {} /\ overtaken = {}

----------------------------------------------------------------------------
(* Proj::save replaces meta.json and then the state.  It may fail before   *)
(* the replacement or after it.                                            *)

Save(next) ==
    \/ meta' = next /\ saved' = next /\ UNCHANGED failures
    \/ /\ failures < MaxFailures
       /\ failures' = failures + 1
       /\ saved' \in {saved, next}
       /\ UNCHANGED meta

\* Proj::create: registers the project, then saves the task.
TaskCreate(t) ==
    /\ meta.tasks[t] = "none"
    /\ meta.active = Nil
    /\ projects' = projects \cup {ProjectOf[t]}
    /\ Save([meta EXCEPT !.tasks[t] = "running", !.active = t])
    /\ UNCHANGED <<file, work, planner, boundVars, historyVars>>

\* Proj::update: only the active task, only to an end.
TaskUpdate(t) ==
    /\ meta.active = t
    /\ Save([meta EXCEPT !.tasks[t] = "closed", !.active = Nil])
    /\ UNCHANGED <<projects, file, work, planner, boundVars, historyVars>>

----------------------------------------------------------------------------
(* Writes of a plan.                                                       *)

\* Everybody else who is in the middle of something has read another text now.
Outdate(t, w) ==
    [v \in Worker |-> IF v # w /\ work[v].kind # "idle" /\ work[v].task = t
                      THEN [work[v] EXCEPT !.stale = TRUE] ELSE work[v]]

\* store::replace gives every writer of a file the same temporary file: the text that
\* lands may be the one that another writer put there in the meantime.
NewText(job) == IF job.kind = "update"
                THEN RenderPlan(Updated(job.plan, job.id, job.status, job.note))
                ELSE job.text
InTemp(t, w) ==
    {NewText(work[v]) : v \in {u \in Worker \ {w} : /\ work[u].kind \in {"update", "edit"}
                                               /\ work[u].task = t}}

\* A plan is overlapped when another text lands, or an update of a text that was replaced
\* since; an edit puts an end to that, since it takes nothing from the text before.
Overlapped(job, text) ==
    IF text # NewText(job) \/ (job.kind = "update" /\ job.stale) THEN overlapped \cup {job.task}
    ELSE IF job.kind = "edit" THEN overlapped \ {job.task} ELSE overlapped

Writes(w) ==
    LET t == work[w].task
    IN  \E text \in {NewText(work[w])} \cup InTemp(t, w) :
            /\ file' = [file EXCEPT ![t] = text]
            /\ work' = [Outdate(t, w) EXCEPT ![w] = Idle]
            /\ overlapped' = Overlapped(work[w], text)

\* What an agent gives for a field says no more than that field: no line of it reads
\* as another one or as a heading.
Innocent(passage) == passage.sections = <<>> /\ Words(passage.lines)

NewPlan(draft) ==
    [goal  |-> draft.goal,
     steps |-> [i \in DOMAIN draft.details |->
        [id |-> i, status |-> "todo", note |-> Says(0), detail |-> draft.details[i]]]]

\* Mutant: the plan is known before its file is there.
PlanCreateSavesFirst(t) ==
    /\ meta.tasks[t] = "running"
    /\ planner[t] = "running"
    /\ Save([meta EXCEPT !.plans[t] = "waiting"])
    /\ \E d \in Drafts : file' \in {file, [file EXCEPT ![t] = RenderPlan(NewPlan(d))]}
    /\ UNCHANGED <<projects, work, planner, boundVars, historyVars>>

\* Proj::plan_create, for an open task, also in place of another plan: the file is
\* written, then the reference is saved.  It refuses headings in the fields of a step,
\* not in the goal, and lines that read as a field nowhere.
PlanCreate(t) ==
    /\ meta.tasks[t] = "running"
    /\ planner[t] = "running"
    /\ \E d \in Drafts :
        LET plan == NewPlan(d)
            own  == RenderPlan(plan)
        IN  /\ \E text \in {own} \cup InTemp(t, Nil) :
                /\ file' = [file EXCEPT ![t] = text]
                /\ overlapped' = IF text # own THEN overlapped \cup {t} ELSE overlapped \ {t}
            /\ ideal' = [ideal EXCEPT ![t] = [plan EXCEPT !.goal = Says(@.says)]]
            /\ misread' = IF Innocent(d.goal) /\ \A i \in DOMAIN d.details : Words(d.details[i])
                          THEN misread \ {t} ELSE misread \cup {t}
    /\ Save([meta EXCEPT !.plans[t] = "waiting"])
    /\ work' = Outdate(t, Nil)
    /\ IF saved'.plans[t] = "waiting" /\ saved' = meta'
       THEN resumed' = resumed \ {t} /\ overtaken' = overtaken \ {t}
       ELSE UNCHANGED <<resumed, overtaken>>
    /\ UNCHANGED <<projects, planner, boundVars>>

\* Proj::plan: no reference, or a file that cannot be read, is an error.
Readable(t) == meta.plans[t] # "none" /\ file[t] # None

\* Proj::plan_update: a note that is only trimmed, for the first step of that name.
UpdateReads(w, t) ==
    /\ work[w] = Idle
    /\ Readable(t)
    /\ planner[t] # "none"
    /\ updates < MaxUpdates
    /\ updates' = updates + 1
    /\ LET plan == ParsePlan(file[t]) IN
       \E id \in {step.id : step \in Range(plan.steps)}, status \in Reported, note \in Notes :
           work' = [work EXCEPT ![w] =
               [kind |-> "update", task |-> t, stale |-> FALSE, plan |-> plan,
                id |-> id, status |-> status, note |-> note]]
    /\ UNCHANGED <<meta, saved, projects, file, planner, edits, failures, historyVars>>

\* The ideal plan takes the update, if it still has the step.
UpdateWrites(w) ==
    /\ work[w].kind = "update"
    /\ LET job == work[w]
           t   == job.task
       IN  /\ Writes(w)
           /\ ideal' = IF Named(ideal[t], job.id) = 0 THEN ideal
                       ELSE [ideal EXCEPT ![t] = Updated(@, job.id, job.status, job.note)]
           /\ misread' = IF Innocent(job.note) THEN misread ELSE misread \cup {t}
    /\ UNCHANGED <<meta, saved, projects, planner, boundVars, failures, resumed, overtaken>>

\* What a user may make of a text: take out a section - or the goal, in whose place the
\* first heading comes - or turn the sections round and strip one of what it can do
\* without, so that two steps may get one id.
ByHand(sections) ==
    {Tail(sections), [Reverse(sections) EXCEPT ![1] = [head |-> 0, lines |-> <<>>]]}

\* Proj::plan_edit: not while it is executed.  The words of the goal tell the edits apart.
EditReads(w, t) ==
    /\ work[w] = Idle
    /\ Readable(t)
    /\ meta.plans[t] = "waiting"
    /\ edits < MaxEdits
    /\ file[t].sections # <<>>
    /\ edits' = edits + 1
    /\ \E sections \in ByHand(file[t].sections) :
        work' = [work EXCEPT ![w] =
            [kind |-> "edit", task |-> t, stale |-> FALSE,
             text |-> [goal |-> edits + 1, sections |-> sections]]]
    /\ UNCHANGED <<failures, meta, saved, projects, file, planner, updates, historyVars>>

\* The text is replaced as it is, whatever was wrong with the one before.
EditWrites(w) ==
    /\ work[w].kind = "edit"
    /\ LET t == work[w].task IN
        /\ Writes(w)
        /\ ideal' = [ideal EXCEPT ![t] = ParsePlan(work[w].text)]
        /\ misread' = misread \ {t}
    /\ UNCHANGED <<meta, saved, projects, planner, boundVars, failures, resumed, overtaken>>

\* The replacement fails: the text stays.  (An error after the rename leaves the
\* new one, as above.)
WriteFails(w) ==
    /\ work[w].kind \in {"update", "edit"}
    /\ work' = [work EXCEPT ![w] = Idle]
    /\ UNCHANGED <<meta, saved, projects, file, planner, boundVars, failures, historyVars>>

----------------------------------------------------------------------------
(* ipc.proceed.                                                            *)

ProceedReads(w, t) ==
    /\ work[w] = Idle
    /\ Readable(t)
    /\ meta.plans[t] = "waiting"
    /\ work' = [work EXCEPT ![w] = [kind |-> "resume", task |-> t, stale |-> FALSE]]
    /\ UNCHANGED <<meta, saved, projects, file, planner, boundVars, failures, historyVars>>

\* Go resumes a run that is not running; a run it does not know is an error.
Resume(t) ==
    /\ planner[t] = "rests"
    /\ planner' = [planner EXCEPT ![t] = "running"]
    /\ resumed' = resumed \cup {t}

\* Mutant: the call is sent and its answer is not looked at.
ProceedGoesOn(w) ==
    /\ work[w].kind = "resume"
    /\ work' = [work EXCEPT ![w].kind = "mark"]
    /\ UNCHANGED <<meta, saved, projects, file, planner, boundVars, failures, historyVars>>

Resumes(w) ==
    /\ work[w].kind = "resume"
    /\ Resume(work[w].task)
    /\ work' = [work EXCEPT ![w].kind = "mark"]
    /\ UNCHANGED <<meta, saved, projects, file, boundVars, failures, ideal, overlapped, misread, overtaken>>

\* The call fails, or times out and is applied all the same.
ProceedFails(w) ==
    /\ work[w].kind = "resume"
    /\ Resume(work[w].task) \/ UNCHANGED <<planner, resumed>>
    /\ work' = [work EXCEPT ![w] = Idle]
    /\ UNCHANGED <<meta, saved, projects, file, boundVars, failures, ideal, overlapped, misread, overtaken>>

\* Proj::plan_proceed marks whatever plan the task has now.
Proceeds(w) ==
    /\ work[w].kind = "mark"
    /\ LET t == work[w].task IN
        /\ IF meta.plans[t] = "waiting"
           THEN Save([meta EXCEPT !.plans[t] = "proceeded"])
           ELSE UNCHANGED <<meta, saved, failures>>
        /\ overtaken' = IF work[w].stale THEN overtaken \cup {t} ELSE overtaken
    /\ work' = [work EXCEPT ![w] = Idle]
    /\ UNCHANGED <<projects, file, planner, boundVars, ideal, overlapped, misread, resumed>>

----------------------------------------------------------------------------
(* The planner of a task, and the end of both processes.                   *)

PlannerStarts(t) ==
    /\ t \in Planned
    /\ meta.active = t
    /\ planner[t] = "none"
    /\ planner' = [planner EXCEPT ![t] = "running"]
    /\ UNCHANGED <<meta, saved, projects, file, work, boundVars, failures, historyVars>>

\* Paused or settled: it may be resumed.
PlannerRests(t) ==
    /\ planner[t] = "running"
    /\ planner' = [planner EXCEPT ![t] = "rests"]
    /\ UNCHANGED <<meta, saved, projects, file, work, boundVars, failures, historyVars>>

\* Proj::open after a crash; Go knows no run any more.
Reopen ==
    /\ meta' = saved
    /\ work' = [w \in Worker |-> Idle]
    /\ planner' = [t \in Task |-> "none"]
    /\ UNCHANGED <<saved, projects, file, boundVars, failures, historyVars>>

PlansNext ==
    \/ \E t \in Task :
        \/ TaskCreate(t) \/ TaskUpdate(t) \/ PlanCreate(t)
        \/ PlannerStarts(t) \/ PlannerRests(t)
        \/ \E w \in Worker : UpdateReads(w, t) \/ EditReads(w, t) \/ ProceedReads(w, t)
    \/ \E w \in Worker :
        \/ UpdateWrites(w) \/ EditWrites(w) \/ WriteFails(w)
        \/ Resumes(w) \/ ProceedFails(w) \/ Proceeds(w)
    \/ Reopen

PlansSpec == PlansInit /\ [][PlansNext]_plansVars

----------------------------------------------------------------------------

Metas == [tasks : [Task -> {"none", "running", "closed"}], active : Task \cup {Nil},
          plans : [Task -> {"none", "waiting", "proceeded"}]]

PlansTypeOK ==
    /\ meta \in Metas /\ saved \in Metas
    /\ projects \subseteq Project
    /\ file \in [Task -> Markdown] /\ ideal \in [Task -> Plan]
    /\ \A t \in Task : \A i \in DOMAIN file[t].sections : ParsePlan(file[t]).steps[i].id # 0
    /\ \A w \in Worker : work[w].kind \in {"idle", "update", "edit", "resume", "mark"}
    /\ planner \in [Task -> {"none", "running", "rests"}]
    /\ updates \in 0 .. MaxUpdates /\ edits \in 0 .. MaxEdits /\ failures \in 0 .. MaxFailures
    /\ overlapped \subseteq Task /\ misread \subseteq Task
    /\ resumed \subseteq Task /\ overtaken \subseteq Task

\* What the processes leave behind can be opened again, at whatever point they end
\* and whichever step failed: one task is running and it is the active one, every
\* task has its project, every plan that is known has a file.
ReopensWhole ==
    /\ {t \in Task : saved.tasks[t] = "running"} = {saved.active} \ {Nil}
    /\ \A t \in Task : saved.tasks[t] # "none" => ProjectOf[t] \in projects
    /\ \A t \in Task : saved.plans[t] # "none" \/ meta.plans[t] # "none" => file[t] # None

\* A plan that is read back as it is meant: goal, steps, and what each says, below
\* which there may be lines of earlier notes.
ReadsAs(plan, meant) ==
    /\ plan.goal.says = meant.goal.says
    /\ Len(plan.steps) = Len(meant.steps)
    /\ \A i \in DOMAIN meant.steps :
        LET read == plan.steps[i]
            step == meant.steps[i]
        IN  /\ read.id = step.id /\ read.status = step.status
            /\ read.note.says = step.note.says
            /\ IsSuffix(step.detail, read.detail)

\* The file is the plan, through any number of rounds of reading it and writing it out:
\* it reads as creation, hand edits and updates one after the other meant it.  The code
\* has two exceptions, from which the next hand edit recovers: an update whose text was
\* replaced while it worked (src/src/proj.rs:465) or whose writing was crossed by another
\* one (src/src/store.rs:41), and words of an agent that are no longer words when they are
\* read back (a note is only trimmed, src/src/proj.rs:453, as a goal is, 394).
FileIsThePlan ==
    \A t \in Task \ (overlapped \cup misread) : ReadsAs(ParsePlan(file[t]), ideal[t])

LeavesOthers(old, new, id) ==
    LET k    == Named(old, id)
        more == Len(new.steps) - Len(old.steps)
    IN  /\ more \in Nat
        /\ new.goal = old.goal
        /\ \A i \in 1 .. k - 1 : new.steps[i] = old.steps[i]
        /\ new.steps[k].id = id
        /\ \A i \in k + 1 .. Len(old.steps) : new.steps[i + more] = old.steps[i]

\* Whatever its note looks like, the writing of an update leaves every other step as it
\* was: what stood before the step is still before it, what stood behind is last.
UpdateKeepsOthers ==
    [][\A w \in Worker :
        LET job == work[w] IN
        (job.kind = "update" /\ ~job.stale /\ work'[w] = Idle /\ job.task \notin overlapped') =>
            LeavesOthers(ParsePlan(file[job.task]), ParsePlan(file'[job.task]), job.id)
      ]_plansVars

\* A plan is marked as being executed only when its planner was resumed by the
\* Proceed of the user, also when two race, when the call fails or comes late, or
\* when a step of it fails.  The exception is a Proceed that read an earlier plan.
ProceedResumes ==
    \A t \in Task : meta.plans[t] = "proceeded" => t \in resumed \cup overtaken
=============================================================================
