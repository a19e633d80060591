------------------------------ MODULE PlanText ------------------------------
(* The Markdown of a plan: render_plan and parse_plan of src/src/proj.rs.     *)
(*                                                                            *)
(* A text is given by its split at the headings that follow a line break,     *)
(* which is what parse_plan does first and which loses nothing: the goal is   *)
(* what stands above them, read as words whatever it is, and each section     *)
(* has its heading and its lines.  A line that reads as a field stands apart  *)
(* from one that is only words; what the words say is a number.  The fields   *)
(* files, verify and risk, which go the way of the status, are left out, and  *)
(* so is white space.                                                         *)
EXTENDS Naturals, Sequences, FiniteSets, SequencesExt

Status == {"todo", "done"}  \* two of the five are enough to tell steps apart
Line == ({"status"} \X Status) \cup ({"note", "words"} \X Nat)

\* The id in front of the heading's title, or 0 if there is none.
Section == [head : Nat, lines : Seq(Line)]
Markdown == [goal : Nat, sections : Seq(Section)]

\* What somebody gives for one field: the line that stands behind the field's name,
\* and what follows, which is nothing for most.
Passage == [says : Nat, lines : Seq(Line), sections : Seq(Section)]
Says(n) == [says |-> n, lines |-> <<>>, sections |-> <<>>]

Step == [id : Nat, status : Status, note : Passage, detail : Seq(Line)]
Plan == [goal : Passage, steps : Seq(Step)]

IsWords(line) == line[1] = "words"
Words(lines) == \A i \in DOMAIN lines : IsWords(lines[i])

----------------------------------------------------------------------------
(* Render.                                                                   *)

\* What a step makes of the text: its own section, in which the note comes above the
\* detail, and a section for each heading in the note, of which the last has the detail.
RenderStep(step) ==
    LET note == IF step.note.says = 0 THEN <<>>
                ELSE <<<<"note", step.note.says>>>> \o step.note.lines
        all  == <<[head |-> step.id, lines |-> <<<<"status", step.status>>>> \o note]>>
                \o step.note.sections
    IN  [all EXCEPT ![Len(all)].lines = @ \o step.detail]

\* Mutant: steps are numbered again.
RenderPlanNumbered(plan) ==
    [goal     |-> plan.goal.says,
     sections |-> plan.goal.sections \o FlattenSeq(
                     [i \in DOMAIN plan.steps |-> RenderStep([plan.steps[i] EXCEPT !.id = i])])]

RenderPlan(plan) ==
    [goal     |-> plan.goal.says,
     sections |-> plan.goal.sections
                  \o FlattenSeq([i \in DOMAIN plan.steps |-> RenderStep(plan.steps[i])])]

----------------------------------------------------------------------------
(* Parse: forgiving.                                                         *)

\* The last line of a field counts.
LastOf(lines, field, default) ==
    LET at == {i \in DOMAIN lines : lines[i][1] = field}
    IN  IF at = {} THEN default ELSE lines[Max(at)][2]

\* What no field is stays, in its order.
Detail(lines) ==
    FlattenSeq([i \in DOMAIN lines |-> IF IsWords(lines[i]) THEN <<lines[i]>> ELSE <<>>])

\* A heading without an id has its place for one.
ParseStep(section, i) ==
    [id     |-> IF section.head = 0 THEN i ELSE section.head,
     status |-> LastOf(section.lines, "status", "todo"),
     note   |-> Says(LastOf(section.lines, "note", 0)),
     detail |-> Detail(section.lines)]

ParsePlan(text) ==
    [goal  |-> Says(text.goal),
     steps |-> [i \in DOMAIN text.sections |-> ParseStep(text.sections[i], i)]]

----------------------------------------------------------------------------
(* What an update changes.                                                   *)

\* The first step of that name, or 0.
Named(plan, id) == SelectInSeq(plan.steps, LAMBDA step : step.id = id)

\* Mutant: every step of that name is changed.
UpdatedEvery(plan, id, status, note) ==
    [plan EXCEPT !.steps = [i \in DOMAIN plan.steps |->
        IF plan.steps[i].id = id
        THEN [plan.steps[i] EXCEPT !.status = status, !.note = note] ELSE plan.steps[i]]]

Updated(plan, id, status, note) ==
    LET k == Named(plan, id)
    IN  [plan EXCEPT !.steps[k].status = status, !.steps[k].note = note]
=============================================================================
