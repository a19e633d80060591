----------------------------- MODULE Sheets_proofs -----------------------------
(* Proofs about Sheets: for any calls, rulebook and faults, the one sheet is *)
(* never left behind, nothing happens that was not allowed, and a command    *)
(* that was cancelled is not started.                                        *)
EXTENDS Sheets, TLAPS

USE ReqAssumption

\* The steps that a call takes by itself.
Own(r) ==
    \/ Leaves(r) \/ Severed(r) \/ Invalid(r) \/ Works(r)
    \/ HandlesCancel(r) \/ HandlesStop(r) \/ FinishesResolve(r)
    \/ \E choice \in Choice : UserAnswers(r, choice)

Rest == Displays \/ Quit \/ Lose \/ Dropped \/ Closes \/ UNCHANGED vars

LEMMA NextSplits == [Next]_vars <=> (\E r \in Req : Own(r)) \/ Rest
BY DEF Next, Own, Rest

LEMMA Announcing ==
    ASSUME events \in Seq({"opened", "closed"} \X Req), NEW kind \in {"opened", "closed"},
           NEW r \in Req
    PROVE  Append(events, <<kind, r>>) \in Seq({"opened", "closed"} \X Req)
OBVIOUS

----------------------------------------------------------------------------
\* A call keeps the types of what it shares with the others.
LEMMA OwnTyped ==
    ASSUME TypeOK, NEW r \in Req, Own(r)
    PROVE  TypeOK'
<1>1. CASE Leaves(r)
  <2>1. wire' \subseteq Notes \X Req
    BY <1>1 DEF Leaves, TypeOK, Notes
  <2> QED
    BY <1>1, <2>1 DEF Leaves, TypeOK, sheetVars, uiVars, runVars, endVars
<1>2. CASE Severed(r)
  BY <1>2 DEF Severed, TypeOK, sheetVars, uiVars, runVars, endVars
<1>3. CASE Invalid(r) \/ Decides(r) \/ Busy(r) \/ Wakes(r)
  <2>1. at' \in [Req -> Phase]
    <3>1. CASE Decides(r)
      <4>1. Decide(Request[r], allowed) \in {"allow", "deny", "ask"}
        BY DEF Decide
      <4> QED
        BY <3>1, <4>1 DEF Decides, Goes, TypeOK, Phase
    <3>2. CASE Wakes(r)
      BY <3>2 DEF Wakes, Goes, TypeOK, Phase
    <3>3. CASE Invalid(r) \/ Busy(r)
      BY <3>3 DEF Invalid, Busy, Goes, TypeOK, Phase
    <3> QED
      BY <1>3, <3>1, <3>2, <3>3
  <2> QED
    BY <1>3, <2>1 DEF Invalid, Decides, Busy, Wakes, TypeOK, goVars, sheetVars, uiVars,
         runVars, endVars
<1>4. CASE OpenSheet(r) \/ Register(r)
  <2>1. at' \in [Req -> Phase]
    BY <1>4 DEF OpenSheet, Register, Goes, TypeOK, Phase
  <2>2. asked' \in [Slots -> Req \cup {None}]
    BY <1>4 DEF OpenSheet, Register, TypeOK
  <2> QED
    BY <1>4, <2>1, <2>2 DEF OpenSheet, Register, TypeOK, goVars, uiVars, runVars, endVars
<1>5. CASE Announce(r)
  <2>1. at' \in [Req -> Phase]
    BY <1>5 DEF Announce, Goes, TypeOK, Phase
  <2>2. events' \in Seq({"opened", "closed"} \X Req)
    BY <1>5, Announcing DEF Announce, Emit, TypeOK
  <2> QED
    BY <1>5, <2>1, <2>2 DEF Announce, TypeOK, goVars, sheetVars, runVars, endVars
<1>6. CASE CannotAnnounce(r)
  <2>1. at' \in [Req -> Phase]
    BY <1>6 DEF CannotAnnounce, Goes, TypeOK, Phase
  <2>2. asked' \in [Slots -> Req \cup {None}] /\ sheet' \in Req \cup {None}
    BY <1>6 DEF CannotAnnounce, TypeOK
  <2> QED
    BY <1>6, <2>1, <2>2 DEF CannotAnnounce, TypeOK, goVars, uiVars, runVars, endVars
<1>7. CASE TouchesFile(r) \/ EntersShell(r) \/ Spawns(r) \/ Ends(r)
  <2>1. at' \in [Req -> Phase]
    BY <1>7 DEF TouchesFile, EntersShell, Spawns, Ends, Goes, TypeOK, Phase
  <2>2. stops' \in [Req -> {"none", "clear", "set"}] /\ effects' \subseteq Req
    BY <1>7 DEF TouchesFile, EntersShell, Spawns, Ends, TypeOK
  <2> QED
    BY <1>7, <2>1, <2>2 DEF TouchesFile, EntersShell, Spawns, Ends, TypeOK, goVars, sheetVars,
         uiVars, endVars
<1>8. ASSUME NEW choice \in Choice, Take(r, choice),
             choice = "session" => Kind[r] # "clarify"
      PROVE  /\ asked' \in [Slots -> Req \cup {None}]
             /\ taken' \in [Req -> Choice \cup {None}]
             /\ allowed' \subseteq {Key(q) : q \in {p \in Req : Kind[p] # "clarify"}}
  BY <1>8 DEF Take, TypeOK
<1>9. CASE HandlesCancel(r)
  <2>1. wire' \subseteq Notes \X Req
    BY <1>9 DEF HandlesCancel, TypeOK
  <2>2. "cancelled" \in Choice
    BY DEF Choice
  <2>3. /\ asked' \in [Slots -> Req \cup {None}]
        /\ taken' \in [Req -> Choice \cup {None}]
        /\ allowed' \subseteq {Key(q) : q \in {p \in Req : Kind[p] # "clarify"}}
    <3>1. CASE asked[Slot(r)] = r
      BY <1>8, <1>9, <2>2, <3>1 DEF HandlesCancel
    <3>2. CASE asked[Slot(r)] # r
      BY <1>9, <3>2 DEF HandlesCancel, TypeOK
    <3> QED
      BY <3>1, <3>2
  <2> QED
    BY <1>9, <2>1, <2>3 DEF HandlesCancel, TypeOK, uiVars, runVars, endVars
<1>10. CASE HandlesStop(r)
  BY <1>10 DEF HandlesStop, TypeOK, sheetVars, uiVars, endVars
<1>11. CASE FinishesResolve(r)
  <2>1. events' \in Seq({"opened", "closed"} \X Req)
    <3>1. Append(events, <<"closed", r>>) \in Seq({"opened", "closed"} \X Req)
      BY Announcing DEF TypeOK
    <3> QED
      BY <1>11, <3>1 DEF FinishesResolve, Emit, TypeOK
  <2>2. /\ sheet' \in Req \cup {None}
        /\ answer' \in [Req -> Choice \cup {None}]
        /\ taken' \in [Req -> Choice \cup {None}]
    BY <1>11 DEF FinishesResolve, TypeOK
  <2> QED
    BY <1>11, <2>1, <2>2 DEF FinishesResolve, TypeOK, goVars, runVars, endVars
<1>12. ASSUME NEW choice \in Choice, UserAnswers(r, choice)
       PROVE  TypeOK'
  <2>1. choice = "session" => Kind[r] # "clarify"
    BY <1>12 DEF UserAnswers, AnswersTo
  <2> QED
    BY <1>8, <1>12, <2>1 DEF UserAnswers, TypeOK, goVars, uiVars, runVars, endVars
<1> QED
  BY <1>1, <1>2, <1>3, <1>4, <1>5, <1>6, <1>7, <1>9, <1>10, <1>11, <1>12 DEF Own, Works

LEMMA RestTyped ==
    ASSUME TypeOK, Rest
    PROVE  TypeOK'
<1>1. CASE Displays
  <2>1. /\ Head(events) \in {"opened", "closed"} \X Req
        /\ Tail(events) \in Seq({"opened", "closed"} \X Req)
    BY <1>1 DEF Displays, TypeOK
  <2>2. shown' \in [Slots -> Req \cup {None}]
    BY <1>1, <2>1 DEF Displays, TypeOK
  <2> QED
    BY <1>1, <2>1, <2>2 DEF Displays, TypeOK, goVars, sheetVars, runVars, endVars
<1>2. CASE Quit \/ Lose
  BY <1>2 DEF Quit, Lose, TypeOK, goVars, sheetVars, uiVars, runVars
<1>3. CASE Dropped
  <2>1. at' \in [Req -> Phase] /\ wire' \subseteq Notes \X Req
    BY <1>3 DEF Dropped, Goes, TypeOK, Phase
  <2> QED
    BY <1>3, <2>1 DEF Dropped, TypeOK, sheetVars, uiVars, runVars, endVars
<1>4. CASE CloseBegin
  BY <1>4 DEF CloseBegin, TypeOK, goVars, sheetVars, uiVars
<1>5. ASSUME NEW slot \in Slots, CloseSlot(slot)
      PROVE  TypeOK'
  <2>1. CASE asked[slot] = None
    BY <1>5, <2>1 DEF CloseSlot, TypeOK, goVars, runVars
  <2>2. CASE asked[slot] # None
    <3>1. asked[slot] \in Req
      BY <2>2 DEF TypeOK
    <3>2. events' \in Seq({"opened", "closed"} \X Req)
      <4>1. Append(events, <<"closed", asked[slot]>>) \in Seq({"opened", "closed"} \X Req)
        BY <3>1, Announcing DEF TypeOK
      <4> QED
        BY <1>5, <2>2, <4>1 DEF CloseSlot, Emit
    <3>3. /\ asked' \in [Slots -> Req \cup {None}]
          /\ sheet' \in Req \cup {None}
          /\ answer' \in [Req -> Choice \cup {None}]
      BY <1>5, <2>2, <3>1, SMTT(30) DEF CloseSlot, TypeOK, Choice
    <3> QED
      BY <1>5, <3>2, <3>3 DEF CloseSlot, TypeOK, goVars, runVars
  <2> QED
    BY <2>1, <2>2
<1>6. CASE CloseEvents
  BY <1>6 DEF CloseEvents, TypeOK, goVars, sheetVars, uiVars, runVars
<1>7. CASE UNCHANGED vars
  BY <1>7 DEF vars, TypeOK
<1> QED
  BY <1>1, <1>2, <1>3, <1>4, <1>5, <1>6, <1>7 DEF Rest, Closes

\* The types of the shared tables (Shared, Pending and Shells).
THEOREM SheetsTyped == Spec => []TypeOK
<1>1. Init => TypeOK
  <2> SUFFICES ASSUME Init PROVE TypeOK
    OBVIOUS
  <2>1. go \in [Req -> {"calling", "left"}] /\ at \in [Req -> Phase]
    BY DEF Init, Phase
  <2>2. /\ taken \in [Req -> Choice \cup {None}]
        /\ answer \in [Req -> Choice \cup {None}]
        /\ stops \in [Req -> {"none", "clear", "set"}]
    BY DEF Init
  <2>3. asked \in [Slots -> Req \cup {None}] /\ shown \in [Slots -> Req \cup {None}]
    BY DEF Init
  <2> QED
    BY <2>1, <2>2, <2>3 DEF Init, TypeOK
<1>2. TypeOK /\ [Next]_vars => TypeOK'
  BY NextSplits, OwnTyped, RestTyped
<1> QED
  BY <1>1, <1>2, PTL DEF Spec

----------------------------------------------------------------------------
\* Who has opened the sheet or is being answered holds it.
Holders ==
    \A r \in Req :
        /\ at[r] = "opened" => sheet = r
        /\ taken[r] # None =>
            /\ sheet = r
            /\ asked[Slot(r)] # r
            /\ at[r] \in {"registered", "waiting", "done"}

\* A call is answered once, and not before it is registered.
AnsweredOnce ==
    \A r \in Req :
        /\ taken[r] # None => answer[r] = None
        /\ asked[Slot(r)] = r => taken[r] = None /\ answer[r] = None
        /\ at[r] \in {"sent", "asking", "opened"} => taken[r] = None /\ answer[r] = None

\* From its registration on a call has somebody to answer it.
Attended ==
    \A r \in Req : at[r] \in {"registered", "waiting"} =>
        asked[Slot(r)] = r \/ taken[r] # None \/ answer[r] # None

Owner == SheetHasOwner /\ Holders /\ AnsweredOnce /\ Attended

\* A step that only moves a call that is neither registered nor unanswered.
LEMMA MovingKeepsOwner ==
    ASSUME TypeOK, Owner, NEW r \in Req, NEW phase \in Phase,
           Goes(r, phase), UNCHANGED <<sheet, asked, taken, answer>>,
           at[r] \notin {"opened", "registered", "done"},
           at[r] = "waiting" => answer[r] # None,
           phase \notin {"sent", "opened", "registered", "waiting"},
           phase = "asking" => at[r] = "sent"
    PROVE  Owner'
<1>1. at' = [at EXCEPT ![r] = phase]
  BY DEF Goes
<1>2. \A k \in Slots : asked[k] # r
  BY DEF Owner, SheetHasOwner, AnsweredOnce
<1>3. taken[r] = None
  BY DEF Owner, Holders, AnsweredOnce
<1>4. SheetHasOwner'
  BY <1>1, <1>2 DEF TypeOK, Owner, SheetHasOwner
<1>5. Holders'
  BY <1>1, <1>3 DEF TypeOK, Owner, Holders
<1>6. AnsweredOnce'
  BY <1>1 DEF TypeOK, Owner, AnsweredOnce
<1>7. Attended'
  BY <1>1 DEF TypeOK, Owner, Attended
<1> QED
  BY <1>4, <1>5, <1>6, <1>7 DEF Owner

LEMMA StillKeepsOwner ==
    ASSUME Owner, UNCHANGED <<at, sheet, asked, taken, answer>>
    PROVE  Owner'
<1>1. SheetHasOwner'
  BY DEF Owner, SheetHasOwner
<1>2. Holders'
  BY DEF Owner, Holders
<1>3. AnsweredOnce' /\ Attended'
  BY DEF Owner, AnsweredOnce, Attended
<1> QED
  BY <1>1, <1>2, <1>3 DEF Owner

LEMMA OpeningKeepsOwner ==
    ASSUME TypeOK, Owner, NEW r \in Req,
           OpenSheet(r) \/ Register(r) \/ Announce(r) \/ CannotAnnounce(r)
    PROVE  Owner'
<1>1. CASE OpenSheet(r)
  <2>1. at' = [at EXCEPT ![r] = "opened"] /\ at[r] \in {"sent", "asking"}
    BY <1>1 DEF OpenSheet, MayAsk, Goes
  <2>2. \A k \in Slots : asked[k] = None
    BY <1>1 DEF OpenSheet, Owner, SheetHasOwner, TypeOK
  <2>3. SheetHasOwner'
    BY <1>1, <2>1, <2>2 DEF OpenSheet, TypeOK, Owner, SheetHasOwner
  <2>4. Holders'
    BY <1>1, <2>1 DEF OpenSheet, TypeOK, Owner, Holders
  <2>5. AnsweredOnce' /\ Attended'
    BY <1>1, <2>1 DEF OpenSheet, TypeOK, Owner, AnsweredOnce, Attended
  <2> QED
    BY <2>3, <2>4, <2>5 DEF Owner
<1>2. CASE Register(r)
  <2>1. /\ at[r] = "opened" /\ sheet = r
        /\ at' = [at EXCEPT ![r] = "registered"]
        /\ asked' = [asked EXCEPT ![Slot(r)] = r]
        /\ UNCHANGED <<sheet, taken, answer>>
    BY <1>2 DEF Register, Goes, Owner, Holders
  <2>2. \A k \in Slots : asked[k] = None
    BY <2>1 DEF Owner, SheetHasOwner, TypeOK
  <2>3. Slot(r) \in Slots
    BY DEF Slot, Slots
  <2>4. SheetHasOwner'
    BY <2>1, <2>2, <2>3 DEF TypeOK, Owner, SheetHasOwner
  <2>5. Holders'
    BY <2>1, <2>2, <2>3 DEF TypeOK, Owner, Holders, AnsweredOnce
  <2>6. AnsweredOnce' /\ Attended'
    BY <2>1, <2>2, <2>3 DEF TypeOK, Owner, AnsweredOnce, Attended
  <2> QED
    BY <2>4, <2>5, <2>6 DEF Owner
<1>3. CASE Announce(r)
  <2>1. /\ at[r] = "registered"
        /\ at' = [at EXCEPT ![r] = "waiting"]
        /\ UNCHANGED <<sheet, asked, taken, answer>>
    BY <1>3 DEF Announce, Goes, sheetVars
  <2>2. SheetHasOwner'
    BY <2>1 DEF TypeOK, Owner, SheetHasOwner, Attended
  <2>3. Holders' /\ AnsweredOnce' /\ Attended'
    BY <2>1 DEF TypeOK, Owner, Holders, AnsweredOnce, Attended
  <2> QED
    BY <2>2, <2>3 DEF Owner
<1>4. CASE CannotAnnounce(r)
  <2>1. /\ at[r] = "registered"
        /\ at' = [at EXCEPT ![r] = "done"]
        /\ UNCHANGED <<taken, answer>>
    BY <1>4 DEF CannotAnnounce, Goes
  <2>2. Slot(r) \in Slots
    BY DEF Slot, Slots
  <2>3. CASE asked[Slot(r)] = r
    <3>1. /\ asked' = [asked EXCEPT ![Slot(r)] = None]
          /\ sheet = r /\ sheet' = None
          /\ taken[r] = None
          /\ \A k \in Slots : k # Slot(r) => asked[k] = None
      BY <1>4, <2>2, <2>3 DEF CannotAnnounce, Owner, SheetHasOwner, AnsweredOnce
    <3>2. SheetHasOwner'
      BY <2>1, <2>2, <3>1 DEF TypeOK, Owner, SheetHasOwner, Attended
    <3>3. Holders'
      BY <2>1, <2>2, <3>1 DEF TypeOK, Owner, Holders
    <3>4. AnsweredOnce' /\ Attended'
      BY <2>1, <2>2, <3>1 DEF TypeOK, Owner, SheetHasOwner, AnsweredOnce, Attended
    <3> QED
      BY <3>2, <3>3, <3>4 DEF Owner
  <2>4. CASE asked[Slot(r)] # r
    <3>1. UNCHANGED <<asked, sheet>>
      BY <1>4, <2>4 DEF CannotAnnounce
    <3>2. \A k \in Slots : asked[k] # r
      BY <2>4 DEF Owner, SheetHasOwner
    <3>3. SheetHasOwner'
      BY <2>1, <3>1, <3>2 DEF TypeOK, Owner, SheetHasOwner
    <3>4. Holders' /\ AnsweredOnce' /\ Attended'
      BY <2>1, <3>1 DEF TypeOK, Owner, Holders, AnsweredOnce, Attended
    <3> QED
      BY <3>3, <3>4 DEF Owner
  <2> QED
    BY <2>3, <2>4
<1> QED
  BY <1>1, <1>2, <1>3, <1>4

LEMMA TakingKeepsOwner ==
    ASSUME TypeOK, Owner, NEW r \in Req, NEW choice \in Choice,
           asked[Slot(r)] = r, Take(r, choice), UNCHANGED <<at, sheet, answer>>
    PROVE  Owner'
<1>1. Slot(r) \in Slots /\ choice # None /\ sheet = r
  BY DEF Slot, Slots, Owner, SheetHasOwner
<1>2. asked' = [asked EXCEPT ![Slot(r)] = None] /\ taken' = [taken EXCEPT ![r] = choice]
  BY DEF Take
<1>3. /\ at[r] \in {"registered", "waiting"}
      /\ \A k \in Slots : k # Slot(r) => asked[k] = None
  BY <1>1 DEF Owner, SheetHasOwner
<1>4. SheetHasOwner'
  BY <1>1, <1>2, <1>3 DEF TypeOK, Owner, SheetHasOwner
<1>5. Holders'
  BY <1>1, <1>2, <1>3 DEF TypeOK, Owner, Holders
<1>6. AnsweredOnce'
  BY <1>1, <1>2, <1>3 DEF TypeOK, Owner, AnsweredOnce
<1>7. Attended'
  BY <1>1, <1>2, <1>3 DEF TypeOK, Owner, SheetHasOwner, Attended
<1> QED
  BY <1>4, <1>5, <1>6, <1>7 DEF Owner

LEMMA FinishingKeepsOwner ==
    ASSUME TypeOK, Owner, NEW r \in Req, FinishesResolve(r)
    PROVE  Owner'
<1>1. /\ taken[r] # None /\ sheet = r /\ answer[r] = None /\ asked[Slot(r)] # r
      /\ sheet' = None
      /\ answer' = [answer EXCEPT ![r] = taken[r]]
      /\ taken' = [taken EXCEPT ![r] = None]
      /\ UNCHANGED <<at, asked>>
  BY DEF FinishesResolve, goVars, Owner, Holders, AnsweredOnce
<1>2. \A k \in Slots : asked[k] = None
  BY <1>1 DEF Owner, SheetHasOwner
<1>3. \A q \in Req : Slot(q) \in Slots
  BY DEF Slot, Slots
<1>4. SheetHasOwner'
  BY <1>1, <1>2, <1>3 DEF TypeOK, Owner, SheetHasOwner
<1>5. Holders'
  BY <1>1, <1>2, <1>3 DEF TypeOK, Owner, Holders
<1>6. AnsweredOnce'
  BY <1>1, <1>2, <1>3 DEF TypeOK, Owner, Holders, AnsweredOnce
<1>7. Attended'
  BY <1>1, <1>2, <1>3 DEF TypeOK, Owner, Attended
<1> QED
  BY <1>4, <1>5, <1>6, <1>7 DEF Owner

LEMMA ClosingKeepsOwner ==
    ASSUME TypeOK, Owner, NEW slot \in Slots, CloseSlot(slot)
    PROVE  Owner'
<1>1. CASE asked[slot] = None
  BY <1>1, StillKeepsOwner DEF CloseSlot, goVars
<1>2. CASE asked[slot] # None
  <2> DEFINE r == asked[slot]
  <2>1. r \in Req /\ sheet = r /\ Slot(r) = slot
    BY <1>2 DEF TypeOK, Owner, SheetHasOwner
  <2>2. /\ asked' = [asked EXCEPT ![slot] = None]
        /\ sheet' = None
        /\ answer' = [answer EXCEPT ![r] = "closed"]
        /\ UNCHANGED <<at, taken>>
    BY <1>2, <2>1 DEF CloseSlot, goVars
  <2>3. /\ taken[r] = None /\ at[r] \in {"registered", "waiting"}
        /\ \A k \in Slots : k # slot => asked[k] = None
    BY <2>1 DEF Owner, SheetHasOwner, AnsweredOnce
  <2>4. "closed" # None
    BY DEF Choice
  <2> HIDE DEF r
  <2>5. SheetHasOwner'
    BY <2>1, <2>2, <2>3, <2>4 DEF TypeOK, Owner, SheetHasOwner
  <2>6. Holders'
    BY <2>1, <2>2, <2>3 DEF TypeOK, Owner, Holders
  <2>7. AnsweredOnce'
    BY <2>1, <2>2, <2>3 DEF TypeOK, Owner, AnsweredOnce
  <2>8. Attended'
    BY <2>1, <2>2, <2>3, <2>4 DEF TypeOK, Owner, SheetHasOwner, Attended
  <2> QED
    BY <2>5, <2>6, <2>7, <2>8 DEF Owner
<1> QED
  BY <1>1, <1>2

LEMMA StepKeepsOwner ==
    ASSUME TypeOK, Owner, [Next]_vars
    PROVE  Owner'
<1>1. ASSUME NEW r \in Req, Own(r)
      PROVE  Owner'
  <2>1. CASE Leaves(r) \/ Severed(r) \/ HandlesStop(r)
    BY <2>1, StillKeepsOwner DEF Leaves, Severed, HandlesStop, sheetVars
  <2>2. CASE Invalid(r) \/ Busy(r)
    BY <2>2, MovingKeepsOwner DEF Invalid, Busy, MayAsk, sheetVars, Phase
  <2>3. CASE Decides(r)
    <3>1. Decide(Request[r], allowed) \in {"allow", "deny", "ask"}
      BY DEF Decide
    <3>2. PICK phase \in {"cleared", "done", "asking"} : Goes(r, phase)
      BY <2>3, <3>1 DEF Decides
    <3>3. phase \in Phase
      BY <3>2 DEF Phase
    <3> QED
      BY <2>3, <3>2, <3>3, MovingKeepsOwner DEF Decides, sheetVars
  <2>4. CASE Wakes(r)
    <3>1. PICK phase \in {"cleared", "done"} : Goes(r, phase)
      BY <2>4 DEF Wakes
    <3> QED
      BY <2>4, <3>1, MovingKeepsOwner DEF Wakes, sheetVars, Phase
  <2>5. CASE TouchesFile(r) \/ EntersShell(r) \/ Spawns(r) \/ Ends(r)
    <3>1. PICK phase \in {"starting", "running", "done"} : Goes(r, phase)
      BY <2>5 DEF TouchesFile, EntersShell, Spawns, Ends
    <3>2. /\ at[r] \in {"cleared", "starting", "running"}
          /\ UNCHANGED <<sheet, asked, taken, answer>>
      BY <2>5 DEF TouchesFile, EntersShell, Spawns, Ends, sheetVars
    <3> QED
      BY <3>1, <3>2, MovingKeepsOwner DEF Phase
  <2>6. CASE OpenSheet(r) \/ Register(r) \/ Announce(r) \/ CannotAnnounce(r)
    BY <2>6, OpeningKeepsOwner
  <2>7. CASE HandlesCancel(r)
    <3>1. CASE asked[Slot(r)] = r
      BY <2>7, <3>1, TakingKeepsOwner DEF HandlesCancel, Choice
    <3>2. CASE asked[Slot(r)] # r
      BY <2>7, <3>2, StillKeepsOwner DEF HandlesCancel
    <3> QED
      BY <3>1, <3>2
  <2>8. CASE FinishesResolve(r)
    BY <2>8, FinishingKeepsOwner
  <2>9. ASSUME NEW choice \in Choice, UserAnswers(r, choice)
        PROVE  Owner'
    BY <2>9, TakingKeepsOwner DEF UserAnswers
  <2> QED
    BY <1>1, <2>1, <2>2, <2>3, <2>4, <2>5, <2>6, <2>7, <2>8, <2>9 DEF Own, Works
<1>2. CASE Displays \/ Quit \/ Lose \/ CloseBegin \/ CloseEvents \/ UNCHANGED vars
  BY <1>2, StillKeepsOwner DEF Displays, Quit, Lose, CloseBegin, CloseEvents, vars, sheetVars
<1>3. CASE Dropped
  <2>1. UNCHANGED <<sheet, asked, taken, answer>>
    BY <1>3 DEF Dropped, sheetVars
  <2>2. CASE UNCHANGED at
    BY <2>1, <2>2, StillKeepsOwner
  <2>3. CASE \E r \in Req : at[r] = "sent" /\ Goes(r, "done")
    BY <2>1, <2>3, MovingKeepsOwner DEF Phase
  <2> QED
    BY <1>3, <2>2, <2>3 DEF Dropped
<1>4. ASSUME NEW slot \in Slots, CloseSlot(slot)
      PROVE  Owner'
  BY <1>4, ClosingKeepsOwner
<1> QED
  BY <1>1, <1>2, <1>3, <1>4, NextSplits DEF Rest, Closes

LEMMA OwnerHolds == Spec => []Owner
<1>1. Init => Owner
  <2> SUFFICES ASSUME Init PROVE Owner
    OBVIOUS
  <2>1. \A r \in Req : Slot(r) \in Slots
    BY DEF Slot, Slots
  <2>2. SheetHasOwner
    BY DEF Init, SheetHasOwner
  <2>3. Holders /\ AnsweredOnce /\ Attended
    BY <2>1 DEF Init, Holders, AnsweredOnce, Attended
  <2> QED
    BY <2>2, <2>3 DEF Owner
<1>2. TypeOK /\ Owner /\ [Next]_vars => Owner'
  BY StepKeepsOwner
<1> QED
  BY <1>1, <1>2, SheetsTyped, PTL DEF Spec

\* The one sheet is never left behind (Shared::open_sheet, Shared::close_sheet,
\* start_clarify, gate and the resolves of src/src/rpc.rs).
THEOREM SheetsOwned == Spec => []SheetHasOwner
<1>1. Owner => SheetHasOwner
  BY DEF Owner
<1> QED
  BY <1>1, OwnerHolds, PTL

----------------------------------------------------------------------------
Permitted(r) ==
    /\ Kind[r] # "clarify"
    /\ ~Refused(Request[r])
    /\ \/ Matched(Request[r], "allow") # {}
       \/ answer[r] \in Consent
       \/ Key(r) \in allowed

\* Past its gate a call is permitted.
GatePassed ==
    \A r \in Req : at[r] \in {"cleared", "starting", "running"} \/ r \in effects => Permitted(r)

\* Nobody is asked about what is refused.
AskedWhenOpen ==
    \A r \in Req : Kind[r] # "clarify"
        /\ at[r] \in {"asking", "opened", "registered", "waiting"} => ~Refused(Request[r])

SaidForSession(r) == Kind[r] # "clarify" /\ "session" \in {answer[r], taken[r]}

AllowedWasSaid == \A key \in allowed : \E r \in Req : SaidForSession(r) /\ Key(r) = key

Gated == GatePassed /\ AskedWhenOpen /\ AllowedWasSaid

\* Answers stay what they are, and what is allowed for the session stays allowed.
Remembers ==
    /\ \A r \in Req : answer[r] # None => answer'[r] = answer[r]
    /\ \A r \in Req : SaidForSession(r) => SaidForSession(r)'
    /\ allowed \subseteq allowed'
    /\ \A key \in allowed' \ allowed : \E r \in Req : SaidForSession(r)' /\ Key(r) = key

LEMMA PermittedStays ==
    ASSUME Remembers, NEW r \in Req, Permitted(r)
    PROVE  Permitted(r)'
<1>1. None \notin Consent
  BY DEF Consent, Choice
<1> QED
  BY <1>1 DEF Remembers, Permitted

LEMMA StillRemembers ==
    ASSUME UNCHANGED <<taken, answer, allowed>>
    PROVE  Remembers
BY DEF Remembers, SaidForSession

LEMMA TakingRemembers ==
    ASSUME TypeOK, Owner, NEW r \in Req, NEW choice \in Choice,
           asked[Slot(r)] = r, Take(r, choice), UNCHANGED answer,
           choice = "session" => Kind[r] # "clarify"
    PROVE  Remembers
<1>1. taken[r] = None /\ answer[r] = None
  BY DEF Owner, AnsweredOnce
<1>2. taken' = [taken EXCEPT ![r] = choice]
  BY DEF Take
<1>3. \A q \in Req : SaidForSession(q) => SaidForSession(q)'
  BY <1>1, <1>2 DEF SaidForSession, TypeOK, Choice
<1>4. \A key \in allowed' \ allowed : SaidForSession(r)' /\ Key(r) = key
  BY <1>2 DEF Take, SaidForSession, TypeOK
<1>5. allowed \subseteq allowed'
  BY DEF Take
<1> QED
  BY <1>3, <1>4, <1>5 DEF Remembers

LEMMA AnsweringRemembers ==
    ASSUME TypeOK, Owner, NEW r \in Req, NEW choice \in Choice,
           answer[r] = None, answer' = [answer EXCEPT ![r] = choice],
           \/ taken[r] = None /\ UNCHANGED taken
           \/ taken[r] = choice /\ taken' = [taken EXCEPT ![r] = None],
           UNCHANGED allowed
    PROVE  Remembers
<1>1. \A q \in Req : SaidForSession(q) => SaidForSession(q)'
  BY DEF SaidForSession, TypeOK, Choice
<1> QED
  BY <1>1 DEF Remembers, TypeOK

LEMMA StepRemembers ==
    ASSUME TypeOK, Owner, [Next]_vars
    PROVE  Remembers
<1>1. ASSUME NEW r \in Req, Own(r)
      PROVE  Remembers
  <2>1. CASE Leaves(r) \/ Severed(r) \/ HandlesStop(r) \/ Invalid(r)
    BY <2>1, StillRemembers DEF Leaves, Severed, HandlesStop, Invalid, sheetVars
  <2>2. CASE Works(r)
    BY <2>2, StillRemembers DEF Works, Decides, OpenSheet, Busy, Register, Announce,
         CannotAnnounce, Wakes, TouchesFile, EntersShell, Spawns, Ends, sheetVars
  <2>3. CASE HandlesCancel(r)
    <3>1. CASE asked[Slot(r)] = r
      BY <2>3, <3>1, TakingRemembers DEF HandlesCancel, Choice
    <3>2. CASE asked[Slot(r)] # r
      BY <2>3, <3>2, StillRemembers DEF HandlesCancel
    <3> QED
      BY <3>1, <3>2
  <2>4. CASE FinishesResolve(r)
    <3>1. taken[r] \in Choice /\ answer[r] = None
      BY <2>4 DEF FinishesResolve, TypeOK, Owner, AnsweredOnce
    <3> QED
      BY <2>4, <3>1, AnsweringRemembers DEF FinishesResolve
  <2>5. ASSUME NEW choice \in Choice, UserAnswers(r, choice)
        PROVE  Remembers
    <3>1. choice = "session" => Kind[r] # "clarify"
      BY <2>5 DEF UserAnswers, AnswersTo
    <3> QED
      BY <2>5, <3>1, TakingRemembers DEF UserAnswers
  <2> QED
    BY <1>1, <2>1, <2>2, <2>3, <2>4, <2>5 DEF Own
<1>2. CASE Displays \/ Quit \/ Lose \/ Dropped \/ CloseBegin \/ CloseEvents \/ UNCHANGED vars
  BY <1>2, StillRemembers DEF Displays, Quit, Lose, Dropped, CloseBegin, CloseEvents, vars,
       sheetVars
<1>3. ASSUME NEW slot \in Slots, CloseSlot(slot)
      PROVE  Remembers
  <2>1. CASE asked[slot] = None
    BY <1>3, <2>1, StillRemembers DEF CloseSlot
  <2>2. CASE asked[slot] # None
    <3>1. /\ asked[slot] \in Req
          /\ taken[asked[slot]] = None /\ answer[asked[slot]] = None
      BY <2>2 DEF TypeOK, Owner, SheetHasOwner, AnsweredOnce
    <3> QED
      BY <1>3, <2>2, <3>1, AnsweringRemembers DEF CloseSlot, Choice
  <2> QED
    BY <2>1, <2>2
<1> QED
  BY <1>1, <1>2, <1>3, NextSplits DEF Rest, Closes

\* Where a call may go, and when something is done in its name.
Passes ==
    \A r \in Req :
        /\ at'[r] \in {"cleared", "starting", "running"} \/ r \in effects' =>
            at[r] \in {"cleared", "starting", "running"} \/ r \in effects \/ Permitted(r)
        /\ Kind[r] # "clarify" /\ at'[r] \in {"asking", "opened", "registered", "waiting"} =>
            at[r] \in {"asking", "opened", "registered", "waiting"} \/ ~Refused(Request[r])

LEMMA WorkPasses ==
    ASSUME TypeOK, Gated, NEW r \in Req, Works(r)
    PROVE  Passes
<1>1. CASE Decides(r)
  <2>1. /\ Kind[r] # "clarify"
        /\ UNCHANGED effects
        /\ \/ Goes(r, "done")
           \/ Goes(r, "asking") /\ ~Refused(Request[r])
           \/ Goes(r, "cleared") /\ Permitted(r)
    BY <1>1 DEF Decides, Decide, Permitted, Key, runVars
  <2> QED
    BY <2>1 DEF Passes, Goes, TypeOK
<1>2. CASE Wakes(r)
  <2>1. /\ UNCHANGED effects
        /\ \/ Goes(r, "done")
           \/ Goes(r, "cleared") /\ Permitted(r)
    BY <1>2 DEF Wakes, Gated, AskedWhenOpen, Permitted, runVars
  <2> QED
    BY <2>1 DEF Passes, Goes, TypeOK
<1>3. CASE OpenSheet(r) \/ Busy(r)
  BY <1>3 DEF OpenSheet, Busy, MayAsk, Passes, Goes, TypeOK, runVars
<1>4. CASE Register(r) \/ Announce(r) \/ CannotAnnounce(r)
  BY <1>4 DEF Register, Announce, CannotAnnounce, Passes, Goes, TypeOK, runVars
<1>5. CASE TouchesFile(r) \/ EntersShell(r) \/ Spawns(r) \/ Ends(r)
  BY <1>5 DEF TouchesFile, EntersShell, Spawns, Ends, Passes, Goes, TypeOK
<1> QED
  BY <1>1, <1>2, <1>3, <1>4, <1>5 DEF Works

LEMMA StepPasses ==
    ASSUME TypeOK, Gated, [Next]_vars
    PROVE  Passes
<1>1. ASSUME UNCHANGED <<at, effects>> PROVE Passes
  BY <1>1 DEF Passes
<1>2. ASSUME NEW r \in Req, Goes(r, "done"), UNCHANGED effects PROVE Passes
  BY <1>2 DEF Passes, Goes, TypeOK
<1>3. ASSUME NEW r \in Req, Own(r) PROVE Passes
  <2>1. CASE Works(r)
    BY <2>1, WorkPasses
  <2>2. CASE Invalid(r)
    BY <1>2, <2>2 DEF Invalid, runVars
  <2>3. CASE ~Works(r) /\ ~Invalid(r)
    BY <1>1, <1>3, <2>3 DEF Own, Leaves, Severed, HandlesCancel, HandlesStop, FinishesResolve,
         UserAnswers, goVars, runVars
  <2> QED
    BY <2>1, <2>2, <2>3
<1>4. CASE Rest
  BY <1>1, <1>2, <1>4 DEF Rest, Closes, Displays, Quit, Lose, Dropped, CloseBegin, CloseSlot,
       CloseEvents, vars, goVars, runVars
<1> QED
  BY <1>3, <1>4, NextSplits

\* Nothing is done that was not allowed (gate of src/src/rpc.rs and decide, take
\* and allow_session of src/src/rule.rs); the key names the rule that asked.
THEOREM SheetsAllowed == Spec => []EffectsAllowed
<1>1. Init => Gated
  BY DEF Init, Gated, GatePassed, AskedWhenOpen, AllowedWasSaid
<1>2. ASSUME TypeOK, Owner, Gated, [Next]_vars
      PROVE  Gated'
  <2>1. Remembers /\ Passes
    BY <1>2, StepRemembers, StepPasses
  <2>2. GatePassed'
    BY <1>2, <2>1, PermittedStays DEF Gated, GatePassed, Passes
  <2>3. AskedWhenOpen'
    BY <1>2, <2>1 DEF Gated, AskedWhenOpen, Passes
  <2>4. AllowedWasSaid'
    BY <1>2, <2>1 DEF Gated, AllowedWasSaid, Remembers
  <2> QED
    BY <2>2, <2>3, <2>4 DEF Gated
<1>3. TypeOK /\ Gated => EffectsAllowed
  <2> SUFFICES ASSUME TypeOK, Gated PROVE EffectsAllowed
    OBVIOUS
  <2>1. \A r \in effects : Permitted(r)
    BY DEF Gated, GatePassed, TypeOK
  <2>2. \A key \in allowed :
          \E r \in Req : Kind[r] # "clarify" /\ Key(r) = key /\ "session" \in {answer[r], taken[r]}
    BY DEF Gated, AllowedWasSaid, SaidForSession
  <2> QED
    BY <2>1, <2>2 DEF Permitted, EffectsAllowed
<1>4. Spec => []Owner
  BY OwnerHolds
<1> QED
  BY <1>1, <1>2, <1>3, <1>4, SheetsTyped, PTL DEF Spec

----------------------------------------------------------------------------
\* A command that was cancelled is not started (Shells::cancel and Shells::run of
\* src/src/tool/shell.rs).
THEOREM SheetsStop == Spec => []StopKept
<1>1. Init => StopKept
  BY DEF Init, StopKept, Shells
<1>2. ASSUME TypeOK, StopKept, [Next]_vars
      PROVE  StopKept'
  <2> USE DEF StopKept, Shells
  <2>1. ASSUME NEW r \in Req, Own(r) PROVE StopKept'
    <3>1. CASE Leaves(r)
      BY <1>2, <2>1, <3>1 DEF Leaves, runVars, endVars, TypeOK
    <3>2. CASE Severed(r)
      BY <1>2, <2>1, <3>2 DEF Severed, endVars, TypeOK
    <3>3. CASE Invalid(r) \/ Decides(r) \/ OpenSheet(r) \/ Busy(r) \/ Register(r)
      BY <1>2, <2>1, <3>3 DEF Invalid, Decides, OpenSheet, Busy, MayAsk, Register, Goes, goVars,
           runVars, endVars, TypeOK
    <3>4. CASE Announce(r) \/ CannotAnnounce(r) \/ Wakes(r) \/ TouchesFile(r) \/ Spawns(r)
      BY <1>2, <2>1, <3>4 DEF Announce, CannotAnnounce, Wakes, TouchesFile, Spawns, Goes, goVars,
           runVars, endVars, TypeOK
    <3>5. CASE EntersShell(r) \/ Ends(r)
      BY <1>2, <2>1, <3>5 DEF EntersShell, Ends, Goes, goVars, endVars, TypeOK
    <3>6. CASE HandlesCancel(r)
      BY <1>2, <2>1, <3>6 DEF HandlesCancel, runVars, endVars, TypeOK
    <3>7. CASE HandlesStop(r)
      BY <1>2, <2>1, <3>7 DEF HandlesStop, endVars, TypeOK
    <3>8. CASE FinishesResolve(r) \/ \E choice \in Choice : UserAnswers(r, choice)
      BY <1>2, <2>1, <3>8 DEF FinishesResolve, UserAnswers, goVars, runVars, endVars, TypeOK
    <3> QED
      BY <2>1, <3>1, <3>2, <3>3, <3>4, <3>5, <3>6, <3>7, <3>8 DEF Own, Works
  <2>2. CASE Displays \/ Quit \/ Lose \/ CloseEvents \/ UNCHANGED vars
    BY <1>2, <2>2 DEF Displays, Quit, Lose, CloseEvents, vars, goVars, runVars, endVars
  <2>3. CASE Dropped
    BY <1>2, <2>3 DEF Dropped, runVars, endVars
  <2>4. CASE CloseBegin
    BY <1>2, <2>4 DEF CloseBegin, goVars, TypeOK
  <2>5. CASE \E slot \in Slots : CloseSlot(slot)
    BY <1>2, <2>5 DEF CloseSlot, goVars, runVars
  <2> QED
    BY <1>2, <2>1, <2>2, <2>3, <2>4, <2>5, NextSplits DEF Rest, Closes
<1> QED
  BY <1>1, <1>2, SheetsTyped, PTL DEF Spec
----------------------------------------------------------------------------
(* What the interface shows.                                               *)

\* A call whose sheet is not announced is not shown, and the user has not answered it.
Early(r) == at[r] \in {"sent", "asking", "opened", "registered"}

Unseen ==
    \A r \in Req : Early(r) =>
        /\ taken[r] \in {None, "cancelled"}
        /\ answer[r] \in {None, "cancelled", "closed"}
        /\ \A k \in Slots : shown[k] # r
        /\ \A i \in 1 .. Len(events) : events[i] # <<"opened", r>>

\* After the i-th event nothing but stale sheets is opened in the place of r, and nothing
\* there is closed.
OnlyStale(i, r) ==
    \A j \in i + 1 .. Len(events) : Slot(events[j][2]) = Slot(r) =>
        events[j][1] = "opened" /\ Stale(events[j][2])

\* The sheet of r is shown or on its way, or a stale one is in its place.
Announced(r) ==
    \/ OnlyStale(0, r) /\ (shown[Slot(r)] = r \/ Stale(shown[Slot(r)]))
    \/ \E i \in 1 .. Len(events) : events[i] = <<"opened", r>> /\ OnlyStale(i, r)

Visible == \A r \in Req : asked[Slot(r)] = r /\ at[r] = "waiting" => Announced(r)

Seen == Unseen /\ Visible

LEMMA SlotTyped == \A r \in Req : Slot(r) \in Slots
BY DEF Slot, Slots

LEMMA EventTyped ==
    ASSUME TypeOK
    PROVE  /\ Len(events) \in Nat
           /\ \A i \in 1 .. Len(events) : /\ events[i] = <<events[i][1], events[i][2]>>
                                          /\ events[i][1] \in {"opened", "closed"}
                                          /\ events[i][2] \in Req
<1>1. events \in Seq({"opened", "closed"} \X Req)
  BY DEF TypeOK
<1>2. Len(events) \in Nat /\ \A i \in 1 .. Len(events) : events[i] \in {"opened", "closed"} \X Req
  BY <1>1
<1> QED
  BY <1>2

LEMMA Appending ==
    ASSUME TypeOK, NEW e, events' = Append(events, e)
    PROVE  /\ Len(events) \in Nat
           /\ Len(events') = Len(events) + 1
           /\ events'[Len(events) + 1] = e
           /\ \A i \in 1 .. Len(events) : events'[i] = events[i]
BY DEF TypeOK

LEMMA StaleStays ==
    ASSUME Remembers
    PROVE  \A r \in Req \cup {None} : Stale(r) => Stale(r)'
<1>1. {"cancelled", "closed"} \subseteq Choice
  BY DEF Choice
<1> QED
  BY <1>1 DEF Remembers, Stale

\* A call that is early was early before.
EarlyBefore == \A r \in Req : Early(r)' => Early(r)

LEMMA StepIsForward ==
    ASSUME TypeOK, [Next]_vars
    PROVE  EarlyBefore
<1>1. ASSUME UNCHANGED at PROVE EarlyBefore
  BY <1>1 DEF EarlyBefore, Early
<1>2. ASSUME NEW r \in Req, NEW phase \in Phase, Goes(r, phase),
             Early(r) \/ phase \notin {"sent", "asking", "opened", "registered"}
      PROVE  EarlyBefore
  BY <1>2 DEF EarlyBefore, Early, Goes, TypeOK
<1>3. ASSUME NEW r \in Req, Own(r) PROVE EarlyBefore
  <2>1. CASE Leaves(r) \/ Severed(r) \/ HandlesCancel(r) \/ HandlesStop(r) \/ FinishesResolve(r)
    BY <1>1, <2>1 DEF Leaves, Severed, HandlesCancel, HandlesStop, FinishesResolve, goVars
  <2>2. CASE \E choice \in Choice : UserAnswers(r, choice)
    BY <1>1, <2>2 DEF UserAnswers
  <2>3. CASE Invalid(r) \/ Busy(r) \/ OpenSheet(r) \/ Register(r) \/ Announce(r) \/ CannotAnnounce(r)
    <3>1. Early(r)
      BY <2>3 DEF Invalid, Busy, OpenSheet, Register, Announce, CannotAnnounce, MayAsk, Early
    <3>2. \E phase \in Phase : Goes(r, phase)
      BY <2>3 DEF Invalid, Busy, OpenSheet, Register, Announce, CannotAnnounce, Phase
    <3> QED
      BY <1>2, <3>1, <3>2
  <2>4. CASE Decides(r)
    <3>1. Early(r)
      BY <2>4 DEF Decides, Early
    <3>2. Decide(Request[r], allowed) \in {"allow", "deny", "ask"}
      BY DEF Decide
    <3>3. \E phase \in Phase : Goes(r, phase)
      BY <2>4, <3>2 DEF Decides, Phase
    <3> QED
      BY <1>2, <3>1, <3>3
  <2>5. CASE Wakes(r) \/ TouchesFile(r) \/ EntersShell(r) \/ Spawns(r) \/ Ends(r)
    <3>1. \E phase \in Phase \ {"sent", "asking", "opened", "registered"} : Goes(r, phase)
      BY <2>5 DEF Wakes, TouchesFile, EntersShell, Spawns, Ends, Phase
    <3> QED
      BY <1>2, <3>1
  <2> QED
    BY <1>3, <2>1, <2>2, <2>3, <2>4, <2>5 DEF Own, Works
<1>4. CASE Dropped
  <2>1. CASE UNCHANGED at
    BY <1>1, <2>1
  <2>2. CASE \E r \in Req : at[r] = "sent" /\ Goes(r, "done")
    BY <1>2, <2>2 DEF Phase
  <2> QED
    BY <1>4, <2>1, <2>2 DEF Dropped
<1>5. CASE Displays \/ Quit \/ Lose \/ Closes \/ UNCHANGED vars
  BY <1>1, <1>5 DEF Displays, Quit, Lose, Closes, CloseBegin, CloseSlot, CloseEvents, vars, goVars
<1> QED
  BY <1>3, <1>4, <1>5, NextSplits DEF Rest

\* Events that are added open no sheet that was not announced.
LEMMA StillUnseen ==
    ASSUME TypeOK, Unseen, EarlyBefore, UNCHANGED shown,
           \A r \in Req : taken'[r] \in {taken[r], None, "cancelled"} \/ ~Early(r),
           \A r \in Req : answer'[r] \in {answer[r], taken[r], "closed"} \/ ~Early(r),
           \/ UNCHANGED events
           \/ \E r \in Req : events' = Append(events, <<"closed", r>>)
           \/ \E r \in Req : events' = Append(events, <<"opened", r>>) /\ ~Early(r)'
    PROVE  Unseen'
<1> SUFFICES ASSUME NEW r \in Req, Early(r)'
             PROVE  /\ taken'[r] \in {None, "cancelled"}
                    /\ answer'[r] \in {None, "cancelled", "closed"}
                    /\ \A k \in Slots : shown'[k] # r
                    /\ \A i \in 1 .. Len(events') : events'[i] # <<"opened", r>>
  BY DEF Unseen
<1>1. Early(r)
  BY DEF EarlyBefore
<1>2. /\ taken'[r] \in {None, "cancelled"}
      /\ answer'[r] \in {None, "cancelled", "closed"}
      /\ \A k \in Slots : shown'[k] # r
  BY <1>1 DEF Unseen
<1>3. \A i \in 1 .. Len(events) : events[i] # <<"opened", r>>
  BY <1>1 DEF Unseen
<1>4. ASSUME NEW e, e # <<"opened", r>>, events' = Append(events, e)
      PROVE  \A i \in 1 .. Len(events') : events'[i] # <<"opened", r>>
  <2>1. /\ Len(events) \in Nat /\ Len(events') = Len(events) + 1
        /\ events'[Len(events) + 1] = e
        /\ \A i \in 1 .. Len(events) : events'[i] = events[i]
    BY <1>4, Appending
  <2>2. \A i \in 1 .. Len(events') : i \in 1 .. Len(events) \/ i = Len(events) + 1
    BY <2>1
  <2> QED
    BY <1>3, <1>4, <2>1, <2>2
<1>5. \A i \in 1 .. Len(events') : events'[i] # <<"opened", r>>
  <2>1. CASE UNCHANGED events
    BY <1>3, <2>1
  <2>2. CASE \E q \in Req : events' = Append(events, <<"closed", q>>)
    BY <1>4, <2>2
  <2>3. CASE \E q \in Req : events' = Append(events, <<"opened", q>>) /\ ~Early(q)'
    BY <1>4, <2>3
  <2> QED
    BY <2>1, <2>2, <2>3
<1> QED
  BY <1>2, <1>5

LEMMA TakingKeepsUnseen ==
    ASSUME TypeOK, Unseen, EarlyBefore, NEW r \in Req, NEW choice \in Choice, Take(r, choice),
           choice = "cancelled" \/ ~Early(r), UNCHANGED <<answer, shown, events>>
    PROVE  Unseen'
<1>1. \A q \in Req : taken'[q] \in {taken[q], None, "cancelled"} \/ ~Early(q)
  BY DEF Take, TypeOK
<1> QED
  BY <1>1, StillUnseen

LEMMA StepKeepsUnseen ==
    ASSUME TypeOK, Unseen, [Next]_vars
    PROVE  Unseen'
<1>1. EarlyBefore
  BY StepIsForward
<1>2. ASSUME UNCHANGED <<taken, answer, shown, events>> PROVE Unseen'
  BY <1>1, <1>2, StillUnseen
<1>3. ASSUME NEW r \in Req, Own(r) PROVE Unseen'
  <2>1. CASE Leaves(r) \/ Severed(r) \/ HandlesStop(r) \/ Invalid(r)
    BY <1>2, <2>1 DEF Leaves, Severed, HandlesStop, Invalid, sheetVars, uiVars
  <2>2. CASE Works(r) /\ ~Announce(r)
    BY <1>2, <2>2 DEF Works, Decides, OpenSheet, Busy, Register, CannotAnnounce, Wakes, TouchesFile,
         EntersShell, Spawns, Ends, sheetVars, uiVars
  <2>3. CASE Announce(r)
    <3>1. UNCHANGED <<taken, answer, shown>> /\ events' = Append(events, <<"opened", r>>)
      BY <2>3 DEF Announce, Emit, sheetVars
    <3>2. ~Early(r)'
      BY <2>3 DEF Announce, Goes, Early, TypeOK
    <3> QED
      BY <1>1, <3>1, <3>2, StillUnseen
  <2>4. CASE HandlesCancel(r)
    <3>1. CASE asked[Slot(r)] = r
      BY <1>1, <2>4, <3>1, TakingKeepsUnseen DEF HandlesCancel, uiVars, Choice
    <3>2. CASE asked[Slot(r)] # r
      BY <1>2, <2>4, <3>2 DEF HandlesCancel, uiVars
    <3> QED
      BY <3>1, <3>2
  <2>5. CASE FinishesResolve(r)
    <3>1. \A q \in Req : /\ taken'[q] \in {taken[q], None, "cancelled"}
                         /\ answer'[q] \in {answer[q], taken[q], "closed"}
      BY <2>5 DEF FinishesResolve, TypeOK
    <3>2. UNCHANGED shown /\ (UNCHANGED events \/ events' = Append(events, <<"closed", r>>))
      BY <2>5 DEF FinishesResolve, Emit
    <3> QED
      BY <1>1, <3>1, <3>2, StillUnseen
  <2>6. ASSUME NEW choice \in Choice, UserAnswers(r, choice) PROVE Unseen'
    <3>1. ~Early(r)
      BY <2>6, SlotTyped DEF UserAnswers, Unseen
    <3> QED
      BY <1>1, <2>6, <3>1, TakingKeepsUnseen DEF UserAnswers, uiVars
  <2> QED
    BY <1>3, <2>1, <2>2, <2>3, <2>4, <2>5, <2>6 DEF Own, Works
<1>4. CASE Displays
  <2> SUFFICES ASSUME NEW r \in Req, Early(r)'
               PROVE  /\ taken'[r] \in {None, "cancelled"}
                      /\ answer'[r] \in {None, "cancelled", "closed"}
                      /\ \A k \in Slots : shown'[k] # r
                      /\ \A i \in 1 .. Len(events') : events'[i] # <<"opened", r>>
    BY DEF Unseen
  <2>1. Early(r)
    BY <1>1 DEF EarlyBefore
  <2>2. /\ events # <<>> /\ events \in Seq({"opened", "closed"} \X Req) /\ events' = Tail(events)
        /\ UNCHANGED <<taken, answer>>
    BY <1>4 DEF Displays, TypeOK, sheetVars
  <2>3. /\ Head(events) = events[1] /\ Len(events) \in Nat /\ Len(events) >= 1
        /\ Len(events') = Len(events) - 1
        /\ \A i \in 1 .. Len(events') : events'[i] = events[i + 1]
    BY <2>2
  <2>4. events[1] # <<"opened", r>> /\ events[1] = <<events[1][1], events[1][2]>>
    BY <2>1, <2>3, EventTyped DEF Unseen
  <2>5. \A k \in Slots : shown'[k] # r
    BY <1>4, <2>1, <2>3, <2>4 DEF Displays, Unseen, TypeOK
  <2>6. \A i \in 1 .. Len(events') : events'[i] # <<"opened", r>>
    BY <2>1, <2>3 DEF Unseen
  <2> QED
    BY <2>1, <2>2, <2>5, <2>6 DEF Unseen
<1>5. ASSUME NEW slot \in Slots, CloseSlot(slot) PROVE Unseen'
  <2>1. CASE asked[slot] = None
    BY <1>2, <1>5, <2>1 DEF CloseSlot
  <2>2. CASE asked[slot] # None
    <3>1. asked[slot] \in Req
      BY <2>2 DEF TypeOK
    <3>2. \A q \in Req : answer'[q] \in {answer[q], taken[q], "closed"}
      BY <1>5, <2>2, <3>1 DEF CloseSlot, TypeOK
    <3>3. UNCHANGED <<shown, taken>> /\ events' = Append(events, <<"closed", asked[slot]>>)
      BY <1>5, <2>2 DEF CloseSlot, Emit
    <3> QED
      BY <1>1, <3>1, <3>2, <3>3, StillUnseen
  <2> QED
    BY <2>1, <2>2
<1>6. CASE Quit \/ Lose \/ Dropped \/ CloseBegin \/ CloseEvents \/ UNCHANGED vars
  BY <1>2, <1>6 DEF Quit, Lose, Dropped, CloseBegin, CloseEvents, vars, sheetVars, uiVars
<1> QED
  BY <1>3, <1>4, <1>5, <1>6, NextSplits DEF Rest, Closes

\* No call begins to wait for an answer that it did not wait for.
LEMMA StillVisible ==
    ASSUME TypeOK, Visible, Remembers, UNCHANGED <<events, shown>>,
           \A r \in Req : asked'[Slot(r)] = r /\ at'[r] = "waiting" =>
                              asked[Slot(r)] = r /\ at[r] = "waiting"
    PROVE  Visible'
<1> SUFFICES ASSUME NEW r \in Req, asked'[Slot(r)] = r, at'[r] = "waiting"
             PROVE  Announced(r)'
  BY DEF Visible
<1>1. Announced(r)
  BY DEF Visible
<1>2. \A i \in Nat : OnlyStale(i, r) => OnlyStale(i, r)'
  <2> SUFFICES ASSUME NEW i \in Nat, OnlyStale(i, r),
                      NEW j \in i + 1 .. Len(events), Slot(events[j][2]) = Slot(r)
               PROVE  events[j][1] = "opened" /\ Stale(events[j][2])'
    BY DEF OnlyStale
  <2>1. j \in 1 .. Len(events)
    BY EventTyped
  <2> QED
    BY <2>1, EventTyped, StaleStays DEF OnlyStale
<1>3. CASE OnlyStale(0, r) /\ (shown[Slot(r)] = r \/ Stale(shown[Slot(r)]))
  <2>1. shown[Slot(r)] \in Req \cup {None}
    BY SlotTyped DEF TypeOK
  <2>2. shown'[Slot(r)] = r \/ Stale(shown[Slot(r)])'
    BY <1>3, <2>1, StaleStays DEF Stale
  <2> QED
    BY <1>2, <1>3, <2>2 DEF Announced
<1>4. CASE \E i \in 1 .. Len(events) : events[i] = <<"opened", r>> /\ OnlyStale(i, r)
  BY <1>2, <1>4, EventTyped DEF Announced
<1> QED
  BY <1>1, <1>3, <1>4 DEF Announced

\* An announcement comes last, and hides no call that waits unless it is stale.
LEMMA AnnouncingKeepsVisible ==
    ASSUME TypeOK, Owner, Unseen, Visible, Remembers, NEW q \in Req, Announce(q)
    PROVE  Visible'
<1> SUFFICES ASSUME NEW r \in Req, asked'[Slot(r)] = r, at'[r] = "waiting"
             PROVE  Announced(r)'
  BY DEF Visible
<1>1. /\ at[q] = "registered" /\ at' = [at EXCEPT ![q] = "waiting"]
      /\ events' = Append(events, <<"opened", q>>)
      /\ UNCHANGED <<asked, shown, sheet, taken, answer>>
  BY DEF Announce, Goes, Emit, sheetVars
<1>2. /\ Len(events) \in Nat /\ Len(events') = Len(events) + 1
      /\ events'[Len(events) + 1] = <<"opened", q>>
      /\ \A i \in 1 .. Len(events) : events'[i] = events[i]
  BY <1>1, Appending
<1>3. CASE r = q
  <2>1. PICK n \in Nat : n = Len(events) + 1
    BY <1>2
  <2>2. OnlyStale(n, q)'
    BY <1>2, <2>1 DEF OnlyStale
  <2>3. n \in 1 .. Len(events') /\ events'[n] = <<"opened", q>>
    BY <1>2, <2>1
  <2> QED
    BY <1>3, <2>2, <2>3 DEF Announced
<1>4. CASE r # q
  <2>1. asked[Slot(r)] = r /\ at[r] = "waiting" /\ sheet = r
    BY <1>1, <1>4, SlotTyped DEF TypeOK, Owner, SheetHasOwner
  <2>2. Slot(q) = Slot(r) => Stale(q)
    <3> SUFFICES ASSUME Slot(q) = Slot(r) PROVE Stale(q)
      OBVIOUS
    <3>1. taken[q] = None /\ answer[q] # None
      BY <1>1, <1>4, <2>1 DEF Owner, Holders, Attended
    <3> QED
      BY <1>1, <3>1 DEF Unseen, Early, Stale
  <2>3. \A i \in Nat : OnlyStale(i, r) => OnlyStale(i, r)'
    <3> SUFFICES ASSUME NEW i \in Nat, OnlyStale(i, r),
                        NEW j \in i + 1 .. Len(events'), Slot(events'[j][2]) = Slot(r)
                 PROVE  events'[j][1] = "opened" /\ Stale(events[j][2])'
      BY DEF OnlyStale
    <3>1. CASE j = Len(events) + 1
      BY <1>2, <2>2, <3>1, StaleStays
    <3>2. CASE j # Len(events) + 1
      <4>1. j \in i + 1 .. Len(events) /\ j \in 1 .. Len(events)
        BY <1>2, <3>2
      <4> QED
        BY <1>2, <4>1, EventTyped, StaleStays DEF OnlyStale
    <3> QED
      BY <3>1, <3>2
  <2>4. Announced(r)
    BY <2>1 DEF Visible
  <2>5. CASE OnlyStale(0, r) /\ (shown[Slot(r)] = r \/ Stale(shown[Slot(r)]))
    <3>1. shown[Slot(r)] \in Req \cup {None}
      BY SlotTyped DEF TypeOK
    <3>2. shown'[Slot(r)] = r \/ Stale(shown[Slot(r)])'
      BY <1>1, <2>5, <3>1, StaleStays DEF Stale
    <3> QED
      BY <2>3, <2>5, <3>2 DEF Announced
  <2>6. CASE \E i \in 1 .. Len(events) : events[i] = <<"opened", r>> /\ OnlyStale(i, r)
    BY <1>2, <2>3, <2>6 DEF Announced
  <2> QED
    BY <2>4, <2>5, <2>6 DEF Announced
<1> QED
  BY <1>3, <1>4

\* Displaying an event moves what is on its way one place on.
LEMMA DisplayingKeepsVisible ==
    ASSUME TypeOK, Visible, Displays
    PROVE  Visible'
<1> SUFFICES ASSUME NEW r \in Req, asked'[Slot(r)] = r, at'[r] = "waiting"
             PROVE  Announced(r)'
  BY DEF Visible
<1>1. /\ events # <<>> /\ events \in Seq({"opened", "closed"} \X Req) /\ events' = Tail(events)
      /\ UNCHANGED <<asked, at, answer>>
  BY DEF Displays, TypeOK, sheetVars
<1>2. /\ Head(events) = events[1] /\ Len(events) \in Nat /\ Len(events) >= 1
      /\ Len(events') = Len(events) - 1
      /\ \A i \in 1 .. Len(events') : events'[i] = events[i + 1]
  BY <1>1
<1>3. PICK kind \in {"opened", "closed"}, q \in Req : events[1] = <<kind, q>>
  BY <1>2, EventTyped
<1>4. /\ Slot(r) \in Slots /\ Slot(q) \in Slots
      /\ shown'[Slot(r)] = IF Slot(q) # Slot(r) THEN shown[Slot(r)]
                           ELSE IF kind = "opened" THEN q
                           ELSE IF shown[Slot(r)] = q THEN None ELSE shown[Slot(r)]
  BY <1>2, <1>3, SlotTyped DEF Displays, TypeOK
<1>5. ASSUME NEW i \in 1 .. Len(events), OnlyStale(i, r)
      PROVE  OnlyStale(i - 1, r)'
  <2>1. i - 1 + 1 = i
    OBVIOUS
  <2>2. ASSUME NEW j \in i .. Len(events'), Slot(events'[j][2]) = Slot(r)
        PROVE  events'[j][1] = "opened" /\ Stale(events[j][2])'
    <3>1. j + 1 \in i + 1 .. Len(events) /\ events'[j] = events[j + 1]
      BY <1>2
    <3> QED
      BY <1>1, <1>5, <2>2, <3>1 DEF OnlyStale, Stale
  <2> QED
    BY <2>1, <2>2 DEF OnlyStale
<1>6. Announced(r)
  BY <1>1 DEF Visible
<1>7. CASE OnlyStale(0, r) /\ (shown[Slot(r)] = r \/ Stale(shown[Slot(r)]))
  <2>1. OnlyStale(1, r) /\ 1 \in 0 + 1 .. Len(events)
    BY <1>2, <1>7 DEF OnlyStale
  <2>2. OnlyStale(0, r)'
    BY <1>2, <1>5, <2>1
  <2>3. Slot(q) = Slot(r) => kind = "opened" /\ Stale(q)
    BY <1>3, <1>7, <2>1 DEF OnlyStale
  <2>4. shown'[Slot(r)] = r \/ Stale(shown[Slot(r)])'
    BY <1>1, <1>4, <1>7, <2>3 DEF Stale
  <2> QED
    BY <2>2, <2>4 DEF Announced
<1>8. CASE \E i \in 1 .. Len(events) : events[i] = <<"opened", r>> /\ OnlyStale(i, r)
  <2>1. PICK i \in 1 .. Len(events) : events[i] = <<"opened", r>> /\ OnlyStale(i, r)
    BY <1>8
  <2>2. OnlyStale(i - 1, r)'
    BY <1>5, <2>1
  <2>3. CASE i = 1
    BY <1>3, <1>4, <2>1, <2>2, <2>3 DEF Announced
  <2>4. CASE i # 1
    <3>1. i - 1 \in 1 .. Len(events') /\ events'[i - 1] = <<"opened", r>>
      BY <1>2, <2>1, <2>4
    <3> QED
      BY <2>2, <3>1 DEF Announced
  <2> QED
    BY <2>3, <2>4
<1> QED
  BY <1>6, <1>7, <1>8 DEF Announced

LEMMA StepKeepsVisible ==
    ASSUME TypeOK, Owner, Unseen, Visible, [Next]_vars
    PROVE  Visible'
<1>1. Remembers
  BY StepRemembers
<1>2. ASSUME UNCHANGED <<events, shown, asked, at>> PROVE Visible'
  BY <1>1, <1>2, StillVisible
<1>3. ASSUME NEW r \in Req, NEW phase \in Phase \ {"waiting"}, Goes(r, phase),
             UNCHANGED <<events, shown>>,
             UNCHANGED asked \/ asked' = [asked EXCEPT ![Slot(r)] = None] \/ phase = "registered",
             phase = "registered" => asked' = [asked EXCEPT ![Slot(r)] = r]
      PROVE  Visible'
  <2>1. \A q \in Req : at'[q] = "waiting" => q # r /\ at[q] = "waiting"
    BY <1>3 DEF Goes, TypeOK
  <2>2. \A q \in Req : q # r /\ asked'[Slot(q)] = q => asked[Slot(q)] = q
    BY <1>3, SlotTyped DEF TypeOK
  <2> QED
    BY <1>1, <1>3, <2>1, <2>2, StillVisible
<1>4. ASSUME NEW r \in Req, asked' = [asked EXCEPT ![Slot(r)] = None],
             UNCHANGED <<events, shown, at>>
      PROVE  Visible'
  <2>1. \A q \in Req : asked'[Slot(q)] = q => asked[Slot(q)] = q
    BY <1>4, SlotTyped DEF TypeOK
  <2> QED
    BY <1>1, <1>4, <2>1, StillVisible
<1>5. ASSUME \A k \in Slots : asked'[k] = None PROVE Visible'
  BY <1>5, SlotTyped DEF Visible
<1>6. ASSUME NEW r \in Req, Own(r) PROVE Visible'
  <2>1. CASE Leaves(r) \/ Severed(r) \/ HandlesStop(r)
    BY <1>2, <2>1 DEF Leaves, Severed, HandlesStop, sheetVars, uiVars
  <2>2. CASE Invalid(r) \/ Busy(r) \/ OpenSheet(r) \/ Wakes(r)
    <3>1. \E phase \in Phase \ {"waiting", "registered"} : Goes(r, phase)
      BY <2>2 DEF Invalid, Busy, OpenSheet, Wakes, Phase
    <3>2. UNCHANGED <<events, shown, asked>>
      BY <2>2 DEF Invalid, Busy, OpenSheet, Wakes, sheetVars, uiVars
    <3> QED
      BY <1>3, <3>1, <3>2
  <2>3. CASE Decides(r)
    <3>1. Decide(Request[r], allowed) \in {"allow", "deny", "ask"}
      BY DEF Decide
    <3>2. \E phase \in Phase \ {"waiting", "registered"} : Goes(r, phase)
      BY <2>3, <3>1 DEF Decides, Phase
    <3> QED
      BY <1>3, <2>3, <3>2 DEF Decides, sheetVars, uiVars
  <2>4. CASE Register(r)
    BY <1>3, <2>4 DEF Register, Phase, uiVars
  <2>5. CASE Announce(r)
    BY <1>1, <2>5, AnnouncingKeepsVisible
  <2>6. CASE CannotAnnounce(r)
    BY <1>3, <2>6 DEF CannotAnnounce, Phase, uiVars
  <2>7. CASE TouchesFile(r) \/ EntersShell(r) \/ Spawns(r) \/ Ends(r)
    <3>1. \E phase \in Phase \ {"waiting", "registered"} : Goes(r, phase)
      BY <2>7 DEF TouchesFile, EntersShell, Spawns, Ends, Phase
    <3>2. UNCHANGED <<events, shown, asked>>
      BY <2>7 DEF TouchesFile, EntersShell, Spawns, Ends, sheetVars, uiVars
    <3> QED
      BY <1>3, <3>1, <3>2
  <2>8. CASE HandlesCancel(r)
    <3>1. CASE asked[Slot(r)] = r
      BY <1>4, <2>8, <3>1 DEF HandlesCancel, Take, uiVars
    <3>2. CASE asked[Slot(r)] # r
      BY <1>2, <2>8, <3>2 DEF HandlesCancel, uiVars
    <3> QED
      BY <3>1, <3>2
  <2>9. CASE FinishesResolve(r)
    <3>1. /\ sheet = r /\ asked[Slot(r)] # r /\ UNCHANGED asked
      BY <2>9 DEF FinishesResolve, Owner, Holders
    <3>2. \A k \in Slots : asked[k] = None
      BY <3>1 DEF Owner, SheetHasOwner
    <3> QED
      BY <1>5, <3>1, <3>2
  <2>10. CASE \E choice \in Choice : UserAnswers(r, choice)
    BY <1>4, <2>10 DEF UserAnswers, Take, uiVars
  <2> QED
    BY <1>6, <2>1, <2>2, <2>3, <2>4, <2>5, <2>6, <2>7, <2>8, <2>9, <2>10 DEF Own, Works
<1>7. CASE Displays
  BY <1>7, DisplayingKeepsVisible
<1>8. CASE Dropped
  <2>1. CASE UNCHANGED at
    BY <1>2, <1>8, <2>1 DEF Dropped, sheetVars, uiVars
  <2>2. CASE \E r \in Req : at[r] = "sent" /\ Goes(r, "done")
    BY <1>3, <1>8, <2>2 DEF Dropped, sheetVars, uiVars, Phase
  <2> QED
    BY <1>8, <2>1, <2>2 DEF Dropped
<1>9. ASSUME NEW slot \in Slots, CloseSlot(slot) PROVE Visible'
  <2>1. CASE asked[slot] = None
    BY <1>2, <1>9, <2>1 DEF CloseSlot, goVars
  <2>2. CASE asked[slot] # None
    <3>1. \A k \in Slots : k # slot => asked[k] = None
      BY <2>2 DEF TypeOK, Owner, SheetHasOwner
    <3> QED
      BY <1>5, <1>9, <2>2, <3>1 DEF CloseSlot, TypeOK
  <2> QED
    BY <2>1, <2>2
<1>10. CASE Quit \/ Lose \/ CloseBegin \/ CloseEvents \/ UNCHANGED vars
  BY <1>2, <1>10 DEF Quit, Lose, CloseBegin, CloseEvents, vars, goVars, sheetVars, uiVars
<1> QED
  BY <1>6, <1>7, <1>8, <1>9, <1>10, NextSplits DEF Rest, Closes

\* The user sees what a call waits for, unless a stale sheet is in its place (gate and
\* start_clarify of src/src/rpc.rs, and the sheets of src/ui/src/app/App.tsx).
THEOREM SheetsShown == Spec => []WaitingIsShown
<1>1. Init => Seen
  <2> SUFFICES ASSUME Init PROVE Seen
    OBVIOUS
  <2>1. Len(events) = 0
    BY DEF Init
  <2>2. Unseen
    BY <2>1 DEF Init, Unseen
  <2>3. Visible
    BY DEF Init, Visible
  <2> QED
    BY <2>2, <2>3 DEF Seen
<1>2. TypeOK /\ Owner /\ Seen /\ [Next]_vars => Seen'
  BY StepKeepsUnseen, StepKeepsVisible DEF Seen
<1>3. TypeOK /\ Seen => WaitingIsShown
  <2> SUFFICES ASSUME Visible, NEW r \in Req, asked[Slot(r)] = r, at[r] = "waiting", events = <<>>
               PROVE  shown[Slot(r)] = r \/ Stale(shown[Slot(r)])
    BY DEF Seen, WaitingIsShown
  <2>1. Len(events) = 0
    OBVIOUS
  <2>2. Announced(r)
    BY DEF Visible
  <2> QED
    BY <2>1, <2>2 DEF Announced
<1> QED
  BY <1>1, <1>2, <1>3, OwnerHolds, SheetsTyped, PTL DEF Spec
=============================================================================
