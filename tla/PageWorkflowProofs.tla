-------------------------- MODULE PageWorkflowProofs --------------------------
(***************************************************************************)
(* Proofs about the OCR plugin: PageWorkflow, for any pages, crops,        *)
(* concurrency and number of attempts; EventStream, for any jobs, streams  *)
(* and limits of the buffers; Aligner, for any lines and boxes; Chunker,   *)
(* for any elements and lengths.                                           *)
(***************************************************************************)
EXTENDS MCPages, EventStream, FiniteSetTheorems, SequenceTheorems, WellFoundedInduction,
        TLAPS

-----------------------------------------------------------------------------
(* Types.                                                                  *)

LEMMA InitType == Init => TypeOK
<1> SUFFICES ASSUME Init PROVE TypeOK
  OBVIOUS
<1>1. 1 \in 1 .. MaxRetries
  BY ConcurrencyAssumption
<1>2. attempt \in [Pages -> 1 .. MaxRetries]
  BY <1>1 DEF Init, Fresh
<1>3. text \in [Pages -> Texts] /\ got \in [Pages -> Texts]
  BY DEF Init, Fresh, Texts
<1>4. /\ at \in [Pages -> Open \cup {"none", "closed"}]
      /\ result \in [Pages -> Finished \cup {"none"}]
      /\ \A p \in Pages : at[p] = "closed" <=> result[p] # "none"
  BY DEF Init, Fresh
<1>5. box \in [Pages -> [Boxes -> {"wait", "read", "ok"} \cup CallErrors]]
  BY DEF Init, Fresh
<1> QED
  BY <1>2, <1>3, <1>4, <1>5 DEF Init, Fresh, TypeOK, Fanouts, Signals

\* The phases that a run enters with or without tasks.
LEMMA EnterType ==
  ASSUME TypeOK, NEW f \in Fanouts \cup {"finalize"}, NEW txt, Enter(f, txt),
         UNCHANGED <<options, local, failed, outcome, asked, ext, broke, late>>,
         dense' \subseteq Pages, text' \in [Pages -> Texts]
  PROVE  TypeOK'
<1>1. attempt' \in [Pages -> 1 .. MaxRetries]
  BY ConcurrencyAssumption DEF Enter
<1>2. result' \in [Pages -> Finished \cup {"none"}] /\ got' \in [Pages -> Texts]
  BY DEF Enter, Texts
<1>3. /\ at' \in [Pages -> Open \cup {"none", "closed"}]
      /\ \A p \in Pages : at'[p] # "closed" /\ result'[p] = "none"
  BY DEF Enter, Open
<1>4. box' \in [Pages -> [Boxes -> {"wait", "read", "ok"} \cup CallErrors]]
  BY DEF Enter
<1>5. /\ phase' \in Fanouts \cup {"finalize"} /\ body' \in {"out", "await"}
      /\ told' = {} /\ inbox' = {} /\ errors' = {} /\ aborting' = FALSE
  BY DEF Enter
<1> QED
  BY <1>1, <1>2, <1>3, <1>4, <1>5 DEF TypeOK

\* What refine drops leaves texts, and those of the pages it had no task for.
LEMMA DropType ==
  ASSUME TypeOK, DropRefined
  PROVE  /\ text' \in [Pages -> Texts]
         /\ \A p \in Pages :
              text'[p] = text[p] \/ (phase = "refine" /\ at[p] # "none" /\ text'[p] = "none")
<1>1. CASE phase = "refine"
  <2>1. PICK dup \in SUBSET {p \in Pages : at[p] # "none"} :
          text' = [p \in Pages |-> IF p \in dup THEN "none" ELSE text[p]]
    BY <1>1 DEF DropRefined
  <2>2. "none" \in Texts /\ \A p \in Pages : text[p] \in Texts
    BY DEF TypeOK, Texts
  <2> QED
    BY <1>1, <2>1, <2>2
<1>2. CASE phase # "refine"
  BY <1>2 DEF DropRefined, TypeOK
<1> QED
  BY <1>1, <1>2

\* The end of a run, by an exception or by its return.
LEMMA EndType ==
  ASSUME TypeOK, NEW v \in {"done", "CancelledError", "error", "group"} \cup Signals, End(v)
  PROVE  TypeOK'
BY DEF TypeOK, End, taskVars

\* A task ends.
LEMMA CloseType ==
  ASSUME TypeOK, NEW p \in Pages, NEW r \in Finished, Close(p, r), at[p] # "closed",
         UNCHANGED told
  PROVE  /\ at' \in [Pages -> Open \cup {"none", "closed"}]
         /\ result' \in [Pages -> Finished \cup {"none"}]
         /\ \A q \in Pages : at'[q] = "closed" <=> result'[q] # "none"
         /\ attempt' \in [Pages -> 1 .. MaxRetries]
         /\ told' \subseteq {q \in Pages : at'[q] = "closed"}
<1>1. 1 \in 1 .. MaxRetries
  BY ConcurrencyAssumption
<1>2. r # "none"
  BY DEF Finished, Signals
<1> QED
  BY <1>1, <1>2 DEF Close, TypeOK

LEMMA TaskType ==
  ASSUME TypeOK, NEW p \in Pages, Task(p)
  PROVE  TypeOK'
<1> USE DEF runVars, groupVars
<1>1. CASE Admit(p)
  BY <1>1 DEF TypeOK, Admit, Open
<1>2. CASE Read(p)
  <2>1. CASE Close(p, "ok") /\ UNCHANGED <<runVars, asked, ext, got, box, groupVars, broke, late>>
    <3>1. "ok" \in Finished /\ at[p] # "closed"
      BY <1>2 DEF Finished, Read
    <3> QED
      BY <2>1, <3>1, CloseType DEF TypeOK
  <2>2. CASE \E a \in {"boxes", "reading"} :
               /\ at' = [at EXCEPT ![p] = a]
               /\ UNCHANGED <<result, attempt>>
               /\ UNCHANGED <<runVars, asked, ext, got, box, groupVars, broke, late>>
    BY <1>2, <2>2 DEF TypeOK, Read, Open
  <2> QED
    BY <1>2, <2>1, <2>2 DEF Read
<1>3. CASE Answer(p)
  <2>1. PICK r \in {"ok", "failed"} \cup CallErrors : Close(p, r)
    BY <1>3 DEF Answer
  <2>2. r \in Finished /\ at[p] # "closed"
    BY <1>3 DEF Finished, Answer, Signals, CallErrors
  <2>3. got' \in [Pages -> Texts] /\ broke' \subseteq Pages
    BY <1>3, ReadingsAssumption DEF Answer, TypeOK
  <2> QED
    BY <1>3, <2>1, <2>2, <2>3, CloseType DEF Answer, TypeOK
<1>4. CASE Repair(p)
  <2>1. text' \in [Pages -> Texts]
    BY <1>4 DEF Repair, TypeOK
  <2>2. CASE attempt[p] < MaxRetries /\ attempt' = [attempt EXCEPT ![p] = @ + 1] /\ UNCHANGED <<at, result>>
    <3>1. attempt' \in [Pages -> 1 .. MaxRetries]
      BY <2>2, ConcurrencyAssumption DEF TypeOK
    <3> QED
      BY <1>4, <2>1, <2>2, <3>1 DEF Repair, TypeOK
  <2>3. CASE \E r \in {"ok", "Other"} \cup CallErrors : Close(p, r)
    <3>1. PICK r \in {"ok", "Other"} \cup CallErrors : Close(p, r)
      BY <2>3
    <3>2. r \in Finished /\ at[p] # "closed"
      BY <1>4 DEF Finished, Repair, Signals, CallErrors
    <3> QED
      BY <1>4, <2>1, <3>1, <3>2, CloseType DEF Repair, TypeOK
  <2> QED
    BY <1>4, <2>2, <2>3 DEF Repair
<1>5. CASE CloseBoxes(p)
  <2>1. PICK r \in {"ok", "failed", "cancelled"} \cup CallErrors : Close(p, r)
    BY <1>5 DEF CloseBoxes, Signalled
  <2>2. r \in Finished /\ at[p] # "closed"
    BY <1>5 DEF Finished, CloseBoxes, Signals, CallErrors
  <2>3. got' \in [Pages -> Texts] /\ broke' \subseteq Pages
    BY <1>5, ReadingsAssumption DEF CloseBoxes, TypeOK
  <2>4. box' \in [Pages -> [Boxes -> {"wait", "read", "ok"} \cup CallErrors]]
    BY <1>5 DEF CloseBoxes, TypeOK
  <2> QED
    BY <1>5, <2>1, <2>2, <2>3, <2>4, CloseType DEF CloseBoxes, TypeOK
<1>6. CASE Cancelled(p)
  <2>1. "cancelled" \in Finished /\ at[p] # "closed"
    BY <1>6 DEF Finished, Cancelled
  <2> QED
    BY <1>6, <2>1, CloseType DEF Cancelled, TypeOK
<1>7. CASE \E b \in Boxes : ReadBox(p, b) \/ AnswerBox(p, b)
  <2>1. PICK b \in Boxes, s \in {"read", "ok"} \cup CallErrors : box' = [box EXCEPT ![p][b] = s]
    BY <1>7 DEF ReadBox, AnswerBox
  <2>2. box' \in [Pages -> [Boxes -> {"wait", "read", "ok"} \cup CallErrors]]
    BY <2>1 DEF TypeOK
  <2> QED
    BY <1>7, <2>2, ZenonT(30) DEF ReadBox, AnswerBox, TypeOK
<1> QED
  BY <1>1, <1>2, <1>3, <1>4, <1>5, <1>6, <1>7 DEF Task

LEMMA GroupType ==
  ASSUME TypeOK, Group
  PROVE  TypeOK'
<1> USE DEF runVars, taskVars
<1>1. ASSUME NEW p \in Pages, Hear(p) PROVE TypeOK'
  <2>1. errors' \subseteq Signals \cup {"Other"} /\ aborting' \in BOOLEAN
    BY <1>1 DEF Hear, TypeOK
  <2>2. told' \subseteq {q \in Pages : at'[q] = "closed"} /\ inbox' \subseteq told'
    BY <1>1 DEF Hear, TypeOK
  <2> QED
    BY <1>1, <2>1, <2>2 DEF Hear, TypeOK
<1>2. ASSUME NEW p \in Pages, Take(p) PROVE TypeOK'
  BY <1>2, ZenonT(30) DEF Take, Raise, Signals, TypeOK
<1>3. ASSUME NEW p \in Pages, Handled(p) PROVE TypeOK'
  BY <1>3, ZenonT(30) DEF Handled, Raise, TypeOK
<1>4. CASE Leave
  BY <1>4 DEF Leave, TypeOK
<1>5. CASE Exit
  <2>1. CASE errors # {} /\ End(Unwrapped(phase))
    <3>1. Unwrapped(phase) \in {"error", "group"} \cup Signals
      BY DEF Unwrapped, Signals
    <3> QED
      BY <2>1, <3>1, EndType
  <2>2. CASE End("CancelledError")
    BY <2>2, EndType
  <2>3. CASE /\ DropRefined /\ Enter(After(phase, text'), text')
             /\ UNCHANGED <<options, local, dense, failed, outcome, asked, ext, broke, late>>
    <3> DEFINE txt == text'
    <3>1. After(phase, txt) \in Fanouts \cup {"finalize"}
      BY DEF After, Fanouts
    <3>2. Enter(After(phase, txt), txt)
      BY <2>3
    <3>3. text' \in [Pages -> Texts]
      BY <2>3, DropType
    <3> HIDE DEF txt
    <3> QED
      BY <2>3, <3>1, <3>2, <3>3, EnterType DEF TypeOK
  <2> QED
    BY <1>5, <2>1, <2>2, <2>3 DEF Exit
<1> QED
  BY <1>1, <1>2, <1>3, <1>4, <1>5 DEF Group

LEMMA NextType == TypeOK /\ [Next]_vars => TypeOK'
<1> SUFFICES ASSUME TypeOK, [Next]_vars PROVE TypeOK'
  OBVIOUS
<1>1. CASE Convert \/ Emit \/ Finalize
  <2>1. CASE \E v \in {"done", "error", "OCRCancelled"} : End(v)
    BY <2>1, EndType DEF Signals
  <2>2. CASE /\ phase' \in {"layout", "emit"}
             /\ UNCHANGED <<options, local, dense, text, failed, outcome, asked, ext,
                            taskVars, groupVars, broke, late>>
    BY <2>2 DEF TypeOK, taskVars, groupVars
  <2> QED
    BY <1>1, <2>1, <2>2 DEF Convert, Emit, Finalize
<1>2. CASE Layout
  <2>1. CASE /\ dense' \in SUBSET Pages /\ Enter("ocr", text)
             /\ UNCHANGED <<options, local, text, failed, outcome, asked, ext, broke, late>>
    BY <2>1, EnterType DEF Fanouts, TypeOK
  <2> QED
    BY <1>2, <2>1, EndType DEF Layout, Signals
<1>3. CASE \E p \in Pages : Task(p)
  BY <1>3, TaskType
<1>4. CASE Group
  BY <1>4, GroupType
<1>5. CASE Ask
  BY <1>5 DEF Ask, TypeOK, runVars, taskVars, groupVars
<1>6. CASE CancelTask
  BY <1>6 DEF CancelTask, TypeOK, taskVars, Fanouts
<1>7. CASE UNCHANGED vars
  BY <1>7 DEF TypeOK, vars, runVars, taskVars, groupVars
<1> QED
  BY <1>1, <1>2, <1>3, <1>4, <1>5, <1>6, <1>7 DEF Next

\* Type correctness: among others, a task has a result exactly when it has ended,
\* and the group hears only of tasks that have.
THEOREM TypeCorrect == Spec => []TypeOK
BY InitType, NextType, PTL DEF Spec

-----------------------------------------------------------------------------
(* Cancellation and what a phase leaves behind.                            *)

\* Between the fan-outs no task is open, and no body runs; a cancelled run does
\* not leave the fan-out it was cancelled in but for its end; and past the last
\* gate, which nothing that was asked passes, only a late cancellation is left.
Ended(p) == at[p] \in {"none", "closed"}
Quiet ==
  /\ phase \notin Fanouts => \A p \in Pages : Ended(p)
  /\ body # "out" => phase \in Fanouts
Gated ==
  /\ ext => phase \in Fanouts \/ (phase = "over" /\ outcome # "done")
  /\ phase = "emit" => (asked => late)
  /\ outcome = "done" => phase = "over" /\ (asked => late)
CInv == TypeOK /\ Quiet /\ Gated

LEMMA TaskKeepsGate ==
  ASSUME CInv, NEW p \in Pages, Task(p)
  PROVE  phase \in Fanouts /\ UNCHANGED <<phase, outcome, asked, ext, late, body>>
<1>1. ~Ended(p)
  BY DEF Task, Admit, Read, Answer, Repair, CloseBoxes, Cancelled, ReadBox, AnswerBox, Ended
<1>2. UNCHANGED <<phase, outcome, asked, ext, late, body>>
  BY DEF Task, Admit, Read, Answer, Repair, CloseBoxes, Cancelled, ReadBox, AnswerBox,
         runVars, groupVars
<1> QED
  BY <1>1, <1>2 DEF CInv, Quiet

\* The end of a run keeps what the gates are for, unless it succeeds.
LEMMA EndKeepsGate ==
  ASSUME CInv, NEW v, v # "done", \A p \in Pages : Ended(p), End(v)
  PROVE  (Quiet /\ Gated)'
BY DEF CInv, Quiet, Gated, Ended, End, taskVars, Fanouts

LEMMA NextCInv == CInv /\ [Next]_vars => CInv'
<1> SUFFICES ASSUME CInv, [Next]_vars PROVE (Quiet /\ Gated)'
  BY NextType DEF CInv
<1> USE DEF CInv, Quiet, Gated, Ended, Fanouts
<1>1. CASE Convert \/ Emit \/ Finalize \/ Ask
  <2>1. asked \in BOOLEAN /\ late \in BOOLEAN
    BY DEF TypeOK
  <2>2. CASE Convert
    BY <2>2 DEF Convert, End, taskVars, groupVars
  <2>3. CASE Finalize
    BY <2>3 DEF Finalize, Passes, End, taskVars, groupVars
  <2>4. CASE Emit
    BY <2>4 DEF Emit, End, taskVars
  <2>5. CASE Ask
    BY <2>1, <2>5 DEF Ask, runVars, taskVars, groupVars
  <2> QED
    BY <1>1, <2>2, <2>3, <2>4, <2>5
<1>2. CASE Layout
  <2>1. CASE /\ Enter("ocr", text)
             /\ UNCHANGED <<options, local, text, failed, outcome, asked, ext, broke, late>>
    BY <1>2, <2>1 DEF Layout, Enter
  <2>2. CASE \E v : v # "done" /\ End(v)
    BY <1>2, <2>2, EndKeepsGate DEF Layout
  <2> QED
    BY <1>2, <2>1, <2>2 DEF Layout
<1>3. CASE \E p \in Pages : Task(p)
  BY <1>3, TaskKeepsGate
<1>4. CASE \E p \in Pages : Hear(p) \/ Take(p) \/ Handled(p)
  <2>1. UNCHANGED <<phase, outcome, asked, ext, late, at>>
    BY <1>4 DEF Hear, Take, Handled, Raise, runVars, taskVars
  <2>2. UNCHANGED body \/ body # "out"
    BY <1>4, PagesAssumption DEF Hear, Take, Handled
  <2> QED
    BY <2>1, <2>2
<1>5. CASE Leave
  BY <1>5, PagesAssumption DEF Leave, runVars, taskVars
<1>6. CASE Exit
  <2>1. \A p \in Pages : Ended(p)
    BY <1>6 DEF Exit, Exits, TypeOK
  <2>2. CASE \E v : v # "done" /\ End(v)
    BY <2>1, <2>2, EndKeepsGate
  <2>3. CASE errors = {} /\ ~ext
    <3>1. \A txt : After(phase, txt) \in Fanouts \cup {"finalize"}
      BY DEF After
    <3>2. Enter(After(phase, text'), text') /\ UNCHANGED <<outcome, asked, ext, late>> /\ phase # "over"
      BY <1>6, <2>3 DEF Exit, Exits
    <3> QED
      BY <2>3, <3>1, <3>2 DEF Enter
  <2>4. Unwrapped(phase) # "done"
    BY DEF Unwrapped, Signals
  <2> QED
    BY <1>6, <2>2, <2>3, <2>4 DEF Exit
<1>7. CASE CancelTask
  BY <1>7 DEF CancelTask, taskVars
<1>8. CASE UNCHANGED vars
  BY <1>8 DEF vars, runVars, taskVars, groupVars
<1> QED
  BY <1>1, <1>2, <1>3, <1>4, <1>5, <1>6, <1>7, <1>8 DEF Next, Group

LEMMA InitCInv == Init => CInv
BY InitType DEF Init, Fresh, CInv, Quiet, Gated, Ended

\* No run succeeds that was cancelled before its last gate, in whatever phase
\* and by whichever way.
THEOREM CancellationWins == Spec => []CancelWins
<1>1. CInv => CancelWins
  BY DEF CInv, Gated, CancelWins, Fanouts
<1> QED
  BY <1>1, InitCInv, NextCInv, PTL DEF Spec

\* Outside the fan-outs no call is in flight and no page holds a semaphore: a
\* phase leaves nothing behind, and nothing outlives the run.
THEOREM PhasesClean == Spec => []NothingOutlives
<1>1. CInv => NothingOutlives
  <2> SUFFICES ASSUME CInv, phase \notin Fanouts PROVE Calls = 0 /\ Admitted = 0
    BY DEF NothingOutlives
  <2>1. \A p \in Pages : Ended(p)
    BY DEF CInv, Quiet
  <2>2. {p \in Pages : at[p] = "reading"} = {}
    BY <2>1 DEF Ended
  <2>3. {x \in Pages \X Boxes : at[x[1]] = "boxes" /\ box[x[1]][x[2]] = "read"} = {}
    BY <2>1 DEF Ended
  <2>4. {p \in Pages : at[p] \in {"admitted", "reading", "boxes"}} = {}
    BY <2>1 DEF Ended
  <2>5. Calls = Cardinality({}) + Cardinality({})
    BY <2>2, <2>3, Zenon DEF Calls
  <2>6. Admitted = Cardinality({})
    BY <2>4, Zenon DEF Admitted
  <2>7. Cardinality({}) = 0
    BY FS_EmptySet
  <2> QED
    BY <2>5, <2>6, <2>7
<1> QED
  BY <1>1, InitCInv, NextCInv, PTL DEF Spec

-----------------------------------------------------------------------------
(* Reports of failed pages.                                                *)

\* Where a page's own failure is until it is in last_failed_pages: in its task's
\* result, then in the body's inbox or its hands.  The body leaves the fan-out of
\* the OCR phase with a failure unreported only if the run does not go on.
Aborted == errors # {} \/ ext
Reporting ==
  /\ failed \subseteq broke
  /\ phase \in {"convert", "layout"} => broke = {}
  /\ phase \notin {"ocr", "over"} => failed = broke
  /\ outcome = "done" => phase = "over" /\ failed = broke
Boxed == \A p \in Pages : at[p] = "boxes" => phase = "ocr"
Broken == phase = "ocr" => \A p \in Pages : p \in broke <=> result[p] = "failed"
Kept(p) == body # "exiting" /\ (p \in told => p \in inbox \/ body = p)
Held == phase = "ocr" /\ ~Aborted => \A p \in broke \ failed : Kept(p)
Started == {p \in Pages : at[p] # "none"}
Stopped ==
  /\ aborting => Aborted
  /\ phase \in Fanouts /\ body = "exiting" /\ ~Aborted => told = Started
FInv == CInv /\ Reporting /\ Boxed /\ Broken /\ Held /\ Stopped

\* What a task of a page may change, whichever step it takes.
TaskStep(p) ==
  /\ at[p] \in Open /\ at'[p] # "none" /\ result[p] = "none"
  /\ \A q \in Pages \ {p} : at'[q] = at[q] /\ result'[q] = result[q]
  /\ at'[p] = "boxes" => phase = "ocr"
  /\ \/ broke' = broke /\ result'[p] # "failed"
     \/ phase = "ocr" /\ broke' = broke \cup {p} /\ result'[p] = "failed"
  /\ UNCHANGED <<phase, failed, outcome, ext, groupVars>>

LEMMA CloseStep ==
  ASSUME TypeOK, NEW p \in Pages, NEW r, Close(p, r)
  PROVE  /\ at'[p] = "closed" /\ result'[p] = r
         /\ \A q \in Pages \ {p} : at'[q] = at[q] /\ result'[q] = result[q]
BY DEF Close, TypeOK

LEMMA TaskSteps ==
  ASSUME TypeOK, Boxed, NEW p \in Pages, Task(p)
  PROVE  TaskStep(p)
<1>1. /\ at[p] \in Open /\ result[p] = "none"
      /\ UNCHANGED <<phase, failed, outcome, ext, groupVars>>
  <2>1. at[p] \in Open
    BY DEF Task, Admit, Read, Answer, Repair, CloseBoxes, Cancelled, ReadBox, AnswerBox, Open
  <2>2. UNCHANGED <<phase, failed, outcome, ext, groupVars>>
    BY DEF Task, Admit, Read, Answer, Repair, CloseBoxes, Cancelled, ReadBox, AnswerBox,
           runVars, groupVars
  <2> QED
    BY <2>1, <2>2 DEF TypeOK, Open
<1>2. CASE /\ \E a \in {"admitted", "reading", "boxes"} :
                 at' = [at EXCEPT ![p] = a] /\ (a = "boxes" => phase = "ocr")
           /\ UNCHANGED <<result, broke>>
  BY <1>1, <1>2 DEF TaskStep, TypeOK
<1>3. CASE UNCHANGED <<at, result, broke>>
  BY <1>1, <1>3 DEF TaskStep, TypeOK, Open, Boxed
<1>4. CASE \E r : r # "failed" /\ Close(p, r) /\ UNCHANGED broke
  BY <1>1, <1>4, CloseStep DEF TaskStep
<1>5. CASE phase = "ocr" /\ Close(p, "failed") /\ broke' = broke \cup {p}
  BY <1>1, <1>5, CloseStep DEF TaskStep
<1>6. CASE Admit(p)
  BY <1>2, <1>6 DEF Admit
<1>7. CASE Read(p)
  BY <1>2, <1>4, <1>7 DEF Read
<1>8. CASE Answer(p)
  BY <1>4, <1>5, <1>8 DEF Answer, CallErrors
<1>9. CASE Repair(p)
  BY <1>3, <1>4, <1>9 DEF Repair, CallErrors
<1>10. CASE CloseBoxes(p)
  <2>1. phase = "ocr"
    BY <1>10 DEF CloseBoxes, Boxed
  <2>2. CASE \E r \in {"ok", "cancelled"} \cup CallErrors : Close(p, r) /\ UNCHANGED broke
    BY <1>4, <2>2 DEF CallErrors
  <2>3. CASE Close(p, "failed") /\ broke' = broke \cup {p}
    BY <1>5, <2>1, <2>3
  <2> QED
    BY <1>10, <2>2, <2>3 DEF CloseBoxes, Signalled
<1>11. CASE Cancelled(p)
  BY <1>4, <1>11 DEF Cancelled
<1>12. CASE \E b \in Boxes : ReadBox(p, b) \/ AnswerBox(p, b)
  BY <1>3, <1>12 DEF ReadBox, AnswerBox
<1> QED
  BY <1>6, <1>7, <1>8, <1>9, <1>10, <1>11, <1>12 DEF Task

LEMMA TaskReports ==
  ASSUME FInv, NEW p \in Pages, Task(p)
  PROVE  (Reporting /\ Boxed /\ Broken /\ Held /\ Stopped)'
<1>1. TaskStep(p)
  BY TaskSteps DEF FInv, CInv
<1>2. phase \in Fanouts /\ outcome # "done"
  BY TaskKeepsGate DEF FInv, Reporting, Fanouts
<1>3. p \notin told
  BY <1>1 DEF FInv, CInv, TypeOK, TaskStep, Open
<1>4. body = "exiting" => Aborted
  BY <1>1, <1>2, <1>3 DEF FInv, Stopped, Started, TaskStep, Open
<1>5. p \notin broke \/ phase # "ocr"
  BY <1>1 DEF FInv, Broken, TaskStep
<1>6. Reporting'
  BY <1>1, <1>2 DEF FInv, Reporting, TaskStep, Fanouts
<1>7. Boxed'
  BY <1>1 DEF FInv, Boxed, TaskStep
<1>8. Broken'
  BY <1>1, <1>5 DEF FInv, Broken, TaskStep
<1>9. Held'
  BY <1>1, <1>3, <1>4 DEF FInv, Held, Kept, Aborted, TaskStep, groupVars
<1>10. Stopped'
  BY <1>1, <1>4 DEF FInv, Stopped, Aborted, TaskStep, groupVars
<1> QED
  BY <1>6, <1>7, <1>8, <1>9, <1>10

LEMMA EndReports ==
  ASSUME FInv, NEW v, End(v), v = "done" => failed = broke, \A p \in Pages : Ended(p)
  PROVE  (Reporting /\ Boxed /\ Broken /\ Held /\ Stopped)'
BY DEF FInv, Ended, Reporting, Boxed, Broken, Held, Stopped, Aborted, Fanouts, End, taskVars

\* The group hears of a task, and its body takes or handles a page.
LEMMA HearReports ==
  ASSUME FInv, NEW p \in Pages, Hear(p)
  PROVE  (Reporting /\ Boxed /\ Broken /\ Held /\ Stopped)'
<1> USE DEF FInv, Hear, runVars, taskVars
<1>1. Reporting' /\ Boxed' /\ Broken'
  BY DEF Reporting, Boxed, Broken
<1>2. Held'
  <2> SUFFICES ASSUME phase = "ocr", ~Aborted', NEW q \in broke \ failed PROVE Kept(q)'
    BY DEF Held
  <2>1. ~Aborted
    BY DEF Aborted
  <2>2. q \in Pages /\ result[q] = "failed"
    BY DEF CInv, TypeOK, Broken
  <2>3. Kept(q)
    BY <2>1 DEF Held
  <2> QED
    BY <2>2, <2>3 DEF Kept
<1>3. Stopped'
  <2>1. (aborting => Aborted)'
    BY DEF Stopped, Aborted
  <2>2. phase \in Fanouts /\ body = "exiting" => Aborted
    BY DEF Stopped, Started, Aborted, CInv, TypeOK
  <2> QED
    BY <2>1, <2>2 DEF Stopped, Aborted
<1> QED
  BY <1>1, <1>2, <1>3

LEMMA TakeReports ==
  ASSUME FInv, NEW p \in Pages, Take(p)
  PROVE  (Reporting /\ Boxed /\ Broken /\ Held /\ Stopped)'
<1> USE DEF FInv, Take, taskVars
<1>1. Reporting' /\ Boxed' /\ Broken'
  BY DEF Reporting, Boxed, Broken
<1>2. CASE Raise("OCRCancelled")
  BY <1>1, <1>2 DEF Raise, Held, Stopped, Aborted
<1>3. CASE body' = p /\ UNCHANGED <<errors, aborting>>
  <2>1. Held'
    <3> SUFFICES ASSUME phase = "ocr", ~Aborted, NEW q \in broke \ failed PROVE Kept(q)'
      BY <1>3 DEF Held, Aborted
    <3>1. Kept(q) /\ q \in Pages
      BY DEF Held, CInv, TypeOK
    <3> QED
      BY <1>3, <3>1, PagesAssumption DEF Kept
  <2>2. Stopped'
    BY <1>3, PagesAssumption DEF Stopped, Started, Aborted
  <2> QED
    BY <1>1, <2>1, <2>2
<1> QED
  BY <1>2, <1>3

LEMMA HandledReports ==
  ASSUME FInv, NEW p \in Pages, Handled(p)
  PROVE  (Reporting /\ Boxed /\ Broken /\ Held /\ Stopped)'
<1> USE DEF FInv, Handled, taskVars
<1>1. phase \in Fanouts /\ outcome # "done"
  BY PagesAssumption DEF CInv, Quiet, Reporting, Fanouts
<1>2. Boxed' /\ Broken'
  BY DEF Boxed, Broken
<1>3. Reporting'
  BY <1>1 DEF Reporting, Fails, Broken, Fanouts
<1>4. CASE Raise("Other")
  BY <1>2, <1>3, <1>4 DEF Raise, Held, Stopped, Aborted
<1>5. CASE /\ body' = "await" /\ failed' = IF Fails(p) THEN failed \cup {p} ELSE failed
           /\ UNCHANGED <<errors, aborting>>
  <2>1. Held'
    <3> SUFFICES ASSUME phase = "ocr", ~Aborted, NEW q \in broke \ failed' PROVE Kept(q)'
      BY <1>5 DEF Held, Aborted
    <3>1. Kept(q)
      BY <1>5 DEF Held
    <3>2. q # p
      BY <1>5 DEF Fails, Broken
    <3> QED
      BY <1>5, <3>1, <3>2 DEF Kept
  <2>2. Stopped'
    BY <1>5 DEF Stopped, Aborted
  <2> QED
    BY <1>2, <1>3, <2>1, <2>2
<1> QED
  BY <1>4, <1>5

LEMMA LeaveReports ==
  ASSUME FInv, Leave
  PROVE  (Reporting /\ Boxed /\ Broken /\ Held /\ Stopped)'
<1> USE DEF FInv, Leave, runVars, taskVars
<1>1. Reporting' /\ Boxed' /\ Broken'
  BY DEF Reporting, Boxed, Broken
<1>2. CASE body = "await" /\ inbox = {} /\ ~aborting /\ told = Started
  <2>1. \A p \in broke : phase = "ocr" => p \in told
    BY <1>2 DEF CInv, TypeOK, Broken, Started
  <2>2. phase = "ocr" /\ ~Aborted => broke \ failed = {}
    BY <1>2, <2>1, PagesAssumption DEF Held, Kept, CInv, TypeOK
  <2> QED
    BY <1>1, <1>2, <2>2 DEF Held, Stopped, Started, Aborted
<1>3. CASE aborting
  BY <1>1, <1>3 DEF Held, Stopped, Aborted
<1> QED
  BY <1>2, <1>3 DEF Started

LEMMA EnterReports ==
  ASSUME FInv, NEW f \in Fanouts \cup {"finalize"}, NEW txt, Enter(f, txt),
         UNCHANGED <<failed, outcome, ext, broke>>, ~ext, outcome # "done",
         failed = broke, f = "ocr" => broke = {}
  PROVE  (Reporting /\ Boxed /\ Broken /\ Held /\ Stopped)'
<1>1. \A p \in Pages : at'[p] # "boxes" /\ result'[p] = "none"
  BY DEF Enter
<1>2. phase' = f /\ body' \in {"await", "out"} /\ aborting' = FALSE
  BY DEF Enter
<1>3. Reporting'
  BY <1>2 DEF Reporting, Fanouts
<1>4. Boxed' /\ Broken'
  BY <1>1, <1>2 DEF Boxed, Broken
<1>5. Held' /\ Stopped'
  BY <1>2 DEF Held, Stopped
<1> QED
  BY <1>3, <1>4, <1>5

LEMMA ExitReports ==
  ASSUME FInv, Exit
  PROVE  (Reporting /\ Boxed /\ Broken /\ Held /\ Stopped)'
<1>1. phase \in Fanouts /\ outcome # "done"
  BY DEF Exit, Exits, FInv, CInv, Quiet, Reporting, Fanouts
<1>2. \A p \in Pages : Ended(p)
  BY DEF Exit, Exits, FInv, CInv, TypeOK, Ended
<1>3. CASE \E v : v # "done" /\ End(v)
  BY <1>2, <1>3, EndReports
<1>4. CASE ~Aborted
  <2> DEFINE txt == text'
  <2>1. Enter(After(phase, txt), txt) /\ UNCHANGED <<failed, outcome, ext, broke>>
    BY <1>4 DEF Exit, Aborted
  <2>2. After(phase, txt) \in {"refine", "repair", "finalize"}
    BY DEF After
  <2> HIDE DEF txt
  <2>3. \A p \in broke : phase = "ocr" => p \in failed
    BY <1>4 DEF FInv, Exit, Exits, Held, Kept
  <2>4. failed = broke
    BY <1>1, <2>3 DEF FInv, Reporting, Fanouts
  <2> QED
    BY <1>1, <1>4, <2>1, <2>2, <2>4, EnterReports DEF Aborted, Fanouts
<1>5. Unwrapped(phase) # "done"
  BY DEF Unwrapped, Signals
<1> QED
  BY <1>3, <1>4, <1>5 DEF Exit, Aborted

LEMMA NextFInv == FInv /\ [Next]_vars => FInv'
<1> SUFFICES ASSUME FInv, [Next]_vars
             PROVE  (Reporting /\ Boxed /\ Broken /\ Held /\ Stopped)'
  BY NextCInv DEF FInv
<1> USE DEF runVars, taskVars, groupVars
<1>1. CASE Convert \/ Layout \/ Finalize \/ Emit
  <2>1. phase \notin Fanouts /\ failed = broke /\ outcome # "done"
    BY <1>1 DEF Convert, Layout, Finalize, Emit, Fanouts, FInv, Reporting
  <2>2. \A p \in Pages : Ended(p)
    BY <2>1 DEF FInv, CInv, Quiet
  <2>3. CASE \E v : End(v)
    BY <2>1, <2>2, <2>3, EndReports
  <2>4. CASE /\ phase' \in {"layout", "emit"} /\ (phase' = "layout" => phase = "convert")
             /\ UNCHANGED <<failed, outcome, ext, taskVars, groupVars, broke>>
    BY <2>1, <2>2, <2>4 DEF FInv, Ended, Reporting, Boxed, Broken, Held, Stopped, Aborted, Fanouts
  <2>5. CASE Layout /\ Enter("ocr", text) /\ UNCHANGED <<failed, outcome, ext, broke>>
    BY <2>1, <2>5, EnterReports DEF Layout, FInv, CInv, Gated, Reporting, Fanouts
  <2> QED
    BY <1>1, <2>3, <2>4, <2>5 DEF Convert, Layout, Finalize, Emit
<1>2. CASE \E p \in Pages : Task(p)
  BY <1>2, TaskReports
<1>3. CASE Group
  BY <1>3, HearReports, TakeReports, HandledReports, LeaveReports, ExitReports DEF Group
<1>4. CASE Ask
  BY <1>4 DEF Ask, FInv, Reporting, Boxed, Broken, Held, Kept, Stopped, Started, Aborted
<1>5. CASE CancelTask
  <2>1. outcome # "done" /\ phase # "over"
    BY <1>5 DEF CancelTask, FInv, Reporting
  <2>2. Aborted'
    BY <1>5 DEF CancelTask, Aborted
  <2>3. CASE phase \in Fanouts
    BY <1>5, <2>1, <2>2, <2>3 DEF CancelTask, FInv, Reporting, Boxed, Broken, Held, Stopped
  <2>4. CASE phase \notin Fanouts
    <3>1. \A p \in Pages : Ended(p)
      BY <2>4 DEF FInv, CInv, Quiet
    <3> QED
      BY <1>5, <2>2, <2>4, <3>1 DEF CancelTask, FInv, Ended, Reporting, Boxed, Broken, Held, Stopped
  <2> QED
    BY <2>3, <2>4
<1>6. CASE UNCHANGED vars
  BY <1>6 DEF vars, FInv, Reporting, Boxed, Broken, Held, Kept, Stopped, Started, Aborted
<1> QED
  BY <1>1, <1>2, <1>3, <1>4, <1>5, <1>6 DEF Next

LEMMA InitFInv == Init => FInv
BY InitCInv, PagesAssumption
   DEF Init, Fresh, FInv, Reporting, Boxed, Broken, Held, Stopped

\* A run that succeeds reports every page whose OCR failed, and no other: a
\* failure is not lost between its task, the group's callback and the body,
\* whichever other pages end, fail or cancel the group in between.
THEOREM FailuresNotLost == Spec => []FailuresReported
<1>1. FInv => FailuresReported
  BY DEF FInv, Reporting, FailuresReported
<1> QED
  BY <1>1, InitFInv, NextFInv, PTL DEF Spec

-----------------------------------------------------------------------------
(* Texts.                                                                  *)

\* The tasks of the refine phase are those of empty blocks, and a block stays
\* empty until the body takes its task, which it does once.
Waits(p) == at[p] # "none" /\ (p \in told => p \in inbox)
Unwritten == phase = "refine" => \A p \in Pages : Waits(p) => text[p] = "none"
XInv == FInv /\ Unwritten

\* The confidence of a text, the action property's measure; refine's end may
\* empty a block again that it had a task for.
Emptied(p) ==
  phase = "refine" /\ at[p] # "none" /\ (phase # "refine" /\ text[p] = "none")'
Steady == \A p \in Pages :
  phase \in {"refine", "repair"} => Confidence(text[p]) <= Confidence(text[p])' \/ Emptied(p)

LEMMA ConfidenceType == \A t : Confidence(t) \in Nat /\ 0 <= Confidence(t)
BY DEF Confidence

LEMMA UnchangedSteady == UNCHANGED text => Steady
BY ConfidenceType DEF Steady

\* Only the repair of a page, and the body that takes one, writes a text.
LEMMA TaskTexts ==
  ASSUME XInv, NEW p \in Pages, Task(p)
  PROVE  Unwritten' /\ Steady
<1>1. TaskStep(p)
  BY TaskSteps DEF XInv, FInv, CInv
<1>2. CASE Repair(p)
  <2>1. Unwritten'
    BY <1>2 DEF Repair, Unwritten
  <2>2. PICK t : /\ text' = [text EXCEPT ![p] = t]
                 /\ t = text[p] \/ Accepts(text[p], t)
    BY <1>2 DEF Repair, XInv, FInv, CInv, TypeOK
  <2>3. text'[p] = t /\ \A q \in Pages \ {p} : text'[q] = text[q]
    BY <2>2 DEF XInv, FInv, CInv, TypeOK
  <2>4. Confidence(text[p]) <= Confidence(t)
    BY <2>2, ConfidenceType DEF Accepts
  <2>5. ASSUME NEW q \in Pages PROVE Confidence(text[q]) <= Confidence(text'[q])
    BY <2>3, <2>4, ConfidenceType
  <2>6. Steady
    BY <2>5 DEF Steady, Confidence
  <2> QED
    BY <2>1, <2>6
<1>3. CASE ~Repair(p)
  <2>1. UNCHANGED text
    BY <1>3 DEF Task, Admit, Read, Answer, CloseBoxes, Cancelled, ReadBox, AnswerBox, runVars
  <2>2. Unwritten'
    BY <1>1, <2>1 DEF XInv, Unwritten, Waits, TaskStep, groupVars, Open
  <2> QED
    BY <2>1, <2>2, UnchangedSteady
<1> QED
  BY <1>2, <1>3

LEMMA TakeTexts ==
  ASSUME XInv, NEW p \in Pages, Take(p)
  PROVE  Unwritten' /\ Steady
<1>1. p \notin inbox' /\ p \in told' /\ inbox' = inbox \ {p} /\ UNCHANGED <<phase, at, told>>
  BY DEF Take, taskVars, XInv, FInv, CInv, TypeOK
<1>2. Waits(p)
  BY DEF Take, Waits, XInv, FInv, CInv, TypeOK
<1>3. CASE phase = "repair"
  BY <1>1, <1>3, UnchangedSteady DEF Take, Unwritten
<1>4. CASE phase # "repair"
  <2>1. text' = [text EXCEPT ![p] = got[p]]
    BY <1>4 DEF Take
  <2>2. \A q \in Pages \ {p} : text'[q] = text[q]
    BY <2>1 DEF XInv, FInv, CInv, TypeOK
  <2>3. Unwritten'
    BY <1>1, <2>2 DEF XInv, Unwritten, Waits
  <2>4. ASSUME NEW q \in Pages, phase = "refine"
        PROVE  Confidence(text[q]) <= Confidence(text'[q])
    <3>1. CASE q = p
      <4>1. text[p] = "none"
        BY <1>2, <2>4 DEF XInv, Unwritten
      <4>2. Confidence(text[p]) = 0
        BY <4>1 DEF Confidence
      <4> QED
        BY <3>1, <4>2, ConfidenceType
    <3>2. CASE q # p
      BY <2>2, <3>2, ConfidenceType
    <3> QED
      BY <3>1, <3>2
  <2>5. Steady
    BY <1>4, <2>4 DEF Steady, Confidence
  <2> QED
    BY <2>3, <2>5
<1> QED
  BY <1>3, <1>4

LEMMA NextTexts == XInv /\ [Next]_vars => XInv' /\ Steady
<1> SUFFICES ASSUME XInv, [Next]_vars PROVE Unwritten' /\ Steady
  BY NextFInv DEF XInv
<1> USE DEF runVars, taskVars, groupVars
<1>1. CASE UNCHANGED text /\ (phase' = "refine" => UNCHANGED <<phase, at, told, inbox>>)
  BY <1>1, UnchangedSteady DEF XInv, Unwritten, Waits
<1>2. CASE \E v : End(v)
  BY <1>1, <1>2 DEF End
<1>3. CASE Convert \/ Layout \/ Finalize \/ Emit
  <2>1. CASE Enter("ocr", text) /\ UNCHANGED text
    BY <1>1, <2>1 DEF Enter
  <2>2. CASE UNCHANGED text /\ phase' \in {"layout", "emit"}
    BY <1>1, <2>2
  <2> QED
    BY <1>2, <1>3, <2>1, <2>2 DEF Convert, Layout, Finalize, Emit
<1>4. CASE \E p \in Pages : Task(p)
  BY <1>4, TaskTexts
<1>5. CASE \E p \in Pages : Take(p)
  BY <1>5, TakeTexts
<1>6. CASE \E p \in Pages : Hear(p)
  <2>1. PICK p \in Pages : Hear(p)
    BY <1>6
  <2>2. UNCHANGED <<phase, at, text>> /\ told' = told \cup {p}
    BY <2>1 DEF Hear
  <2>3. inbox \subseteq inbox' /\ inbox' \subseteq inbox \cup {p}
    BY <2>1 DEF Hear
  <2>4. \A q \in Pages : Waits(q)' => Waits(q)
    BY <2>1, <2>2, <2>3 DEF Waits, Hear
  <2>5. Unwritten'
    BY <2>2, <2>4 DEF XInv, Unwritten
  <2> QED
    BY <2>2, <2>5, UnchangedSteady
<1>7. CASE (\E p \in Pages : Handled(p)) \/ Leave \/ Ask \/ UNCHANGED vars
  BY <1>1, <1>7 DEF Handled, Leave, Ask, vars
<1>8. CASE Exit
  <2>1. CASE /\ DropRefined /\ Enter(After(phase, text'), text') /\ UNCHANGED dense
             /\ phase \in Fanouts
    <3> DEFINE txt == text'
               next == After(phase, txt)
    <3>1. phase' = next /\ next \notin {"ocr", phase}
      BY <2>1 DEF Enter, After, Fanouts
    <3>2. next = "refine" => \A p \in Pages : at'[p] # "none" => p \in Todo(next, txt)
      BY <2>1 DEF Enter, Fanouts
    <3>3. next = "refine" => \A p \in Todo(next, txt) : txt[p] = "none"
      BY DEF Todo
    <3>4. Unwritten'
      BY <3>1, <3>2, <3>3 DEF Unwritten, Waits
    <3>5. ASSUME NEW p \in Pages PROVE text'[p] = text[p] \/ Emptied(p)
      BY <2>1, <3>1, DropType DEF Emptied, XInv, FInv, CInv
    <3>6. Steady
      BY <3>5, ConfidenceType DEF Steady, Confidence
    <3> QED
      BY <3>4, <3>6
  <2>2. phase \in Fanouts
    BY <1>8 DEF Exit, Exits, XInv, FInv, CInv, Quiet
  <2> QED
    BY <1>2, <1>8, <2>1, <2>2 DEF Exit
<1>9. CASE CancelTask
  BY <1>1, <1>9 DEF CancelTask
<1> QED
  BY <1>3, <1>4, <1>5, <1>6, <1>7, <1>8, <1>9 DEF Next, Group

\* No step of the refine or repair phase replaces a text by one the heuristic
\* trusts less, whichever attempt fails or is cancelled, except that refine's end
\* may empty a block again that was empty when the phase began.
THEOREM TextsImprove == Spec => TextNeverWorsens
<1>1. Init => XInv
  BY InitFInv DEF Init, XInv, Unwritten
<1>2. XInv /\ [Next]_vars =>
        [\A p \in Pages :
           phase \in {"refine", "repair"} =>
             \/ Confidence(text[p]) <= Confidence(text[p])'
             \/ /\ phase = "refine" /\ at[p] # "none"
                /\ (phase # "refine" /\ text[p] = "none")']_vars
  BY NextTexts DEF Steady, Emptied
<1> QED
  BY <1>1, <1>2, NextTexts, PTL DEF Spec, TextNeverWorsens

-----------------------------------------------------------------------------
(* EventStream: the inductive invariant.                                   *)

\* The buffers and what the streams hold.
StreamTypes ==
  /\ emitted \in [Jobs -> Nat] /\ buffers \in [Jobs -> Seq(Entry)]
  /\ pc \in [Streams -> {"idle", "ended"} \cup Follow]
  /\ follows \in [Streams -> Jobs \cup {None}] /\ cursor \in [Streams -> Nat]
  /\ batch \in [Streams -> Seq(Entry)] /\ delivered \in [Streams -> Seq(Nat)]

\* Numbers and events grow along a buffer and along a backlog.
Rising(q) ==
  \A i, k \in DOMAIN q : i < k => q[i].seq < q[k].seq /\ q[i].event < q[k].event

\* n is the number of an event in q.
Holds(q, n) == \E i \in DOMAIN q : q[i].event = n

\* A buffer: its events have been recorded; as long as it is not pruned, its numbers
\* count the events, the last one is the newest, and the others are in it or lost.
Whole(j) ==
  /\ \A i \in DOMAIN buffers[j] : buffers[j][i].seq = buffers[j][i].event
  /\ buffers[j] = <<>> => emitted[j] = 0
  /\ buffers[j] # <<>> => buffers[j][Len(buffers[j])].event = emitted[j]
  /\ \A n \in 1 .. emitted[j] : n \in lost[j] \/ Holds(buffers[j], n)
Recorded(j) ==
  /\ Rising(buffers[j])
  /\ \A i \in DOMAIN buffers[j] : buffers[j][i].event <= emitted[j]
  /\ j \notin pruned => Whole(j)

\* A stream that has not started holds nothing; a batch is sent until it is empty.
Following(c) ==
  /\ pc[c] = "idle" <=> follows[c] = None
  /\ pc[c] = "idle" => delivered[c] = <<>> /\ cursor[c] = 0
  /\ pc[c] = "send" <=> batch[c] # <<>>

\* What a stream has sent comes before its batch.
Sorted(c) ==
  /\ \A i, k \in DOMAIN delivered[c] : i < k => delivered[c][i] < delivered[c][k]
  /\ Rising(batch[c])
  /\ \A k \in DOMAIN batch[c] :
       /\ batch[c][k].seq > cursor[c]
       /\ \A i \in DOMAIN delivered[c] : delivered[c][i] < batch[c][k].event

\* Both come before what the buffer holds beyond them, pruned or not.
Behind(c, j) ==
  /\ \A i \in DOMAIN delivered[c] : delivered[c][i] <= emitted[j]
  /\ \A k \in DOMAIN batch[c] : batch[c][k].event <= emitted[j]
  /\ \A b \in DOMAIN buffers[j] :
       /\ buffers[j][b].seq > cursor[c] =>
            \A i \in DOMAIN delivered[c] : delivered[c][i] < buffers[j][b].event
       /\ \A k \in DOMAIN batch[c] :
            buffers[j][b].seq > batch[c][k].seq => buffers[j][b].event > batch[c][k].event

\* Up to its cursor a stream has sent what is not lost, and its batch has no holes.
Gapless(c, j) ==
  /\ \A k \in DOMAIN batch[c] : batch[c][k].seq = batch[c][k].event
  /\ \A n \in 1 .. cursor[c] : n \in lost[j] \/ \E i \in DOMAIN delivered[c] : delivered[c][i] = n
  /\ \A k \in DOMAIN batch[c] : \A n \in Nat :
       cursor[c] < n /\ n < batch[c][k].event => n \in lost[j] \/ Holds(batch[c], n)

StreamInv ==
  /\ StreamTypes
  /\ \A j \in Jobs : Recorded(j)
  /\ \A c \in Streams :
       /\ Following(c) /\ Sorted(c)
       /\ \A j \in Jobs : follows[c] = j =>
            Behind(c, j) /\ (j \notin pruned => Gapless(c, j))

-----------------------------------------------------------------------------
(* Induction over the numbers, from the least element of a set of them.    *)

LEMMA LeastNumber ==
  ASSUME NEW S, S \subseteq Nat, S # {}
  PROVE  \E m \in S : \A k \in S : m <= k
<1> DEFINE Below == {ss \in Nat \X Nat : ss[1] < ss[2]}
<1>1. IsWellFoundedOn(Below, Nat)
  BY NatLessThanWellFounded, Zenon DEF OpToRel
<1>2. \E m \in S : \A k \in S : ~(<<k, m>> \in Below)
  <2> HIDE DEF Below
  <2> QED
    BY <1>1, WFMin, Zenon
<1>3. \A k, m \in S : ~(<<k, m>> \in Below) => m <= k
  OBVIOUS
<1> QED
  BY <1>2, <1>3

LEMMA Induction ==
  ASSUME NEW S, S \subseteq Nat, 0 \in S, \A n \in S : n + 1 \in S
  PROVE  S = Nat
<1> SUFFICES ASSUME S # Nat PROVE FALSE
  OBVIOUS
<1> DEFINE B == Nat \ S
<1>1. PICK m \in B : \A k \in B : m <= k
  <2> B \subseteq Nat /\ B # {}
    OBVIOUS
  <2> HIDE DEF B
  <2> QED
    BY LeastNumber
<1>2. m # 0 /\ m \in Nat
  OBVIOUS
<1>3. m - 1 \in S
  BY <1>1, <1>2
<1> QED
  BY <1>1, <1>2, <1>3

-----------------------------------------------------------------------------
(* What Among computes: the elements in T, each from its own place, in their *)
(* order.                                                                    *)

\* A step of the recursion, and the first m of them.
Grown(r, s, T, i) == IF s[i] \in T THEN Append(r, s[i]) ELSE r
Unrolled(s, T, f, m) ==
  f = [i \in 0..m |-> IF i = 0 THEN <<>>
         ELSE IF s[i] \in T THEN Append(f[i - 1], s[i]) ELSE f[i - 1]]

Traced(s, T, f, n) ==
  /\ f[0] = <<>>
  /\ \A m \in Nat : m + 1 <= n => f[m + 1] = Grown(f[m], s, T, m + 1)

LEMMA UnrolledSteps ==
  ASSUME NEW s, NEW T, NEW n \in Nat, NEW f, Unrolled(s, T, f, n)
  PROVE  Traced(s, T, f, n)
<1>1. \A i \in 0..n : f[i] = IF i = 0 THEN <<>>
        ELSE IF s[i] \in T THEN Append(f[i - 1], s[i]) ELSE f[i - 1]
  BY DEF Unrolled
<1>2. f[0] = <<>>
  <2>1. 0 \in 0..n
    OBVIOUS
  <2> QED
    BY <1>1, <2>1
<1>3. ASSUME NEW m \in Nat, m + 1 <= n
      PROVE  f[m + 1] = Grown(f[m], s, T, m + 1)
  <2>1. m + 1 \in 0..n /\ m + 1 # 0 /\ (m + 1) - 1 = m
    BY <1>3
  <2> DEFINE k == m + 1
  <2>2. k \in 0..n /\ k # 0 /\ k - 1 = m
    BY <2>1
  <2> HIDE DEF k
  <2>3. f[k] = IF s[k] \in T THEN Append(f[m], s[k]) ELSE f[m]
    BY <1>1, <2>2
  <2> QED
    BY <2>3 DEF k, Grown
<1> QED
  BY <1>2, <1>3 DEF Traced

LEMMA UnrolledExists ==
  ASSUME NEW s, NEW T
  PROVE  \A m \in Nat : \E f : Unrolled(s, T, f, m)
<1> DEFINE S == {m \in Nat : \E f : Unrolled(s, T, f, m)}
<1>1. 0 \in S
  <2>1. Unrolled(s, T, [i \in 0..0 |-> <<>>], 0)
    BY DEF Unrolled
  <2> QED
    BY <2>1
<1>2. ASSUME NEW m \in S PROVE m + 1 \in S
  <2>1. PICK f : Unrolled(s, T, f, m)
    OBVIOUS
  <2> DEFINE g == [i \in 0..m + 1 |-> IF i <= m THEN f[i]
                     ELSE IF s[m + 1] \in T THEN Append(f[m], s[m + 1]) ELSE f[m]]
  <2>2. \A i \in 0..m : f[i] = IF i = 0 THEN <<>>
          ELSE IF s[i] \in T THEN Append(f[i - 1], s[i]) ELSE f[i - 1]
    BY <2>1 DEF Unrolled
  <2>3. \A i \in 0..m + 1 : g[i] = IF i = 0 THEN <<>>
          ELSE IF s[i] \in T THEN Append(g[i - 1], s[i]) ELSE g[i - 1]
    BY <2>2
  <2>4. Unrolled(s, T, g, m + 1)
    BY <2>3 DEF Unrolled
  <2> QED
    BY <2>4
<1>3. S = Nat
  <2>1. S \subseteq Nat
    OBVIOUS
  <2> HIDE DEF S
  <2> QED
    BY <1>1, <1>2, <2>1, Induction
<1> QED
  BY <1>3

LEMMA AmongUnrolled ==
  ASSUME NEW X, NEW s \in Seq(X), NEW T
  PROVE  \E f : Traced(s, T, f, Len(s)) /\ Among(s, T) = f[Len(s)]
<1>0. Len(s) \in Nat
  OBVIOUS
<1>1. \E f : Unrolled(s, T, f, Len(s))
  BY <1>0, UnrolledExists
<1> DEFINE F == CHOOSE f : Unrolled(s, T, f, Len(s))
<1>2. Among(s, T) = F[Len(s)]
  BY DEF Among, Unrolled
<1>3. Unrolled(s, T, F, Len(s))
  BY <1>1
<1>4. Traced(s, T, F, Len(s))
  <2> HIDE DEF F
  <2> QED
    BY <1>0, <1>3, UnrolledSteps
<1> QED
  BY <1>2, <1>4

\* r picks from the first m elements of s those in T.
Picks(r, s, T, m) ==
  /\ \A i \in DOMAIN r : \E k \in 1..m : r[i] = s[k] /\ s[k] \in T
  /\ \A i1, i2 \in DOMAIN r : i1 < i2 =>
       \E k1, k2 \in 1..m : k1 < k2 /\ r[i1] = s[k1] /\ r[i2] = s[k2]
  /\ \A k \in 1..m : s[k] \in T => \E i \in DOMAIN r : r[i] = s[k]

LEMMA Appended ==
  ASSUME NEW X, NEW r \in Seq(X), NEW x \in X, NEW q, q = Append(r, x)
  PROVE  /\ q \in Seq(X) /\ Len(q) = Len(r) + 1 /\ q[Len(q)] = x
         /\ DOMAIN q = 1..Len(q) /\ DOMAIN r = 1..Len(r) /\ Len(r) \in Nat
         /\ \A i \in DOMAIN r : i \in DOMAIN q /\ q[i] = r[i]
         /\ \A i \in DOMAIN q : i \in DOMAIN r \/ i = Len(q)
OBVIOUS

LEMMA PicksNext ==
  ASSUME NEW X, NEW r \in Seq(X), NEW s \in Seq(X), NEW T, NEW m \in Nat,
         m + 1 <= Len(s), Picks(r, s, T, m),
         NEW q, q = Grown(r, s, T, m + 1)
  PROVE  q \in Seq(X) /\ Picks(q, s, T, m + 1)
<1>0. s[m + 1] \in X /\ 1..m \subseteq 1..m + 1
  OBVIOUS
<1>1. CASE s[m + 1] \notin T
  <2>1. q = r
    BY <1>1 DEF Grown
  <2>2. /\ \A i \in DOMAIN r : \E k \in 1..m : r[i] = s[k] /\ s[k] \in T
        /\ \A i1, i2 \in DOMAIN r : i1 < i2 =>
             \E k1, k2 \in 1..m : k1 < k2 /\ r[i1] = s[k1] /\ r[i2] = s[k2]
        /\ \A k \in 1..m : s[k] \in T => \E i \in DOMAIN r : r[i] = s[k]
    BY DEF Picks
  <2>3. \A k \in 1..m + 1 : s[k] \in T => k \in 1..m
    BY <1>1
  <2>4. \A i \in DOMAIN r : \E k \in 1..m + 1 : r[i] = s[k] /\ s[k] \in T
    BY <1>0, <2>2, Zenon
  <2>5. ASSUME NEW i1 \in DOMAIN r, NEW i2 \in DOMAIN r, i1 < i2
        PROVE  \E k1, k2 \in 1..m + 1 : k1 < k2 /\ r[i1] = s[k1] /\ r[i2] = s[k2]
    <3>1. PICK k1, k2 \in 1..m : k1 < k2 /\ r[i1] = s[k1] /\ r[i2] = s[k2]
      BY <2>2, <2>5
    <3> QED
      BY <1>0, <3>1
  <2>6. \A k \in 1..m + 1 : s[k] \in T => \E i \in DOMAIN r : r[i] = s[k]
    BY <2>2, <2>3, Zenon
  <2>7. Picks(r, s, T, m + 1)
    BY <2>4, <2>5, <2>6, Zenon DEF Picks
  <2> QED
    BY <2>1, <2>7
<1>2. CASE s[m + 1] \in T
  <2>1. q = Append(r, s[m + 1])
    BY <1>2 DEF Grown
  <2>2. /\ q \in Seq(X) /\ Len(q) = Len(r) + 1 /\ q[Len(q)] = s[m + 1]
        /\ DOMAIN q = 1..Len(q) /\ DOMAIN r = 1..Len(r) /\ Len(r) \in Nat
        /\ \A i \in DOMAIN r : i \in DOMAIN q /\ q[i] = r[i]
        /\ \A i \in DOMAIN q : i \in DOMAIN r \/ i = Len(q)
    BY <1>0, <2>1, Appended
  <2>3. \A i \in DOMAIN q : \E k \in 1..m + 1 : q[i] = s[k] /\ s[k] \in T
    <3> SUFFICES ASSUME NEW i \in DOMAIN q
                 PROVE  \E k \in 1..m + 1 : q[i] = s[k] /\ s[k] \in T
      OBVIOUS
    <3>1. CASE i = Len(q)
      BY <1>2, <2>2, <3>1
    <3>2. CASE i \in DOMAIN r
      BY <1>0, <2>2, <3>2 DEF Picks
    <3> QED
      BY <2>2, <3>1, <3>2
  <2>4. ASSUME NEW i1 \in DOMAIN q, NEW i2 \in DOMAIN q, i1 < i2
        PROVE  \E k1, k2 \in 1..m + 1 : k1 < k2 /\ q[i1] = s[k1] /\ q[i2] = s[k2]
    <3>1. i1 \in DOMAIN r
      BY <2>2, <2>4
    <3>2. CASE i2 \in DOMAIN r
      <4>1. PICK k1, k2 \in 1..m : k1 < k2 /\ r[i1] = s[k1] /\ r[i2] = s[k2]
        BY <2>4, <3>1, <3>2 DEF Picks
      <4> QED
        BY <1>0, <2>2, <3>1, <3>2, <4>1
    <3>3. CASE i2 = Len(q)
      <4>1. PICK k1 \in 1..m : r[i1] = s[k1]
        BY <3>1 DEF Picks
      <4>2. k1 < m + 1 /\ m + 1 \in 1..m + 1 /\ q[i2] = s[m + 1]
        BY <2>2, <3>3
      <4> QED
        BY <1>0, <2>2, <3>1, <4>1, <4>2
    <3> QED
      BY <2>2, <3>2, <3>3
  <2>5. ASSUME NEW k \in 1..m + 1, s[k] \in T
        PROVE  \E i \in DOMAIN q : q[i] = s[k]
    <3>1. CASE k = m + 1
      BY <2>2, <3>1
    <3>2. CASE k \in 1..m
      <4>1. PICK i \in DOMAIN r : r[i] = s[k]
        BY <2>5, <3>2 DEF Picks
      <4> QED
        BY <2>2, <4>1
    <3> QED
      BY <3>1, <3>2
  <2> QED
    BY <2>2, <2>3, <2>4, <2>5 DEF Picks
<1> QED
  BY <1>1, <1>2

LEMMA AmongPicks ==
  ASSUME NEW X, NEW s \in Seq(X), NEW T
  PROVE  Among(s, T) \in Seq(X) /\ Picks(Among(s, T), s, T, Len(s))
<1>1. PICK f : Traced(s, T, f, Len(s)) /\ Among(s, T) = f[Len(s)]
  BY AmongUnrolled
<1> DEFINE S == {m \in Nat : m <= Len(s) => f[m] \in Seq(X) /\ Picks(f[m], s, T, m)}
<1>0. Len(s) \in Nat
  OBVIOUS
<1>5. f[0] = <<>> /\ \A m \in Nat : m + 1 <= Len(s) => f[m + 1] = Grown(f[m], s, T, m + 1)
  BY <1>1 DEF Traced
<1>2. 0 \in S
  <2>1. f[0] = <<>>
    BY <1>5
  <2>2. Picks(<<>>, s, T, 0) /\ <<>> \in Seq(X)
    BY DEF Picks
  <2>3. Picks(f[0], s, T, 0) /\ f[0] \in Seq(X)
    BY <2>1, <2>2
  <2> QED
    BY <2>3
<1>3. ASSUME NEW m \in S PROVE m + 1 \in S
  <2> SUFFICES ASSUME m + 1 <= Len(s)
               PROVE  f[m + 1] \in Seq(X) /\ Picks(f[m + 1], s, T, m + 1)
    OBVIOUS
  <2>1. f[m] \in Seq(X) /\ Picks(f[m], s, T, m)
    BY <1>0
  <2>2. f[m + 1] = Grown(f[m], s, T, m + 1)
    BY <1>5
  <2> QED
    BY <2>1, <2>2, PicksNext
<1>4. S = Nat
  <2>1. S \subseteq Nat
    OBVIOUS
  <2> HIDE DEF S
  <2> QED
    BY <1>2, <1>3, <2>1, Induction
<1> QED
  BY <1>0, <1>1, <1>4

\* A backlog: the entries of the buffer beyond the number, in their order.
LEMMA Backlog ==
  ASSUME NEW b \in Seq(Entry), NEW n \in Nat, NEW r, r = Beyond(b, n)
  PROVE  /\ r \in Seq(Entry)
         /\ \A i \in DOMAIN r : \E k \in DOMAIN b : r[i] = b[k] /\ b[k].seq > n
         /\ \A k \in DOMAIN b : b[k].seq > n => \E i \in DOMAIN r : r[i] = b[k]
         /\ Rising(b) => Rising(r)
<1> DEFINE T == {e \in ToSet(b) : e.seq > n}
<1>1. r = Among(b, T)
  BY DEF Beyond
<1>2. /\ DOMAIN b = 1..Len(b)
      /\ \A k \in DOMAIN b : b[k] \in T <=> b[k].seq > n
  BY DEF ToSet
<1> HIDE DEF T
<1>3. r \in Seq(Entry) /\ Picks(r, b, T, Len(b))
  BY <1>1, AmongPicks
<1>4. \A i \in DOMAIN r : \E k \in DOMAIN b : r[i] = b[k] /\ b[k].seq > n
  BY <1>2, <1>3 DEF Picks
<1>5. \A k \in DOMAIN b : b[k].seq > n => \E i \in DOMAIN r : r[i] = b[k]
  BY <1>2, <1>3 DEF Picks
<1>6. ASSUME Rising(b) PROVE Rising(r)
  <2> SUFFICES ASSUME NEW i1 \in DOMAIN r, NEW i2 \in DOMAIN r, i1 < i2
               PROVE  r[i1].seq < r[i2].seq /\ r[i1].event < r[i2].event
    BY DEF Rising
  <2>1. PICK k1, k2 \in 1..Len(b) : k1 < k2 /\ r[i1] = b[k1] /\ r[i2] = b[k2]
    BY <1>3 DEF Picks
  <2> QED
    BY <1>2, <1>6, <2>1 DEF Rising
<1> QED
  BY <1>3, <1>4, <1>5, <1>6

-----------------------------------------------------------------------------
(* The steps.                                                              *)

LEMMA InitStream == StreamInit => StreamInv
<1> SUFFICES ASSUME StreamInit PROVE StreamInv
  OBVIOUS
<1>1. StreamTypes
  BY DEF StreamInit, StreamTypes
<1>2. ASSUME NEW j \in Jobs PROVE Recorded(j)
  BY DEF StreamInit, Recorded, Rising, Whole
<1>3. ASSUME NEW c \in Streams
      PROVE  Following(c) /\ Sorted(c) /\ \A j \in Jobs : follows[c] # j
  BY JobsAssumption DEF StreamInit, Following, Sorted, Rising
<1> QED
  BY <1>1, <1>2, <1>3 DEF StreamInv

\* A consumer moves on without a batch, or anything else that the invariant does
\* not see changes.
LEMMA StreamMoves ==
  ASSUME StreamInv,
         UNCHANGED <<emitted, buffers, follows, cursor, batch, delivered, lost, pruned>>,
         pc' \in [Streams -> {"idle", "ended"} \cup Follow],
         \A c \in Streams : (pc'[c] = "idle" <=> pc[c] = "idle")
                            /\ (pc'[c] = "send" <=> pc[c] = "send")
  PROVE  StreamInv'
<1>1. StreamTypes'
  BY DEF StreamInv, StreamTypes
<1>2. ASSUME NEW j \in Jobs PROVE Recorded(j)'
  BY DEF StreamInv, Recorded, Rising, Whole, Holds
<1>3. ASSUME NEW c \in Streams
      PROVE  /\ Following(c)' /\ Sorted(c)'
             /\ \A j \in Jobs : follows'[c] = j => Behind(c, j)' /\ (j \notin pruned' => Gapless(c, j)')
  <2>1. Following(c)'
    BY DEF StreamInv, Following
  <2>2. Sorted(c)'
    BY DEF StreamInv, Sorted, Rising
  <2>3. ASSUME NEW j \in Jobs, follows'[c] = j PROVE Behind(c, j)'
    BY <2>3 DEF StreamInv, Behind
  <2>4. ASSUME NEW j \in Jobs, follows'[c] = j, j \notin pruned' PROVE Gapless(c, j)'
    BY <2>4 DEF StreamInv, Gapless, Holds
  <2> QED
    BY <2>1, <2>2, <2>3, <2>4
<1> QED
  BY <1>1, <1>2, <1>3 DEF StreamInv

\* The queue's steps, and those of a consumer that look at the backend or wait.
LEMMA StreamQuiet ==
  ASSUME StreamInv,
         \/ \E j \in Followed : Flag(j) \/ Unflag(j) \/ Finish(j) \/ Clear(j)
         \/ \E j \in Jobs : Submit(j)
         \/ \E c \in Streams :
              Resume(c) \/ AskBackend(c) \/ AskFails(c) \/ Park(c) \/ WakeUp(c)
  PROVE  StreamInv'
<1>1. UNCHANGED <<emitted, buffers, follows, cursor, batch, delivered, lost, pruned>>
  BY DEF Flag, Unflag, Finish, Clear, Submit, Resume, AskBackend, AskFails, Park, WakeUp,
         jobVars, serviceVars, streamVars, historyVars
<1>2. CASE UNCHANGED pc
  BY <1>1, <1>2, StreamMoves DEF StreamInv, StreamTypes
<1>3. CASE \E c \in Streams :
             Resume(c) \/ AskBackend(c) \/ AskFails(c) \/ Park(c) \/ WakeUp(c)
  <2>1. PICK c \in Streams :
          Resume(c) \/ AskBackend(c) \/ AskFails(c) \/ Park(c) \/ WakeUp(c)
    BY <1>3
  <2>2. pc[c] \in {"resume", "ask", "again", "park", "wait"}
    BY <2>1 DEF Resume, AskBackend, AskFails, Park, WakeUp
  <2>3. \E next \in {"ended", "ask", "park", "read", "wait", "again"} :
          pc' = [pc EXCEPT ![c] = next]
    <3>1. CASE Resume(c)
      BY <3>1 DEF Resume, EndOrAsk
    <3>2. CASE AskBackend(c)
      BY <3>2 DEF AskBackend
    <3>3. CASE AskFails(c)
      BY <3>3 DEF AskFails
    <3>4. CASE Park(c)
      BY <3>4 DEF Park
    <3>5. CASE WakeUp(c)
      BY <3>5 DEF WakeUp
    <3> QED
      BY <2>1, <3>1, <3>2, <3>3, <3>4, <3>5
  <2>4. PICK next \in {"ended", "ask", "park", "read", "wait", "again"} :
          pc' = [pc EXCEPT ![c] = next]
    BY <2>3
  <2>5. pc \in [Streams -> {"idle", "ended"} \cup Follow]
    BY DEF StreamInv, StreamTypes
  <2>6. pc' \in [Streams -> {"idle", "ended"} \cup Follow]
    BY <2>4, <2>5 DEF Follow, Waiting
  <2>7. \A d \in Streams : (pc'[d] = "idle" <=> pc[d] = "idle")
                           /\ (pc'[d] = "send" <=> pc[d] = "send")
    BY <2>2, <2>4, <2>5
  <2> QED
    BY <1>1, <2>6, <2>7, StreamMoves
<1>4. CASE ~\E c \in Streams :
             Resume(c) \/ AskBackend(c) \/ AskFails(c) \/ Park(c) \/ WakeUp(c)
  <2>1. UNCHANGED pc
    BY <1>4 DEF Flag, Unflag, Finish, Clear, Submit, jobVars, serviceVars, streamVars,
       historyVars
  <2> QED
    BY <1>2, <2>1
<1> QED
  BY <1>3, <1>4

\* One consumer's step leaves the buffers and the others alone.
LEMMA OneStream ==
  ASSUME StreamInv, NEW c \in Streams,
         UNCHANGED <<emitted, buffers, lost, pruned>>, StreamTypes',
         \A d \in Streams \ {c} :
           /\ pc'[d] = pc[d] /\ follows'[d] = follows[d] /\ cursor'[d] = cursor[d]
           /\ batch'[d] = batch[d] /\ delivered'[d] = delivered[d],
         Following(c)', Sorted(c)',
         \A j \in Jobs : follows'[c] = j => Behind(c, j)' /\ (j \notin pruned => Gapless(c, j)')
  PROVE  StreamInv'
<1>1. ASSUME NEW j \in Jobs PROVE Recorded(j)'
  BY DEF StreamInv, Recorded, Rising, Whole, Holds
<1>2. ASSUME NEW d \in Streams, d # c
      PROVE  /\ Following(d)' /\ Sorted(d)'
             /\ \A j \in Jobs : follows'[d] = j =>
                  Behind(d, j)' /\ (j \notin pruned' => Gapless(d, j)')
  <2>0. /\ pc'[d] = pc[d] /\ follows'[d] = follows[d] /\ cursor'[d] = cursor[d]
        /\ batch'[d] = batch[d] /\ delivered'[d] = delivered[d]
    BY <1>2
  <2>1. Following(d)'
    BY <2>0 DEF StreamInv, Following
  <2>2. Sorted(d)'
    BY <2>0 DEF StreamInv, Sorted, Rising
  <2>3. ASSUME NEW j \in Jobs, follows'[d] = j PROVE Behind(d, j)'
    BY <2>0, <2>3 DEF StreamInv, Behind
  <2>4. ASSUME NEW j \in Jobs, follows'[d] = j, j \notin pruned' PROVE Gapless(d, j)'
    BY <2>0, <2>4 DEF StreamInv, Gapless, Holds
  <2> QED
    BY <2>1, <2>2, <2>3, <2>4
<1>3. \A d \in Streams :
        /\ Following(d)' /\ Sorted(d)'
        /\ \A j \in Jobs : follows'[d] = j => Behind(d, j)' /\ (j \notin pruned' => Gapless(d, j)')
  BY <1>2
<1> QED
  BY <1>1, <1>3 DEF StreamInv

LEMMA StreamSubscribes ==
  ASSUME StreamInv, NEW c \in Streams, NEW j \in Followed, Subscribe(c, j)
  PROVE  StreamInv'
<1>0. StreamTypes /\ Following(c) /\ Sorted(c) /\ j \in Jobs /\ j # None
  BY JobsAssumption DEF StreamInv
<1>1. /\ UNCHANGED <<emitted, buffers, lost, pruned, cursor, batch, delivered>>
      /\ pc[c] = "idle" /\ pc' = [pc EXCEPT ![c] = "read"] /\ follows' = [follows EXCEPT ![c] = j]
  BY DEF Subscribe, jobVars, serviceVars, historyVars
<1>2. delivered[c] = <<>> /\ cursor[c] = 0 /\ batch[c] = <<>>
  BY <1>0, <1>1 DEF Following
<1>3. StreamTypes'
  BY <1>0, <1>1 DEF StreamTypes, Follow
<1>4. pc'[c] = "read" /\ follows'[c] = j
  BY <1>0, <1>1 DEF StreamTypes
<1>5. \A d \in Streams \ {c} :
           /\ pc'[d] = pc[d] /\ follows'[d] = follows[d] /\ cursor'[d] = cursor[d]
           /\ batch'[d] = batch[d] /\ delivered'[d] = delivered[d]
  BY <1>0, <1>1 DEF StreamTypes
<1>6. Following(c)'
  BY <1>0, <1>1, <1>2, <1>4 DEF Following
<1>7. Sorted(c)'
  BY <1>1, <1>2 DEF Sorted, Rising
<1>8. Behind(c, j)' /\ Gapless(c, j)'
  BY <1>1, <1>2 DEF Behind, Gapless
<1> QED
  BY <1>1, <1>3, <1>4, <1>5, <1>6, <1>7, <1>8, OneStream

LEMMA EntryParts ==
  ASSUME NEW q \in Seq(Entry), NEW i \in DOMAIN q
  PROVE  i \in Nat \ {0} /\ q[i] \in Entry /\ q[i].seq \in Nat \ {0} /\ q[i].event \in Nat
<1>1. i \in Nat \ {0} /\ q[i] \in Entry
  OBVIOUS
<1> QED
  BY <1>1 DEF Entry

LEMMA StreamReads ==
  ASSUME StreamInv, NEW c \in Streams, ReadBacklog(c),
         NEW j, j = follows[c], NEW r, r = Unseen(c)
  PROVE  StreamInv'
<1>0. StreamTypes /\ Following(c) /\ Sorted(c) /\ \A k \in Jobs : Recorded(k)
  BY DEF StreamInv
<1>1. /\ UNCHANGED <<emitted, buffers, lost, pruned, follows, cursor, delivered>>
      /\ pc[c] = "read" /\ batch' = [batch EXCEPT ![c] = r]
  BY DEF ReadBacklog, jobVars, historyVars
<1>2. \E next \in {"send", "ended", "ask"} :
        pc' = [pc EXCEPT ![c] = next] /\ (next = "send" <=> r # <<>>)
  <2>1. CASE r = <<>>
    BY <2>1 DEF ReadBacklog, EndOrAsk
  <2>2. CASE r # <<>>
    BY <2>2 DEF ReadBacklog
  <2> QED
    BY <2>1, <2>2
<1>3. j \in Jobs /\ Behind(c, j) /\ (j \notin pruned => Gapless(c, j)) /\ Recorded(j)
  BY <1>0, <1>1, JobsAssumption DEF Following, StreamTypes, StreamInv
<1>4. /\ r \in Seq(Entry)
      /\ \A i \in DOMAIN r : \E k \in DOMAIN buffers[j] :
           r[i] = buffers[j][k] /\ buffers[j][k].seq > cursor[c]
      /\ \A k \in DOMAIN buffers[j] : buffers[j][k].seq > cursor[c] =>
           \E i \in DOMAIN r : r[i] = buffers[j][k]
      /\ Rising(buffers[j]) => Rising(r)
  <2>1. buffers[j] \in Seq(Entry) /\ cursor[c] \in Nat /\ r = Beyond(buffers[j], cursor[c])
    BY <1>0, <1>3 DEF StreamTypes, Unseen
  <2> QED
    BY <2>1, Backlog
<1>5. StreamTypes'
  BY <1>0, <1>1, <1>2, <1>4 DEF StreamTypes, Follow
<1>6. batch'[c] = r
  BY <1>0, <1>1 DEF StreamTypes
<1>7. \A d \in Streams \ {c} :
           /\ pc'[d] = pc[d] /\ follows'[d] = follows[d] /\ cursor'[d] = cursor[d]
           /\ batch'[d] = batch[d] /\ delivered'[d] = delivered[d]
  BY <1>0, <1>1, <1>2 DEF StreamTypes
<1>8. Following(c)'
  <2>1. PICK next \in {"send", "ended", "ask"} :
          pc' = [pc EXCEPT ![c] = next] /\ (next = "send" <=> r # <<>>)
    BY <1>2
  <2>2. pc'[c] = next
    BY <1>0, <2>1 DEF StreamTypes
  <2> QED
    BY <1>0, <1>1, <1>6, <2>1, <2>2 DEF Following
<1>9. Sorted(c)'
  <2>1. Rising(r)
    BY <1>3, <1>4 DEF Recorded
  <2>2. ASSUME NEW i \in DOMAIN r
        PROVE  r[i].seq > cursor[c] /\ \A d \in DOMAIN delivered[c] : delivered[c][d] < r[i].event
    <3>1. PICK k \in DOMAIN buffers[j] : r[i] = buffers[j][k] /\ buffers[j][k].seq > cursor[c]
      BY <1>4
    <3> QED
      BY <1>3, <3>1 DEF Behind
  <2> QED
    BY <1>0, <1>1, <1>6, <2>1, <2>2 DEF Sorted, Rising
<1>10. Behind(c, j)'
  <2>1. ASSUME NEW i \in DOMAIN r
        PROVE  /\ r[i].event <= emitted[j]
               /\ \A b \in DOMAIN buffers[j] :
                    buffers[j][b].seq > r[i].seq => buffers[j][b].event > r[i].event
    <3>1. PICK k \in DOMAIN buffers[j] : r[i] = buffers[j][k]
      BY <1>4
    <3>2. r[i].event <= emitted[j]
      BY <1>3, <3>1 DEF Recorded
    <3>3. ASSUME NEW b \in DOMAIN buffers[j], buffers[j][b].seq > r[i].seq
          PROVE  buffers[j][b].event > r[i].event
      <4>0. buffers[j] \in Seq(Entry)
        BY <1>0, <1>3 DEF StreamTypes
      <4>1. /\ buffers[j][b].seq \in Nat /\ buffers[j][k].seq \in Nat
            /\ buffers[j][b].event \in Nat /\ buffers[j][k].event \in Nat
            /\ b \in Nat /\ k \in Nat
        BY <4>0, EntryParts
      <4>2. k < b
        BY <1>3, <3>1, <3>3, <4>1 DEF Recorded, Rising
      <4> QED
        BY <1>3, <3>1, <4>1, <4>2 DEF Recorded, Rising
    <3> QED
      BY <3>2, <3>3
  <2> QED
    BY <1>1, <1>3, <1>6, <2>1 DEF Behind
<1>11. ASSUME j \notin pruned PROVE Gapless(c, j)'
  <2>1. Whole(j) /\ Gapless(c, j)
    BY <1>3, <1>11 DEF Recorded
  <2>2. ASSUME NEW i \in DOMAIN r
        PROVE  /\ r[i].seq = r[i].event
               /\ \A n \in Nat : cursor[c] < n /\ n < r[i].event => n \in lost[j] \/ Holds(r, n)
    <3>1. PICK k \in DOMAIN buffers[j] : r[i] = buffers[j][k]
      BY <1>4
    <3>2. r[i].seq = r[i].event /\ r[i].event <= emitted[j]
      BY <1>3, <2>1, <3>1 DEF Whole, Recorded
    <3>3. ASSUME NEW n \in Nat, cursor[c] < n, n < r[i].event, n \notin lost[j]
          PROVE  Holds(r, n)
      <4>0. r[i].event \in Nat /\ emitted[j] \in Nat /\ cursor[c] \in Nat
        BY <1>0, <1>3, <1>4, EntryParts DEF StreamTypes
      <4>1. n \in 1 .. emitted[j]
        BY <3>2, <3>3, <4>0
      <4>2. PICK b \in DOMAIN buffers[j] : buffers[j][b].event = n
        BY <2>1, <3>3, <4>1 DEF Whole, Holds
      <4>3. buffers[j][b].seq > cursor[c]
        BY <2>1, <3>3, <4>0, <4>2 DEF Whole
      <4> QED
        BY <1>4, <4>2, <4>3 DEF Holds
    <3> QED
      BY <3>2, <3>3
  <2> QED
    BY <1>1, <1>6, <2>1, <2>2 DEF Gapless, Holds
<1>12. follows'[c] = j
  BY <1>1
<1> QED
  BY <1>1, <1>3, <1>5, <1>7, <1>8, <1>9, <1>10, <1>11, <1>12, OneStream

\* r is q without its first element.
Behead(r, q) ==
  /\ 1 \in DOMAIN q /\ Head(q) = q[1]
  /\ \A i \in DOMAIN r : i \in Nat /\ i + 1 \in DOMAIN q /\ i + 1 # 1 /\ r[i] = q[i + 1]
  /\ \A k \in DOMAIN q : k # 1 => \E i \in DOMAIN r : i + 1 = k /\ r[i] = q[k]

LEMMA Tailed ==
  ASSUME NEW X, NEW q \in Seq(X), q # <<>>, NEW r, r = Tail(q)
  PROVE  r \in Seq(X) /\ Behead(r, q)
<1>1. 1 \in DOMAIN q /\ Head(q) = q[1] /\ r \in Seq(X)
  OBVIOUS
<1>2. ASSUME NEW i \in DOMAIN r
      PROVE  i \in Nat /\ i + 1 \in DOMAIN q /\ i + 1 # 1 /\ r[i] = q[i + 1]
  OBVIOUS
<1>3. ASSUME NEW k \in DOMAIN q, k # 1
      PROVE  \E i \in DOMAIN r : i + 1 = k /\ r[i] = q[k]
  <2>1. k - 1 \in DOMAIN r /\ (k - 1) + 1 = k /\ r[k - 1] = q[k]
    BY <1>3
  <2> QED
    BY <2>1
<1> QED
  BY <1>1, <1>2, <1>3 DEF Behead

LEMMA StreamSends ==
  ASSUME StreamInv, NEW c \in Streams, Send(c),
         NEW j, j = follows[c], NEW q, q = batch[c], NEW r, r = Tail(q), NEW d, d = delivered[c]
  PROVE  StreamInv'
<1>0. StreamTypes /\ Following(c) /\ Sorted(c) /\ \A k \in Jobs : Recorded(k)
  BY DEF StreamInv
<1>1. /\ UNCHANGED <<emitted, buffers, lost, pruned, follows>>
      /\ pc[c] = "send" /\ batch' = [batch EXCEPT ![c] = Tail(@)]
      /\ cursor' = [cursor EXCEPT ![c] = Head(q).seq]
      /\ delivered' = [delivered EXCEPT ![c] = Append(@, Head(q).event)]
      /\ pc' = [pc EXCEPT ![c] = IF Tail(q) = <<>> THEN "resume" ELSE "send"]
  BY DEF Send, jobVars, serviceVars, historyVars
<1>2. /\ j \in Jobs /\ Behind(c, j) /\ (j \notin pruned => Gapless(c, j)) /\ Recorded(j)
      /\ q # <<>> /\ q \in Seq(Entry) /\ d \in Seq(Nat)
  BY <1>0, <1>1, JobsAssumption DEF Following, StreamTypes, StreamInv
<1>3. /\ 1 \in DOMAIN q /\ Head(q) = q[1] /\ r \in Seq(Entry)
      /\ \A i \in DOMAIN r : i \in Nat /\ i + 1 \in DOMAIN q /\ i + 1 # 1 /\ r[i] = q[i + 1]
      /\ \A k \in DOMAIN q : k # 1 => \E i \in DOMAIN r : i + 1 = k /\ r[i] = q[k]
  <2>1. r \in Seq(Entry) /\ Behead(r, q)
    BY <1>2, Tailed
  <2> QED
    BY <2>1 DEF Behead
<1>4. /\ \A k \in DOMAIN q : k \in Nat \ {0} /\ q[k].seq \in Nat \ {0} /\ q[k].event \in Nat
      /\ cursor[c] \in Nat
  BY <1>0, <1>2, EntryParts DEF StreamTypes
<1> DEFINE y == Append(d, q[1].event)
<1>5. /\ y \in Seq(Nat) /\ Len(y) = Len(d) + 1 /\ y[Len(y)] = q[1].event
      /\ DOMAIN y = 1..Len(y) /\ DOMAIN d = 1..Len(d) /\ Len(d) \in Nat
      /\ \A i \in DOMAIN d : i \in DOMAIN y /\ y[i] = d[i]
      /\ \A i \in DOMAIN y : i \in DOMAIN d \/ i = Len(y)
  BY <1>2, <1>3, <1>4, Appended, SMTT(30)
<1>6. /\ batch'[c] = r /\ cursor'[c] = q[1].seq /\ delivered'[c] = y
      /\ pc'[c] = IF r = <<>> THEN "resume" ELSE "send"
  BY <1>0, <1>1, <1>3 DEF StreamTypes
<1> HIDE DEF y
<1>7. StreamTypes'
  <2>1. pc' \in [Streams -> {"idle", "ended"} \cup Follow]
    BY <1>0, <1>1 DEF StreamTypes, Follow
  <2>2. cursor' \in [Streams -> Nat]
    BY <1>0, <1>1, <1>3, <1>4 DEF StreamTypes
  <2>3. batch' \in [Streams -> Seq(Entry)]
    BY <1>0, <1>1, <1>2, <1>3 DEF StreamTypes
  <2>4. delivered' \in [Streams -> Seq(Nat)]
    BY <1>0, <1>1, <1>3, <1>5, <1>6 DEF StreamTypes
  <2> QED
    BY <1>0, <1>1, <2>1, <2>2, <2>3, <2>4 DEF StreamTypes
<1>8. \A x \in Streams \ {c} :
           /\ pc'[x] = pc[x] /\ follows'[x] = follows[x] /\ cursor'[x] = cursor[x]
           /\ batch'[x] = batch[x] /\ delivered'[x] = delivered[x]
  BY <1>0, <1>1 DEF StreamTypes
<1>9. Following(c)'
  <2>1. pc'[c] # "idle" /\ follows'[c] # None /\ (pc'[c] = "send" <=> batch'[c] # <<>>)
    <3>1. follows'[c] # None
      BY <1>1, <1>2, JobsAssumption
    <3>2. CASE r = <<>>
      <4>1. pc'[c] = "resume" /\ batch'[c] = <<>>
        BY <1>6, <3>2
      <4> QED
        BY <3>1, <4>1
    <3>3. CASE r # <<>>
      <4>1. pc'[c] = "send" /\ batch'[c] # <<>>
        BY <1>6, <3>3
      <4> QED
        BY <3>1, <4>1
    <3> QED
      BY <3>2, <3>3
  <2> QED
    BY <2>1 DEF Following
<1>10. /\ \A i, k \in DOMAIN d : i < k => d[i] < d[k]
       /\ \A i, k \in DOMAIN q : i < k => q[i].seq < q[k].seq /\ q[i].event < q[k].event
       /\ \A k \in DOMAIN q : q[k].seq > cursor[c] /\ \A i \in DOMAIN d : d[i] < q[k].event
  BY <1>0 DEF Sorted, Rising
<1>11. \A i \in DOMAIN r : q[1].seq < r[i].seq /\ q[1].event < r[i].event
  BY <1>3, <1>4, <1>10
<1>12. Sorted(c)'
  <2>1. ASSUME NEW i \in DOMAIN y, NEW k \in DOMAIN y, i < k PROVE y[i] < y[k]
    <3>1. i \in DOMAIN d
      BY <1>5, <2>1
    <3>2. CASE k \in DOMAIN d
      BY <1>5, <1>10, <2>1, <3>1, <3>2
    <3>3. CASE k = Len(y)
      BY <1>3, <1>5, <1>10, <3>1, <3>3
    <3> QED
      BY <1>5, <3>2, <3>3
  <2>2. ASSUME NEW i \in DOMAIN r, NEW k \in DOMAIN r, i < k
        PROVE  r[i].seq < r[k].seq /\ r[i].event < r[k].event
    <3>1. i + 1 < k + 1 /\ i + 1 \in DOMAIN q /\ k + 1 \in DOMAIN q
      BY <1>3, <2>2
    <3> QED
      BY <1>3, <1>10, <3>1, SMTT(30)
  <2>3. ASSUME NEW k \in DOMAIN r
        PROVE  r[k].seq > q[1].seq /\ \A i \in DOMAIN y : y[i] < r[k].event
    <3>1. r[k].seq > q[1].seq /\ q[1].event < r[k].event
      BY <1>3, <1>4, <1>11
    <3>2. ASSUME NEW i \in DOMAIN y PROVE y[i] < r[k].event
      <4>1. CASE i = Len(y)
        BY <1>5, <3>1, <4>1
      <4>2. CASE i \in DOMAIN d
        BY <1>3, <1>5, <1>10, <4>2, ZenonT(30)
      <4> QED
        BY <1>5, <4>1, <4>2
    <3> QED
      BY <3>1, <3>2
  <2> QED
    BY <1>6, <2>1, <2>2, <2>3 DEF Sorted, Rising
<1>13. Behind(c, j)'
  <2>1. ASSUME NEW i \in DOMAIN y PROVE y[i] <= emitted[j]
    <3>1. CASE i = Len(y)
      BY <1>2, <1>3, <1>5, <3>1 DEF Behind
    <3>2. CASE i \in DOMAIN d
      BY <1>2, <1>5, <3>2 DEF Behind
    <3> QED
      BY <1>5, <3>1, <3>2
  <2>2. \A k \in DOMAIN r : r[k].event <= emitted[j]
    BY <1>2, <1>3 DEF Behind
  <2>3. ASSUME NEW b \in DOMAIN buffers[j]
        PROVE  /\ buffers[j][b].seq > q[1].seq =>
                    \A i \in DOMAIN y : y[i] < buffers[j][b].event
               /\ \A k \in DOMAIN r :
                    buffers[j][b].seq > r[k].seq => buffers[j][b].event > r[k].event
    <3>0. /\ buffers[j][b].seq \in Nat /\ buffers[j][b].event \in Nat
          /\ \A i \in DOMAIN d : d[i] \in Nat
      <4>1. buffers[j] \in Seq(Entry)
        BY <1>0, <1>2 DEF StreamTypes
      <4> QED
        BY <1>2, <4>1, EntryParts
    <3>1. ASSUME buffers[j][b].seq > q[1].seq, NEW i \in DOMAIN y
          PROVE  y[i] < buffers[j][b].event
      <4>1. CASE i = Len(y)
        <5>1. buffers[j][b].event > q[1].event
          BY <1>2, <1>3, <3>1 DEF Behind
        <5> QED
          BY <1>3, <1>4, <1>5, <3>0, <4>1, <5>1
      <4>2. CASE i \in DOMAIN d
        <5>1. buffers[j][b].seq > cursor[c]
          BY <1>3, <1>4, <1>10, <3>0, <3>1
        <5> QED
          BY <1>2, <1>5, <4>2, <5>1 DEF Behind
      <4> QED
        BY <1>5, <4>1, <4>2
    <3>2. \A k \in DOMAIN r :
            buffers[j][b].seq > r[k].seq => buffers[j][b].event > r[k].event
      BY <1>2, <1>3 DEF Behind
    <3> QED
      BY <3>1, <3>2
  <2> QED
    BY <1>1, <1>6, <2>1, <2>2, <2>3 DEF Behind
<1>14. ASSUME j \notin pruned PROVE Gapless(c, j)'
  <2>1. /\ \A k \in DOMAIN q : q[k].seq = q[k].event
        /\ \A n \in 1 .. cursor[c] : n \in lost[j] \/ \E i \in DOMAIN d : d[i] = n
        /\ \A k \in DOMAIN q : \A n \in Nat :
             cursor[c] < n /\ n < q[k].event => n \in lost[j] \/ \E m \in DOMAIN q : q[m].event = n
    BY <1>2, <1>14 DEF Gapless, Holds
  <2>2. \A k \in DOMAIN r : r[k].seq = r[k].event
    BY <1>3, <2>1
  <2>3. ASSUME NEW n \in 1 .. q[1].seq, n \notin lost[j]
        PROVE  \E i \in DOMAIN y : y[i] = n
    <3>1. CASE n <= cursor[c]
      <4>1. PICK i \in DOMAIN d : d[i] = n
        BY <1>4, <2>1, <2>3, <3>1
      <4> QED
        BY <1>5, <4>1
    <3>2. CASE n = q[1].event
      <4>1. Len(y) \in DOMAIN y
        BY <1>5
      <4> QED
        BY <1>5, <3>2, <4>1
    <3>3. CASE cursor[c] < n /\ n < q[1].event
      <4>1. PICK m \in DOMAIN q : q[m].event = n
        BY <1>3, <2>1, <2>3, <3>3
      <4>2. m = 1 \/ 1 < m
        BY <1>4
      <4>3. ~(1 < m)
        BY <1>3, <1>4, <1>10, <3>3, <4>1
      <4> QED
        BY <1>3, <1>4, <3>3, <4>1, <4>2, <4>3
    <3> QED
      BY <1>3, <1>4, <2>1, <2>3, <3>1, <3>2, <3>3
  <2>4. ASSUME NEW k \in DOMAIN r, NEW n \in Nat, q[1].seq < n, n < r[k].event, n \notin lost[j]
        PROVE  \E i \in DOMAIN r : r[i].event = n
    <3>1. cursor[c] < n /\ q[1].event < n
      BY <1>3, <1>4, <1>10, <2>1, <2>4, SMTT(30)
    <3>2. PICK m \in DOMAIN q : q[m].event = n
      BY <1>3, <2>1, <2>4, <3>1
    <3>3. m # 1
      BY <1>3, <1>4, <3>1, <3>2
    <3> QED
      BY <1>3, <3>2, <3>3
  <2>5. \A n \in 1 .. cursor'[c] :
          n \in lost'[j] \/ \E i \in DOMAIN delivered'[c] : delivered'[c][i] = n
    BY <1>1, <1>6, <2>3
  <2>6. \A k \in DOMAIN batch'[c] : \A n \in Nat :
          cursor'[c] < n /\ n < batch'[c][k].event => n \in lost'[j] \/ Holds(r, n)
    BY <1>1, <1>6, <2>4 DEF Holds
  <2>7. \A k \in DOMAIN batch'[c] : batch'[c][k].seq = batch'[c][k].event
    BY <1>6, <2>2
  <2>8. \A n \in Nat : Holds(r, n) <=> Holds(batch[c], n)'
    BY <1>6 DEF Holds
  <2> QED
    BY <2>5, <2>6, <2>7, <2>8 DEF Gapless
<1>15. follows'[c] = j
  BY <1>1
<1> QED
  BY <1>1, <1>2, <1>7, <1>8, <1>9, <1>12, <1>13, <1>14, <1>15, OneStream

\* r is the buffer b with e at its end, with or without b's first entry.
Rotation(r, b, e) ==
  /\ Len(r) \in DOMAIN r /\ r[Len(r)] = e
  /\ \A i \in DOMAIN r : i = Len(r) \/ \E k \in DOMAIN b : r[i] = b[k]
  /\ \A i1, i2 \in DOMAIN r : i1 < i2 =>
       /\ i1 # Len(r)
       /\ i2 # Len(r) => \E k1, k2 \in DOMAIN b : k1 < k2 /\ r[i1] = b[k1] /\ r[i2] = b[k2]
  /\ \A k \in DOMAIN b :
       (\E i \in DOMAIN r : r[i] = b[k]) \/ (Len(b) >= MaxLen /\ b[k] = Head(b))

LEMMA Rotates ==
  ASSUME NEW b \in Seq(Entry), NEW e \in Entry, NEW r, r = Rotated(b, e)
  PROVE  r \in Seq(Entry) /\ Rotation(r, b, e)
<1>0. MaxLen \in Nat \ {0} /\ Len(b) \in Nat /\ DOMAIN b = 1..Len(b)
  BY LimitsAssumption
<1>1. CASE Len(b) < MaxLen
  <2>1. r = Append(b, e)
    BY <1>1 DEF Rotated
  <2>2. /\ r \in Seq(Entry) /\ Len(r) = Len(b) + 1 /\ r[Len(r)] = e
        /\ DOMAIN r = 1..Len(r) /\ DOMAIN b = 1..Len(b) /\ Len(b) \in Nat
        /\ \A i \in DOMAIN b : i \in DOMAIN r /\ r[i] = b[i]
        /\ \A i \in DOMAIN r : i \in DOMAIN b \/ i = Len(r)
    BY <2>1, Appended
  <2>3. Len(r) \in DOMAIN r /\ r[Len(r)] = e
    BY <2>2
  <2>4. \A i \in DOMAIN r : i = Len(r) \/ \E k \in DOMAIN b : r[i] = b[k]
    BY <2>2
  <2>5. ASSUME NEW i1 \in DOMAIN r, NEW i2 \in DOMAIN r, i1 < i2
        PROVE  /\ i1 # Len(r)
               /\ i2 # Len(r) => \E k1, k2 \in DOMAIN b : k1 < k2 /\ r[i1] = b[k1] /\ r[i2] = b[k2]
    <3>1. i1 # Len(r)
      BY <2>2, <2>5
    <3>2. i1 \in DOMAIN b /\ (i2 # Len(r) => i2 \in DOMAIN b)
      BY <2>2, <3>1
    <3> QED
      BY <2>2, <2>5, <3>1, <3>2
  <2>6. \A k \in DOMAIN b : \E i \in DOMAIN r : r[i] = b[k]
    BY <2>2
  <2> QED
    BY <2>2, <2>3, <2>4, <2>5, <2>6 DEF Rotation
<1>2. CASE ~(Len(b) < MaxLen)
  <2> DEFINE a == Tail(b)
  <2>0. b # <<>> /\ Len(b) >= MaxLen
    BY <1>0, <1>2
  <2>1. r = Append(a, e)
    BY <1>2 DEF Rotated
  <2>a. a \in Seq(Entry) /\ Behead(a, b)
    BY <2>0, Tailed
  <2> HIDE DEF a
  <2>2. /\ r \in Seq(Entry) /\ Len(r) = Len(a) + 1 /\ r[Len(r)] = e
        /\ DOMAIN r = 1..Len(r) /\ DOMAIN a = 1..Len(a) /\ Len(a) \in Nat
        /\ \A i \in DOMAIN a : i \in DOMAIN r /\ r[i] = a[i]
        /\ \A i \in DOMAIN r : i \in DOMAIN a \/ i = Len(r)
    BY <2>1, <2>a, Appended
  <2>3. Len(r) \in DOMAIN r /\ r[Len(r)] = e
    BY <2>2
  <2>b. \A i \in DOMAIN a : \E k \in DOMAIN b : k = i + 1 /\ a[i] = b[k]
    BY <2>a DEF Behead
  <2>4. ASSUME NEW i \in DOMAIN r, i # Len(r) PROVE \E k \in DOMAIN b : r[i] = b[k]
    <3>1. i \in DOMAIN a /\ r[i] = a[i]
      BY <2>2, <2>4
    <3> QED
      BY <2>b, <3>1
  <2>5. ASSUME NEW i1 \in DOMAIN r, NEW i2 \in DOMAIN r, i1 < i2
        PROVE  /\ i1 # Len(r)
               /\ i2 # Len(r) => \E k1, k2 \in DOMAIN b : k1 < k2 /\ r[i1] = b[k1] /\ r[i2] = b[k2]
    <3>1. i1 # Len(r)
      BY <2>2, <2>5
    <3>2. i1 \in DOMAIN a /\ (i2 # Len(r) => i2 \in DOMAIN a)
      BY <2>2, <3>1
    <3>3. ASSUME i2 # Len(r)
          PROVE  \E k1, k2 \in DOMAIN b : k1 < k2 /\ r[i1] = b[k1] /\ r[i2] = b[k2]
      <4>1. PICK k1 \in DOMAIN b : k1 = i1 + 1 /\ a[i1] = b[k1]
        BY <2>b, <3>2
      <4>2. PICK k2 \in DOMAIN b : k2 = i2 + 1 /\ a[i2] = b[k2]
        BY <2>b, <3>2, <3>3
      <4>3. k1 < k2
        BY <2>2, <2>5, <4>1, <4>2
      <4> QED
        BY <2>2, <3>2, <3>3, <4>1, <4>2, <4>3
    <3> QED
      BY <3>1, <3>3
  <2>6. ASSUME NEW k \in DOMAIN b
        PROVE  (\E i \in DOMAIN r : r[i] = b[k]) \/ b[k] = Head(b)
    <3>1. CASE k = 1
      BY <2>a, <3>1 DEF Behead
    <3>2. CASE k # 1
      <4>1. PICK i \in DOMAIN a : a[i] = b[k]
        BY <2>a, <3>2 DEF Behead
      <4> QED
        BY <2>2, <4>1
    <3> QED
      BY <3>1, <3>2
  <2> QED
    BY <2>0, <2>2, <2>3, <2>4, <2>5, <2>6 DEF Rotation
<1> QED
  BY <1>1, <1>2

\* What record_event and the prune after it do to the buffers: the job's is rotated,
\* those of the dropped jobs are gone.
LEMMA RecordShape ==
  ASSUME StreamInv, NEW j \in Jobs, NEW last, RecordEvent(j, last),
         NEW e, e = [seq |-> NextSeq(j), event |-> emitted[j] + 1],
         NEW D, D = Excess(WithKey(order, j))
  PROVE  /\ UNCHANGED <<pc, follows, cursor, batch, delivered>>
         /\ pruned' = pruned \cup D
         /\ emitted' = [emitted EXCEPT ![j] = @ + 1]
         /\ buffers' = [k \in Jobs |-> IF k \in D THEN <<>>
                                       ELSE IF k = j THEN Rotated(buffers[j], e) ELSE buffers[k]]
         /\ \A k \in Jobs : lost[k] \subseteq lost'[k]
         /\ Len(buffers[j]) < MaxLen \/ Head(buffers[j]).event \in lost'[j]
<1>1. /\ UNCHANGED <<pc, follows, cursor, batch, delivered>>
      /\ pruned' = pruned \cup D
      /\ emitted' = [emitted EXCEPT ![j] = @ + 1]
  BY DEF RecordEvent, Prune
<1>2. buffers' = [k \in Jobs |-> IF k \in D THEN <<>>
                                 ELSE [buffers EXCEPT ![j] = Rotated(@, e)][k]]
  BY DEF RecordEvent, Prune
<1>3. DOMAIN buffers = Jobs
  BY DEF StreamInv, StreamTypes
<1>4. \A k \in Jobs : [buffers EXCEPT ![j] = Rotated(@, e)][k] =
                        IF k = j THEN Rotated(buffers[j], e) ELSE buffers[k]
  BY <1>3
<1>5. \A k \in Jobs : lost[k] \subseteq lost'[k]
  BY DEF RecordEvent
<1>6. Len(buffers[j]) < MaxLen \/ Head(buffers[j]).event \in lost'[j]
  BY DEF RecordEvent
<1> QED
  BY <1>1, <1>2, <1>4, <1>5, <1>6

\* The entry recorded is beyond all that the buffer holds.
LEMMA NewestEntry ==
  ASSUME StreamInv, NEW j \in Jobs, NEW e, e = [seq |-> NextSeq(j), event |-> emitted[j] + 1]
  PROVE  /\ e \in Entry /\ e.event = emitted[j] + 1
         /\ \A i \in DOMAIN buffers[j] : buffers[j][i].seq < e.seq /\ buffers[j][i].event < e.event
         /\ j \notin pruned => e.seq = e.event
<1> DEFINE b == buffers[j]
<1>0. b \in Seq(Entry) /\ emitted[j] \in Nat /\ Recorded(j)
  BY DEF StreamInv, StreamTypes
<1>1. e.seq = NextSeq(j) /\ e.event = emitted[j] + 1
  OBVIOUS
<1>2. \A i \in DOMAIN b : i \in Nat \ {0} /\ b[i].seq \in Nat \ {0} /\ b[i].event \in Nat
  BY <1>0, EntryParts
<1>3. CASE b = <<>>
  <2>1. e.seq = 1
    BY <1>1, <1>3 DEF NextSeq
  <2>2. j \notin pruned => emitted[j] = 0
    BY <1>0, <1>3 DEF Recorded, Whole
  <2> QED
    BY <1>0, <1>1, <1>3, <2>1, <2>2 DEF Entry
<1>4. CASE b # <<>>
  <2>0. Len(b) \in DOMAIN b /\ Len(b) \in Nat /\ \A i \in DOMAIN b : i <= Len(b)
    BY <1>0, <1>4
  <2>1. e.seq = b[Len(b)].seq + 1
    BY <1>1, <1>4 DEF NextSeq, Last
  <2>2. e \in Entry
    BY <1>0, <1>1, <1>2, <2>0, <2>1, SMTT(30) DEF Entry
  <2>3. \A i \in DOMAIN b : b[i].seq <= b[Len(b)].seq
    BY <1>0, <1>2, <2>0 DEF Recorded, Rising
  <2>4. \A i \in DOMAIN b : b[i].event <= emitted[j]
    BY <1>0 DEF Recorded
  <2>5. ASSUME j \notin pruned PROVE e.seq = e.event
    BY <1>0, <1>1, <1>4, <2>0, <2>1, <2>5 DEF Recorded, Whole
  <2> QED
    BY <1>0, <1>1, <1>2, <2>0, <2>1, <2>2, <2>3, <2>4, <2>5
<1> QED
  BY <1>3, <1>4

LEMMA StreamRecords ==
  ASSUME StreamInv, NEW j \in Jobs, NEW last, RecordEvent(j, last),
         NEW e, e = [seq |-> NextSeq(j), event |-> emitted[j] + 1],
         NEW D, D = Excess(WithKey(order, j)),
         NEW b, b = buffers[j], NEW r, r = Rotated(b, e)
  PROVE  StreamInv'
<1>0. /\ StreamTypes /\ b \in Seq(Entry) /\ Recorded(j)
      /\ \A k \in Jobs : emitted[k] \in Nat /\ buffers[k] \in Seq(Entry)
  BY DEF StreamInv, StreamTypes
<1>1. /\ UNCHANGED <<pc, follows, cursor, batch, delivered>>
      /\ pruned' = pruned \cup D
      /\ emitted' = [emitted EXCEPT ![j] = @ + 1]
      /\ buffers' = [k \in Jobs |-> IF k \in D THEN <<>>
                                    ELSE IF k = j THEN r ELSE buffers[k]]
      /\ \A k \in Jobs : lost[k] \subseteq lost'[k]
      /\ Len(b) < MaxLen \/ Head(b).event \in lost'[j]
  BY RecordShape
<1>2. /\ e \in Entry /\ e.event = emitted[j] + 1
      /\ \A i \in DOMAIN b : b[i].seq < e.seq /\ b[i].event < e.event
      /\ j \notin pruned => e.seq = e.event
  BY NewestEntry
<1>3. r \in Seq(Entry) /\ Rotation(r, b, e)
  BY <1>0, <1>2, Rotates
<1>4. /\ \A i \in DOMAIN b : i \in Nat \ {0} /\ b[i].seq \in Nat \ {0} /\ b[i].event \in Nat
      /\ \A i \in DOMAIN r : i \in Nat \ {0} /\ r[i].seq \in Nat \ {0} /\ r[i].event \in Nat
  BY <1>0, <1>3, EntryParts
<1>5. /\ \A k \in Jobs : k \in D => buffers'[k] = <<>>
      /\ \A k \in Jobs : k \notin D /\ k # j => buffers'[k] = buffers[k]
      /\ j \notin D => buffers'[j] = r
      /\ \A k \in Jobs : k # j => emitted'[k] = emitted[k]
      /\ emitted'[j] = emitted[j] + 1
  BY <1>0, <1>1 DEF StreamTypes
<1>6. StreamTypes'
  <2>1. emitted' \in [Jobs -> Nat]
    BY <1>0, <1>1 DEF StreamTypes
  <2>2. ASSUME NEW k \in Jobs PROVE buffers'[k] \in Seq(Entry)
    <3>1. <<>> \in Seq(Entry)
      OBVIOUS
    <3> QED
      BY <1>0, <1>3, <1>5, <3>1
  <2>3. buffers' \in [Jobs -> Seq(Entry)]
    BY <1>1, <2>2
  <2> QED
    BY <1>0, <1>1, <2>1, <2>3 DEF StreamTypes
<1>7. Rising(r)
  <2> SUFFICES ASSUME NEW i1 \in DOMAIN r, NEW i2 \in DOMAIN r, i1 < i2
               PROVE  r[i1].seq < r[i2].seq /\ r[i1].event < r[i2].event
    BY DEF Rising
  <2>1. i1 # Len(r)
    BY <1>3 DEF Rotation
  <2>2. CASE i2 = Len(r)
    BY <1>2, <1>3, <2>1, <2>2 DEF Rotation
  <2>3. CASE i2 # Len(r)
    <3>1. PICK k1, k2 \in DOMAIN b : k1 < k2 /\ r[i1] = b[k1] /\ r[i2] = b[k2]
      BY <1>3, <2>3 DEF Rotation
    <3> QED
      BY <1>0, <3>1 DEF Recorded, Rising
  <2> QED
    BY <2>2, <2>3
<1>8. ASSUME j \notin pruned, j \notin D
      PROVE  /\ \A i \in DOMAIN r : r[i].seq = r[i].event
             /\ r # <<>> /\ r[Len(r)].event = emitted'[j]
             /\ \A n \in 1 .. emitted'[j] : n \in lost'[j] \/ Holds(r, n)
  <2>0. Whole(j)
    BY <1>0, <1>8 DEF Recorded
  <2>1. ASSUME NEW i \in DOMAIN r PROVE r[i].seq = r[i].event
    <3>1. CASE i = Len(r)
      BY <1>2, <1>3, <1>8, <3>1 DEF Rotation
    <3>2. CASE i # Len(r)
      <4>1. PICK k \in DOMAIN b : r[i] = b[k]
        BY <1>3, <3>2 DEF Rotation
      <4> QED
        BY <2>0, <4>1 DEF Whole
    <3> QED
      BY <3>1, <3>2
  <2>2. r # <<>> /\ r[Len(r)].event = emitted'[j]
    BY <1>2, <1>3, <1>5 DEF Rotation
  <2>3. ASSUME NEW n \in 1 .. emitted'[j], n \notin lost'[j] PROVE Holds(r, n)
    <3>0. emitted[j] \in Nat /\ n \in 1 .. emitted[j] + 1
      BY <1>0, <1>5
    <3>1. CASE n = emitted[j] + 1
      BY <1>2, <1>3, <3>1 DEF Rotation, Holds
    <3>2. CASE n \in 1 .. emitted[j]
      <4>1. n \notin lost[j]
        BY <1>1, <2>3
      <4>2. PICK k \in DOMAIN b : b[k].event = n
        BY <2>0, <3>2, <4>1 DEF Whole, Holds
      <4>3. ~(Len(b) >= MaxLen /\ b[k] = Head(b))
        <5>1. MaxLen \in Nat /\ Len(b) \in Nat
          BY <1>0, LimitsAssumption
        <5> QED
          BY <1>1, <2>3, <4>2, <5>1
      <4>4. PICK i \in DOMAIN r : r[i] = b[k]
        BY <1>3, <4>3 DEF Rotation
      <4> QED
        BY <4>2, <4>4 DEF Holds
    <3> QED
      BY <3>0, <3>1, <3>2
  <2> QED
    BY <2>1, <2>2, <2>3
<1>9. \A i \in DOMAIN r : r[i].event <= emitted[j] + 1
  <2> SUFFICES ASSUME NEW i \in DOMAIN r PROVE r[i].event <= emitted[j] + 1
    OBVIOUS
  <2>1. CASE i = Len(r)
    BY <1>0, <1>2, <1>3, <2>1 DEF Rotation
  <2>2. CASE i # Len(r)
    <3>1. PICK k \in DOMAIN b : r[i] = b[k]
      BY <1>3, <2>2 DEF Rotation
    <3> QED
      BY <1>0, <1>2, <1>4, <3>1
  <2> QED
    BY <2>1, <2>2
<1>10. ASSUME NEW k \in Jobs PROVE Recorded(k)'
  <2>1. CASE k \in D
    BY <1>1, <1>5, <2>1 DEF Recorded, Rising
  <2>2. CASE k \notin D /\ k # j
    <3>1. Recorded(k) /\ buffers'[k] = buffers[k] /\ emitted'[k] = emitted[k]
      BY <1>5, <2>2 DEF StreamInv
    <3>2. (k \notin pruned' => k \notin pruned) /\ lost[k] \subseteq lost'[k]
      BY <1>1
    <3>3. ASSUME k \notin pruned' PROVE Whole(k)'
      BY <3>1, <3>2, <3>3 DEF Recorded, Whole, Holds
    <3> QED
      BY <3>1, <3>3 DEF Recorded, Rising
  <2>3. CASE k = j /\ j \notin D
    <3>1. buffers'[k] = r /\ emitted'[k] = emitted[j] + 1
      BY <1>5, <2>3
    <3>2. ASSUME k \notin pruned' PROVE Whole(k)'
      <4>1. j \notin pruned
        BY <1>1, <2>3, <3>2
      <4>2. \A n \in Nat : Holds(r, n) <=> Holds(buffers[k], n)'
        BY <3>1 DEF Holds
      <4> QED
        BY <1>0, <1>8, <2>3, <3>1, <4>1, <4>2 DEF Whole
    <3> QED
      BY <1>7, <1>9, <3>1, <3>2 DEF Recorded, Rising
  <2> QED
    BY <2>1, <2>2, <2>3
<1>11. ASSUME NEW c \in Streams, NEW k \in Jobs, follows'[c] = k
       PROVE  Behind(c, k)' /\ (k \notin pruned' => Gapless(c, k)')
  <2>0. /\ Behind(c, k) /\ (k \notin pruned => Gapless(c, k))
        /\ delivered[c] \in Seq(Nat) /\ batch[c] \in Seq(Entry) /\ cursor[c] \in Nat
        /\ emitted[k] \in Nat /\ emitted'[k] \in Nat /\ emitted'[k] >= emitted[k]
    BY <1>0, <1>1, <1>5, <1>11 DEF StreamInv, StreamTypes
  <2>1. /\ \A i \in DOMAIN delivered[c] : delivered[c][i] \in Nat
        /\ \A i \in DOMAIN batch[c] : batch[c][i].event \in Nat /\ batch[c][i].seq \in Nat
    BY <2>0, EntryParts
  <2>2. /\ \A i \in DOMAIN delivered[c] : delivered[c][i] <= emitted'[k]
        /\ \A i \in DOMAIN batch[c] : batch[c][i].event <= emitted'[k]
    BY <2>0, <2>1 DEF Behind
  <2>3. ASSUME NEW i \in DOMAIN buffers'[k]
        PROVE  /\ buffers'[k][i].seq > cursor[c] =>
                    \A m \in DOMAIN delivered[c] : delivered[c][m] < buffers'[k][i].event
               /\ \A m \in DOMAIN batch[c] :
                    buffers'[k][i].seq > batch[c][m].seq => buffers'[k][i].event > batch[c][m].event
    <3>1. CASE \E h \in DOMAIN buffers[k] : buffers'[k][i] = buffers[k][h]
      BY <2>0, <3>1 DEF Behind
    <3>2. CASE k = j /\ j \notin D
      <4>1. buffers'[k] = r
        BY <1>5, <3>2
      <4>2. CASE i = Len(r)
        <5>1. buffers'[k][i] = e
          BY <1>3, <4>1, <4>2 DEF Rotation
        <5> QED
          BY <1>2, <2>0, <2>1, <3>2, <5>1 DEF Behind
      <4>3. CASE i # Len(r)
        <5>1. \E h \in DOMAIN b : r[i] = b[h]
          BY <1>3, <2>3, <4>1, <4>3 DEF Rotation
        <5> QED
          BY <3>1, <3>2, <4>1, <5>1
      <4> QED
        BY <4>2, <4>3
    <3>3. CASE k \in D
      <4>1. buffers'[k] = <<>>
        BY <1>5, <3>3
      <4>2. FALSE
        BY <2>3, <4>1
      <4> QED
        BY <4>2
    <3>4. CASE k \notin D /\ k # j
      BY <1>5, <2>3, <3>1, <3>4
    <3> QED
      BY <3>2, <3>3, <3>4
  <2>4. Behind(c, k)'
    BY <1>1, <2>2, <2>3 DEF Behind
  <2>5. ASSUME k \notin pruned' PROVE Gapless(c, k)'
    <3>1. Gapless(c, k) /\ lost[k] \subseteq lost'[k]
      BY <1>1, <2>0, <2>5
    <3> QED
      BY <1>1, <3>1 DEF Gapless, Holds
  <2> QED
    BY <2>4, <2>5
<1>12. ASSUME NEW c \in Streams PROVE Following(c)' /\ Sorted(c)'
  <2>1. Following(c)'
    BY <1>1 DEF StreamInv, Following
  <2>2. Sorted(c)'
    BY <1>1 DEF StreamInv, Sorted, Rising
  <2> QED
    BY <2>1, <2>2
<1> QED
  BY <1>6, <1>10, <1>11, <1>12 DEF StreamInv

LEMMA StreamStep == StreamInv /\ [StreamNext]_eventVars => StreamInv'
<1> SUFFICES ASSUME StreamInv, [StreamNext]_eventVars PROVE StreamInv'
  OBVIOUS
<1>1. CASE UNCHANGED eventVars
  BY <1>1, StreamMoves DEF StreamInv, StreamTypes, eventVars, jobVars, serviceVars, streamVars,
     historyVars
<1>2. ASSUME NEW j \in Jobs, NEW last \in BOOLEAN, RecordEvent(j, last) PROVE StreamInv'
  BY <1>2, StreamRecords
<1>3. ASSUME NEW c \in Streams, ReadBacklog(c) PROVE StreamInv'
  BY <1>3, StreamReads
<1>4. ASSUME NEW c \in Streams, Send(c) PROVE StreamInv'
  BY <1>4, StreamSends
<1>5. ASSUME NEW c \in Streams, NEW j \in Followed, Subscribe(c, j) PROVE StreamInv'
  BY <1>5, StreamSubscribes
<1> QED
  BY <1>1, <1>2, <1>3, <1>4, <1>5, StreamQuiet DEF StreamNext, Consume

\* For any jobs, streams and limits: a stream sends the events of its job in the
\* order of recording and each once, over rotations of the buffer and prunes under
\* the live cursor (iter_sse_events, record_event).
THEOREM StreamsInOrder == StreamSpec => []InOrder
<1>1. StreamInv => InOrder
  <2> SUFFICES ASSUME StreamInv, NEW c \in Streams, NEW i \in 1 .. Len(delivered[c]) - 1
               PROVE  delivered[c][i] < delivered[c][i + 1]
    BY DEF InOrder
  <2>1. delivered[c] \in Seq(Nat)
    BY DEF StreamInv, StreamTypes
  <2>2. i \in DOMAIN delivered[c] /\ i + 1 \in DOMAIN delivered[c] /\ i < i + 1
    BY <2>1
  <2>3. \A i1, i2 \in DOMAIN delivered[c] : i1 < i2 => delivered[c][i1] < delivered[c][i2]
    BY DEF StreamInv, Sorted
  <2> QED
    BY <2>2, <2>3
<1> QED
  BY InitStream, StreamStep, <1>1, PTL DEF StreamSpec

\* As long as the job's buffer was not pruned, an event that a stream has not sent is
\* still ahead of its cursor or was pushed out of the full buffer (the sequence
\* numbers of record_event).
THEOREM StreamsNoGap == StreamSpec => []NoGap
<1>1. StreamInv => NoGap
  <2> SUFFICES ASSUME StreamInv, NEW c \in Streams, NEW j \in Jobs \ pruned, follows[c] = j,
                      NEW n \in 1 .. emitted[j], n \notin Sent(c) \cup lost[j]
               PROVE  \E e \in ToSet(batch[c] \o buffers[j]) : e.event = n /\ e.seq > cursor[c]
    BY DEF NoGap
  <2> DEFINE q == batch[c]
             b == buffers[j]
  <2>0. /\ q \in Seq(Entry) /\ b \in Seq(Entry) /\ cursor[c] \in Nat /\ delivered[c] \in Seq(Nat)
        /\ emitted[j] \in Nat /\ Whole(j) /\ Gapless(c, j)
    BY DEF StreamInv, StreamTypes, Recorded
  <2>1. n > cursor[c]
    <3>1. \A i \in DOMAIN delivered[c] : delivered[c][i] # n
      BY DEF Sent, ToSet
    <3> QED
      BY <2>0, <3>1 DEF Gapless
  <2>2. PICK k \in DOMAIN b : b[k].event = n /\ b[k].seq = n
    <3>1. Holds(b, n)
      BY <2>0 DEF Whole
    <3>2. PICK k \in DOMAIN b : b[k].event = n
      BY <3>1 DEF Holds
    <3>3. b[k].seq = b[k].event
      BY <2>0 DEF Whole
    <3> QED
      BY <3>2, <3>3
  <2> HIDE DEF q, b
  <2>3. Len(q) + k \in DOMAIN (q \o b) /\ (q \o b)[Len(q) + k] = b[k]
    BY <2>0
  <2>4. b[k] \in ToSet(q \o b)
    BY <2>3 DEF ToSet
  <2> QED
    BY <2>1, <2>2, <2>4 DEF q, b
<1> QED
  BY InitStream, StreamStep, <1>1, PTL DEF StreamSpec

-----------------------------------------------------------------------------
(* Recursive functions.                                                    *)

\* f begins with a and goes on by g.
Iterates(f, a, g, n) == f[0] = a /\ \A k \in 1 .. n : f[k] = g[<<f[k - 1], k>>]

\* A recursion over 0 .. n whose step stays in X has a solution.
LEMMA Iteration ==
  ASSUME NEW X, NEW a \in X, NEW n \in Nat, NEW g \in [X \X (1 .. n) -> X]
  PROVE  \E f \in [0 .. n -> X] : Iterates(f, a, g, n)
<1> DEFINE S == {m \in Nat : m <= n => \E f \in [0 .. m -> X] : Iterates(f, a, g, m)}
<1>1. 0 \in S
  <2>1. [k \in 0 .. 0 |-> a] \in [0 .. 0 -> X] /\ Iterates([k \in 0 .. 0 |-> a], a, g, 0)
    BY DEF Iterates
  <2> QED
    BY <2>1
<1>2. ASSUME NEW m \in S PROVE m + 1 \in S
  <2> SUFFICES ASSUME m + 1 <= n
               PROVE  \E f \in [0 .. m + 1 -> X] : Iterates(f, a, g, m + 1)
    OBVIOUS
  <2>1. PICK f \in [0 .. m -> X] : Iterates(f, a, g, m)
    OBVIOUS
  <2> DEFINE h == [k \in 0 .. m + 1 |-> IF k <= m THEN f[k] ELSE g[<<f[m], m + 1>>]]
  <2>2. m \in 0 .. m /\ <<f[m], m + 1>> \in X \X (1 .. n)
    OBVIOUS
  <2>3. h \in [0 .. m + 1 -> X]
    BY <2>2
  <2>4. h[0] = a
    BY <2>1 DEF Iterates
  <2>5. ASSUME NEW k \in 1 .. m + 1 PROVE h[k] = g[<<h[k - 1], k>>]
    <3>1. k - 1 \in 0 .. m /\ h[k - 1] = f[k - 1]
      OBVIOUS
    <3>2. CASE k <= m
      BY <2>1, <3>1, <3>2 DEF Iterates
    <3>3. CASE k = m + 1
      <4>1. h[k] = g[<<f[m], m + 1>>] /\ k - 1 = m
        BY <3>3
      <4> HIDE DEF h
      <4> QED
        BY <3>1, <3>3, <4>1
    <3> QED
      BY <3>2, <3>3
  <2>6. Iterates(h, a, g, m + 1)
    <3> HIDE DEF h
    <3> QED
      BY <2>4, <2>5 DEF Iterates
  <2> QED
    BY <2>3, <2>6
<1>3. S = Nat
  <2>1. S \subseteq Nat
    OBVIOUS
  <2> HIDE DEF S
  <2> QED
    BY <1>1, <1>2, <2>1, Induction
<1> QED
  BY <1>3

-----------------------------------------------------------------------------
(* Sums.                                                                   *)

Sums(s, f) ==
  /\ \A k \in 0 .. Len(s) : f[k] \in Int
  /\ f[0] = 0 /\ \A k \in 1 .. Len(s) : f[k] = f[k - 1] + s[k]

LEMMA TotalSums ==
  ASSUME NEW s \in Seq(Int)
  PROVE  \E f : Sums(s, f) /\ A!Total(s) = f[Len(s)]
<1> DEFINE n == Len(s)
           g == [p \in Int \X (1 .. n) |-> p[1] + s[p[2]]]
           Sum(f) == f = [i \in 0 .. n |-> IF i = 0 THEN 0 ELSE f[i - 1] + s[i]]
           F == CHOOSE f : Sum(f)
<1>1. n \in Nat /\ g \in [Int \X (1 .. n) -> Int]
  OBVIOUS
<1>2. \A x \in Int, k \in 1 .. n : g[<<x, k>>] = x + s[k]
  OBVIOUS
<1>3. \E f : Sum(f)
  <2>1. PICK f \in [0 .. n -> Int] : Iterates(f, 0, g, n)
    <3>1. 0 \in Int
      OBVIOUS
    <3> HIDE DEF g, n
    <3> QED
      BY <1>1, <3>1, Iteration
  <2>2. \A k \in 1 .. n : k - 1 \in 0 .. n /\ f[k - 1] \in Int /\ f[k] = g[<<f[k - 1], k>>]
    <3> HIDE DEF g, n
    <3> QED
      BY <1>1, <2>1 DEF Iterates
  <2>3. \A k \in 1 .. n : f[k] = f[k - 1] + s[k]
    <3> HIDE DEF g
    <3> QED
      BY <1>2, <2>2
  <2>4. f[0] = 0
    BY <2>1 DEF Iterates
  <2>5. f = [i \in 0 .. n |-> IF i = 0 THEN 0 ELSE f[i - 1] + s[i]]
    BY <1>1, <2>3, <2>4
  <2> QED
    BY <2>5
<1>4. Sum(F)
  BY <1>3
<1>5. A!Total(s) = F[n]
  BY DEF A!Total
<1>6. F[0] = 0 /\ \A k \in 1 .. n : F[k] = F[k - 1] + s[k]
  <2> HIDE DEF F
  <2>1. \A i \in 0 .. n : F[i] = IF i = 0 THEN 0 ELSE F[i - 1] + s[i]
    BY <1>4
  <2> QED
    BY <1>1, <2>1
<1>7. \A k \in 0 .. n : F[k] \in Int
  <2> DEFINE S == {m \in Nat : m <= n => F[m] \in Int}
  <2> HIDE DEF F
  <2>1. 0 \in S
    BY <1>6
  <2>2. ASSUME NEW m \in S PROVE m + 1 \in S
    <3> SUFFICES ASSUME m + 1 <= n PROVE F[m + 1] \in Int
      OBVIOUS
    <3>1. m + 1 \in 1 .. n /\ (m + 1) - 1 = m /\ F[m] \in Int
      OBVIOUS
    <3>2. s[m + 1] \in Int
      BY <3>1
    <3>3. F[m + 1] = F[(m + 1) - 1] + s[m + 1]
      BY <1>6, <3>1
    <3> QED
      BY <3>1, <3>2, <3>3
  <2>3. S = Nat
    <3>1. S \subseteq Nat
      OBVIOUS
    <3> HIDE DEF S
    <3> QED
      BY <2>1, <2>2, <3>1, Induction
  <2> QED
    BY <2>3
<1>8. Sums(s, F)
  <2> HIDE DEF F
  <2> QED
    BY <1>6, <1>7 DEF Sums
<1> QED
  BY <1>5, <1>8

\* Two sums of the same numbers.
Agree(s, t, n) == \A k \in 1 .. n : s[k] = t[k]

LEMMA SumsAgree ==
  ASSUME NEW s, NEW t, NEW f, NEW h, Sums(s, f), Sums(t, h),
         NEW n \in Nat, n <= Len(s), n <= Len(t), Len(s) \in Nat, Len(t) \in Nat,
         Agree(s, t, n)
  PROVE  f[n] = h[n]
<1> DEFINE S == {m \in Nat : m <= n => f[m] = h[m]}
<1>1. 0 \in S
  BY DEF Sums
<1>2. ASSUME NEW m \in S PROVE m + 1 \in S
  <2> SUFFICES ASSUME m + 1 <= n PROVE f[m + 1] = h[m + 1]
    OBVIOUS
  <2> DEFINE k == m + 1
  <2>1. k \in 1 .. n /\ k - 1 = m /\ k \in 1 .. Len(s) /\ k \in 1 .. Len(t) /\ f[m] = h[m]
    OBVIOUS
  <2> HIDE DEF k
  <2>2. f[k] = f[k - 1] + s[k] /\ h[k] = h[k - 1] + t[k]
    BY <2>1 DEF Sums
  <2> QED
    BY <2>1, <2>2 DEF k, Agree
<1>3. S = Nat
  <2>1. S \subseteq Nat
    OBVIOUS
  <2> HIDE DEF S
  <2> QED
    BY <1>1, <1>2, <2>1, Induction
<1> QED
  BY <1>3

LEMMA TotalType ==
  ASSUME NEW s \in Seq(Int)
  PROVE  A!Total(s) \in Int /\ (Len(s) = 0 => A!Total(s) = 0)
<1>1. PICK f : Sums(s, f) /\ A!Total(s) = f[Len(s)]
  BY TotalSums
<1>2. Len(s) \in 0 .. Len(s)
  OBVIOUS
<1> QED
  BY <1>1, <1>2 DEF Sums

LEMMA TotalLonger ==
  ASSUME NEW s \in Seq(Int), NEW t \in Seq(Int), Len(t) = Len(s) + 1, Agree(s, t, Len(s))
  PROVE  A!Total(t) = A!Total(s) + t[Len(t)]
<1>1. PICK f : Sums(s, f) /\ A!Total(s) = f[Len(s)]
  BY TotalSums
<1>2. PICK h : Sums(t, h) /\ A!Total(t) = h[Len(t)]
  BY TotalSums
<1>3. Len(s) \in Nat /\ Len(s) <= Len(s) /\ Len(s) <= Len(t) /\ Len(t) \in Nat
  OBVIOUS
<1>4. f[Len(s)] = h[Len(s)]
  BY <1>1, <1>2, <1>3, SumsAgree
<1>5. Len(t) \in 1 .. Len(t) /\ Len(t) - 1 = Len(s)
  OBVIOUS
<1>6. h[Len(t)] = h[Len(t) - 1] + t[Len(t)]
  BY <1>2, <1>5 DEF Sums
<1> QED
  BY <1>1, <1>2, <1>4, <1>5, <1>6

LEMMA TotalPositive ==
  ASSUME NEW s \in Seq(Int), Len(s) > 0, \A i \in DOMAIN s : s[i] > 0
  PROVE  A!Total(s) > 0
<1>0. Len(s) \in Nat
  OBVIOUS
<1>1. PICK f : Sums(s, f) /\ A!Total(s) = f[Len(s)]
  BY TotalSums
<1> DEFINE S == {m \in Nat : 0 < m /\ m <= Len(s) => f[m] > 0}
<1>2. 0 \in S
  OBVIOUS
<1>3. ASSUME NEW m \in S PROVE m + 1 \in S
  <2> SUFFICES ASSUME m + 1 <= Len(s) PROVE f[m + 1] > 0
    OBVIOUS
  <2> DEFINE k == m + 1
  <2>1. k \in 1 .. Len(s) /\ k \in DOMAIN s /\ k - 1 = m /\ m \in 0 .. Len(s)
    BY <1>0
  <2>2. m = 0 \/ f[m] > 0
    BY <1>0
  <2> HIDE DEF k, S
  <2>3. f[k] = f[m] + s[k] /\ s[k] > 0 /\ f[m] \in Int /\ f[0] = 0 /\ s[k] \in Int
    BY <1>1, <2>1 DEF Sums
  <2>4. f[k] > 0
    BY <2>2, <2>3
  <2> QED
    BY <2>4 DEF k
<1>4. S = Nat
  <2>1. S \subseteq Nat
    OBVIOUS
  <2> HIDE DEF S
  <2> QED
    BY <1>2, <1>3, <2>1, Induction
<1> QED
  BY <1>0, <1>1, <1>4

-----------------------------------------------------------------------------
(* The table.                                                              *)

LEMMA SkipCosts == A!SkipLine \in Int /\ A!SkipBox \in Int
<1>1. Unit \in Nat
  BY ScaleAssumption
<1> QED
  BY <1>1 DEF A!SkipLine, A!SkipBox

\* The cell after one that costs x.
CellCost(row, c, x, j) == A!Min({row[j - 1] + c[j], row[j] + A!SkipLine, x + A!SkipBox})

LEMMA CellIsLeast ==
  ASSUME NEW row, NEW c, NEW x, NEW j, row[j - 1] + c[j] \in Int,
         row[j] + A!SkipLine \in Int, x + A!SkipBox \in Int
  PROVE  /\ CellCost(row, c, x, j) \in Int
         /\ CellCost(row, c, x, j) <= row[j - 1] + c[j]
         /\ CellCost(row, c, x, j) <= row[j] + A!SkipLine
         /\ CellCost(row, c, x, j) <= x + A!SkipBox
         /\ \/ CellCost(row, c, x, j) = row[j - 1] + c[j]
            \/ CellCost(row, c, x, j) = row[j] + A!SkipLine
            \/ CellCost(row, c, x, j) = x + A!SkipBox
<1> DEFINE a == row[j - 1] + c[j]
           b == row[j] + A!SkipLine
           d == x + A!SkipBox
           least == CellCost(row, c, x, j)
<1>1. a \in Int /\ b \in Int /\ d \in Int
  OBVIOUS
<1>2. least = CHOOSE z \in {a, b, d} : \A y \in {a, b, d} : z <= y
  BY DEF CellCost, A!Min
<1> HIDE DEF a, b, d, least
<1>3. \E z \in {a, b, d} : \A y \in {a, b, d} : z <= y
  BY <1>1, SMT
<1>4. least \in {a, b, d} /\ \A y \in {a, b, d} : least <= y
  BY <1>2, <1>3
<1>5. least \in Int /\ least <= a /\ least <= b /\ least <= d
        /\ (least = a \/ least = b \/ least = d)
  BY <1>1, <1>4
<1> QED
  BY <1>5 DEF a, b, d, least

\* A row of the table made from the one before.
Rowed(r, row, c, m) ==
  /\ r \in [0 .. m -> Int] /\ r[0] = row[0] + A!SkipLine
  /\ \A j \in 1 .. m : r[j] = CellCost(row, c, r[j - 1], j)

LEMMA RowSteps ==
  ASSUME NEW m \in Nat, NEW row \in [0 .. m -> Int], NEW c \in [1 .. m -> Int]
  PROVE  Rowed(A!NextRow(row, c), row, c, m)
<1> DEFINE a == row[0] + A!SkipLine
           g == [p \in Int \X (1 .. m) |-> CellCost(row, c, p[1], p[2])]
           New(f) == f = [j \in 0 .. m |-> IF j = 0 THEN a ELSE CellCost(row, c, f[j - 1], j)]
           F == CHOOSE f : New(f)
           r == [j \in 0 .. m |-> F[j]]
<1>1. A!NextRow(row, c) = r
  <2>1. Len(c) = m
    OBVIOUS
  <2> QED
    BY <2>1 DEF A!NextRow, CellCost
<1>2. a \in Int
  BY SkipCosts
<1> HIDE DEF a
<1>3. \A x \in Int, j \in 1 .. m : CellCost(row, c, x, j) \in Int
  <2> SUFFICES ASSUME NEW x \in Int, NEW j \in 1 .. m PROVE CellCost(row, c, x, j) \in Int
    OBVIOUS
  <2>1. row[j - 1] + c[j] \in Int /\ row[j] + A!SkipLine \in Int /\ x + A!SkipBox \in Int
    BY SkipCosts
  <2> QED
    BY <2>1, CellIsLeast
<1>4. g \in [Int \X (1 .. m) -> Int] /\ \A x \in Int, j \in 1 .. m : g[<<x, j>>] = CellCost(row, c, x, j)
  BY <1>3
<1> HIDE DEF g
<1>5. \E f : New(f)
  <2>1. PICK f \in [0 .. m -> Int] : Iterates(f, a, g, m)
    BY <1>2, <1>4, Iteration
  <2>2. \A k \in 1 .. m : k - 1 \in 0 .. m /\ f[k - 1] \in Int /\ f[k] = g[<<f[k - 1], k>>]
    BY <2>1 DEF Iterates
  <2>3. \A k \in 1 .. m : f[k] = CellCost(row, c, f[k - 1], k)
    BY <1>4, <2>2
  <2>4. f[0] = a
    BY <2>1 DEF Iterates
  <2>5. f = [k \in 0 .. m |-> IF k = 0 THEN a ELSE CellCost(row, c, f[k - 1], k)]
    BY <2>3, <2>4
  <2> QED
    BY <2>5
<1>6. New(F)
  BY <1>5
<1> HIDE DEF F
<1>7. F[0] = a /\ \A j \in 1 .. m : F[j] = CellCost(row, c, F[j - 1], j)
  <2>1. \A k \in 0 .. m : F[k] = IF k = 0 THEN a ELSE CellCost(row, c, F[k - 1], k)
    BY <1>6
  <2> QED
    BY <2>1
<1>8. \A k \in 0 .. m : F[k] \in Int
  <2>1. \A k \in 1 .. m : F[k] = g[<<F[k - 1], k>>] \/ F[k - 1] \notin Int
    BY <1>4, <1>7
  <2> DEFINE S == {k \in Nat : k <= m => F[k] \in Int}
  <2>2. 0 \in S
    BY <1>2, <1>7
  <2>3. ASSUME NEW k \in S PROVE k + 1 \in S
    <3> SUFFICES ASSUME k + 1 <= m PROVE F[k + 1] \in Int
      OBVIOUS
    <3> DEFINE l == k + 1
    <3>1. l \in 1 .. m /\ l - 1 = k /\ F[k] \in Int
      OBVIOUS
    <3> HIDE DEF l
    <3>2. F[l] = CellCost(row, c, F[k], l)
      BY <1>7, <3>1
    <3> QED
      BY <1>3, <3>1, <3>2 DEF l
  <2>4. S = Nat
    <3>1. S \subseteq Nat
      OBVIOUS
    <3> HIDE DEF S
    <3> QED
      BY <2>2, <2>3, <3>1, Induction
  <2> QED
    BY <2>4, SMTT(30)
<1>9. r \in [0 .. m -> Int] /\ \A j \in 0 .. m : r[j] = F[j]
  BY <1>8
<1> HIDE DEF r
<1>10. 0 \in 0 .. m /\ \A j \in 1 .. m : j \in 0 .. m /\ j - 1 \in 0 .. m
  OBVIOUS
<1>11. r[0] = a /\ \A j \in 1 .. m : r[j] = CellCost(row, c, r[j - 1], j)
  BY <1>7, <1>9, <1>10
<1> QED
  BY <1>1, <1>9, <1>11 DEF Rowed, a

\* The whole table.
Tabled(dp, cost, n, m) ==
  /\ dp \in [0 .. n -> [0 .. m -> Int]]
  /\ \A j \in 0 .. m : dp[0][j] = j * A!SkipBox
  /\ \A i \in 1 .. n : Rowed(dp[i], dp[i - 1], cost[i], m)

LEMMA TableSteps ==
  ASSUME NEW m \in Nat, NEW cost \in Seq([1 .. m -> Int])
  PROVE  Tabled(A!Table(cost, m), cost, Len(cost), m)
<1> DEFINE n == Len(cost)
           X == [0 .. m -> Int]
           a == [j \in 0 .. m |-> j * A!SkipBox]
           g == [p \in X \X (1 .. n) |-> A!NextRow(p[1], cost[p[2]])]
           New(f) == f = [i \in 0 .. n |-> IF i = 0 THEN a ELSE A!NextRow(f[i - 1], cost[i])]
           F == CHOOSE f : New(f)
           r == [i \in 0 .. n |-> F[i]]
<1>1. A!Table(cost, m) = r
  BY DEF A!Table
<1>2. a \in X /\ \A j \in 0 .. m : a[j] = j * A!SkipBox
  BY SkipCosts
<1>0. n \in Nat /\ \A i \in 1 .. n : cost[i] \in [1 .. m -> Int]
  OBVIOUS
<1> HIDE DEF a, n
<1>3. \A x \in X, i \in 1 .. n :
        Rowed(A!NextRow(x, cost[i]), x, cost[i], m) /\ A!NextRow(x, cost[i]) \in X
  BY <1>0, RowSteps DEF Rowed
<1>4. g \in [X \X (1 .. n) -> X] /\ \A x \in X, i \in 1 .. n : g[<<x, i>>] = A!NextRow(x, cost[i])
  BY <1>3
<1> HIDE DEF g, X
<1>5. \E f : New(f)
  <2>1. PICK f \in [0 .. n -> X] : Iterates(f, a, g, n)
    BY <1>0, <1>2, <1>4, Iteration
  <2>2. \A k \in 1 .. n : k - 1 \in 0 .. n /\ f[k - 1] \in X /\ f[k] = g[<<f[k - 1], k>>]
    BY <1>0, <2>1 DEF Iterates
  <2>3. \A k \in 1 .. n : f[k] = A!NextRow(f[k - 1], cost[k])
    BY <1>4, <2>2
  <2>4. f[0] = a
    BY <2>1 DEF Iterates
  <2>5. f = [k \in 0 .. n |-> IF k = 0 THEN a ELSE A!NextRow(f[k - 1], cost[k])]
    BY <1>0, <2>3, <2>4
  <2> QED
    BY <2>5
<1>6. New(F)
  BY <1>5
<1> HIDE DEF F
<1>7. F[0] = a /\ \A k \in 1 .. n : F[k] = A!NextRow(F[k - 1], cost[k])
  <2>1. \A k \in 0 .. n : F[k] = IF k = 0 THEN a ELSE A!NextRow(F[k - 1], cost[k])
    BY <1>6
  <2> QED
    BY <1>0, <2>1
<1>8. \A k \in 0 .. n : F[k] \in X
  <2> DEFINE S == {k \in Nat : k <= n => F[k] \in X}
  <2>2. 0 \in S
    BY <1>2, <1>7
  <2>3. ASSUME NEW k \in S PROVE k + 1 \in S
    <3> SUFFICES ASSUME k + 1 <= n PROVE F[k + 1] \in X
      OBVIOUS
    <3> DEFINE l == k + 1
    <3>1. l \in 1 .. n /\ l - 1 = k /\ F[k] \in X
      BY <1>0
    <3> HIDE DEF l
    <3>2. F[l] = A!NextRow(F[k], cost[l])
      BY <1>7, <3>1
    <3> QED
      BY <1>3, <3>1, <3>2 DEF l
  <2>4. S = Nat
    <3>1. S \subseteq Nat
      OBVIOUS
    <3> HIDE DEF S
    <3> QED
      BY <2>2, <2>3, <3>1, Induction
  <2> QED
    BY <1>0, <2>4
<1>9. r \in [0 .. n -> X] /\ \A i \in 0 .. n : r[i] = F[i]
  BY <1>8
<1> HIDE DEF r
<1>10. 0 \in 0 .. n /\ \A i \in 1 .. n : i \in 0 .. n /\ i - 1 \in 0 .. n
  BY <1>0
<1>11. r[0] = a /\ \A i \in 1 .. n : r[i] = A!NextRow(r[i - 1], cost[i]) /\ r[i - 1] \in X
  BY <1>7, <1>9, <1>10
<1>12. \A i \in 1 .. n : Rowed(r[i], r[i - 1], cost[i], m)
  BY <1>3, <1>11
<1>13. \A j \in 0 .. m : r[0][j] = j * A!SkipBox
  BY <1>2, <1>11
<1>14. r \in [0 .. n -> [0 .. m -> Int]]
  BY <1>9 DEF X
<1> QED
  BY <1>1, <1>12, <1>13, <1>14 DEF Tabled, n

-----------------------------------------------------------------------------
(* What a placement costs.                                                 *)

LEMMA SameCardinality == \A S : A!Cardinality(S) = Cardinality(S)
  BY DEF A!Cardinality, Cardinality

\* The price of each line.
Prices(match, cost) ==
  [i \in DOMAIN match |-> IF match[i] = 0 THEN A!SkipLine ELSE cost[i][match[i]]]
Placed(match) == {i \in DOMAIN match : match[i] # 0}

\* A matrix of costs, for N lines and M boxes.
Matrix(cost, N, M) ==
  N \in Nat /\ M \in Nat /\ cost \in [1 .. N -> [1 .. M -> Int]]

\* A placement of n lines in the first m boxes.
LEMMA MatchingType ==
  ASSUME NEW n \in Nat, NEW m \in Nat, NEW f \in A!Matchings(n, m)
  PROVE  /\ f \in Seq(0 .. m) /\ Len(f) = n /\ DOMAIN f = 1 .. n
         /\ \A i \in 1 .. n : f[i] \in 0 .. m
         /\ \A i, k \in 1 .. n : i < k /\ f[i] # 0 /\ f[k] # 0 => f[i] < f[k]
<1>1. f \in [1 .. n -> 0 .. m]
  BY DEF A!Matchings
<1> QED
  BY <1>1 DEF A!Matchings

LEMMA PricesType ==
  ASSUME NEW cost, NEW N, NEW M, Matrix(cost, N, M),
         NEW n \in Nat, NEW m \in Nat, n <= N, m <= M, NEW f \in A!Matchings(n, m)
  PROVE  Prices(f, cost) \in Seq(Int) /\ Len(Prices(f, cost)) = n
<1>1. DOMAIN f = 1 .. n /\ \A i \in 1 .. n : f[i] \in 0 .. m
  BY MatchingType
<1>2. ASSUME NEW i \in 1 .. n
      PROVE  (IF f[i] = 0 THEN A!SkipLine ELSE cost[i][f[i]]) \in Int
  <2>1. CASE f[i] = 0
    BY <2>1, SkipCosts
  <2>2. CASE f[i] # 0
    <3>1. f[i] \in 1 .. m
      BY <1>1, <2>2
    <3>2. i \in 1 .. N /\ f[i] \in 1 .. M
      BY <3>1 DEF Matrix
    <3>3. cost[i][f[i]] \in Int
      BY <3>2 DEF Matrix
    <3> QED
      BY <2>2, <3>3
  <2> QED
    BY <2>1, <2>2
<1>3. Prices(f, cost) \in [1 .. n -> Int]
  BY <1>1, <1>2 DEF Prices
<1> QED
  BY <1>3

LEMMA MatchedType ==
  ASSUME NEW n \in Nat, NEW m \in Nat, NEW f \in A!Matchings(n, m)
  PROVE  /\ A!Matched(f) \in Int /\ IsFiniteSet(Placed(f))
         /\ A!Matched(f) = Cardinality(Placed(f))
<1>1. IsFiniteSet(1 .. n) /\ Placed(f) \in SUBSET (1 .. n)
  <2>1. 1 \in Int /\ n \in Int
    OBVIOUS
  <2>2. IsFiniteSet(1 .. n)
    BY <2>1, FS_Interval
  <2> QED
    BY <2>2, MatchingType DEF Placed
<1>2. A!Matched(f) = Cardinality(Placed(f))
  BY SameCardinality DEF A!Matched, Placed
<1>3. IsFiniteSet(Placed(f)) /\ Cardinality(Placed(f)) \in Nat
  BY <1>1, FS_Subset, FS_CardinalityType
<1> QED
  BY <1>2, <1>3

LEMMA CostIs ==
  ASSUME NEW f, NEW cost, NEW k
  PROVE  A!CostOf(f, cost, k) = A!Total(Prices(f, cost)) + (k - A!Matched(f)) * A!SkipBox
BY DEF A!CostOf, Prices

LEMMA CostType ==
  ASSUME NEW cost, NEW N, NEW M, Matrix(cost, N, M),
         NEW n \in Nat, NEW m \in Nat, n <= N, m <= M, NEW f \in A!Matchings(n, m)
  PROVE  /\ A!Total(Prices(f, cost)) \in Int /\ A!Matched(f) \in Int /\ A!SkipBox \in Int
         /\ \A k \in Int : A!CostOf(f, cost, k) \in Int
         /\ \A k \in Int : A!CostOf(f, cost, k + 1) = A!CostOf(f, cost, k) + A!SkipBox
<1> DEFINE t == A!Total(Prices(f, cost))
           p == A!Matched(f)
           q == A!SkipBox
<1>1. t \in Int
  BY PricesType, TotalType
<1>2. p \in Int /\ q \in Int
  BY MatchedType, SkipCosts
<1>3. \A k : A!CostOf(f, cost, k) = t + (k - p) * q
  BY CostIs
<1> HIDE DEF t, p, q
<1>4. \A k \in Int : t + ((k + 1) - p) * q = t + (k - p) * q + q
  BY <1>1, <1>2
<1>5. \A k \in Int : A!CostOf(f, cost, k + 1) = A!CostOf(f, cost, k) + q
  BY <1>3, <1>4
<1>6. \A k \in Int : A!CostOf(f, cost, k) \in Int
  BY <1>1, <1>2, <1>3
<1> QED
  BY <1>1, <1>2, <1>5, <1>6 DEF t, p, q

\* g places one line more than f: in box b, or nowhere.
Longer(g, f, n, b) == (\A i \in 1 .. n : g[i] = f[i]) /\ g[n + 1] = b

LEMMA PricesLonger ==
  ASSUME NEW cost, NEW N, NEW M, Matrix(cost, N, M),
         NEW n \in Nat, NEW m \in Nat, NEW l \in Nat, n + 1 <= N, m <= M, l <= M,
         NEW f \in A!Matchings(n, m), NEW g \in A!Matchings(n + 1, l),
         NEW b, Longer(g, f, n, b)
  PROVE  A!Total(Prices(g, cost))
           = A!Total(Prices(f, cost)) + IF b = 0 THEN A!SkipLine ELSE cost[n + 1][b]
<1>0. n + 1 \in Nat /\ n <= N
  BY DEF Matrix
<1>1. DOMAIN f = 1 .. n /\ DOMAIN g = 1 .. n + 1
  BY <1>0, MatchingType
<1>2. /\ Prices(f, cost) \in Seq(Int) /\ Len(Prices(f, cost)) = n
      /\ Prices(g, cost) \in Seq(Int) /\ Len(Prices(g, cost)) = n + 1
  BY <1>0, PricesType
<1>3. Agree(Prices(f, cost), Prices(g, cost), n)
  BY <1>1 DEF Agree, Prices, Longer
<1>4. Prices(g, cost)[n + 1] = IF b = 0 THEN A!SkipLine ELSE cost[n + 1][b]
  BY <1>1 DEF Prices, Longer
<1> QED
  BY <1>2, <1>3, <1>4, TotalLonger

LEMMA CostOfSkipped ==
  ASSUME NEW cost, NEW N, NEW M, Matrix(cost, N, M),
         NEW n \in Nat, NEW m \in Nat, NEW l \in Nat, n + 1 <= N, m <= M, l <= M,
         NEW f \in A!Matchings(n, m), NEW g \in A!Matchings(n + 1, l),
         Longer(g, f, n, 0), NEW k \in Int
  PROVE  A!CostOf(g, cost, k) = A!CostOf(f, cost, k) + A!SkipLine
<1>0. n + 1 \in Nat /\ n <= N
  BY DEF Matrix
<1>1. A!Total(Prices(g, cost)) = A!Total(Prices(f, cost)) + A!SkipLine
  BY PricesLonger
<1>2. DOMAIN f = 1 .. n /\ DOMAIN g = 1 .. n + 1
  BY <1>0, MatchingType
<1>3. Placed(g) = Placed(f)
  BY <1>2 DEF Placed, Longer
<1>4. A!Matched(g) = A!Matched(f)
  BY <1>0, <1>3, MatchedType
<1>5. A!Total(Prices(f, cost)) \in Int /\ A!SkipLine \in Int /\ A!Matched(f) \in Int /\ A!SkipBox \in Int
  BY <1>0, CostType, SkipCosts
<1> DEFINE z == (k - A!Matched(f)) * A!SkipBox
<1>6. z \in Int
  BY <1>5
<1>7. /\ A!CostOf(g, cost, k) = A!Total(Prices(g, cost)) + z
      /\ A!CostOf(f, cost, k) = A!Total(Prices(f, cost)) + z
  BY <1>4, CostIs
<1> HIDE DEF z
<1> QED
  BY <1>1, <1>5, <1>6, <1>7

LEMMA CostOfMatched ==
  ASSUME NEW cost, NEW N, NEW M, Matrix(cost, N, M),
         NEW n \in Nat, NEW m \in Nat, NEW l \in Nat, n + 1 <= N, m <= M, l <= M,
         NEW f \in A!Matchings(n, m), NEW g \in A!Matchings(n + 1, l),
         NEW b \in 1 .. M, Longer(g, f, n, b), NEW k \in Int
  PROVE  A!CostOf(g, cost, k) = A!CostOf(f, cost, k - 1) + cost[n + 1][b]
<1>0. n + 1 \in Nat /\ n <= N /\ b # 0
  BY DEF Matrix
<1>1. A!Total(Prices(g, cost)) = A!Total(Prices(f, cost)) + cost[n + 1][b]
  BY <1>0, PricesLonger
<1>2. DOMAIN f = 1 .. n /\ DOMAIN g = 1 .. n + 1
  BY <1>0, MatchingType
<1>3. Placed(g) = Placed(f) \cup {n + 1} /\ n + 1 \notin Placed(f)
  BY <1>0, <1>2 DEF Placed, Longer
<1>4. A!Matched(g) = A!Matched(f) + 1
  BY <1>0, <1>3, MatchedType, FS_AddElement
<1>5. A!Total(Prices(f, cost)) \in Int /\ A!Matched(f) \in Int /\ A!SkipBox \in Int
  BY <1>0, CostType
<1>6. cost[n + 1][b] \in Int
  <2>1. n + 1 \in 1 .. N
    BY DEF Matrix
  <2> QED
    BY <2>1 DEF Matrix
<1> DEFINE z == ((k - 1) - A!Matched(f)) * A!SkipBox
<1>7. z \in Int /\ k - A!Matched(g) = (k - 1) - A!Matched(f)
  BY <1>4, <1>5
<1>8. /\ A!CostOf(g, cost, k) = A!Total(Prices(g, cost)) + z
      /\ A!CostOf(f, cost, k - 1) = A!Total(Prices(f, cost)) + z
  BY <1>7, CostIs
<1> HIDE DEF z
<1> QED
  BY <1>1, <1>5, <1>6, <1>7, <1>8

-----------------------------------------------------------------------------
(* No placement is cheaper than the table says.                            *)

LEMMA Cells ==
  ASSUME NEW cost, NEW N, NEW M, Matrix(cost, N, M), NEW dp, Tabled(dp, cost, N, M)
  PROVE  /\ \A i \in 0 .. N, j \in 0 .. M : dp[i][j] \in Int
         /\ \A i \in 1 .. N : dp[i][0] = dp[i - 1][0] + A!SkipLine
         /\ \A i \in 1 .. N, j \in 1 .. M :
              /\ dp[i][j] <= dp[i - 1][j - 1] + cost[i][j]
              /\ dp[i][j] <= dp[i - 1][j] + A!SkipLine
              /\ dp[i][j] <= dp[i][j - 1] + A!SkipBox
              /\ \/ dp[i][j] = dp[i - 1][j - 1] + cost[i][j]
                 \/ dp[i][j] = dp[i - 1][j] + A!SkipLine
                 \/ dp[i][j] = dp[i][j - 1] + A!SkipBox
<1>1. \A i \in 0 .. N : dp[i] \in [0 .. M -> Int]
  BY DEF Tabled
<1>2. \A i \in 1 .. N : Rowed(dp[i], dp[i - 1], cost[i], M)
  BY DEF Tabled
<1>3. ASSUME NEW i \in 1 .. N, NEW j \in 1 .. M
      PROVE  /\ dp[i][j] = CellCost(dp[i - 1], cost[i], dp[i][j - 1], j)
             /\ dp[i - 1][j - 1] + cost[i][j] \in Int
             /\ dp[i - 1][j] + A!SkipLine \in Int
             /\ dp[i][j - 1] + A!SkipBox \in Int
  <2>1. i - 1 \in 0 .. N /\ i \in 0 .. N /\ j - 1 \in 0 .. M /\ j \in 0 .. M
    BY DEF Matrix
  <2>2. dp[i - 1][j - 1] \in Int /\ dp[i - 1][j] \in Int /\ dp[i][j - 1] \in Int /\ cost[i][j] \in Int
    BY <1>1, <2>1 DEF Matrix
  <2>3. Rowed(dp[i], dp[i - 1], cost[i], M)
    BY <1>2
  <2>4. dp[i][j] = CellCost(dp[i - 1], cost[i], dp[i][j - 1], j)
    BY <2>3 DEF Rowed
  <2> QED
    BY <2>2, <2>4, SkipCosts
<1>4. \A i \in 1 .. N : dp[i][0] = dp[i - 1][0] + A!SkipLine
  BY <1>2 DEF Rowed
<1>5. ASSUME NEW i \in 1 .. N, NEW j \in 1 .. M
      PROVE  /\ dp[i][j] <= dp[i - 1][j - 1] + cost[i][j]
             /\ dp[i][j] <= dp[i - 1][j] + A!SkipLine
             /\ dp[i][j] <= dp[i][j - 1] + A!SkipBox
             /\ \/ dp[i][j] = dp[i - 1][j - 1] + cost[i][j]
                \/ dp[i][j] = dp[i - 1][j] + A!SkipLine
                \/ dp[i][j] = dp[i][j - 1] + A!SkipBox
  <2> DEFINE row == dp[i - 1]
             c == cost[i]
             x == dp[i][j - 1]
  <2>1. /\ dp[i][j] = CellCost(row, c, x, j) /\ row[j - 1] + c[j] \in Int
        /\ row[j] + A!SkipLine \in Int /\ x + A!SkipBox \in Int
    BY <1>3
  <2> HIDE DEF row, c, x
  <2>2. /\ dp[i][j] <= row[j - 1] + c[j]
        /\ dp[i][j] <= row[j] + A!SkipLine
        /\ dp[i][j] <= x + A!SkipBox
        /\ \/ dp[i][j] = row[j - 1] + c[j]
           \/ dp[i][j] = row[j] + A!SkipLine
           \/ dp[i][j] = x + A!SkipBox
    BY <2>1, CellIsLeast
  <2> QED
    BY <2>2 DEF row, c, x
<1>6. \A i \in 0 .. N, j \in 0 .. M : dp[i][j] \in Int
  BY <1>1
<1> QED
  BY <1>4, <1>5, <1>6

\* Without the last line; with one line more.
LEMMA Shorter ==
  ASSUME NEW n \in Nat, NEW m \in Nat, NEW l \in Nat, NEW f \in A!Matchings(n + 1, m),
         \A k \in 1 .. n : f[k] <= l
  PROVE  \E h \in A!Matchings(n, l) : Longer(f, h, n, f[n + 1])
<1> DEFINE h == [k \in 1 .. n |-> f[k]]
<1>1. \A k \in 1 .. n + 1 : f[k] \in 0 .. m
  BY MatchingType
<1>2. \A i, k \in 1 .. n + 1 : i < k /\ f[i] # 0 /\ f[k] # 0 => f[i] < f[k]
  BY MatchingType
<1>3. \A k \in 1 .. n : k \in 1 .. n + 1
  OBVIOUS
<1>4. h \in [1 .. n -> 0 .. l]
  BY <1>1, <1>3
<1>5. \A i, k \in 1 .. n : i < k /\ h[i] # 0 /\ h[k] # 0 => h[i] < h[k]
  BY <1>2, <1>3
<1>6. h \in A!Matchings(n, l)
  BY <1>4, <1>5 DEF A!Matchings
<1>7. Longer(f, h, n, f[n + 1])
  BY DEF Longer
<1> QED
  BY <1>6, <1>7

LEMMA Lengthened ==
  ASSUME NEW n \in Nat, NEW m \in Nat, NEW l \in Nat, m <= l, NEW f \in A!Matchings(n, m),
         NEW b \in 0 .. l, b = 0 \/ m < b
  PROVE  /\ Append(f, b) \in A!Matchings(n + 1, l)
         /\ Longer(Append(f, b), f, n, b)
<1> DEFINE g == Append(f, b)
<1>1. /\ f \in Seq(0 .. m) /\ Len(f) = n /\ \A i \in 1 .. n : f[i] \in 0 .. m
      /\ \A i, k \in 1 .. n : i < k /\ f[i] # 0 /\ f[k] # 0 => f[i] < f[k]
  BY MatchingType
<1>2. DOMAIN g = 1 .. n + 1 /\ g[n + 1] = b /\ \A i \in 1 .. n : g[i] = f[i]
  BY <1>1
<1>3. g \in Seq(0 .. l) /\ Len(g) = n + 1
  BY <1>1
<1> HIDE DEF g
<1>4. \A i \in 1 .. n + 1 : i \in 1 .. n \/ i = n + 1
  OBVIOUS
<1>5. g \in [1 .. n + 1 -> 0 .. l]
  BY <1>2, <1>3
<1>6. ASSUME NEW i \in 1 .. n + 1, NEW k \in 1 .. n + 1, i < k, g[i] # 0, g[k] # 0
      PROVE  g[i] < g[k]
  <2>1. i \in 1 .. n
    BY <1>6
  <2>2. CASE k \in 1 .. n
    BY <1>1, <1>2, <1>6, <2>1, <2>2
  <2>3. CASE k = n + 1
    <3>1. g[k] = b /\ m < b /\ g[i] = f[i] /\ f[i] \in 0 .. m
      BY <1>1, <1>2, <1>6, <2>1, <2>3
    <3> QED
      BY <3>1
  <2> QED
    BY <1>4, <2>2, <2>3
<1>7. g \in A!Matchings(n + 1, l)
  BY <1>5, <1>6 DEF A!Matchings
<1>8. Longer(g, f, n, b)
  BY <1>2 DEF Longer
<1> QED
  BY <1>7, <1>8 DEF g

\* Fewer boxes.
LEMMA Narrowed ==
  ASSUME NEW n \in Nat, NEW m \in Nat, NEW l \in Nat, NEW f \in A!Matchings(n, m),
         \A k \in 1 .. n : f[k] <= l
  PROVE  f \in A!Matchings(n, l)
<1>1. \A k \in 1 .. n : f[k] \in 0 .. m
  BY MatchingType
<1>2. \A k \in 1 .. n : f[k] \in 0 .. l
  BY <1>1
<1> QED
  BY <1>2 DEF A!Matchings

LEMMA NoLines ==
  ASSUME NEW cost, NEW N, NEW M, Matrix(cost, N, M), NEW m \in Nat, m <= M,
         NEW f \in A!Matchings(0, m)
  PROVE  \A k \in Int : A!CostOf(f, cost, k) = k * A!SkipBox
<1>0. 0 \in Nat /\ 0 <= N
  BY DEF Matrix
<1>1. Len(Prices(f, cost)) = 0 /\ Prices(f, cost) \in Seq(Int)
  BY <1>0, PricesType
<1>2. A!Total(Prices(f, cost)) = 0
  BY <1>1, TotalType
<1>3. Placed(f) = {}
  BY MatchingType DEF Placed
<1>4. A!Matched(f) = 0
  BY <1>3, MatchedType, FS_EmptySet
<1> QED
  BY <1>2, <1>4, CostIs, SkipCosts

Bound(dp, cost, i, j) == \A f \in A!Matchings(i, j) : dp[i][j] <= A!CostOf(f, cost, j)

LEMMA BoundStep ==
  ASSUME NEW cost, NEW N, NEW M, Matrix(cost, N, M), NEW dp, Tabled(dp, cost, N, M),
         NEW n \in Nat, n + 1 <= N, NEW j \in 0 .. M, Bound(dp, cost, n, j),
         j > 0 => Bound(dp, cost, n, j - 1) /\ Bound(dp, cost, n + 1, j - 1)
  PROVE  Bound(dp, cost, n + 1, j)
<1> SUFFICES ASSUME NEW f \in A!Matchings(n + 1, j)
             PROVE  dp[n + 1][j] <= A!CostOf(f, cost, j)
  BY DEF Bound
<1> DEFINE i == n + 1
<1>0. i \in 1 .. N /\ i \in Nat /\ i <= N /\ n <= N /\ i - 1 = n /\ n \in 0 .. N /\ i \in 0 .. N
        /\ j \in Nat /\ j <= M /\ j \in Int
  BY DEF Matrix
<1>1. \A k \in 1 .. i : f[k] \in 0 .. j
  BY <1>0, MatchingType
<1>2. \A k \in 1 .. i : f[i] # 0 /\ k < i => f[k] < f[i]
  <2>1. \A k, l \in 1 .. i : k < l /\ f[k] # 0 /\ f[l] # 0 => f[k] < f[l]
    BY <1>0, MatchingType
  <2>2. i \in 1 .. i
    BY <1>0
  <2> QED
    BY <1>1, <2>1, <2>2
<1>3. f[i] \in 0 .. j
  BY <1>0, <1>1
<1>4. dp[n][j] \in Int /\ dp[i][j] \in Int /\ A!SkipLine \in Int /\ A!SkipBox \in Int
  BY <1>0, Cells, SkipCosts
<1>5. dp[i][j] <= dp[n][j] + A!SkipLine
  <2>1. CASE j = 0
    <3>1. dp[i][0] = dp[n][0] + A!SkipLine
      BY <1>0, Cells
    <3> QED
      BY <1>4, <2>1, <3>1
  <2>2. CASE j # 0
    <3>1. j \in 1 .. M
      BY <1>0, <2>2
    <3> QED
      BY <1>0, <3>1, Cells
  <2> QED
    BY <2>1, <2>2
<1> HIDE DEF i
<1>6. CASE f[i] = 0
  <2>1. \A k \in 1 .. n : f[k] <= j
    BY <1>0, <1>1
  <2>2. PICK h \in A!Matchings(n, j) : Longer(f, h, n, f[i])
    BY <1>0, <2>1, Shorter DEF i
  <2>3. A!CostOf(f, cost, j) = A!CostOf(h, cost, j) + A!SkipLine
    BY <1>0, <1>6, <2>2, CostOfSkipped DEF i
  <2>4. dp[n][j] <= A!CostOf(h, cost, j)
    BY DEF Bound
  <2>5. A!CostOf(h, cost, j) \in Int
    BY <1>0, CostType
  <2> QED
    BY <1>4, <1>5, <2>3, <2>4, <2>5 DEF i
<1>7. CASE f[i] = j /\ j # 0
  <2>0. j \in 1 .. M /\ j - 1 \in Nat /\ j - 1 <= M /\ j > 0 /\ j - 1 \in 0 .. M
    <3>1. M \in Nat
      BY DEF Matrix
    <3>2. j > 0
      BY <1>0, <1>7
    <3> QED
      BY <1>0, <3>1, <3>2
  <2>1. \A k \in 1 .. n : f[k] <= j - 1
    <3>1. \A k \in 1 .. n : k \in 1 .. i /\ k < i
      BY <1>0
    <3>2. \A k \in 1 .. n : f[k] < j /\ f[k] \in 0 .. j
      BY <1>1, <1>2, <1>7, <3>1
    <3> QED
      BY <1>0, <3>2
  <2>2. PICK h \in A!Matchings(n, j - 1) : Longer(f, h, n, f[i])
    BY <1>0, <2>0, <2>1, Shorter DEF i
  <2>3. A!CostOf(f, cost, j) = A!CostOf(h, cost, j - 1) + cost[i][j]
    BY <1>0, <1>7, <2>0, <2>2, CostOfMatched DEF i
  <2>4. dp[n][j - 1] <= A!CostOf(h, cost, j - 1)
    BY <2>0 DEF Bound
  <2>5. A!CostOf(h, cost, j - 1) \in Int /\ dp[n][j - 1] \in Int /\ cost[i][j] \in Int
    <3>1. A!CostOf(h, cost, j - 1) \in Int
      BY <1>0, <2>0, CostType
    <3>2. dp[n][j - 1] \in Int
      BY <1>0, <2>0, Cells
    <3>3. cost[i][j] \in Int
      BY <1>0, <2>0 DEF Matrix
    <3> QED
      BY <3>1, <3>2, <3>3
  <2>6. dp[i][j] <= dp[n][j - 1] + cost[i][j]
    BY <1>0, <2>0, Cells
  <2> QED
    BY <1>4, <2>3, <2>4, <2>5, <2>6 DEF i
<1>8. CASE f[i] # 0 /\ f[i] # j
  <2>0. j \in 1 .. M /\ j - 1 \in Nat /\ j - 1 <= M /\ j > 0 /\ j - 1 \in 0 .. M /\ j - 1 \in Int
          /\ (j - 1) + 1 = j /\ f[i] <= j - 1
    <3>1. M \in Nat
      BY DEF Matrix
    <3>2. j > 0 /\ f[i] <= j - 1
      BY <1>0, <1>3, <1>8
    <3> QED
      BY <1>0, <3>1, <3>2
  <2>1. \A k \in 1 .. i : f[k] <= j - 1
    BY <1>0, <1>1, <1>2, <1>3, <1>8, <2>0
  <2>2. f \in A!Matchings(i, j - 1)
    BY <1>0, <2>0, <2>1, Narrowed DEF i
  <2>3. A!CostOf(f, cost, j) = A!CostOf(f, cost, j - 1) + A!SkipBox
    BY <1>0, <2>0, <2>2, CostType
  <2>4. dp[i][j - 1] <= A!CostOf(f, cost, j - 1)
    BY <2>0, <2>2 DEF Bound, i
  <2>5. A!CostOf(f, cost, j - 1) \in Int /\ dp[i][j - 1] \in Int
    BY <1>0, <2>0, <2>2, CostType, Cells
  <2>6. dp[i][j] <= dp[i][j - 1] + A!SkipBox
    BY <1>0, <2>0, Cells
  <2> QED
    BY <1>4, <2>3, <2>4, <2>5, <2>6 DEF i
<1> QED
  BY <1>6, <1>7, <1>8

LEMMA NoneCheaper ==
  ASSUME NEW cost, NEW N, NEW M, Matrix(cost, N, M), NEW dp, Tabled(dp, cost, N, M)
  PROVE  \A i \in 0 .. N, j \in 0 .. M : Bound(dp, cost, i, j)
<1>0. N \in Nat /\ M \in Nat
  BY DEF Matrix
<1> DEFINE S == {t \in Nat : \A i \in 0 .. N, j \in 0 .. M : i + j <= t => Bound(dp, cost, i, j)}
<1>1. ASSUME NEW j \in 0 .. M PROVE Bound(dp, cost, 0, j)
  <2> SUFFICES ASSUME NEW f \in A!Matchings(0, j) PROVE dp[0][j] <= A!CostOf(f, cost, j)
    BY DEF Bound
  <2>1. j \in Nat /\ j <= M /\ j \in Int
    BY <1>0
  <2>2. A!CostOf(f, cost, j) = j * A!SkipBox
    BY <2>1, NoLines
  <2>3. dp[0][j] = j * A!SkipBox
    BY DEF Tabled
  <2> QED
    BY <2>1, <2>2, <2>3, SkipCosts
<1>2. 0 \in S
  <2>1. \A i \in 0 .. N, j \in 0 .. M : i + j <= 0 => i = 0
    OBVIOUS
  <2> QED
    BY <1>1, <2>1
<1>3. ASSUME NEW t \in S PROVE t + 1 \in S
  <2> SUFFICES ASSUME NEW i \in 0 .. N, NEW j \in 0 .. M, i + j <= t + 1
               PROVE  Bound(dp, cost, i, j)
    OBVIOUS
  <2>1. CASE i = 0
    BY <1>1, <2>1
  <2>2. CASE i # 0
    <3> DEFINE n == i - 1
    <3>1. n \in Nat /\ n + 1 = i /\ n + 1 <= N /\ n \in 0 .. N /\ n + j <= t
      BY <1>0, <2>2
    <3>2. j > 0 => j - 1 \in 0 .. M /\ n + (j - 1) <= t /\ i + (j - 1) <= t
      BY <1>0, <3>1
    <3>3. Bound(dp, cost, n, j)
      BY <3>1
    <3>4. j > 0 => Bound(dp, cost, n, j - 1) /\ Bound(dp, cost, i, j - 1)
      BY <3>1, <3>2
    <3> HIDE DEF n
    <3> QED
      BY <3>1, <3>3, <3>4, BoundStep
  <2> QED
    BY <2>1, <2>2
<1>4. S = Nat
  <2>1. S \subseteq Nat
    OBVIOUS
  <2> HIDE DEF S
  <2> QED
    BY <1>2, <1>3, <2>1, Induction
<1> QED
  <2> SUFFICES ASSUME NEW i \in 0 .. N, NEW j \in 0 .. M PROVE Bound(dp, cost, i, j)
    OBVIOUS
  <2>1. i + j \in S
    BY <1>0, <1>4
  <2> QED
    BY <2>1

-----------------------------------------------------------------------------
(* The walk back through the table.                                        *)

\* Whatever places the first i lines in the first j boxes, s completes: the cost
\* of the whole goes up from that of f as the table does.
Ends(dp, cost, N, M, i, j, s) ==
  /\ i \in 0 .. N /\ j \in 0 .. M /\ s \in Seq(0 .. M)
  /\ \A f \in A!Matchings(i, j) :
       /\ f \o s \in A!Matchings(N, M)
       /\ A!CostOf(f \o s, cost, M) = A!CostOf(f, cost, j) + (dp[N][M] - dp[i][j])

LEMMA Regroup ==
  ASSUME NEW X, NEW f \in Seq(X), NEW b \in X, NEW s \in Seq(X)
  PROVE  f \o (<<b>> \o s) = Append(f, b) \o s /\ <<b>> \o s \in Seq(X)
<1>1. <<b>> \in Seq(X)
  OBVIOUS
<1>2. Append(f, b) = f \o <<b>>
  BY AppendIsConcat
<1> QED
  BY <1>1, <1>2, ConcatAssociative

\* A matching of the first boxes, with more of them.
LEMMA Widened ==
  ASSUME NEW n \in Nat, NEW m \in Nat, NEW l \in Nat, m <= l, NEW f \in A!Matchings(n, m)
  PROVE  f \in A!Matchings(n, l)
<1>1. \A k \in 1 .. n : f[k] \in 0 .. m
  BY MatchingType
<1>2. \A k \in 1 .. n : f[k] <= l
  BY <1>1
<1> QED
  BY <1>2, Narrowed

\* A step of the walk costs c, whatever comes before it.
LEMMA Carried ==
  ASSUME NEW a \in Int, NEW c \in Int, NEW last \in Int, NEW u \in Int, NEW v \in Int,
         u = v + c, NEW b, b = a + c, NEW w, w = b + (last - u)
  PROVE  w = a + (last - v)
OBVIOUS

LEMMA MatchedBack ==
  ASSUME NEW cost, NEW N, NEW M, Matrix(cost, N, M), NEW dp, Tabled(dp, cost, N, M),
         NEW i \in 1 .. N, NEW j \in 1 .. M, NEW s, Ends(dp, cost, N, M, i, j, s),
         dp[i][j] = dp[i - 1][j - 1] + cost[i][j]
  PROVE  Ends(dp, cost, N, M, i - 1, j - 1, <<j>> \o s)
<1> DEFINE n == i - 1
           m == j - 1
<1>0. /\ N \in Nat /\ M \in Nat /\ n \in Nat /\ m \in Nat /\ n + 1 = i /\ j \in Nat
      /\ n + 1 <= N /\ m <= M /\ j <= M /\ n \in 0 .. N /\ m \in 0 .. M /\ j \in Int
      /\ j \in 0 .. j /\ m < j /\ m <= j /\ j \in 0 .. M /\ i \in 0 .. N /\ i \in Nat /\ n <= N
      /\ m \in Int /\ i <= N /\ N \in 0 .. N /\ M \in 0 .. M
  BY DEF Matrix
<1>1. s \in Seq(0 .. M) /\ <<j>> \o s \in Seq(0 .. M)
  BY <1>0, Regroup DEF Ends
<1>2. dp[n][m] \in Int /\ dp[i][j] \in Int /\ dp[N][M] \in Int /\ cost[i][j] \in Int
  <2>1. cost[i][j] \in Int
    BY DEF Matrix
  <2>2. dp[n][m] \in Int /\ dp[i][j] \in Int /\ dp[N][M] \in Int
    BY <1>0, Cells
  <2> QED
    BY <2>1, <2>2
<1>3. dp[i][j] = dp[n][m] + cost[i][j]
  OBVIOUS
<1> HIDE DEF n, m
<1>4. ASSUME NEW f \in A!Matchings(n, m)
      PROVE  /\ f \o (<<j>> \o s) \in A!Matchings(N, M)
             /\ A!CostOf(f \o (<<j>> \o s), cost, M) = A!CostOf(f, cost, m) + (dp[N][M] - dp[n][m])
  <2> DEFINE g == Append(f, j)
  <2>1. g \in A!Matchings(i, j) /\ Longer(g, f, n, j)
    BY <1>0, Lengthened
  <2>2. f \in Seq(0 .. M) /\ j \in 0 .. M
    <3>1. f \in A!Matchings(n, M)
      BY <1>0, Widened
    <3> QED
      BY <1>0, <3>1, MatchingType
  <2>3. f \o (<<j>> \o s) = g \o s
    <3> DEFINE X == 0 .. M
    <3>1. j \in X /\ f \in Seq(X) /\ s \in Seq(X)
      BY <1>1, <2>2
    <3> HIDE DEF X
    <3> QED
      BY <3>1, Regroup, SMTT(30)
  <2> HIDE DEF g
  <2>4. A!CostOf(g, cost, j) = A!CostOf(f, cost, j - 1) + cost[i][j]
    <3>1. g \in A!Matchings(n + 1, j)
      BY <1>0, <2>1
    <3>2. A!CostOf(g, cost, j) = A!CostOf(f, cost, j - 1) + cost[n + 1][j]
      BY <1>0, <2>1, <3>1, CostOfMatched
    <3> QED
      BY <1>0, <3>2
  <2>5. A!CostOf(f, cost, m) \in Int /\ j - 1 = m
    BY <1>0, CostType DEF m
  <2>6. g \o s \in A!Matchings(N, M)
        /\ A!CostOf(g \o s, cost, M) = A!CostOf(g, cost, j) + (dp[N][M] - dp[i][j])
    BY <2>1 DEF Ends
  <2>7. A!CostOf(g \o s, cost, M) = A!CostOf(f, cost, m) + (dp[N][M] - dp[n][m])
    <3>1. A!CostOf(g, cost, j) = A!CostOf(f, cost, m) + cost[i][j]
      BY <2>4, <2>5
    <3> QED
      BY <1>2, <1>3, <2>5, <2>6, <3>1, Carried
  <2> QED
    BY <2>3, <2>6, <2>7
<1>5. Ends(dp, cost, N, M, n, m, <<j>> \o s)
  BY <1>0, <1>1, <1>4 DEF Ends
<1> QED
  BY <1>5 DEF n, m

LEMMA SkippedBack ==
  ASSUME NEW cost, NEW N, NEW M, Matrix(cost, N, M), NEW dp, Tabled(dp, cost, N, M),
         NEW i \in 1 .. N, NEW j \in 0 .. M, NEW s, Ends(dp, cost, N, M, i, j, s),
         dp[i][j] = dp[i - 1][j] + A!SkipLine
  PROVE  Ends(dp, cost, N, M, i - 1, j, <<0>> \o s)
<1> DEFINE n == i - 1
<1>0. /\ N \in Nat /\ M \in Nat /\ n \in Nat /\ n + 1 = i /\ j \in Nat
      /\ n + 1 <= N /\ j <= M /\ n \in 0 .. N /\ j \in Int
      /\ 0 \in 0 .. j /\ 0 \in 0 .. M /\ j <= j /\ i \in 0 .. N /\ i \in Nat /\ n <= N
      /\ i <= N /\ N \in 0 .. N /\ M \in 0 .. M
  BY DEF Matrix
<1>1. s \in Seq(0 .. M) /\ <<0>> \o s \in Seq(0 .. M)
  BY <1>0, Regroup DEF Ends
<1>2. dp[n][j] \in Int /\ dp[i][j] \in Int /\ dp[N][M] \in Int /\ A!SkipLine \in Int
  BY <1>0, Cells, SkipCosts
<1>3. dp[i][j] = dp[n][j] + A!SkipLine
  OBVIOUS
<1> HIDE DEF n
<1>4. ASSUME NEW f \in A!Matchings(n, j)
      PROVE  /\ f \o (<<0>> \o s) \in A!Matchings(N, M)
             /\ A!CostOf(f \o (<<0>> \o s), cost, M) = A!CostOf(f, cost, j) + (dp[N][M] - dp[n][j])
  <2> DEFINE g == Append(f, 0)
  <2>1. g \in A!Matchings(i, j) /\ Longer(g, f, n, 0)
    BY <1>0, Lengthened
  <2>2. f \in Seq(0 .. M)
    <3>1. f \in A!Matchings(n, M)
      BY <1>0, Widened
    <3> QED
      BY <1>0, <3>1, MatchingType
  <2>3. f \o (<<0>> \o s) = g \o s
    <3> DEFINE b == 0
               X == 0 .. M
    <3>1. b \in X /\ f \in Seq(X) /\ s \in Seq(X)
      BY <1>0, <1>1, <2>2
    <3> HIDE DEF b, X
    <3>2. f \o (<<b>> \o s) = Append(f, b) \o s
      BY <3>1, Regroup, SMTT(30)
    <3> QED
      BY <3>2 DEF b
  <2> HIDE DEF g
  <2>4. A!CostOf(g, cost, j) = A!CostOf(f, cost, j) + A!SkipLine
    BY <1>0, <2>1, CostOfSkipped
  <2>5. A!CostOf(f, cost, j) \in Int
    BY <1>0, CostType
  <2>6. g \o s \in A!Matchings(N, M)
        /\ A!CostOf(g \o s, cost, M) = A!CostOf(g, cost, j) + (dp[N][M] - dp[i][j])
    BY <2>1 DEF Ends
  <2>7. A!CostOf(g \o s, cost, M) = A!CostOf(f, cost, j) + (dp[N][M] - dp[n][j])
    BY <1>2, <1>3, <2>4, <2>5, <2>6, Carried
  <2> QED
    BY <2>3, <2>6, <2>7
<1>5. Ends(dp, cost, N, M, n, j, <<0>> \o s)
  BY <1>0, <1>1, <1>4 DEF Ends
<1> QED
  BY <1>5 DEF n

LEMMA PassedBack ==
  ASSUME NEW cost, NEW N, NEW M, Matrix(cost, N, M), NEW dp, Tabled(dp, cost, N, M),
         NEW i \in 0 .. N, NEW j \in 1 .. M, NEW s, Ends(dp, cost, N, M, i, j, s),
         dp[i][j] = dp[i][j - 1] + A!SkipBox
  PROVE  Ends(dp, cost, N, M, i, j - 1, s)
<1> DEFINE m == j - 1
<1>0. /\ N \in Nat /\ M \in Nat /\ m \in Nat /\ m + 1 = j /\ j \in Nat
      /\ m <= M /\ j <= M /\ m \in 0 .. M /\ m \in Int
      /\ m <= j /\ i \in Nat /\ i <= N /\ j \in 0 .. M /\ N \in 0 .. N /\ M \in 0 .. M
  BY DEF Matrix
<1>1. s \in Seq(0 .. M)
  BY DEF Ends
<1>2. dp[i][m] \in Int /\ dp[i][j] \in Int /\ dp[N][M] \in Int /\ A!SkipBox \in Int
  BY <1>0, Cells, SkipCosts
<1>3. dp[i][j] = dp[i][m] + A!SkipBox
  OBVIOUS
<1> HIDE DEF m
<1>4. ASSUME NEW f \in A!Matchings(i, m)
      PROVE  /\ f \o s \in A!Matchings(N, M)
             /\ A!CostOf(f \o s, cost, M) = A!CostOf(f, cost, m) + (dp[N][M] - dp[i][m])
  <2>1. f \in A!Matchings(i, j)
    BY <1>0, Widened
  <2>4. A!CostOf(f, cost, m + 1) = A!CostOf(f, cost, m) + A!SkipBox
    BY <1>0, CostType
  <2>5. A!CostOf(f, cost, m) \in Int
    BY <1>0, CostType
  <2>6. f \o s \in A!Matchings(N, M)
        /\ A!CostOf(f \o s, cost, M) = A!CostOf(f, cost, j) + (dp[N][M] - dp[i][j])
    BY <2>1 DEF Ends
  <2>7. A!CostOf(f \o s, cost, M) = A!CostOf(f, cost, m) + (dp[N][M] - dp[i][m])
    <3>1. A!CostOf(f, cost, j) = A!CostOf(f, cost, m) + A!SkipBox
      BY <1>0, <2>4
    <3> QED
      BY <1>2, <1>3, <2>5, <2>6, <3>1, Carried
  <2> QED
    BY <2>6, <2>7
<1>5. Ends(dp, cost, N, M, i, m, s)
  BY <1>0, <1>1, <1>4 DEF Ends
<1> QED
  BY <1>5 DEF m

\* A cell of the walk, and how far the walk still has to go.
Cell(cell, N, M) == cell.line \in 0 .. N /\ cell.box \in 0 .. M /\ cell.match \in Seq(0 .. M)
Gets(next, cell) ==
  \/ next.line + next.box + 1 <= cell.line + cell.box
  \/ next.line = 0 /\ next.box = 0

LEMMA BackStep ==
  ASSUME NEW cost, NEW N, NEW M, Matrix(cost, N, M), NEW dp, Tabled(dp, cost, N, M),
         NEW cell, Ends(dp, cost, N, M, cell.line, cell.box, cell.match),
         NEW next, next = A!Back(dp, cost, cell)
  PROVE  Ends(dp, cost, N, M, next.line, next.box, next.match) /\ Gets(next, cell)
<1> DEFINE i == cell.line
           j == cell.box
           s == cell.match
           First == i > 0 /\ j > 0 /\ dp[i][j] = dp[i - 1][j - 1] + cost[i][j]
           Second == i > 0 /\ (j = 0 \/ dp[i][j] = dp[i - 1][j] + A!SkipLine)
<1>0. i \in 0 .. N /\ j \in 0 .. M /\ N \in Nat /\ M \in Nat
  BY DEF Ends, Matrix
<1>1. CASE First
  <2>1. next.line = i - 1 /\ next.box = j - 1 /\ next.match = <<j>> \o s
    BY <1>1 DEF A!Back
  <2> HIDE DEF i, j, s
  <2>2. i \in 1 .. N /\ j \in 1 .. M
    BY <1>0, <1>1
  <2>3. Ends(dp, cost, N, M, i - 1, j - 1, <<j>> \o s)
    BY <1>1, <2>2, MatchedBack DEF i, j, s
  <2>4. Gets(next, cell)
    BY <2>1, <2>2 DEF Gets, i, j
  <2> QED
    BY <2>1, <2>3, <2>4
<1>2. CASE ~First /\ Second
  <2>1. next.line = i - 1 /\ next.box = j /\ next.match = <<0>> \o s
    BY <1>2 DEF A!Back
  <2> HIDE DEF i, j, s
  <2>2. i \in 1 .. N
    BY <1>0, <1>2
  <2>30. j = 0 \/ dp[i][j] = dp[i - 1][j] + A!SkipLine
    BY <1>2
  <2>3. dp[i][j] = dp[i - 1][j] + A!SkipLine
    <3>1. dp[i][0] = dp[i - 1][0] + A!SkipLine
      BY <2>2, Cells
    <3> QED
      BY <2>30, <3>1
  <2>4. Ends(dp, cost, N, M, i - 1, j, <<0>> \o s)
    BY <1>0, <2>2, <2>3, SkippedBack DEF i, j, s
  <2>5. Gets(next, cell)
    BY <1>0, <2>1, <2>2 DEF Gets, i, j
  <2> QED
    BY <2>1, <2>4, <2>5, SMTT(30)
<1>3. CASE ~First /\ ~Second /\ j > 0
  <2>1. next.line = i /\ next.box = j - 1 /\ next.match = s
    BY <1>3 DEF A!Back
  <2> HIDE DEF i, j, s
  <2>2. j \in 1 .. M
    BY <1>0, <1>3
  <2>3. dp[i][j] = dp[i][j - 1] + A!SkipBox
    <3>1. CASE i = 0
      <4>1. j \in 0 .. M /\ j - 1 \in 0 .. M
        BY <1>0, <2>2
      <4>2. dp[0][j] = j * A!SkipBox /\ dp[0][j - 1] = (j - 1) * A!SkipBox
        BY <4>1 DEF Tabled
      <4>3. j * A!SkipBox = (j - 1) * A!SkipBox + A!SkipBox
        BY <2>2, SkipCosts
      <4> QED
        BY <3>1, <4>2, <4>3
    <3>2. CASE i # 0
      <4>1. i \in 1 .. N
        BY <1>0, <3>2
      <4>2. \/ dp[i][j] = dp[i - 1][j - 1] + cost[i][j]
            \/ dp[i][j] = dp[i - 1][j] + A!SkipLine
            \/ dp[i][j] = dp[i][j - 1] + A!SkipBox
        BY <2>2, <4>1, Cells
      <4> QED
        BY <1>3, <4>1, <4>2
    <3> QED
      BY <3>1, <3>2
  <2>4. Ends(dp, cost, N, M, i, j - 1, s)
    BY <1>0, <2>2, <2>3, PassedBack DEF i, j, s
  <2>5. Gets(next, cell)
    BY <1>0, <2>1, <2>2 DEF Gets, i, j
  <2> QED
    BY <2>1, <2>4, <2>5
<1>4. CASE ~First /\ ~Second /\ ~(j > 0)
  <2>1. next.line = i /\ next.box = 0 /\ next.match = s
    BY <1>4 DEF A!Back
  <2>2. i = 0 /\ j = 0
    BY <1>0, <1>4
  <2> QED
    BY <2>1, <2>2 DEF Gets
<1> QED
  BY <1>1, <1>2, <1>3, <1>4

Walkers(N, M) == [line : 0 .. N, box : 0 .. M, match : Seq(0 .. M)]

LEMMA BackType ==
  ASSUME NEW N \in Nat, NEW M \in Nat, NEW cell \in Walkers(N, M), NEW dp, NEW cost
  PROVE  A!Back(dp, cost, cell) \in Walkers(N, M)
<1> DEFINE i == cell.line
           j == cell.box
           s == cell.match
<1>1. i \in 0 .. N /\ j \in 0 .. M /\ s \in Seq(0 .. M) /\ 0 \in 0 .. M
  BY DEF Walkers
<1>2. <<j>> \o s \in Seq(0 .. M) /\ <<0>> \o s \in Seq(0 .. M)
  <2>1. <<j>> \in Seq(0 .. M) /\ <<0>> \in Seq(0 .. M)
    BY <1>1
  <2> HIDE DEF i, j, s
  <2> QED
    BY <1>1, <2>1, ConcatProperties
<1>3. /\ i > 0 => i - 1 \in 0 .. N
      /\ j > 0 => j - 1 \in 0 .. M
      /\ (IF j > 0 THEN j - 1 ELSE 0) \in 0 .. M
  BY <1>1
<1> DEFINE r1 == [line |-> i - 1, box |-> j - 1, match |-> <<j>> \o s]
           r2 == [line |-> i - 1, box |-> j, match |-> <<0>> \o s]
           r3 == [line |-> i, box |-> IF j > 0 THEN j - 1 ELSE 0, match |-> s]
<1>4. i > 0 /\ j > 0 => r1 \in Walkers(N, M)
  BY <1>2, <1>3 DEF Walkers
<1>5. i > 0 => r2 \in Walkers(N, M)
  BY <1>1, <1>2, <1>3 DEF Walkers
<1>6. r3 \in Walkers(N, M)
  BY <1>1, <1>3 DEF Walkers
<1> DEFINE First == i > 0 /\ j > 0 /\ dp[i][j] = dp[i - 1][j - 1] + cost[i][j]
           Second == i > 0 /\ (j = 0 \/ dp[i][j] = dp[i - 1][j] + A!SkipLine)
<1>7. A!Back(dp, cost, cell) = IF First THEN r1 ELSE IF Second THEN r2 ELSE r3
  BY DEF A!Back
<1>8. (First => i > 0 /\ j > 0) /\ (Second => i > 0)
  OBVIOUS
<1> HIDE DEF r1, r2, r3, First, Second
<1> QED
  BY <1>4, <1>5, <1>6, <1>7, <1>8

\* The cell after t steps.
Along(dp, cost, N, M, cell, t) ==
  /\ Ends(dp, cost, N, M, cell.line, cell.box, cell.match)
  /\ cell.line + cell.box + t <= N + M \/ (cell.line = 0 /\ cell.box = 0)

LEMMA AlongBack ==
  ASSUME NEW cost, NEW N, NEW M, Matrix(cost, N, M), NEW dp, Tabled(dp, cost, N, M),
         NEW t \in Nat, NEW cell, Along(dp, cost, N, M, cell, t),
         NEW next, next = A!Back(dp, cost, cell)
  PROVE  Along(dp, cost, N, M, next, t + 1)
<1>1. Ends(dp, cost, N, M, cell.line, cell.box, cell.match)
  BY DEF Along
<1>2. Ends(dp, cost, N, M, next.line, next.box, next.match) /\ Gets(next, cell)
  BY <1>1, BackStep
<1>3. /\ cell.line \in 0 .. N /\ cell.box \in 0 .. M
      /\ next.line \in 0 .. N /\ next.box \in 0 .. M /\ N \in Nat /\ M \in Nat
  BY <1>1, <1>2 DEF Ends, Matrix
<1>4. next.line + next.box + (t + 1) <= N + M \/ (next.line = 0 /\ next.box = 0)
  <2>1. CASE next.line = 0 /\ next.box = 0
    BY <2>1
  <2>2. CASE next.line + next.box + 1 <= cell.line + cell.box
    <3>1. cell.line + cell.box + t <= N + M
      BY <1>3, <2>2 DEF Along
    <3> QED
      BY <1>3, <2>2, <3>1
  <2> QED
    BY <1>2, <2>1, <2>2 DEF Gets
<1> QED
  BY <1>2, <1>4 DEF Along

\* The walk finds a placement that costs what the table says.
LEMMA Walked ==
  ASSUME NEW cost, NEW N, NEW M, Matrix(cost, N, M), NEW dp, Tabled(dp, cost, N, M)
  PROVE  /\ A!Matches(dp, cost, M) \in A!Matchings(N, M)
         /\ A!CostOf(A!Matches(dp, cost, M), cost, M) = dp[N][M]
<1> DEFINE X == Walkers(N, M)
           a == [line |-> N, box |-> M, match |-> <<>>]
           n == N + M
           g == [p \in X \X (1 .. n) |-> A!Back(dp, cost, p[1])]
           New(f) == f = [t \in 0 .. n |-> IF t = 0 THEN a ELSE A!Back(dp, cost, f[t - 1])]
           F == CHOOSE f : New(f)
<1>0. N \in Nat /\ M \in Nat /\ n \in Nat /\ Len(cost) = N
  BY DEF Matrix
<1>1. A!Matches(dp, cost, M) = F[n].match
  BY <1>0 DEF A!Matches
<1>2. a \in X
  BY <1>0 DEF Walkers
<1>3. \A x \in X : A!Back(dp, cost, x) \in X
  BY <1>0, BackType
<1>4. a.line = N /\ a.box = M /\ a.match = <<>>
  OBVIOUS
<1> HIDE DEF X, a
<1>5. g \in [X \X (1 .. n) -> X] /\ \A x \in X, t \in 1 .. n : g[<<x, t>>] = A!Back(dp, cost, x)
  BY <1>3
<1> HIDE DEF g, n
<1>6. \E f : New(f)
  <2>1. PICK f \in [0 .. n -> X] : Iterates(f, a, g, n)
    BY <1>0, <1>2, <1>5, Iteration
  <2>2. \A k \in 1 .. n : k - 1 \in 0 .. n /\ f[k - 1] \in X /\ f[k] = g[<<f[k - 1], k>>]
    BY <1>0, <2>1 DEF Iterates
  <2>3. \A k \in 1 .. n : f[k] = A!Back(dp, cost, f[k - 1])
    BY <1>5, <2>2
  <2>4. f[0] = a
    BY <2>1 DEF Iterates
  <2>5. f = [k \in 0 .. n |-> IF k = 0 THEN a ELSE A!Back(dp, cost, f[k - 1])]
    BY <1>0, <2>3, <2>4
  <2> QED
    BY <2>5
<1>7. New(F)
  BY <1>6
<1> HIDE DEF F
<1>8. F[0] = a /\ \A k \in 1 .. n : F[k] = A!Back(dp, cost, F[k - 1])
  <2>1. \A k \in 0 .. n : F[k] = IF k = 0 THEN a ELSE A!Back(dp, cost, F[k - 1])
    BY <1>7
  <2> QED
    BY <1>0, <2>1
<1>9. Along(dp, cost, N, M, a, 0)
  <2>1. ASSUME NEW f \in A!Matchings(N, M)
        PROVE  /\ f \o <<>> \in A!Matchings(N, M)
               /\ A!CostOf(f \o <<>>, cost, M) = A!CostOf(f, cost, M) + (dp[N][M] - dp[N][M])
    <3>1. f \in Seq(0 .. M)
      BY <1>0, MatchingType
    <3>2. f \o <<>> = f
      BY <3>1, ConcatEmptySeq
    <3>3. N <= N /\ M <= M /\ M \in Int /\ N \in 0 .. N /\ M \in 0 .. M
      BY <1>0
    <3>4. A!CostOf(f, cost, M) \in Int
      BY <1>0, <3>3, CostType
    <3>5. dp[N][M] \in Int
      BY <3>3, Cells
    <3> QED
      BY <3>2, <3>4, <3>5
  <2>2. N \in 0 .. N /\ M \in 0 .. M /\ <<>> \in Seq(0 .. M)
    BY <1>0
  <2>3. Ends(dp, cost, N, M, N, M, <<>>)
    BY <2>1, <2>2 DEF Ends
  <2>4. N + M + 0 <= N + M
    BY <1>0
  <2> QED
    BY <1>4, <2>3, <2>4 DEF Along
<1> DEFINE S == {t \in Nat : t <= n => Along(dp, cost, N, M, F[t], t)}
<1>10. 0 \in S
  BY <1>8, <1>9
<1>11. ASSUME NEW t \in S PROVE t + 1 \in S
  <2> SUFFICES ASSUME t + 1 <= n PROVE Along(dp, cost, N, M, F[t + 1], t + 1)
    OBVIOUS
  <2>1. t \in Nat /\ t + 1 \in 1 .. n /\ (t + 1) - 1 = t /\ Along(dp, cost, N, M, F[t], t)
    BY <1>0
  <2> DEFINE next == F[t + 1]
  <2>2. next = A!Back(dp, cost, F[t])
    BY <1>8, <2>1
  <2> HIDE DEF next
  <2>3. Along(dp, cost, N, M, next, t + 1)
    BY <2>1, <2>2, AlongBack
  <2> QED
    BY <2>3 DEF next
<1>12. S = Nat
  <2>1. S \subseteq Nat
    OBVIOUS
  <2> HIDE DEF S
  <2> QED
    BY <1>10, <1>11, <2>1, Induction
<1> DEFINE last == F[n]
<1>13. Along(dp, cost, N, M, last, n)
  BY <1>0, <1>12
<1> HIDE DEF last, S
<1>14. Ends(dp, cost, N, M, last.line, last.box, last.match) /\ last.line = 0 /\ last.box = 0
  BY <1>0, <1>13 DEF Along, Ends, n
<1>15. Ends(dp, cost, N, M, 0, 0, last.match)
  BY <1>14
<1>16. <<>> \in A!Matchings(0, 0)
  BY DEF A!Matchings
<1> DEFINE e == <<>>
           s == last.match
<1>17. e \o s = s
  <2>1. s \in Seq(0 .. M)
    BY <1>15 DEF Ends
  <2> QED
    BY <2>1, ConcatEmptySeq
<1>18. e \in A!Matchings(0, 0)
  BY <1>16
<1> HIDE DEF e, s
<1>19. e \o s \in A!Matchings(N, M)
       /\ A!CostOf(e \o s, cost, M) = A!CostOf(e, cost, 0) + (dp[N][M] - dp[0][0])
  BY <1>15, <1>18 DEF Ends, s
<1>20. A!CostOf(e, cost, 0) = 0
  <2>1. 0 \in Nat /\ 0 <= M /\ 0 \in Int
    BY <1>0
  <2>2. A!CostOf(e, cost, 0) = 0 * A!SkipBox
    BY <1>18, <2>1, NoLines
  <2> QED
    BY <2>2, SkipCosts
<1>21. dp[0][0] = 0 /\ dp[N][M] \in Int
  <2>1. dp[0][0] = 0 * A!SkipBox
    BY <1>0 DEF Tabled
  <2>2. N \in 0 .. N /\ M \in 0 .. M
    BY <1>0
  <2>3. dp[N][M] \in Int
    BY <2>2, Cells
  <2> QED
    BY <2>1, <2>3, SkipCosts
<1> QED
  BY <1>1, <1>17, <1>19, <1>20, <1>21 DEF s, last

-----------------------------------------------------------------------------
(* The reading orders.                                                     *)

Distinct(s) == \A i, k \in DOMAIN s : i # k => s[i] # s[k]
Within(r, s) == \A i \in DOMAIN r : \E k \in DOMAIN s : r[i] = s[k]
Rearranged(r, s, B) ==
  r \in Seq(B) /\ Len(r) = Len(s) /\ Within(r, s) /\ (Distinct(s) => Distinct(r))

\* P[j] is what comes before j, in a strict linear order.
Linear(P, n) ==
  /\ P \in [1 .. n -> SUBSET (1 .. n)]
  /\ \A j \in 1 .. n : j \notin P[j]
  /\ \A i, j \in 1 .. n : i # j => i \in P[j] \/ j \in P[i]
  /\ \A i, j, k \in 1 .. n : i \in P[j] /\ j \in P[k] => i \in P[k]

LEMMA Ranks ==
  ASSUME NEW n \in Nat, NEW P, Linear(P, n)
  PROVE  /\ \A k \in 1 .. n : \E j \in 1 .. n : Cardinality(P[j]) = k - 1
         /\ \A i, j \in 1 .. n : Cardinality(P[i]) = Cardinality(P[j]) => i = j
<1> DEFINE Q(j) == P[j] \cup {j}
           rank == [j \in 1 .. n |-> Cardinality(P[j]) + 1]
<1>1. IsFiniteSet(1 .. n) /\ Cardinality(1 .. n) = n
  <2>1. 1 \in Int /\ n \in Int
    OBVIOUS
  <2>2. IsFiniteSet(1 .. n) /\ Cardinality(1 .. n) = IF 1 > n THEN 0 ELSE n - 1 + 1
    BY <2>1, FS_Interval
  <2> QED
    BY <2>2
<1>2. ASSUME NEW j \in 1 .. n
      PROVE  /\ IsFiniteSet(P[j]) /\ Cardinality(P[j]) \in Nat /\ Cardinality(P[j]) < n
  <2>1. P[j] \in SUBSET (1 .. n) /\ P[j] # 1 .. n
    BY DEF Linear
  <2>2. IsFiniteSet(P[j]) /\ Cardinality(P[j]) <= n /\ Cardinality(P[j]) # n
    BY <1>1, <2>1, FS_Subset
  <2>3. Cardinality(P[j]) \in Nat
    BY <2>2, FS_CardinalityType
  <2> QED
    BY <2>2, <2>3
<1>3. ASSUME NEW i \in 1 .. n, NEW j \in 1 .. n, i \in P[j]
      PROVE  Cardinality(P[i]) # Cardinality(P[j])
  <2>1. P[i] \in SUBSET P[j]
    BY <1>3 DEF Linear
  <2>2. P[i] # P[j]
    BY <1>3 DEF Linear
  <2> QED
    BY <1>2, <2>1, <2>2, FS_Subset
<1>4. \A i, j \in 1 .. n : Cardinality(P[i]) = Cardinality(P[j]) => i = j
  BY <1>3 DEF Linear
<1>5. rank \in [1 .. n -> 1 .. n]
  BY <1>2
<1>6. IsInjective(rank)
  <2>1. \A i, j \in 1 .. n : rank[i] = rank[j] => i = j
    BY <1>2, <1>4
  <2> QED
    BY <2>1 DEF IsInjective
<1>7. rank \in Surjection(1 .. n, 1 .. n)
  <2>1. rank \in Injection(1 .. n, 1 .. n)
    BY <1>5, <1>6 DEF Injection
  <2> HIDE DEF rank
  <2> QED
    BY <1>1, <2>1, FS_Injection
<1>8. ASSUME NEW k \in 1 .. n PROVE \E j \in 1 .. n : Cardinality(P[j]) = k - 1
  <2>1. PICK j \in 1 .. n : rank[j] = k
    BY <1>7 DEF Surjection
  <2> QED
    BY <1>2, <2>1
<1> QED
  BY <1>4, <1>8

\* Each element of s from the place that has its rank.
Ranked(r, s, P, place, B) ==
  /\ r \in [1 .. Len(s) -> B]
  /\ \A k \in 1 .. Len(s) :
       place[k] \in 1 .. Len(s) /\ Cardinality(P[place[k]]) = k - 1 /\ r[k] = s[place[k]]

LEMMA ByRank ==
  ASSUME NEW B, NEW s \in Seq(B), NEW P, NEW r, NEW place, Ranked(r, s, P, place, B)
  PROVE  Rearranged(r, s, B)
<1>0. /\ r \in [1 .. Len(s) -> B]
      /\ \A k \in 1 .. Len(s) :
           place[k] \in 1 .. Len(s) /\ Cardinality(P[place[k]]) = k - 1 /\ r[k] = s[place[k]]
  BY DEF Ranked
<1>1. /\ r \in Seq(B) /\ Len(r) = Len(s) /\ Len(s) \in Nat
      /\ DOMAIN r = 1 .. Len(s) /\ DOMAIN s = 1 .. Len(s)
  BY <1>0
<1>2. Within(r, s)
  BY <1>0, <1>1 DEF Within
<1>3. ASSUME Distinct(s), NEW i \in DOMAIN r, NEW k \in DOMAIN r, i # k
      PROVE  r[i] # r[k]
  <2>1. place[i] # place[k]
    BY <1>0, <1>1, <1>3
  <2> QED
    BY <1>0, <1>1, <1>3, <2>1 DEF Distinct
<1>4. Distinct(s) => Distinct(r)
  BY <1>3 DEF Distinct
<1> QED
  BY <1>1, <1>2, <1>4 DEF Rearranged

\* Two keys, and the place where they are equal.
Keyed(P, u, v, n) ==
  /\ P \in [1 .. n -> SUBSET (1 .. n)] /\ u \in [1 .. n -> Int] /\ v \in [1 .. n -> Int]
  /\ \A i, j \in 1 .. n :
       i \in P[j] <=> \/ u[i] < u[j]
                      \/ u[i] = u[j] /\ v[i] < v[j]
                      \/ u[i] = u[j] /\ v[i] = v[j] /\ i < j

LEMMA KeyOrder ==
  ASSUME NEW n \in Nat, NEW P, NEW u, NEW v, Keyed(P, u, v, n)
  PROVE  Linear(P, n)
<1>1. /\ P \in [1 .. n -> SUBSET (1 .. n)]
      /\ \A i \in 1 .. n : u[i] \in Int /\ v[i] \in Int /\ i \in Int
  BY DEF Keyed
<1>2. \A i, j \in 1 .. n :
        i \in P[j] <=> \/ u[i] < u[j]
                       \/ u[i] = u[j] /\ v[i] < v[j]
                       \/ u[i] = u[j] /\ v[i] = v[j] /\ i < j
  BY DEF Keyed
<1>3. \A j \in 1 .. n : j \notin P[j]
  BY <1>1, <1>2
<1>4. ASSUME NEW i \in 1 .. n, NEW j \in 1 .. n, i # j PROVE i \in P[j] \/ j \in P[i]
  BY <1>1, <1>2, <1>4
<1>5. ASSUME NEW i \in 1 .. n, NEW j \in 1 .. n, NEW k \in 1 .. n, i \in P[j], j \in P[k]
      PROVE  i \in P[k]
  <2>1. u[i] <= u[j] /\ u[j] <= u[k]
    BY <1>1, <1>2, <1>5
  <2>2. u[i] = u[j] => v[i] <= v[j] /\ (v[i] = v[j] => i < j)
    BY <1>1, <1>2, <1>5
  <2>3. u[j] = u[k] => v[j] <= v[k] /\ (v[j] = v[k] => j < k)
    BY <1>1, <1>2, <1>5
  <2>4. u[i] < u[k] \/ u[i] = u[k]
    BY <1>1, <2>1
  <2>5. CASE u[i] = u[k]
    <3>1. u[i] = u[j] /\ u[j] = u[k]
      BY <1>1, <2>1, <2>5
    <3>2. v[i] < v[k] \/ (v[i] = v[k] /\ i < k)
      BY <1>1, <2>2, <2>3, <3>1
    <3> QED
      BY <1>2, <2>5, <3>2
  <2> QED
    BY <1>2, <2>4, <2>5
<1> QED
  BY <1>1, <1>3, <1>4, <1>5 DEF Linear

\* What the detector keeps of a page: boxes that have an area.
Detections == {b \in [x0 : Int, y0 : Int, x1 : Int, y1 : Int] : b.x0 < b.x1 /\ b.y0 < b.y1}

LEMMA RowMajorType ==
  ASSUME NEW boxes \in Seq(Detections), NEW s \in Seq(DOMAIN boxes)
  PROVE  Rearranged(A!RowMajor(boxes, s), s, DOMAIN boxes)
<1> DEFINE n == Len(s)
           y(i) == boxes[s[i]].y0
           x(i) == boxes[s[i]].x0
           Less(i, j) == y(i) < y(j) \/ (y(i) = y(j) /\ x(i) < x(j))
           Pre(j) == {i \in DOMAIN s : Less(i, j) \/ (~Less(j, i) /\ i < j)}
           place(k) == CHOOSE j \in DOMAIN s : A!Cardinality(Pre(j)) = k - 1
           r == [k \in DOMAIN s |-> s[place(k)]]
           u == [i \in 1 .. n |-> y(i)]
           v == [i \in 1 .. n |-> x(i)]
           P == [j \in 1 .. n |-> Pre(j)]
           t == [k \in 1 .. n |-> place(k)]
<1>1. A!RowMajor(boxes, s) = r
  BY DEF A!RowMajor, A!SortedBy
<1>2. n \in Nat /\ DOMAIN s = 1 .. n /\ \A i \in 1 .. n : s[i] \in DOMAIN boxes
  OBVIOUS
<1>3. \A i \in 1 .. n : y(i) \in Int /\ x(i) \in Int
  <2>1. \A k \in DOMAIN boxes : boxes[k].y0 \in Int /\ boxes[k].x0 \in Int
    BY DEF Detections
  <2> QED
    BY <1>2, <2>1
<1> HIDE DEF y, x, n
<1>4. \A i \in 1 .. n : u[i] = y(i) /\ v[i] = x(i)
  OBVIOUS
<1>5. \A j \in 1 .. n : P[j] = Pre(j)
  OBVIOUS
<1>6. Keyed(P, u, v, n)
  <2>1. u \in [1 .. n -> Int] /\ v \in [1 .. n -> Int] /\ P \in [1 .. n -> SUBSET (1 .. n)]
    BY <1>2, <1>3
  <2>2. ASSUME NEW i \in 1 .. n, NEW j \in 1 .. n
        PROVE  i \in P[j] <=> \/ u[i] < u[j]
                              \/ u[i] = u[j] /\ v[i] < v[j]
                              \/ u[i] = u[j] /\ v[i] = v[j] /\ i < j
    <3>1. i \in P[j] <=> Less(i, j) \/ (~Less(j, i) /\ i < j)
      BY <1>2
    <3> HIDE DEF P, u, v
    <3> QED
      BY <1>3, <1>4, <3>1
  <2> HIDE DEF P, u, v
  <2> QED
    BY <2>1, <2>2 DEF Keyed
<1> HIDE DEF P, u, v, Pre
<1>7. Linear(P, n)
  BY <1>2, <1>6, KeyOrder
<1>8. ASSUME NEW k \in 1 .. n
       PROVE  place(k) \in 1 .. n /\ Cardinality(P[place(k)]) = k - 1
  <2>1. \E j \in 1 .. n : Cardinality(P[j]) = k - 1
    BY <1>2, <1>7, Ranks
  <2>2. \E j \in DOMAIN s : A!Cardinality(Pre(j)) = k - 1
    BY <1>2, <1>5, <2>1, SameCardinality
  <2>3. place(k) \in DOMAIN s /\ A!Cardinality(Pre(place(k))) = k - 1
    BY <2>2
  <2> QED
    BY <1>2, <1>5, <2>3, SameCardinality
<1>9. \A k \in 1 .. n : t[k] = place(k) /\ r[k] = s[place(k)]
  BY <1>2
<1>10. r \in [1 .. n -> DOMAIN boxes]
  BY <1>2, <1>8
<1> HIDE DEF r, place, t
<1>11. Ranked(r, s, P, t, DOMAIN boxes)
  BY <1>8, <1>9, <1>10 DEF Ranked, n
<1> QED
  BY <1>1, <1>11, ByRank

\* The boxes by their centres, as Columns sorts them.
Across(boxes, s) == A!SortedBy(s, LAMBDA i, j : A!Centre(boxes[i]) < A!Centre(boxes[j]))

LEMMA AcrossType ==
  ASSUME NEW boxes \in Seq(Detections), NEW s \in Seq(DOMAIN boxes)
  PROVE  Rearranged(Across(boxes, s), s, DOMAIN boxes)
<1> DEFINE n == Len(s)
           c(i) == A!Centre(boxes[s[i]])
           Pre(j) == {i \in DOMAIN s : c(i) < c(j) \/ (~(c(j) < c(i)) /\ i < j)}
           place(k) == CHOOSE j \in DOMAIN s : A!Cardinality(Pre(j)) = k - 1
           r == [k \in DOMAIN s |-> s[place(k)]]
           u == [i \in 1 .. n |-> c(i)]
           v == [i \in 1 .. n |-> 0]
           P == [j \in 1 .. n |-> Pre(j)]
           t == [k \in 1 .. n |-> place(k)]
<1>1. Across(boxes, s) = r
  BY DEF Across, A!SortedBy
<1>2. n \in Nat /\ DOMAIN s = 1 .. n /\ \A i \in 1 .. n : s[i] \in DOMAIN boxes
  OBVIOUS
<1>3. \A i \in 1 .. n : c(i) \in Int
  <2>1. \A k \in DOMAIN boxes : boxes[k].x0 \in Int /\ boxes[k].x1 \in Int
    BY DEF Detections
  <2> QED
    BY <1>2, <2>1 DEF A!Centre
<1> HIDE DEF c, n
<1>4. \A i \in 1 .. n : u[i] = c(i) /\ v[i] = 0
  OBVIOUS
<1>5. \A j \in 1 .. n : P[j] = Pre(j)
  OBVIOUS
<1>6. Keyed(P, u, v, n)
  <2>1. u \in [1 .. n -> Int] /\ v \in [1 .. n -> Int] /\ P \in [1 .. n -> SUBSET (1 .. n)]
    BY <1>2, <1>3
  <2>2. ASSUME NEW i \in 1 .. n, NEW j \in 1 .. n
        PROVE  i \in P[j] <=> \/ u[i] < u[j]
                              \/ u[i] = u[j] /\ v[i] < v[j]
                              \/ u[i] = u[j] /\ v[i] = v[j] /\ i < j
    <3>1. i \in P[j] <=> c(i) < c(j) \/ (~(c(j) < c(i)) /\ i < j)
      BY <1>2
    <3> HIDE DEF P, u, v
    <3> QED
      BY <1>3, <1>4, <3>1
  <2> HIDE DEF P, u, v
  <2> QED
    BY <2>1, <2>2 DEF Keyed
<1> HIDE DEF P, u, v, Pre
<1>7. Linear(P, n)
  BY <1>2, <1>6, KeyOrder
<1>8. ASSUME NEW k \in 1 .. n
       PROVE  place(k) \in 1 .. n /\ Cardinality(P[place(k)]) = k - 1
  <2>1. \E j \in 1 .. n : Cardinality(P[j]) = k - 1
    BY <1>2, <1>7, Ranks
  <2>2. \E j \in DOMAIN s : A!Cardinality(Pre(j)) = k - 1
    BY <1>2, <1>5, <2>1, SameCardinality
  <2>3. place(k) \in DOMAIN s /\ A!Cardinality(Pre(place(k))) = k - 1
    BY <2>2
  <2> QED
    BY <1>2, <1>5, <2>3, SameCardinality
<1>9. \A k \in 1 .. n : t[k] = place(k) /\ r[k] = s[place(k)]
  BY <1>2
<1>10. r \in [1 .. n -> DOMAIN boxes]
  BY <1>2, <1>8
<1> HIDE DEF r, place, t
<1>11. Ranked(r, s, P, t, DOMAIN boxes)
  BY <1>8, <1>9, <1>10 DEF Ranked, n
<1> QED
  BY <1>1, <1>11, ByRank

\* Two parts, each rearranged, of a sequence.
LEMMA PartOf ==
  ASSUME NEW B, NEW s \in Seq(B), NEW a \in Nat, NEW b \in Nat, 1 <= a, a <= b + 1, b <= Len(s)
  PROVE  /\ SubSeq(s, a, b) \in Seq(B) /\ Len(SubSeq(s, a, b)) = b - a + 1
         /\ \A i \in 1 .. b - a + 1 : SubSeq(s, a, b)[i] = s[a - 1 + i]
<1>1. DOMAIN s = 1 .. Len(s) /\ Len(s) \in Nat
  OBVIOUS
<1>2. \A i \in a .. b : s[i] \in B
  BY <1>1
<1>3. SubSeq(s, a, b) \in Seq(B)
  BY <1>2
<1>4. Len(SubSeq(s, a, b)) = b - a + 1
  OBVIOUS
<1>5. \A i \in 1 .. b - a + 1 : SubSeq(s, a, b)[i] = s[a - 1 + i]
  OBVIOUS
<1> QED
  BY <1>3, <1>4, <1>5

\* p is the part of s that starts after the first a elements.
Part(p, s, a) == \A i \in DOMAIN p : a + i \in DOMAIN s /\ p[i] = s[a + i]

Chain(r, r1, r2, B) ==
  /\ r \in Seq(B) /\ Len(r) = Len(r1) + Len(r2)
  /\ \A i \in 1 .. Len(r1) + Len(r2) : r[i] = IF i <= Len(r1) THEN r1[i] ELSE r2[i - Len(r1)]

LEMMA Chained ==
  ASSUME NEW B, NEW r1 \in Seq(B), NEW r2 \in Seq(B)
  PROVE  Chain(r1 \o r2, r1, r2, B)
BY ConcatProperties, Zenon DEF Chain

LEMMA Joined ==
  ASSUME NEW B, NEW s \in Seq(B), NEW q \in Seq(B), NEW p1 \in Seq(B), NEW p2 \in Seq(B),
         NEW r1, NEW r2, Rearranged(q, s, B),
         Rearranged(r1, p1, B), Rearranged(r2, p2, B),
         Part(p1, q, 0), Part(p2, q, Len(p1)), Len(p1) + Len(p2) = Len(q)
  PROVE  Rearranged(r1 \o r2, s, B)
<1> DEFINE r == r1 \o r2
           a == Len(p1)
           n == Len(s)
<1>1. /\ r1 \in Seq(B) /\ r2 \in Seq(B) /\ Len(r1) = a /\ Len(r2) = Len(p2) /\ Len(q) = n
      /\ a \in Nat /\ Len(p2) \in Nat /\ n \in Nat /\ a + Len(p2) = n
  BY DEF Rearranged
<1>2. /\ DOMAIN r1 = 1 .. a /\ DOMAIN r2 = 1 .. Len(p2) /\ DOMAIN p1 = 1 .. a
      /\ DOMAIN p2 = 1 .. Len(p2) /\ DOMAIN q = 1 .. n /\ DOMAIN s = 1 .. n
  BY <1>1
<1>3. /\ r \in Seq(B) /\ Len(r) = n
      /\ \A i \in 1 .. n : r[i] = IF i <= a THEN r1[i] ELSE r2[i - a]
  <2>1. Chain(r, r1, r2, B)
    BY <1>1, Chained
  <2> HIDE DEF r, a, n
  <2>2. Len(r1) + Len(r2) = n /\ Len(r1) = a
    BY <1>1
  <2> QED
    BY <2>1, <2>2 DEF Chain
<1>4. DOMAIN r = 1 .. n
  <2> HIDE DEF r
  <2>1. DOMAIN r = 1 .. Len(r)
    BY <1>3
  <2> QED
    BY <1>3, <2>1
<1> HIDE DEF r, a, n
<1>5. ASSUME NEW i \in 1 .. n, i <= a
      PROVE  r[i] = r1[i] /\ i \in DOMAIN r1
  BY <1>1, <1>2, <1>3, <1>5
<1>6. ASSUME NEW i \in 1 .. n, ~(i <= a)
      PROVE  r[i] = r2[i - a] /\ i - a \in DOMAIN r2
  BY <1>1, <1>2, <1>3, <1>6
<1>7. ASSUME NEW i \in 1 .. n, i <= a
      PROVE  \E k \in 1 .. n : k <= a /\ r[i] = q[k]
  <2>1. PICK k \in DOMAIN p1 : r1[i] = p1[k]
    BY <1>5, <1>7 DEF Rearranged, Within
  <2>2. 0 + k \in DOMAIN q /\ p1[k] = q[0 + k]
    BY <2>1 DEF Part
  <2>3. 0 + k = k /\ k <= a
    BY <1>1, <1>2
  <2> QED
    BY <1>2, <1>5, <1>7, <2>1, <2>2, <2>3
<1>8. ASSUME NEW i \in 1 .. n, ~(i <= a)
      PROVE  \E k \in 1 .. n : a < k /\ r[i] = q[k]
  <2>1. PICK k \in DOMAIN p2 : r2[i - a] = p2[k]
    BY <1>6, <1>8 DEF Rearranged, Within
  <2>2. a + k \in DOMAIN q /\ p2[k] = q[a + k]
    BY <2>1 DEF Part, a
  <2>3. a < a + k
    BY <1>1, <1>2
  <2> QED
    BY <1>2, <1>6, <1>8, <2>1, <2>2, <2>3
<1>9. \A i \in 1 .. n : \E k \in 1 .. n : r[i] = q[k]
  BY <1>7, <1>8
<1>10. Within(r, s)
  <2>1. \A k \in 1 .. n : \E l \in 1 .. n : q[k] = s[l]
    BY <1>2 DEF Rearranged, Within
  <2>2. \A i \in 1 .. n : \E l \in 1 .. n : r[i] = s[l]
    <3> SUFFICES ASSUME NEW i \in 1 .. n PROVE \E l \in 1 .. n : r[i] = s[l]
      OBVIOUS
    <3>1. PICK k \in 1 .. n : r[i] = q[k]
      BY <1>9
    <3>2. PICK l \in 1 .. n : q[k] = s[l]
      BY <2>1
    <3> QED
      BY <3>1, <3>2
  <2> QED
    BY <1>2, <1>4, <2>2 DEF Within
<1>11. ASSUME Distinct(s) PROVE Distinct(r)
  <2>1. Distinct(q)
    BY <1>11 DEF Rearranged
  <2>2. \A i, k \in 1 .. n : i # k => q[i] # q[k]
    BY <1>2, <2>1 DEF Distinct
  <2>3. Distinct(p1)
    <3>1. ASSUME NEW i \in DOMAIN p1, NEW k \in DOMAIN p1, i # k PROVE p1[i] # p1[k]
      <4>1. 0 + i \in 1 .. n /\ 0 + k \in 1 .. n /\ p1[i] = q[0 + i] /\ p1[k] = q[0 + k]
        BY <1>2 DEF Part
      <4>2. 0 + i # 0 + k
        BY <1>2, <3>1
      <4> QED
        BY <2>2, <4>1, <4>2
    <3> QED
      BY <3>1 DEF Distinct
  <2>4. Distinct(p2)
    <3>1. ASSUME NEW i \in DOMAIN p2, NEW k \in DOMAIN p2, i # k PROVE p2[i] # p2[k]
      <4>1. a + i \in 1 .. n /\ a + k \in 1 .. n /\ p2[i] = q[a + i] /\ p2[k] = q[a + k]
        BY <1>2 DEF Part, a
      <4>2. a + i # a + k
        BY <1>1, <1>2, <3>1
      <4> QED
        BY <2>2, <4>1, <4>2
    <3> QED
      BY <3>1 DEF Distinct
  <2>5. Distinct(r1) /\ Distinct(r2)
    BY <2>3, <2>4 DEF Rearranged
  <2>6. ASSUME NEW i \in 1 .. n, NEW k \in 1 .. n, i # k PROVE r[i] # r[k]
    <3>1. CASE i <= a /\ k <= a
      BY <1>5, <2>5, <2>6, <3>1 DEF Distinct
    <3>2. CASE ~(i <= a) /\ ~(k <= a)
      <4>1. i - a # k - a
        BY <1>1, <2>6
      <4> QED
        BY <1>6, <2>5, <3>2, <4>1 DEF Distinct
    <3>3. CASE i <= a /\ ~(k <= a)
      <4>1. PICK x \in 1 .. n : x <= a /\ r[i] = q[x]
        BY <1>7, <3>3
      <4>2. PICK z \in 1 .. n : a < z /\ r[k] = q[z]
        BY <1>8, <3>3
      <4>3. x # z
        BY <1>1, <4>1, <4>2
      <4> QED
        BY <2>2, <4>1, <4>2, <4>3
    <3>4. CASE ~(i <= a) /\ k <= a
      <4>1. PICK x \in 1 .. n : x <= a /\ r[k] = q[x]
        BY <1>7, <3>4
      <4>2. PICK z \in 1 .. n : a < z /\ r[i] = q[z]
        BY <1>8, <3>4
      <4>3. x # z
        BY <1>1, <4>1, <4>2
      <4> QED
        BY <2>2, <4>1, <4>2, <4>3
    <3> QED
      BY <3>1, <3>2, <3>3, <3>4
  <2> QED
    BY <1>4, <2>6 DEF Distinct
<1> QED
  BY <1>3, <1>10, <1>11 DEF Rearranged, r, n

\* A level of the recursion: x orders the two sides.
Split(boxes, x, s, d) ==
  LET across == Across(boxes, s)
      cut == IF Len(s) < 4 \/ d = 0 THEN {} ELSE A!Gutter(boxes, across)
  IN IF cut = {} THEN A!RowMajor(boxes, s)
     ELSE LET k == CHOOSE c \in cut : TRUE
          IN x[SubSeq(across, 1, k)] \o x[SubSeq(across, k + 1, Len(s))]

Sorts(B) == {x \in [Seq(B) -> Seq(B)] : \A s \in Seq(B) : Rearranged(x[s], s, B)}

LEMMA SplitType ==
  ASSUME NEW boxes \in Seq(Detections), NEW s \in Seq(DOMAIN boxes), NEW d,
         NEW x, d # 0 => x \in Sorts(DOMAIN boxes)
  PROVE  Rearranged(Split(boxes, x, s, d), s, DOMAIN boxes)
<1> DEFINE B == DOMAIN boxes
           q == Across(boxes, s)
           cut == IF Len(s) < 4 \/ d = 0 THEN {} ELSE A!Gutter(boxes, q)
           k == CHOOSE c \in cut : TRUE
           p1 == SubSeq(q, 1, k)
           p2 == SubSeq(q, k + 1, Len(s))
<1>1. CASE cut = {}
  BY <1>1, RowMajorType DEF Split
<1>2. CASE cut # {}
  <2>1. Split(boxes, x, s, d) = x[p1] \o x[p2]
    <3>1. Split(boxes, x, s, d) = IF cut = {} THEN A!RowMajor(boxes, s) ELSE x[p1] \o x[p2]
      BY DEF Split
    <3> HIDE DEF cut, p1, p2
    <3> QED
      BY <1>2, <3>1
  <2>2. d # 0 /\ k \in A!Gutter(boxes, q)
    <3>1. cut # {} => d # 0 /\ cut = A!Gutter(boxes, q)
      OBVIOUS
    <3> HIDE DEF cut, q
    <3>2. k \in cut
      BY <1>2
    <3> QED
      BY <1>2, <3>1, <3>2
  <2>3. Rearranged(q, s, B)
    BY AcrossType
  <2>4. q \in Seq(B) /\ Len(q) = Len(s) /\ Len(s) \in Nat
    BY <2>3 DEF Rearranged
  <2>5. k \in 2 .. Len(q) - 2
    BY <2>2 DEF A!Gutter
  <2> HIDE DEF B, q, cut, k
  <2>6. /\ k \in Nat /\ k + 1 \in Nat /\ 1 \in Nat /\ 1 <= 1 /\ 1 <= k + 1 /\ k <= Len(q)
        /\ k + 1 <= Len(s) + 1 /\ Len(s) <= Len(q)
        /\ k - 1 + 1 = k /\ Len(s) - (k + 1) + 1 = Len(s) - k /\ Len(s) - k \in Nat
    BY <2>4, <2>5
  <2>7. p1 \in Seq(B) /\ Len(p1) = k - 1 + 1 /\ \A i \in 1 .. k - 1 + 1 : p1[i] = q[1 - 1 + i]
    BY <2>4, <2>6, PartOf
  <2>8. /\ p2 \in Seq(B) /\ Len(p2) = Len(s) - (k + 1) + 1
        /\ \A i \in 1 .. Len(s) - (k + 1) + 1 : p2[i] = q[k + 1 - 1 + i]
    BY <2>4, <2>6, PartOf
  <2> HIDE DEF p1, p2
  <2>9. Len(p1) = k /\ Len(p2) = Len(s) - k /\ DOMAIN p1 = 1 .. k /\ DOMAIN p2 = 1 .. Len(s) - k
          /\ DOMAIN q = 1 .. Len(s)
    BY <2>4, <2>6, <2>7, <2>8
  <2>10. Part(p1, q, 0)
    BY <2>4, <2>6, <2>7, <2>9 DEF Part
  <2>11. Part(p2, q, Len(p1))
    <3>1. ASSUME NEW i \in 1 .. Len(s) - k
          PROVE  k + i \in 1 .. Len(s) /\ k + 1 - 1 + i = k + i /\ p2[i] = q[k + 1 - 1 + i]
      BY <2>4, <2>6, <2>8
    <3> QED
      BY <2>9, <3>1 DEF Part
  <2>12. Len(p1) + Len(p2) = Len(q)
    BY <2>4, <2>6, <2>9
  <2>13. Rearranged(x[p1], p1, B) /\ Rearranged(x[p2], p2, B)
    BY <2>2, <2>7, <2>8 DEF Sorts, B
  <2>14. s \in Seq(B)
    BY DEF B
  <2>15. Rearranged(x[p1] \o x[p2], s, B)
    BY <2>3, <2>4, <2>7, <2>8, <2>10, <2>11, <2>12, <2>13, <2>14, Joined
  <2> QED
    BY <2>1, <2>15 DEF B
<1> QED
  BY <1>1, <1>2

LEMMA ColumnsType ==
  ASSUME NEW boxes \in Seq(Detections)
  PROVE  Rearranged(A!Columns(boxes), A!Numbers(Len(boxes)), DOMAIN boxes)
<1> DEFINE B == DOMAIN boxes
           X == Sorts(B)
           n == A!Depth
           a == [s \in Seq(B) |-> Split(boxes, <<>>, s, 0)]
           g == [p \in X \X (1 .. n) |-> [s \in Seq(B) |-> Split(boxes, p[1], s, p[2])]]
           New(f) == f = [d \in 0 .. n |-> [s \in Seq(B) |-> Split(boxes, f[d - 1], s, d)]]
           F == CHOOSE f : New(f)
<1>1. A!Columns(boxes) = F[n][A!Numbers(Len(boxes))]
  BY DEF A!Columns, Split, Across
<1>2. n \in Nat
  BY DEF A!Depth
<1>3. ASSUME NEW x, NEW d, d # 0 => x \in X
      PROVE  [s \in Seq(B) |-> Split(boxes, x, s, d)] \in X
  <2>1. \A s \in Seq(B) : Rearranged(Split(boxes, x, s, d), s, B)
    BY <1>3, SplitType
  <2>2. \A s \in Seq(B) : Split(boxes, x, s, d) \in Seq(B)
    BY <2>1 DEF Rearranged
  <2> HIDE DEF B
  <2> QED
    BY <2>1, <2>2 DEF Sorts
<1>4. a \in X
  BY <1>3
<1>5. \A x \in X, d \in 1 .. n : [s \in Seq(B) |-> Split(boxes, x, s, d)] \in X
  BY <1>3
<1>6. \A x : [s \in Seq(B) |-> Split(boxes, x, s, 0)] = a
  <2>1. \A x, s : Split(boxes, x, s, 0) = A!RowMajor(boxes, s)
    BY DEF Split
  <2> QED
    BY <2>1
<1>7. /\ g \in [X \X (1 .. n) -> X]
      /\ \A x \in X, d \in 1 .. n : g[<<x, d>>] = [s \in Seq(B) |-> Split(boxes, x, s, d)]
  BY <1>5
<1> HIDE DEF X, a, g, B, n
<1>8. \E f : New(f)
  <2>1. PICK f \in [0 .. n -> X] : Iterates(f, a, g, n)
    BY <1>2, <1>4, <1>7, Iteration
  <2>2. \A k \in 1 .. n : k - 1 \in 0 .. n /\ f[k - 1] \in X /\ f[k] = g[<<f[k - 1], k>>]
    BY <1>2, <2>1 DEF Iterates
  <2>3. \A k \in 1 .. n : f[k] = [s \in Seq(B) |-> Split(boxes, f[k - 1], s, k)]
    BY <1>7, <2>2
  <2>4. f[0] = [s \in Seq(B) |-> Split(boxes, f[0 - 1], s, 0)]
    BY <1>6, <2>1 DEF Iterates
  <2>5. \A k \in 0 .. n : f[k] = [s \in Seq(B) |-> Split(boxes, f[k - 1], s, k)]
    <3>1. \A k \in 0 .. n : k = 0 \/ k \in 1 .. n
      BY <1>2
    <3> QED
      BY <2>3, <2>4, <3>1, Zenon
  <2>6. New(f)
    BY <2>1, <2>5
  <2> QED
    BY <2>6
<1>9. New(F)
  BY <1>8
<1> HIDE DEF F
<1>10. \A k \in 0 .. n : F[k] = [s \in Seq(B) |-> Split(boxes, F[k - 1], s, k)]
  BY <1>9
<1> DEFINE S == {k \in Nat : k <= n => F[k] \in X}
<1>11. 0 \in S
  <2>1. [s \in Seq(B) |-> Split(boxes, F[0 - 1], s, 0)] \in X
    BY <1>3
  <2>2. F[0] \in X
    BY <1>2, <1>10, <2>1
  <2> QED
    BY <2>2
<1>12. ASSUME NEW k \in S PROVE k + 1 \in S
  <2> SUFFICES ASSUME k + 1 <= n PROVE F[k + 1] \in X
    OBVIOUS
  <2> DEFINE l == k + 1
  <2>1. l \in 0 .. n /\ l # 0 /\ l - 1 = k /\ F[k] \in X
    BY <1>2
  <2> HIDE DEF l
  <2>2. [s \in Seq(B) |-> Split(boxes, F[l - 1], s, l)] \in X
    BY <1>3, <2>1
  <2>3. F[l] \in X
    BY <1>10, <2>1, <2>2
  <2> QED
    BY <2>3 DEF l
<1>13. S = Nat
  <2>1. S \subseteq Nat
    OBVIOUS
  <2> HIDE DEF S
  <2> QED
    BY <1>11, <1>12, <2>1, Induction
<1>14. F[n] \in Sorts(B)
  BY <1>2, <1>13 DEF X
<1>15. A!Numbers(Len(boxes)) \in Seq(B)
  BY DEF A!Numbers, B
<1>16. Rearranged(F[n][A!Numbers(Len(boxes))], A!Numbers(Len(boxes)), B)
  BY <1>14, <1>15 DEF Sorts
<1> QED
  BY <1>1, <1>16 DEF B

\* Both orders: every box once.
Order(reading, boxes) ==
  /\ reading \in [DOMAIN boxes -> DOMAIN boxes] /\ Len(reading) = Len(boxes)
  /\ \A i, k \in DOMAIN boxes : i # k => reading[i] # reading[k]

LEMMA Orders ==
  ASSUME NEW boxes \in Seq(Detections)
  PROVE  Order(A!Rows(boxes), boxes) /\ Order(A!Columns(boxes), boxes)
<1> DEFINE s == A!Numbers(Len(boxes))
<1>1. Len(boxes) \in Nat /\ DOMAIN boxes = 1 .. Len(boxes)
  OBVIOUS
<1>2. /\ s \in Seq(DOMAIN boxes) /\ Len(s) = Len(boxes) /\ DOMAIN s = 1 .. Len(boxes)
      /\ \A i \in 1 .. Len(boxes) : s[i] = i
  BY <1>1 DEF A!Numbers
<1>3. Distinct(s)
  <2> HIDE DEF s
  <2> QED
    BY <1>2 DEF Distinct
<1>4. ASSUME NEW r, Rearranged(r, s, DOMAIN boxes) PROVE Order(r, boxes)
  <2>1. r \in Seq(DOMAIN boxes) /\ Len(r) = Len(boxes) /\ Distinct(r)
    BY <1>2, <1>3, <1>4 DEF Rearranged
  <2>2. DOMAIN r = DOMAIN boxes
    BY <1>1, <2>1
  <2> QED
    BY <2>1, <2>2 DEF Order, Distinct
<1>5. Rearranged(A!Rows(boxes), s, DOMAIN boxes)
  BY <1>2, RowMajorType DEF A!Rows
<1>6. Rearranged(A!Columns(boxes), s, DOMAIN boxes)
  BY ColumnsType
<1> QED
  BY <1>4, <1>5, <1>6

-----------------------------------------------------------------------------
(* The two candidates.                                                     *)

LineLengths == Nat \ {0}

LEMMA AreaPositive ==
  ASSUME NEW rect \in Detections
  PROVE  A!Area(rect) \in Int /\ A!Area(rect) > 0
<1> DEFINE w == rect.x1 - rect.x0
           h == rect.y1 - rect.y0
<1>1. w \in Int /\ h \in Int /\ w > 0 /\ h > 0
  BY DEF Detections
<1>2. A!Area(rect) = w * h
  BY DEF A!Area
<1> HIDE DEF w, h
<1>3. w * h \in Int /\ w * h > 0
  BY <1>1
<1> QED
  BY <1>2, <1>3

LEMMA MatchCostType ==
  ASSUME NEW length \in LineLengths, NEW rect \in Detections, NEW chars \in Int, NEW area \in Int, area > 0
  PROVE  A!MatchCost(length, rect, chars, area) \in Int
<1> DEFINE e == A!Area(rect) * chars
           room == A!Max({area, e})
           need == length * area
<1>1. e \in Int
  BY AreaPositive
<1>2. room = CHOOSE z \in {area, e} : \A y \in {area, e} : z >= y
  BY DEF A!Max
<1>3. need \in Int /\ need > 0
  <2>1. length \in Int /\ length > 0
    BY DEF LineLengths
  <2> QED
    BY <2>1
<1>4. Unit \in Int
  BY ScaleAssumption
<1>5. A!MatchCost(length, rect, chars, area) =
        IF need > room THEN (Unit * (need - room)) \div need
        ELSE (Unit * (room - need)) \div (2 * room)
  BY DEF A!MatchCost
<1> HIDE DEF e, room, need
<1>6. \E z \in {area, e} : \A y \in {area, e} : z >= y
  BY <1>1, SMT
<1>7. room \in {area, e} /\ \A y \in {area, e} : room >= y
  BY <1>2, <1>6
<1>8. room \in Int /\ room > 0
  BY <1>1, <1>7
<1>9. (Unit * (need - room)) \in Int /\ (Unit * (room - need)) \in Int /\ 2 * room \in Int /\ 2 * room > 0
  BY <1>3, <1>4, <1>8
<1>10. (Unit * (need - room)) \div need \in Int
  BY <1>3, <1>9
<1>11. (Unit * (room - need)) \div (2 * room) \in Int
  BY <1>9
<1> QED
  BY <1>5, <1>10, <1>11

LEMMA CostsType ==
  ASSUME NEW boxes \in Seq(Detections), boxes # <<>>, NEW lengths \in Seq(LineLengths),
         NEW reading, Order(reading, boxes)
  PROVE  Matrix(A!Costs(lengths, boxes, reading), Len(lengths), Len(boxes))
<1> DEFINE N == Len(lengths)
           M == Len(boxes)
           areas == [j \in DOMAIN boxes |-> A!Area(boxes[j])]
           area == A!Total(areas)
           chars == A!Total(lengths)
           c(i, j) == A!MatchCost(lengths[i], boxes[reading[j]], chars, area)
<1>1. /\ N \in Nat /\ M \in Nat /\ DOMAIN lengths = 1 .. N /\ DOMAIN boxes = 1 .. M /\ M > 0
  OBVIOUS
<1>2. \A j \in 1 .. M : boxes[j] \in Detections
  BY <1>1
<1>3. \A i \in 1 .. N : lengths[i] \in LineLengths
  BY <1>1
<1>4. DOMAIN reading = 1 .. M /\ \A j \in 1 .. M : reading[j] \in 1 .. M
  BY <1>1 DEF Order
<1>5. chars \in Int
  <2>1. lengths \in Seq(Int)
    <3>1. \A i \in 1 .. N : lengths[i] \in Int
      BY <1>3 DEF LineLengths
    <3> QED
      BY <1>1, <3>1
  <2> QED
    BY <2>1, TotalType
<1>6. area \in Int /\ area > 0
  <2>1. \A j \in 1 .. M : areas[j] \in Int /\ areas[j] > 0
    BY <1>1, <1>2, AreaPositive
  <2>2. DOMAIN areas = 1 .. M
    BY <1>1
  <2> HIDE DEF areas, M
  <2>3. areas \in [1 .. M -> Int]
    <3>1. areas = [j \in 1 .. M |-> areas[j]]
      BY <1>1 DEF areas
    <3> QED
      BY <2>1, <3>1
  <2>4. areas \in Seq(Int) /\ Len(areas) = M
    BY <1>1, <2>3
  <2>5. area \in Int
    BY <2>4, TotalType
  <2>6. area > 0
    BY <1>1, <2>1, <2>2, <2>4, TotalPositive
  <2> QED
    BY <2>5, <2>6
<1>7. A!Costs(lengths, boxes, reading)
        = [i \in DOMAIN lengths |-> [j \in DOMAIN reading |-> c(i, j)]]
  BY DEF A!Costs
<1> HIDE DEF N, M, area, chars, areas
<1>8. \A i \in 1 .. N, j \in 1 .. M : c(i, j) \in Int
  BY <1>2, <1>3, <1>4, <1>5, <1>6, MatchCostType
<1> HIDE DEF c
<1>9. A!Costs(lengths, boxes, reading) \in [1 .. N -> [1 .. M -> Int]]
  BY <1>1, <1>4, <1>7, <1>8
<1>10. Matrix(A!Costs(lengths, boxes, reading), N, M)
  BY <1>1, <1>9 DEF Matrix
<1> QED
  BY <1>10 DEF N, M

\* What the programme finds in one order.
Found(r, reading, lengths, boxes) ==
  /\ r.order = reading /\ r.cost \in Int
  /\ r.match \in A!Matchings(Len(lengths), Len(boxes))
  /\ A!CostOf(r.match, A!Costs(lengths, boxes, reading), Len(boxes)) = r.cost
  /\ \A f \in A!Matchings(Len(lengths), Len(boxes)) :
       r.cost <= A!CostOf(f, A!Costs(lengths, boxes, reading), Len(boxes))

LEMMA Solves ==
  ASSUME NEW boxes \in Seq(Detections), boxes # <<>>, NEW lengths \in Seq(LineLengths),
         NEW reading, Order(reading, boxes)
  PROVE  Found(A!Aligned(lengths, boxes, reading), reading, lengths, boxes)
<1> DEFINE N == Len(lengths)
           M == Len(boxes)
           cost == A!Costs(lengths, boxes, reading)
           dp == A!Table(cost, M)
           r == A!Aligned(lengths, boxes, reading)
<1>1. Matrix(cost, N, M)
  BY CostsType
<1>2. Len(reading) = M
  BY DEF Order
<1>3. N \in Nat /\ M \in Nat /\ cost \in [1 .. N -> [1 .. M -> Int]]
  BY <1>1 DEF Matrix
<1>4. r = [order |-> reading, match |-> A!Matches(dp, cost, M), cost |-> dp[Len(cost)][M]]
  BY <1>2 DEF A!Aligned, A!Tried, A!Solved
<1> HIDE DEF N, M, cost, r
<1>5. cost \in Seq([1 .. M -> Int]) /\ Len(cost) = N
  BY <1>3
<1>6. Tabled(dp, cost, N, M)
  BY <1>3, <1>5, TableSteps
<1> HIDE DEF dp
<1>7. A!Matches(dp, cost, M) \in A!Matchings(N, M)
      /\ A!CostOf(A!Matches(dp, cost, M), cost, M) = dp[N][M]
  BY <1>1, <1>6, Walked
<1>8. N \in 0 .. N /\ M \in 0 .. M
  BY <1>3
<1>9. dp[N][M] \in Int
  BY <1>1, <1>6, <1>8, Cells
<1>10. Bound(dp, cost, N, M)
  BY <1>1, <1>6, <1>8, NoneCheaper
<1>11. r.order = reading /\ r.match = A!Matches(dp, cost, M) /\ r.cost = dp[N][M]
  BY <1>4, <1>5
<1>12. /\ r.order = reading /\ r.cost \in Int /\ r.match \in A!Matchings(N, M)
       /\ A!CostOf(r.match, cost, M) = r.cost
       /\ \A f \in A!Matchings(N, M) : r.cost <= A!CostOf(f, cost, M)
  BY <1>7, <1>9, <1>10, <1>11 DEF Bound
<1> QED
  BY <1>12 DEF Found, N, M, cost, r

\* The better of the two.
LEMMA BestFound ==
  ASSUME NEW boxes \in Seq(Detections), boxes # <<>>, NEW lengths \in Seq(LineLengths)
  PROVE  /\ A!IsBest(A!Best(lengths, boxes), lengths, boxes)
         /\ A!Best(lengths, boxes).order \in {A!Rows(boxes), A!Columns(boxes)}
         /\ A!Best(lengths, boxes).match \in A!Matchings(Len(lengths), Len(boxes))
<1> DEFINE r(reading) == A!Aligned(lengths, boxes, reading)
           row == A!Rows(boxes)
           column == A!Columns(boxes)
           best == A!Best(lengths, boxes)
<1>1. Found(r(row), row, lengths, boxes) /\ Found(r(column), column, lengths, boxes)
  BY Orders, Solves
<1>2. best = IF r(column).cost < r(row).cost THEN r(column) ELSE r(row)
  BY DEF A!Best, A!Cheaper
<1> HIDE DEF r, row, column, best
<1>3. /\ best.order \in {row, column} /\ best = r(best.order)
      /\ Found(best, best.order, lengths, boxes)
      /\ best.cost <= r(row).cost /\ best.cost <= r(column).cost
  BY <1>1, <1>2 DEF Found
<1>4. ASSUME NEW reading \in {row, column},
             NEW match \in A!Matchings(Len(lengths), Len(boxes))
      PROVE  best.cost <= A!CostOf(match, A!Costs(lengths, boxes, reading), Len(boxes))
  <2> DEFINE x == A!CostOf(match, A!Costs(lengths, boxes, reading), Len(boxes))
  <2>1. Found(r(reading), reading, lengths, boxes) /\ best.cost <= r(reading).cost
    BY <1>1, <1>3
  <2>2. r(reading).cost <= x /\ r(reading).cost \in Int /\ best.cost \in Int
    BY <1>3, <2>1 DEF Found
  <2>3. x \in Int
    <3>1. Order(reading, boxes)
      BY Orders DEF row, column
    <3>2. Matrix(A!Costs(lengths, boxes, reading), Len(lengths), Len(boxes))
      BY <3>1, CostsType
    <3>3. Len(lengths) \in Nat /\ Len(boxes) \in Nat /\ Len(lengths) <= Len(lengths)
            /\ Len(boxes) <= Len(boxes) /\ Len(boxes) \in Int
      OBVIOUS
    <3> QED
      BY <3>2, <3>3, CostType
  <2> HIDE DEF x
  <2>4. best.cost <= x
    BY <2>1, <2>2, <2>3
  <2> QED
    BY <2>4 DEF x
<1>5. /\ best.match \in A!Matchings(Len(lengths), Len(boxes))
      /\ A!CostOf(best.match, A!Costs(lengths, boxes, best.order), Len(boxes)) = best.cost
  BY <1>3 DEF Found
<1>6. A!IsBest(best, lengths, boxes)
  BY <1>4, <1>5 DEF A!IsBest, row, column
<1> QED
  BY <1>3, <1>5, <1>6 DEF best, row, column

-----------------------------------------------------------------------------
(* Where the lines go.                                                     *)

LEMMA SameAmong == \A s, T : A!Among(s, T) = Among(s, T)
  BY DEF A!Among, Among

LEMMA Greatest ==
  ASSUME NEW n \in Nat, NEW S, S \subseteq 0 .. n, S # {}
  PROVE  A!Max(S) \in S /\ \A k \in S : k <= A!Max(S)
<1> DEFINE T == {t \in Nat : n - t \in S}
<1>1. T \subseteq Nat /\ T # {}
  <2>1. PICK k \in S : TRUE
    OBVIOUS
  <2>2. n - k \in Nat /\ n - (n - k) = k
    BY <2>1
  <2> QED
    BY <2>1, <2>2
<1>2. PICK t \in T : \A u \in T : t <= u
  <2> HIDE DEF T
  <2> QED
    BY <1>1, LeastNumber
<1>3. n - t \in S /\ \A k \in S : n - t >= k
  <2>1. \A k \in S : n - k \in Nat /\ n - (n - k) = k
    OBVIOUS
  <2>2. \A k \in S : n - k \in T
    BY <2>1
  <2>3. \A k \in S : t <= n - k
    BY <1>2, <2>2
  <2> QED
    BY <2>1, <2>3
<1>4. \E m \in S : \A k \in S : m >= k
  BY <1>3
<1>5. A!Max(S) \in S /\ \A k \in S : A!Max(S) >= k
  BY <1>4 DEF A!Max
<1>6. A!Max(S) \in Nat /\ \A k \in S : k \in Nat
  <2>1. \A k \in S : k \in Nat
    OBVIOUS
  <2> QED
    BY <1>5, <2>1
<1> QED
  BY <1>5, <1>6

\* A line's home is a box, and a later line has none before it.
LEMMA HomesRise ==
  ASSUME NEW n \in Nat, NEW m \in Nat \ {0}, NEW match \in A!Matchings(n, m)
  PROVE  /\ DOMAIN A!Homes(match) = 1 .. n
         /\ \A i \in 1 .. n : A!Homes(match)[i] \in 1 .. m
         /\ \A i, k \in 1 .. n : i < k => A!Homes(match)[i] <= A!Homes(match)[k]
<1> DEFINE E(i) == {k \in 1 .. i : match[k] # 0}
           home == A!Homes(match)
<1>1. /\ DOMAIN match = 1 .. n /\ \A i \in 1 .. n : match[i] \in 0 .. m
      /\ \A i, k \in 1 .. n : i < k /\ match[i] # 0 /\ match[k] # 0 => match[i] < match[k]
  BY MatchingType
<1>2. DOMAIN home = 1 .. n /\ \A i \in 1 .. n : home[i] = IF E(i) # {} THEN match[A!Max(E(i))] ELSE 1
  BY <1>1 DEF A!Homes
<1> HIDE DEF home
<1>3. ASSUME NEW i \in 1 .. n, E(i) # {}
      PROVE  /\ A!Max(E(i)) \in 1 .. n /\ A!Max(E(i)) \in E(i) /\ match[A!Max(E(i))] \in 1 .. m
             /\ \A k \in E(i) : k <= A!Max(E(i))
  <2>1. i \in Nat /\ E(i) \subseteq 0 .. i
    OBVIOUS
  <2> DEFINE S == E(i)
  <2> HIDE DEF S
  <2>2. A!Max(S) \in S /\ \A k \in S : k <= A!Max(S)
    BY <1>3, <2>1, Greatest DEF S
  <2>3. A!Max(S) \in 1 .. i /\ match[A!Max(S)] # 0
    BY <2>2 DEF S
  <2>4. A!Max(S) \in 1 .. n
    BY <2>3
  <2>5. match[A!Max(S)] \in 1 .. m
    BY <1>1, <2>3, <2>4
  <2> QED
    BY <2>2, <2>4, <2>5 DEF S
<1>4. ASSUME NEW i \in 1 .. n PROVE home[i] \in 1 .. m
  <2>1. CASE E(i) # {}
    BY <1>2, <1>3, <2>1
  <2>2. CASE E(i) = {}
    <3>1. home[i] = 1
      BY <1>2, <2>2
    <3> QED
      BY <3>1
  <2> QED
    BY <2>1, <2>2
<1>5. ASSUME NEW i \in 1 .. n, NEW k \in 1 .. n, i < k PROVE home[i] <= home[k]
  <2>1. CASE E(i) = {}
    <3>1. home[i] = 1 /\ home[k] \in 1 .. m
      BY <1>2, <1>4, <2>1
    <3> QED
      BY <3>1
  <2>2. CASE E(i) # {}
    <3>1. E(i) \subseteq E(k)
      BY <1>5
    <3>2. E(k) # {}
      BY <2>2, <3>1
    <3> DEFINE a == A!Max(E(i))
               b == A!Max(E(k))
    <3>3. /\ a \in 1 .. n /\ a \in E(i) /\ b \in 1 .. n /\ b \in E(k) /\ a <= b
          /\ match[a] \in 1 .. m /\ match[b] \in 1 .. m
      BY <1>3, <2>2, <3>1, <3>2
    <3>4. home[i] = match[a] /\ home[k] = match[b]
      BY <1>2, <2>2, <3>2
    <3>5. match[a] # 0 /\ match[b] # 0
      BY <3>3
    <3> HIDE DEF a, b, E
    <3>6. a = b \/ match[a] < match[b]
      BY <1>1, <3>3, <3>5
    <3> QED
      BY <3>3, <3>4, <3>6
  <2> QED
    BY <2>1, <2>2
<1> QED
  BY <1>2, <1>4, <1>5 DEF home

\* The lines with a home in one box.
Lodged(t, home, reading, b, n) ==
  /\ t \in Seq(1 .. n)
  /\ \A p \in DOMAIN t : t[p] \in 1 .. n /\ reading[home[t[p]]] = b
  /\ \A p, q \in DOMAIN t : p < q => t[p] < t[q]
  /\ \A i \in 1 .. n : reading[home[i]] = b => \E p \in DOMAIN t : t[p] = i

LEMMA Lodging ==
  ASSUME NEW n \in Nat, NEW home, DOMAIN home = 1 .. n, Len(home) = n, NEW reading,
         NEW b \in DOMAIN reading
  PROVE  Lodged(A!Texts(reading, home)[b], home, reading, b, n)
<1> DEFINE s == A!Numbers(n)
           T == {i \in DOMAIN home : reading[home[i]] = b}
           t == Among(s, T)
<1>1. A!Texts(reading, home)[b] = t
  BY SameAmong DEF A!Texts
<1>2. s \in Seq(1 .. n) /\ Len(s) = n /\ \A i \in 1 .. n : s[i] = i
  BY DEF A!Numbers
<1>3. \A i \in 1 .. n : i \in T <=> reading[home[i]] = b
  OBVIOUS
<1> HIDE DEF s, T
<1>4. t \in Seq(1 .. n) /\ Picks(t, s, T, n)
  BY <1>2, AmongPicks
<1> HIDE DEF t
<1>5. \A p \in DOMAIN t : t[p] \in 1 .. n /\ reading[home[t[p]]] = b
  <2> SUFFICES ASSUME NEW p \in DOMAIN t PROVE t[p] \in 1 .. n /\ reading[home[t[p]]] = b
    OBVIOUS
  <2>1. PICK k \in 1 .. n : t[p] = s[k] /\ s[k] \in T
    BY <1>4 DEF Picks
  <2> QED
    BY <1>2, <1>3, <2>1
<1>6. \A p, q \in DOMAIN t : p < q => t[p] < t[q]
  <2> SUFFICES ASSUME NEW p \in DOMAIN t, NEW q \in DOMAIN t, p < q PROVE t[p] < t[q]
    OBVIOUS
  <2>1. PICK k, l \in 1 .. n : k < l /\ t[p] = s[k] /\ t[q] = s[l]
    BY <1>4 DEF Picks
  <2> QED
    BY <1>2, <2>1
<1>7. \A i \in 1 .. n : reading[home[i]] = b => \E p \in DOMAIN t : t[p] = i
  <2> SUFFICES ASSUME NEW i \in 1 .. n, reading[home[i]] = b PROVE \E p \in DOMAIN t : t[p] = i
    OBVIOUS
  <2>1. s[i] \in T /\ s[i] = i
    BY <1>2, <1>3
  <2> QED
    BY <1>4, <2>1 DEF Picks
<1> QED
  BY <1>1, <1>4, <1>5, <1>6, <1>7 DEF Lodged

LEMMA TextsRead ==
  ASSUME NEW boxes \in Seq(Detections), boxes # <<>>, NEW n \in Nat,
         NEW reading, Order(reading, boxes), NEW match \in A!Matchings(n, Len(boxes))
  PROVE  /\ DOMAIN A!Texts(reading, A!Homes(match)) = DOMAIN boxes
         /\ A!Reads(A!Texts(reading, A!Homes(match)), n, reading)
<1> DEFINE m == Len(boxes)
           home == A!Homes(match)
           layer == A!Texts(reading, home)
<1>1. m \in Nat \ {0} /\ DOMAIN boxes = 1 .. m
  OBVIOUS
<1>2. /\ DOMAIN reading = 1 .. m /\ \A k \in 1 .. m : reading[k] \in 1 .. m
      /\ \A i, k \in 1 .. m : i # k => reading[i] # reading[k]
  BY <1>1 DEF Order
<1>3. /\ DOMAIN home = 1 .. n /\ \A i \in 1 .. n : home[i] \in 1 .. m
      /\ \A i, k \in 1 .. n : i < k => home[i] <= home[k]
  BY <1>1, HomesRise
<1>4. DOMAIN layer = 1 .. m
  BY <1>2 DEF A!Texts
<1>5. Len(home) = n
  <2> HIDE DEF home
  <2> QED
    BY <1>3
<1> HIDE DEF layer, home, m
<1>6. \A b \in 1 .. m : Lodged(layer[b], home, reading, b, n)
  BY <1>2, <1>3, <1>5, Lodging DEF layer
<1>7. \A i \in 1 .. n : \E k \in DOMAIN reading : i \in A!ToSet(layer[reading[k]])
  <2> SUFFICES ASSUME NEW i \in 1 .. n
               PROVE  \E k \in DOMAIN reading : i \in A!ToSet(layer[reading[k]])
    OBVIOUS
  <2>1. home[i] \in 1 .. m /\ reading[home[i]] \in 1 .. m
    BY <1>2, <1>3
  <2>2. \E p \in DOMAIN layer[reading[home[i]]] : layer[reading[home[i]]][p] = i
    BY <1>6, <2>1 DEF Lodged
  <2>3. i \in A!ToSet(layer[reading[home[i]]])
    BY <2>2 DEF A!ToSet
  <2> QED
    BY <1>2, <2>1, <2>3
<1>8. \A k \in DOMAIN reading : A!ToSet(layer[reading[k]]) \subseteq 1 .. n
  <2> SUFFICES ASSUME NEW k \in 1 .. m PROVE A!ToSet(layer[reading[k]]) \subseteq 1 .. n
    BY <1>2
  <2>1. Lodged(layer[reading[k]], home, reading, reading[k], n)
    BY <1>2, <1>6
  <2> QED
    BY <2>1 DEF Lodged, A!ToSet
<1>9. ASSUME NEW k \in 1 .. m, NEW l \in 1 .. m,
             NEW p \in DOMAIN layer[reading[k]], NEW q \in DOMAIN layer[reading[l]],
             k < l \/ (k = l /\ p < q)
      PROVE  layer[reading[k]][p] < layer[reading[l]][q]
  <2> DEFINE i == layer[reading[k]][p]
             j == layer[reading[l]][q]
  <2>1. /\ Lodged(layer[reading[k]], home, reading, reading[k], n)
        /\ Lodged(layer[reading[l]], home, reading, reading[l], n)
    BY <1>2, <1>6
  <2>2. /\ i \in 1 .. n /\ reading[home[i]] = reading[k]
        /\ j \in 1 .. n /\ reading[home[j]] = reading[l]
    BY <2>1 DEF Lodged
  <2>3. CASE k = l /\ p < q
    BY <2>1, <2>3 DEF Lodged
  <2>4. CASE k < l
    <3> HIDE DEF i, j
    <3>1. home[i] = k /\ home[j] = l
      BY <1>2, <1>3, <2>2
    <3>2. ~(j < i) /\ i # j
      BY <1>1, <1>3, <2>2, <2>4, <3>1
    <3>3. i < j
      BY <2>2, <3>2
    <3> QED
      BY <3>3 DEF i, j
  <2> QED
    BY <1>9, <2>3, <2>4
<1>10. A!Reads(layer, n, reading)
  BY <1>2, <1>7, <1>8, <1>9 DEF A!Reads
<1> QED
  BY <1>1, <1>4, <1>10 DEF layer, home

\* The layer layer of any page: boxes that have an area, lines that are not empty.
THEOREM LayersAligned ==
  ASSUME NEW boxes \in Seq(Detections), NEW lengths \in Seq(LineLengths)
  PROVE  /\ A!IsWhole(lengths, boxes)
         /\ lengths # <<>> /\ boxes # <<>> => A!IsCheapest(lengths, boxes)
<1> DEFINE n == Len(lengths)
           out == A!AlignText(lengths, boxes)
           best == A!Best(lengths, boxes)
<1>1. n \in Nat /\ DOMAIN lengths = 1 .. n
  OBVIOUS
<1>2. CASE boxes = <<>> /\ lengths # <<>>
  <2>1. out = A!FullPage(n)
    BY <1>2 DEF A!AlignText
  <2> QED
    BY <1>2, <2>1 DEF A!IsWhole, A!FullPage
<1>3. CASE lengths = <<>>
  <2>1. out = [full |-> FALSE, text |-> [b \in DOMAIN boxes |-> <<>>]] /\ n = 0
    BY <1>3 DEF A!AlignText
  <2>2. DOMAIN A!Rows(boxes) = DOMAIN boxes /\ \A k \in DOMAIN boxes : A!Rows(boxes)[k] \in DOMAIN boxes
    BY Orders DEF Order
  <2>3. A!Reads(out.text, 0, A!Rows(boxes))
    BY <2>1, <2>2 DEF A!Reads, A!ToSet
  <2> QED
    BY <1>3, <2>1, <2>3 DEF A!IsWhole
<1>4. CASE lengths # <<>> /\ boxes # <<>>
  <2>1. /\ A!IsBest(best, lengths, boxes)
        /\ best.order \in {A!Rows(boxes), A!Columns(boxes)}
        /\ best.match \in A!Matchings(n, Len(boxes))
    BY <1>4, BestFound
  <2>2. Len(best.match) = n
    <3>1. Len(boxes) \in Nat
      OBVIOUS
    <3> HIDE DEF best, n
    <3> QED
      BY <1>1, <2>1, <3>1, MatchingType
  <2>3. out = IF A!Degenerate(best.match, boxes) THEN A!FullPage(n)
                 ELSE [full |-> FALSE, text |-> A!Texts(best.order, A!Homes(best.match))]
    BY <1>4, <2>2 DEF A!AlignText, A!Placed
  <2>4. Order(best.order, boxes)
    BY <2>1, Orders
  <2>5. /\ DOMAIN A!Texts(best.order, A!Homes(best.match)) = DOMAIN boxes
        /\ A!Reads(A!Texts(best.order, A!Homes(best.match)), n, best.order)
    <3> HIDE DEF best, n
    <3> QED
      BY <1>1, <1>4, <2>1, <2>4, TextsRead
  <2>6. A!IsWhole(lengths, boxes)
    <3>1. CASE A!Degenerate(best.match, boxes)
      <4>1. out = A!FullPage(n)
        BY <2>3, <3>1
      <4> QED
        BY <4>1 DEF A!IsWhole, A!FullPage
    <3>2. CASE ~A!Degenerate(best.match, boxes)
      <4>1. ~out.full /\ out.text = A!Texts(best.order, A!Homes(best.match))
        BY <2>3, <3>2
      <4> QED
        BY <2>1, <2>5, <4>1 DEF A!IsWhole
    <3> QED
      BY <3>1, <3>2
  <2> QED
    BY <1>4, <2>1, <2>6 DEF A!IsCheapest
<1> QED
  BY <1>2, <1>3, <1>4

\* The sheets that the run starts from are such pages.
Aligned(x) == x.boxes \in Seq(Detections) /\ x.lengths \in Seq(LineLengths)
SheetInv == input.is = "sheet" => Aligned(input)

LEMMA SheetsType == \A x \in Sheets : x.is = "sheet" /\ Aligned(x)
<1>1. Detected \in Seq(Detections)
  <2>1. /\ Rect(0, 0, 10, 1) \in Detections /\ Rect(0, 2, 4, 3) \in Detections
        /\ Rect(6, 2, 10, 4) \in Detections /\ Rect(0, 4, 3, 6) \in Detections
        /\ Rect(5, 5, 10, 6) \in Detections /\ Rect(6, 7, 9, 8) \in Detections
        /\ Rect(5, 9, 6, 10) \in Detections
    BY DEF Rect, Detections
  <2> QED
    BY <2>1 DEF Detected
<1>2. \A T : A!Among(Detected, T) \in Seq(Detections)
  BY <1>1, AmongPicks, SameAmong
<1>3. \A l \in Upto({1, 4, 12}, 3) : l \in Seq(LineLengths)
  <2> SUFFICES ASSUME NEW k \in 0 .. 3, NEW l \in [1 .. k -> {1, 4, 12}]
               PROVE  l \in Seq(LineLengths)
    BY DEF Upto
  <2>1. {1, 4, 12} \subseteq LineLengths
    BY DEF LineLengths
  <2>2. l \in [1 .. k -> LineLengths] /\ k \in Nat
    BY <2>1
  <2> QED
    BY <2>2
<1> SUFFICES ASSUME NEW x \in Sheets PROVE x.is = "sheet" /\ Aligned(x)
  OBVIOUS
<1>4. /\ x.is = "sheet" /\ x.lengths \in Upto({1, 4, 12}, 3)
      /\ x.boxes \in {A!Among(Detected, s) :
                        s \in {d \in SUBSET A!ToSet(Detected) : Cardinality(d) <= 5}}
  BY DEF Sheets
<1>5. PICK T : x.boxes = A!Among(Detected, T)
  BY <1>4
<1> QED
  BY <1>2, <1>3, <1>4, <1>5 DEF Aligned

\* No line of a page is lost, moved or said twice by the placement of the lines in
\* the boxes ("no LLM text is lost"), and no other placement costs less.
THEOREM TextsAligned == MCSpec => []TextAligned
<1>1. MCInit => SheetInv
  <2> SUFFICES ASSUME MCInit, input.is = "sheet" PROVE Aligned(input)
    BY DEF SheetInv
  <2>1. CASE input = [is |-> "run"]
    <3>1. input.is = "run"
      BY <2>1
    <3> QED
      BY <3>1
  <2>2. CASE input \in Sheets
    BY <2>2, SheetsType
  <2>3. CASE input \in Trees
    <3>1. input.is = "tree"
      BY <2>3 DEF Trees
    <3> QED
      BY <3>1
  <2> QED
    BY <2>1, <2>2, <2>3 DEF MCInit
<1>2. SheetInv /\ [MCNext]_<<vars, input>> => SheetInv'
  BY DEF SheetInv, MCNext
<1>3. SheetInv => TextAligned
  BY LayersAligned DEF SheetInv, Aligned, TextAligned
<1> QED
  BY <1>1, <1>2, <1>3, PTL DEF MCSpec

-----------------------------------------------------------------------------
(* The chunker: what its recursive functions are.                          *)

\* The elements: the tables one after the other.
Collects(children, tables, f, m) ==
  f = [i \in 0 .. m |-> IF i = 0 THEN children ELSE C!Found(f[i - 1], tables[i])]

LEMMA CollectsExists ==
  ASSUME NEW children, NEW tables
  PROVE  \A m \in Nat : \E f : Collects(children, tables, f, m)
<1> DEFINE S == {m \in Nat : \E f : Collects(children, tables, f, m)}
<1>1. 0 \in S
  <2>1. Collects(children, tables, [i \in 0 .. 0 |-> children], 0)
    BY DEF Collects
  <2> QED
    BY <2>1
<1>2. ASSUME NEW m \in S PROVE m + 1 \in S
  <2>1. PICK f : Collects(children, tables, f, m)
    OBVIOUS
  <2> DEFINE g == [i \in 0 .. m + 1 |-> IF i <= m THEN f[i] ELSE C!Found(f[m], tables[m + 1])]
  <2>2. \A i \in 0 .. m : f[i] = IF i = 0 THEN children ELSE C!Found(f[i - 1], tables[i])
    BY <2>1 DEF Collects
  <2>3. \A i \in 0 .. m + 1 : g[i] = IF i = 0 THEN children ELSE C!Found(g[i - 1], tables[i])
    BY <2>2
  <2>4. Collects(children, tables, g, m + 1)
    BY <2>3 DEF Collects
  <2> QED
    BY <2>4
<1>3. S = Nat
  <2>1. S \subseteq Nat
    OBVIOUS
  <2> HIDE DEF S
  <2> QED
    BY <1>1, <1>2, <2>1, Induction
<1> QED
  BY <1>3

LEMMA CollectsSteps ==
  ASSUME NEW children, NEW tables, NEW n \in Nat, n = Len(tables)
  PROVE  \E f : /\ C!Elements(children, tables) = f[n]
               /\ f[0] = children
               /\ \A i \in 1 .. n : f[i] = C!Found(f[i - 1], tables[i])
<1> DEFINE F == CHOOSE f : Collects(children, tables, f, n)
<1>1. C!Elements(children, tables) = F[n]
  BY DEF C!Elements, Collects
<1>2. Collects(children, tables, F, n)
  BY CollectsExists
<1> HIDE DEF F
<1>3. \A i \in 0 .. n : F[i] = IF i = 0 THEN children ELSE C!Found(F[i - 1], tables[i])
  BY <1>2 DEF Collects
<1>4. F[0] = children /\ \A i \in 1 .. n : F[i] = C!Found(F[i - 1], tables[i])
  BY <1>3
<1> QED
  BY <1>1, <1>4

\* The paths: the elements one after the other.
Nests(es, f, m) ==
  f = [i \in 0 .. m |-> IF i = 0 THEN <<>> ELSE C!NewPath(es[i], i, f[i - 1])]

LEMMA NestsExists ==
  ASSUME NEW es
  PROVE  \A m \in Nat : \E f : Nests(es, f, m)
<1> DEFINE S == {m \in Nat : \E f : Nests(es, f, m)}
<1>1. 0 \in S
  <2>1. Nests(es, [i \in 0 .. 0 |-> <<>>], 0)
    BY DEF Nests
  <2> QED
    BY <2>1
<1>2. ASSUME NEW m \in S PROVE m + 1 \in S
  <2>1. PICK f : Nests(es, f, m)
    OBVIOUS
  <2> DEFINE g == [i \in 0 .. m + 1 |-> IF i <= m THEN f[i] ELSE C!NewPath(es[m + 1], m + 1, f[m])]
  <2>2. \A i \in 0 .. m : f[i] = IF i = 0 THEN <<>> ELSE C!NewPath(es[i], i, f[i - 1])
    BY <2>1 DEF Nests
  <2>3. \A i \in 0 .. m + 1 : g[i] = IF i = 0 THEN <<>> ELSE C!NewPath(es[i], i, g[i - 1])
    BY <2>2
  <2>4. Nests(es, g, m + 1)
    BY <2>3 DEF Nests
  <2> QED
    BY <2>4
<1>3. S = Nat
  <2>1. S \subseteq Nat
    OBVIOUS
  <2> HIDE DEF S
  <2> QED
    BY <1>1, <1>2, <2>1, Induction
<1> QED
  BY <1>3

LEMMA NestsSteps ==
  ASSUME NEW es, NEW n \in Nat, n = Len(es)
  PROVE  \E f : /\ C!Paths(es) = f
               /\ f[0] = <<>>
               /\ \A i \in 1 .. n : f[i] = C!NewPath(es[i], i, f[i - 1])
<1> DEFINE F == CHOOSE f : Nests(es, f, n)
<1>1. C!Paths(es) = F
  BY DEF C!Paths, Nests
<1>2. Nests(es, F, n)
  BY NestsExists
<1> HIDE DEF F
<1>3. \A i \in 0 .. n : F[i] = IF i = 0 THEN <<>> ELSE C!NewPath(es[i], i, F[i - 1])
  BY <1>2 DEF Nests
<1>4. F[0] = <<>> /\ \A i \in 1 .. n : F[i] = C!NewPath(es[i], i, F[i - 1])
  BY <1>3
<1> QED
  BY <1>1, <1>4

\* The parts of a table: its rows one after the other.
Divides(e, f, m) ==
  f = [i \in 0 .. m |-> IF i = 0 THEN <<>> ELSE C!AddRow(e, f[i - 1], i)]

LEMMA DividesExists ==
  ASSUME NEW e
  PROVE  \A m \in Nat : \E f : Divides(e, f, m)
<1> DEFINE S == {m \in Nat : \E f : Divides(e, f, m)}
<1>1. 0 \in S
  <2>1. Divides(e, [i \in 0 .. 0 |-> <<>>], 0)
    BY DEF Divides
  <2> QED
    BY <2>1
<1>2. ASSUME NEW m \in S PROVE m + 1 \in S
  <2>1. PICK f : Divides(e, f, m)
    OBVIOUS
  <2> DEFINE g == [i \in 0 .. m + 1 |-> IF i <= m THEN f[i] ELSE C!AddRow(e, f[m], m + 1)]
  <2>2. \A i \in 0 .. m : f[i] = IF i = 0 THEN <<>> ELSE C!AddRow(e, f[i - 1], i)
    BY <2>1 DEF Divides
  <2>3. \A i \in 0 .. m + 1 : g[i] = IF i = 0 THEN <<>> ELSE C!AddRow(e, g[i - 1], i)
    BY <2>2
  <2>4. Divides(e, g, m + 1)
    BY <2>3 DEF Divides
  <2> QED
    BY <2>4
<1>3. S = Nat
  <2>1. S \subseteq Nat
    OBVIOUS
  <2> HIDE DEF S
  <2> QED
    BY <1>1, <1>2, <2>1, Induction
<1> QED
  BY <1>3

LEMMA DividesSteps ==
  ASSUME NEW e, NEW n \in Nat, n = Len(e.rows)
  PROVE  \E f : /\ C!Parts(e) = f[n]
               /\ f[0] = <<>>
               /\ \A i \in 1 .. n : f[i] = C!AddRow(e, f[i - 1], i)
<1> DEFINE F == CHOOSE f : Divides(e, f, n)
<1>1. C!Parts(e) = F[n]
  BY DEF C!Parts, Divides
<1>2. Divides(e, F, n)
  BY DividesExists
<1> HIDE DEF F
<1>3. \A i \in 0 .. n : F[i] = IF i = 0 THEN <<>> ELSE C!AddRow(e, F[i - 1], i)
  BY <1>2 DEF Divides
<1>4. F[0] = <<>> /\ \A i \in 1 .. n : F[i] = C!AddRow(e, F[i - 1], i)
  BY <1>3
<1> QED
  BY <1>1, <1>4

\* The chunks, and the state that the loop leaves.
Nothing == [chunks |-> <<>>, accum |-> <<>>, path |-> <<>>]
Final(es) ==
  LET after[n \in 0 .. Len(es)] == IF n = 0 THEN Nothing ELSE C!AddElement(es, after[n - 1], n)
  IN after[Len(es)]

Chunking(es, f, m) ==
  f = [i \in 0 .. m |-> IF i = 0 THEN Nothing ELSE C!AddElement(es, f[i - 1], i)]

LEMMA ChunkingExists ==
  ASSUME NEW es
  PROVE  \A m \in Nat : \E f : Chunking(es, f, m)
<1> DEFINE S == {m \in Nat : \E f : Chunking(es, f, m)}
<1>1. 0 \in S
  <2>1. Chunking(es, [i \in 0 .. 0 |-> Nothing], 0)
    BY DEF Chunking
  <2> QED
    BY <2>1
<1>2. ASSUME NEW m \in S PROVE m + 1 \in S
  <2>1. PICK f : Chunking(es, f, m)
    OBVIOUS
  <2> DEFINE g == [i \in 0 .. m + 1 |-> IF i <= m THEN f[i] ELSE C!AddElement(es, f[m], m + 1)]
  <2>2. \A i \in 0 .. m : f[i] = IF i = 0 THEN Nothing ELSE C!AddElement(es, f[i - 1], i)
    BY <2>1 DEF Chunking
  <2>3. \A i \in 0 .. m + 1 : g[i] = IF i = 0 THEN Nothing ELSE C!AddElement(es, g[i - 1], i)
    BY <2>2
  <2>4. Chunking(es, g, m + 1)
    BY <2>3 DEF Chunking
  <2> QED
    BY <2>4
<1>3. S = Nat
  <2>1. S \subseteq Nat
    OBVIOUS
  <2> HIDE DEF S
  <2> QED
    BY <1>1, <1>2, <2>1, Induction
<1> QED
  BY <1>3

LEMMA ChunkingSteps ==
  ASSUME NEW es, NEW n \in Nat, n = Len(es)
  PROVE  \E f : /\ Final(es) = f[n]
               /\ f[0] = Nothing
               /\ \A i \in 1 .. n : f[i] = C!AddElement(es, f[i - 1], i)
<1> DEFINE F == CHOOSE f : Chunking(es, f, n)
<1>1. Final(es) = F[n]
  BY DEF Final, Chunking
<1>2. Chunking(es, F, n)
  BY ChunkingExists
<1> HIDE DEF F
<1>3. \A i \in 0 .. n : F[i] = IF i = 0 THEN Nothing ELSE C!AddElement(es, F[i - 1], i)
  BY <1>2 DEF Chunking
<1>4. F[0] = Nothing /\ \A i \in 1 .. n : F[i] = C!AddElement(es, F[i - 1], i)
  BY <1>3
<1> QED
  BY <1>1, <1>4

-----------------------------------------------------------------------------
(* The chunker: what chunks are and what more of them change.              *)

\* The elements of a document, and the chunks and states that they lead to.
Nodes == [kind : {"header", "prose", "figure", "formula", "table"}, id : Nat, size : Nat,
          level : Nat, path : Seq(Nat), rows : Seq(Nat)]
PathsOf(es) == {C!Paths(es)[n] : n \in 0 .. Len(es)}
Pieces(es) == [kind : {"header", "prose", "figure", "formula", "table"},
               blocks : Seq(DOMAIN es), rows : Seq(Nat), path : PathsOf(es)]
States(es) == [chunks : Seq(Pieces(es)), accum : Seq(DOMAIN es), path : PathsOf(es)]

\* A chunk that may come after chunks made of the elements B.
Rises(bs) == \A i, j \in DOMAIN bs : i < j => bs[i] < bs[j]
Belongs(es, c) ==
  \A i \in DOMAIN c.blocks :
    /\ es[c.blocks[i]].kind = c.kind /\ C!Content(es[c.blocks[i]])
    /\ c.path = C!Paths(es)[c.blocks[i]]
Comes(B, bs) == \A i \in DOMAIN bs : bs[i] \in B \/ \A b \in B : b < bs[i]
Sized(es, c) ==
  /\ Len(c.blocks) > 1 => C!Length(es, c.blocks) <= MaxChars
  /\ Len(c.rows) > 1 => C!RowsSize(es[c.blocks[1]], c.rows) <= MaxChars
Fit(es, B, c) ==
  /\ Len(c.blocks) > 0 /\ Rises(c.blocks) /\ Belongs(es, c) /\ Comes(B, c.blocks)
  /\ Sized(es, c)
  /\ c.kind # "table" => C!Seeded(es, c.blocks, B)

Good(es, cs) == \A k \in DOMAIN cs : Fit(es, C!Covered(cs, k - 1), cs[k])

LEMMA CoveredHas ==
  ASSUME NEW cs, NEW k, NEW b
  PROVE  b \in C!Covered(cs, k)
           <=> \E l \in 1 .. k : \E i \in DOMAIN cs[l].blocks : b = cs[l].blocks[i]
BY DEF C!Covered, C!ToSet

\* More chunks behind the others.
LEMMA CoveredOver ==
  ASSUME NEW X, NEW cs \in Seq(X), NEW ps \in Seq(X), NEW n \in Nat, n = Len(cs)
  PROVE  /\ \A k \in 0 .. n : C!Covered(cs \o ps, k) = C!Covered(cs, k)
         /\ \A j \in 0 .. Len(ps) :
              C!Covered(cs \o ps, n + j) = C!Covered(cs, n) \cup C!Covered(ps, j)
<1> DEFINE ds == cs \o ps
<1>1. /\ \A l \in 1 .. n : ds[l] = cs[l]
      /\ \A j \in 1 .. Len(ps) : ds[n + j] = ps[j] /\ Len(ps) \in Nat
  <2>1. Len(ds) = n + Len(ps) /\ Len(ps) \in Nat
    BY ConcatProperties
  <2> QED
    BY <2>1, ConcatProperties
<1> HIDE DEF ds
<1>2. ASSUME NEW k \in 0 .. n PROVE C!Covered(ds, k) = C!Covered(cs, k)
  <2>1. \A l \in 1 .. k : ds[l] = cs[l]
    BY <1>1
  <2>2. \A b : b \in C!Covered(ds, k) <=> b \in C!Covered(cs, k)
    BY <2>1, CoveredHas
  <2> QED
    BY <2>2
<1>3. ASSUME NEW j \in 0 .. Len(ps)
      PROVE  C!Covered(ds, n + j) = C!Covered(cs, n) \cup C!Covered(ps, j)
  <2>1. ASSUME NEW b, b \in C!Covered(ds, n + j)
        PROVE  b \in C!Covered(cs, n) \cup C!Covered(ps, j)
    <3>1. PICK l \in 1 .. n + j : \E i \in DOMAIN ds[l].blocks : b = ds[l].blocks[i]
      BY <2>1, CoveredHas
    <3>2. CASE l <= n
      <4>1. l \in 1 .. n /\ ds[l] = cs[l]
        BY <1>1, <3>2
      <4> QED
        BY <3>1, <4>1, CoveredHas
    <3>3. CASE l > n
      <4> DEFINE q == l - n
      <4>1. q \in 1 .. j /\ l = n + q /\ q \in 1 .. Len(ps)
        BY <3>3
      <4> HIDE DEF q
      <4>2. ds[l] = ps[q]
        BY <1>1, <4>1
      <4> QED
        BY <3>1, <4>1, <4>2, CoveredHas
    <3> QED
      BY <3>2, <3>3
  <2>2. ASSUME NEW b, b \in C!Covered(cs, n) PROVE b \in C!Covered(ds, n + j)
    <3>1. PICK l \in 1 .. n : \E i \in DOMAIN cs[l].blocks : b = cs[l].blocks[i]
      BY <2>2, CoveredHas
    <3>2. l \in 1 .. n + j /\ ds[l] = cs[l]
      BY <1>1
    <3> QED
      BY <3>1, <3>2, CoveredHas
  <2>3. ASSUME NEW b, b \in C!Covered(ps, j) PROVE b \in C!Covered(ds, n + j)
    <3>1. PICK q \in 1 .. j : \E i \in DOMAIN ps[q].blocks : b = ps[q].blocks[i]
      BY <2>3, CoveredHas
    <3> DEFINE l == n + q
    <3>2. l \in 1 .. n + j /\ ds[l] = ps[q]
      BY <1>1
    <3> HIDE DEF l
    <3> QED
      BY <3>1, <3>2, CoveredHas
  <2> QED
    BY <2>1, <2>2, <2>3
<1> QED
  BY <1>2, <1>3 DEF ds

LEMMA GoodOver ==
  ASSUME NEW es, NEW X, NEW cs \in Seq(X), NEW ps \in Seq(X), Good(es, cs),
         NEW B, B = C!Covered(cs, Len(cs)),
         \A j \in DOMAIN ps : Fit(es, B \cup C!Covered(ps, j - 1), ps[j])
  PROVE  Good(es, cs \o ps)
<1> DEFINE n == Len(cs)
           ds == cs \o ps
<1>1. n \in Nat /\ Len(ps) \in Nat /\ DOMAIN ds = 1 .. n + Len(ps) /\ DOMAIN cs = 1 .. n
        /\ DOMAIN ps = 1 .. Len(ps)
  <2>1. ds \in Seq(X) /\ Len(ds) = n + Len(ps)
    BY ConcatProperties
  <2> QED
    BY <2>1
<1>2. /\ \A l \in 1 .. n : ds[l] = cs[l]
      /\ \A j \in 1 .. Len(ps) : ds[n + j] = ps[j]
  BY <1>1, ConcatProperties
<1>3. /\ \A k \in 0 .. n : C!Covered(ds, k) = C!Covered(cs, k)
      /\ \A j \in 0 .. Len(ps) : C!Covered(ds, n + j) = B \cup C!Covered(ps, j)
  BY <1>1, CoveredOver
<1> HIDE DEF n, ds
<1>4. ASSUME NEW k \in 1 .. n PROVE Fit(es, C!Covered(ds, k - 1), ds[k])
  <2>1. k - 1 \in 0 .. n
    BY <1>1
  <2> QED
    BY <1>1, <1>2, <1>3, <2>1 DEF Good
<1>5. ASSUME NEW k, NEW j \in 1 .. Len(ps), k = n + j
      PROVE  Fit(es, C!Covered(ds, k - 1), ds[k])
  <2> DEFINE q == j - 1
  <2>1. q \in 0 .. Len(ps) /\ k - 1 = n + q
    BY <1>1, <1>5
  <2>2. Fit(es, B \cup C!Covered(ps, q), ps[j])
    BY <1>1
  <2> HIDE DEF q
  <2>3. C!Covered(ds, k - 1) = B \cup C!Covered(ps, q)
    BY <1>3, <2>1
  <2> QED
    BY <1>2, <1>5, <2>2, <2>3
<1>6. ASSUME NEW k \in DOMAIN ds PROVE Fit(es, C!Covered(ds, k - 1), ds[k])
  <2>1. CASE k <= n
    BY <1>1, <1>4, <2>1
  <2>2. CASE k > n
    <3> DEFINE j == k - n
    <3>1. j \in 1 .. Len(ps) /\ k = n + j
      BY <1>1, <2>2
    <3> HIDE DEF j
    <3> QED
      BY <1>5, <3>1
  <2> QED
    BY <1>1, <2>1, <2>2
<1> QED
  BY <1>6 DEF Good, ds

\* The k-th of the chunks is a part of the table n.
PartOfTable(cs, n, k) == k \in DOMAIN cs /\ cs[k].blocks = <<n>>
RowsIn(cs, n, r) == \E k : PartOfTable(cs, n, k) /\ \E p \in DOMAIN cs[k].rows : r = cs[k].rows[p]
RowsRise(cs, k, l) ==
  \A p \in DOMAIN cs[k].rows, q \in DOMAIN cs[l].rows :
    k < l \/ (k = l /\ p < q) => cs[k].rows[p] < cs[l].rows[q]

LEMMA RowsWholeIs ==
  ASSUME NEW es, NEW cs, NEW n
  PROVE  C!RowsWhole(es, cs, n)
           <=> /\ \A r : r \in DOMAIN es[n].rows <=> RowsIn(cs, n, r)
               /\ \A k, l : PartOfTable(cs, n, k) /\ PartOfTable(cs, n, l) => RowsRise(cs, k, l)
<1> DEFINE part == {k \in DOMAIN cs : cs[k].blocks = <<n>>}
           rows == UNION {C!ToSet(cs[k].rows) : k \in part}
<1>1. \A k : k \in part <=> PartOfTable(cs, n, k)
  BY DEF PartOfTable
<1>2. C!RowsWhole(es, cs, n)
        <=> rows = DOMAIN es[n].rows /\ \A k, l \in part : RowsRise(cs, k, l)
  BY DEF C!RowsWhole, RowsRise
<1> HIDE DEF part
<1>3. \A r : r \in rows <=> RowsIn(cs, n, r)
  BY <1>1 DEF RowsIn, C!ToSet
<1> HIDE DEF rows
<1>4. rows = DOMAIN es[n].rows <=> \A r : r \in DOMAIN es[n].rows <=> RowsIn(cs, n, r)
  <2>1. rows = DOMAIN es[n].rows <=> \A r : r \in DOMAIN es[n].rows <=> r \in rows
    OBVIOUS
  <2> QED
    BY <1>3, <2>1
<1> QED
  BY <1>1, <1>2, <1>4

\* Chunks of other elements change nothing in the rows of a table.
LEMMA RowsKept ==
  ASSUME NEW es, NEW X, NEW cs \in Seq(X), NEW ps \in Seq(X), NEW n, C!RowsWhole(es, cs, n),
         \A j \in DOMAIN ps : ps[j].blocks # <<n>>
  PROVE  C!RowsWhole(es, cs \o ps, n)
<1> DEFINE ds == cs \o ps
           m == Len(cs)
<1>1. m \in Nat /\ Len(ps) \in Nat /\ DOMAIN ds = 1 .. m + Len(ps) /\ DOMAIN cs = 1 .. m
        /\ DOMAIN ps = 1 .. Len(ps)
  <2>1. ds \in Seq(X) /\ Len(ds) = m + Len(ps)
    BY ConcatProperties
  <2> QED
    BY <2>1
<1>2. /\ \A l \in 1 .. m : ds[l] = cs[l]
      /\ \A j \in 1 .. Len(ps) : ds[m + j] = ps[j]
  BY <1>1, ConcatProperties
<1> HIDE DEF ds, m
<1>3. \A k : PartOfTable(ds, n, k) <=> PartOfTable(cs, n, k)
  <2>1. ASSUME NEW k, PartOfTable(ds, n, k) PROVE PartOfTable(cs, n, k)
    <3>1. k \in 1 .. m + Len(ps) /\ ds[k].blocks = <<n>>
      BY <1>1, <2>1 DEF PartOfTable
    <3>2. CASE k > m
      <4> DEFINE j == k - m
      <4>1. j \in 1 .. Len(ps) /\ k = m + j
        BY <1>1, <3>1, <3>2
      <4> HIDE DEF j
      <4>2. ds[k] = ps[j] /\ j \in DOMAIN ps
        BY <1>1, <1>2, <4>1
      <4> QED
        BY <3>1, <4>2
    <3>3. CASE k <= m
      <4>1. k \in 1 .. m
        BY <1>1, <3>1, <3>3
      <4> QED
        BY <1>1, <1>2, <3>1, <4>1 DEF PartOfTable
    <3> QED
      BY <1>1, <3>1, <3>2, <3>3
  <2>2. ASSUME NEW k, PartOfTable(cs, n, k) PROVE PartOfTable(ds, n, k)
    <3>1. k \in 1 .. m /\ k \in 1 .. m + Len(ps) /\ cs[k].blocks = <<n>>
      BY <1>1, <2>2 DEF PartOfTable
    <3> QED
      BY <1>1, <1>2, <3>1 DEF PartOfTable
  <2> QED
    BY <2>1, <2>2
<1>4. \A k : PartOfTable(cs, n, k) => ds[k] = cs[k]
  BY <1>1, <1>2 DEF PartOfTable
<1>5. \A r : RowsIn(ds, n, r) <=> RowsIn(cs, n, r)
  BY <1>3, <1>4 DEF RowsIn
<1>6. ASSUME NEW k, NEW l, PartOfTable(ds, n, k), PartOfTable(ds, n, l) PROVE RowsRise(ds, k, l)
  <2>1. PartOfTable(cs, n, k) /\ PartOfTable(cs, n, l) /\ ds[k] = cs[k] /\ ds[l] = cs[l]
    BY <1>3, <1>4, <1>6
  <2>2. RowsRise(cs, k, l)
    BY <2>1, RowsWholeIs
  <2> QED
    BY <2>1, <2>2 DEF RowsRise
<1>7. \A r : r \in DOMAIN es[n].rows <=> RowsIn(cs, n, r)
  BY RowsWholeIs
<1>8. C!RowsWhole(es, ds, n)
  BY <1>5, <1>6, <1>7, RowsWholeIs
<1> QED
  BY <1>8 DEF ds

\* The parts of a table that no chunk had before.
LEMMA RowsNew ==
  ASSUME NEW es, NEW X, NEW cs \in Seq(X), NEW ps \in Seq(X), NEW n, C!RowsWhole(es, ps, n),
         \A k \in DOMAIN cs : cs[k].blocks # <<n>>
  PROVE  C!RowsWhole(es, cs \o ps, n)
<1> DEFINE ds == cs \o ps
           m == Len(cs)
<1>1. m \in Nat /\ Len(ps) \in Nat /\ DOMAIN ds = 1 .. m + Len(ps) /\ DOMAIN cs = 1 .. m
        /\ DOMAIN ps = 1 .. Len(ps)
  <2>1. ds \in Seq(X) /\ Len(ds) = m + Len(ps)
    BY ConcatProperties
  <2> QED
    BY <2>1
<1>2. /\ \A l \in 1 .. m : ds[l] = cs[l]
      /\ \A j \in 1 .. Len(ps) : ds[m + j] = ps[j]
  BY <1>1, ConcatProperties
<1> HIDE DEF ds, m
<1>3. ASSUME NEW k, PartOfTable(ds, n, k)
      PROVE  \E j : k = m + j /\ PartOfTable(ps, n, j) /\ ds[k] = ps[j]
  <2>1. k \in 1 .. m + Len(ps) /\ ds[k].blocks = <<n>>
    BY <1>1, <1>3 DEF PartOfTable
  <2>2. ~(k <= m)
    <3> SUFFICES ASSUME k <= m PROVE FALSE
      OBVIOUS
    <3>1. k \in 1 .. m
      BY <1>1, <2>1
    <3> QED
      BY <1>1, <1>2, <2>1, <3>1
  <2> DEFINE j == k - m
  <2>3. j \in 1 .. Len(ps) /\ k = m + j
    BY <1>1, <2>1, <2>2
  <2> HIDE DEF j
  <2>4. ds[k] = ps[j] /\ j \in DOMAIN ps
    BY <1>1, <1>2, <2>3
  <2> QED
    BY <2>1, <2>3, <2>4 DEF PartOfTable
<1>4. ASSUME NEW j, PartOfTable(ps, n, j)
      PROVE  PartOfTable(ds, n, m + j) /\ ds[m + j] = ps[j]
  <2>1. j \in 1 .. Len(ps) /\ ps[j].blocks = <<n>>
    BY <1>1, <1>4 DEF PartOfTable
  <2>2. m + j \in DOMAIN ds /\ ds[m + j] = ps[j]
    BY <1>1, <1>2, <2>1
  <2> QED
    BY <2>1, <2>2 DEF PartOfTable
<1>5. \A r : RowsIn(ds, n, r) <=> RowsIn(ps, n, r)
  <2>1. ASSUME NEW r, RowsIn(ds, n, r) PROVE RowsIn(ps, n, r)
    BY <1>3, <2>1 DEF RowsIn
  <2>2. ASSUME NEW r, RowsIn(ps, n, r) PROVE RowsIn(ds, n, r)
    <3>1. PICK j : PartOfTable(ps, n, j) /\ \E p \in DOMAIN ps[j].rows : r = ps[j].rows[p]
      BY <2>2 DEF RowsIn
    <3> DEFINE k == m + j
    <3>2. PartOfTable(ds, n, k) /\ ds[k] = ps[j]
      BY <1>4, <3>1
    <3> HIDE DEF k
    <3> QED
      BY <3>1, <3>2 DEF RowsIn
  <2> QED
    BY <2>1, <2>2
<1>6. ASSUME NEW k, NEW l, PartOfTable(ds, n, k), PartOfTable(ds, n, l) PROVE RowsRise(ds, k, l)
  <2>1. PICK i : k = m + i /\ PartOfTable(ps, n, i) /\ ds[k] = ps[i]
    BY <1>3, <1>6
  <2>2. PICK j : l = m + j /\ PartOfTable(ps, n, j) /\ ds[l] = ps[j]
    BY <1>3, <1>6
  <2>3. RowsRise(ps, i, j)
    BY <2>1, <2>2, RowsWholeIs
  <2>4. i \in Nat /\ j \in Nat
    BY <1>1, <2>1, <2>2 DEF PartOfTable
  <2>5. (k < l <=> i < j) /\ (k = l <=> i = j)
    BY <1>1, <2>1, <2>2, <2>4
  <2> QED
    BY <2>1, <2>2, <2>3, <2>5 DEF RowsRise
<1>7. \A r : r \in DOMAIN es[n].rows <=> RowsIn(ps, n, r)
  BY RowsWholeIs
<1>8. C!RowsWhole(es, ds, n)
  BY <1>5, <1>6, <1>7, RowsWholeIs
<1> QED
  BY <1>8 DEF ds

-----------------------------------------------------------------------------
(* The chunker: what holds after the first n elements.                     *)

Done(s) == C!Covered(s.chunks, Len(s.chunks))
Pending(s) == C!Chunk("prose", s.accum, <<>>, s.path)
Contents(es, n) == {i \in 1 .. n : C!Content(es[i])}
TablesWhole(es, cs, n) == \A i \in 1 .. n : es[i].kind = "table" => C!RowsWhole(es, cs, i)

\* What the chunks and the accumulated blocks are made of is all there was so far.
Sound(es, s, n) ==
  /\ s \in States(es) /\ Good(es, s.chunks)
  /\ s.accum # <<>> => Fit(es, Done(s), Pending(s))
  /\ Done(s) \cup C!ToSet(s.accum) = Contents(es, n)
  /\ TablesWhole(es, s.chunks, n)

LEMMA ChunkIs ==
  ASSUME NEW k, NEW b, NEW r, NEW p
  PROVE  /\ C!Chunk(k, b, r, p).kind = k /\ C!Chunk(k, b, r, p).blocks = b
         /\ C!Chunk(k, b, r, p).rows = r /\ C!Chunk(k, b, r, p).path = p
BY DEF C!Chunk

\* One more chunk.
LEMMA OneMore ==
  ASSUME NEW es, NEW X, NEW cs \in Seq(X), NEW c \in X, Good(es, cs),
         Fit(es, C!Covered(cs, Len(cs)), c)
  PROVE  /\ Append(cs, c) \in Seq(X) /\ Good(es, Append(cs, c))
         /\ C!Covered(Append(cs, c), Len(Append(cs, c)))
              = C!Covered(cs, Len(cs)) \cup C!ToSet(c.blocks)
<1> DEFINE n == Len(cs)
           ps == <<c>>
           B == C!Covered(cs, n)
<1>1. ps \in Seq(X) /\ Len(ps) = 1 /\ DOMAIN ps = {1} /\ ps[1] = c /\ n \in Nat
        /\ n = Len(cs)
  OBVIOUS
<1>2. Append(cs, c) = cs \o ps /\ Append(cs, c) \in Seq(X) /\ Len(Append(cs, c)) = n + 1
  BY AppendIsConcat
<1>3. C!Covered(ps, 0) = {} /\ C!Covered(ps, 1) = C!ToSet(c.blocks)
  <2>1. \A b : b \notin C!Covered(ps, 0)
    BY CoveredHas
  <2>2. \A b : b \in C!Covered(ps, 1) <=> b \in C!ToSet(c.blocks)
    <3>1. \A l \in 1 .. 1 : l = 1
      OBVIOUS
    <3>2. 1 \in 1 .. 1
      OBVIOUS
    <3> HIDE DEF ps
    <3> QED
      BY <1>1, <3>1, <3>2, CoveredHas DEF C!ToSet
  <2> QED
    BY <2>1, <2>2
<1>7. \A j \in 0 .. Len(ps) : C!Covered(cs \o ps, n + j) = B \cup C!Covered(ps, j)
  <2>1. ps \in Seq(X)
    BY <1>1
  <2>2. Len(cs) \in Nat
    OBVIOUS
  <2> HIDE DEF ps
  <2> QED
    BY <2>1, <2>2, CoveredOver
<1> HIDE DEF ps, n
<1>4. \A j \in DOMAIN ps : Fit(es, B \cup C!Covered(ps, j - 1), ps[j])
  <2>1. \A j \in DOMAIN ps : j = 1 /\ j - 1 = 0
    BY <1>1
  <2>2. B \cup C!Covered(ps, 0) = B
    BY <1>3
  <2>3. Fit(es, B, c)
    BY DEF n
  <2> HIDE DEF B
  <2> QED
    BY <1>1, <2>1, <2>2, <2>3
<1>5. Good(es, cs \o ps)
  BY <1>1, <1>4, GoodOver DEF n
<1>6. C!Covered(cs \o ps, n + 1) = B \cup C!Covered(ps, 1)
  <2>1. 1 \in 0 .. Len(ps)
    BY <1>1
  <2> QED
    BY <1>7, <2>1
<1> QED
  BY <1>2, <1>3, <1>5, <1>6 DEF n

\* The accumulated blocks become a chunk.
LEMMA Flushed ==
  ASSUME NEW es, NEW s, NEW n, Sound(es, s, n), NEW t, t = C!Flush(s)
  PROVE  /\ Sound(es, t, n) /\ t.accum = <<>> /\ t.path = s.path
         /\ Done(t) = Contents(es, n)
<1>1. s \in States(es)
  BY DEF Sound
<1>2. CASE s.accum = <<>>
  <2>1. t = s
    BY <1>2 DEF C!Flush
  <2>2. C!ToSet(s.accum) = {}
    BY <1>2 DEF C!ToSet
  <2> QED
    BY <1>2, <2>1, <2>2 DEF Sound
<1>3. CASE s.accum # <<>>
  <2> DEFINE c == Pending(s)
             cs == s.chunks
             X == Pieces(es)
  <2>1. t = [chunks |-> Append(cs, c), accum |-> <<>>, path |-> s.path]
    BY <1>1, <1>3 DEF C!Flush, Pending, States
  <2>2. c \in X /\ cs \in Seq(X) /\ s.path \in PathsOf(es)
    BY <1>1 DEF Pending, C!Chunk, Pieces, States
  <2>3. /\ Append(cs, c) \in Seq(X) /\ Good(es, Append(cs, c))
        /\ C!Covered(Append(cs, c), Len(Append(cs, c)))
             = C!Covered(cs, Len(cs)) \cup C!ToSet(c.blocks)
    <3>1. Good(es, cs) /\ Fit(es, C!Covered(cs, Len(cs)), c)
      BY <1>3 DEF Sound, Done
    <3> HIDE DEF c, cs, X
    <3> QED
      BY <2>2, <3>1, OneMore
  <2>4. Done(t) = Contents(es, n)
    <3>1. c.blocks = s.accum
      BY ChunkIs DEF Pending
    <3>2. C!Covered(cs, Len(cs)) \cup C!ToSet(s.accum) = Contents(es, n)
      BY DEF Sound, Done
    <3>3. t.chunks = Append(cs, c)
      BY <2>1
    <3>4. C!Covered(Append(cs, c), Len(Append(cs, c))) = C!Covered(cs, Len(cs)) \cup C!ToSet(c.blocks)
      BY <2>3
    <3> HIDE DEF c, cs
    <3> QED
      BY <3>1, <3>2, <3>3, <3>4 DEF Done
  <2>5. t \in States(es) /\ t.accum = <<>>
    BY <2>1, <2>2, <2>3 DEF States
  <2>6. TablesWhole(es, t.chunks, n)
    <3> SUFFICES ASSUME NEW i \in 1 .. n, es[i].kind = "table"
                 PROVE  C!RowsWhole(es, Append(cs, c), i)
      BY <2>1 DEF TablesWhole
    <3>1. C!RowsWhole(es, cs, i)
      BY DEF Sound, TablesWhole
    <3>2. c.blocks # <<i>>
      <4> SUFFICES ASSUME c.blocks = <<i>> PROVE FALSE
        OBVIOUS
      <4>1. Belongs(es, c) /\ c.kind = "prose"
        BY <1>3, ChunkIs DEF Sound, Fit, Pending
      <4>2. 1 \in DOMAIN c.blocks /\ c.blocks[1] = i
        OBVIOUS
      <4> HIDE DEF c
      <4>3. es[i].kind = "prose"
        BY <4>1, <4>2 DEF Belongs
      <4> QED
        BY <4>3
    <3> DEFINE ps == <<c>>
    <3>3. ps \in Seq(X) /\ \A j \in DOMAIN ps : ps[j].blocks # <<i>>
      BY <2>2, <3>2
    <3>4. Append(cs, c) = cs \o ps
      BY <2>2, AppendIsConcat
    <3> HIDE DEF ps, cs, c, X
    <3> QED
      BY <2>2, <3>1, <3>3, <3>4, RowsKept
  <2>7. C!ToSet(t.accum) = {}
    BY <2>5 DEF C!ToSet
  <2>8. t.chunks = Append(cs, c) /\ t.path = s.path
    BY <2>1
  <2> QED
    BY <2>3, <2>4, <2>5, <2>6, <2>7, <2>8 DEF Sound
<1> QED
  BY <1>2, <1>3

\* The path changes when nothing is accumulated.
LEMMA Repathed ==
  ASSUME NEW es, NEW s, NEW n, Sound(es, s, n), s.accum = <<>>, NEW p \in PathsOf(es)
  PROVE  Sound(es, [s EXCEPT !.path = p], n)
<1> DEFINE t == [s EXCEPT !.path = p]
<1>1. s \in States(es)
  BY DEF Sound
<1>2. t \in States(es) /\ t.chunks = s.chunks /\ t.accum = <<>>
  BY <1>1 DEF States
<1> HIDE DEF t
<1>3. Sound(es, t, n)
  BY <1>2 DEF Sound, Done
<1> QED
  BY <1>3 DEF t

\* The next element, of chunks of its own.
NextIs(es, n, N) == n \in Nat /\ N = n + 1 /\ N \in DOMAIN es /\ es \in Seq(Nodes)
Own(es, N, c) ==
  /\ c.blocks = <<N>> /\ c.kind = es[N].kind /\ c.path = C!Paths(es)[N]
  /\ Len(c.rows) > 1 => C!RowsSize(es[N], c.rows) <= MaxChars

LEMMA NextContents ==
  ASSUME NEW es, NEW n, NEW N, NextIs(es, n, N)
  PROVE  /\ N \in Nat /\ n < N /\ N \notin Contents(es, n)
         /\ \A b \in Contents(es, n) : b < N
         /\ Contents(es, N) = IF C!Content(es[N]) THEN Contents(es, n) \cup {N}
                              ELSE Contents(es, n)
<1>1. n \in Nat /\ N = n + 1
  BY DEF NextIs
<1>2. 1 .. N = (1 .. n) \cup {N} /\ N \notin 1 .. n /\ \A b \in 1 .. n : b < N
  BY <1>1
<1> QED
  BY <1>1, <1>2 DEF Contents

LEMMA Single ==
  ASSUME NEW bs, NEW N, bs = <<N>>
  PROVE  Len(bs) = 1 /\ DOMAIN bs = {1} /\ bs[1] = N /\ C!ToSet(bs) = {N}
BY DEF C!ToSet

\* A block by itself comes after what was there before it.
LEMMA OwnFits ==
  ASSUME NEW es, NEW N, NEW c, Own(es, N, c), C!Content(es[N]), NEW B,
         N \in B \/ \A b \in B : b < N, c.kind # "table" => N \notin B
  PROVE  Fit(es, B, c)
<1>1. c.blocks = <<N>>
  BY DEF Own
<1>2. Len(c.blocks) = 1 /\ DOMAIN c.blocks = {1} /\ c.blocks[1] = N
  BY <1>1, Single
<1>3. Rises(c.blocks)
  <2> SUFFICES ASSUME NEW i \in DOMAIN c.blocks, NEW j \in DOMAIN c.blocks, i < j
               PROVE  FALSE
    BY DEF Rises
  <2>1. i = 1 /\ j = 1
    BY <1>2
  <2> QED
    BY <2>1
<1>4. Belongs(es, c)
  BY <1>2 DEF Belongs, Own
<1>5. Comes(B, c.blocks)
  BY <1>2 DEF Comes
<1>6. Sized(es, c)
  BY <1>2 DEF Sized, Own
<1>7. ASSUME c.kind # "table" PROVE C!Seeded(es, c.blocks, B)
  <2>1. 0 \in 0 .. Len(c.blocks) - 1 /\ ~(0 > 0)
    BY <1>2
  <2>2. \A i \in DOMAIN c.blocks : i <= 0 <=> c.blocks[i] \in B
    BY <1>2, <1>7
  <2> QED
    BY <2>1, <2>2 DEF C!Seeded
<1> QED
  BY <1>2, <1>3, <1>4, <1>5, <1>6, <1>7 DEF Fit

LEMMA Emitted ==
  ASSUME NEW es, NEW s, NEW n, Sound(es, s, n), s.accum = <<>>,
         NEW N, NextIs(es, n, N), C!Content(es[N]),
         NEW ps \in Seq(Pieces(es)), Len(ps) > 0, \A j \in DOMAIN ps : Own(es, N, ps[j]),
         es[N].kind = "table" => C!RowsWhole(es, ps, N),
         es[N].kind # "table" => Len(ps) = 1,
         NEW t, t = C!Emit(s, ps)
  PROVE  Sound(es, t, N) /\ t.path = s.path
<1> DEFINE cs == s.chunks
           X == Pieces(es)
           B == C!Covered(cs, Len(cs))
<1>1. s \in States(es) /\ cs \in Seq(X) /\ Len(ps) \in Nat /\ DOMAIN ps = 1 .. Len(ps)
  BY DEF Sound, States
<1>2. t = [chunks |-> cs \o ps, accum |-> <<>>, path |-> s.path]
  BY <1>1 DEF C!Emit, States
<1>3. cs \o ps \in Seq(X) /\ Len(cs \o ps) = Len(cs) + Len(ps) /\ Len(cs) \in Nat
  BY <1>1, ConcatProperties
<1>4. t \in States(es) /\ t.chunks = cs \o ps /\ t.accum = <<>> /\ t.path = s.path
  BY <1>1, <1>2, <1>3 DEF States
<1>5. B = Contents(es, n)
  <2>1. C!ToSet(s.accum) = {}
    BY DEF C!ToSet
  <2> QED
    BY <2>1 DEF Sound, Done
<1>6. Good(es, cs)
  BY DEF Sound
<1>14. ps \in Seq(X) /\ B = C!Covered(cs, Len(cs))
  OBVIOUS
<1> HIDE DEF cs, X, B
<1>7. \A j \in 0 .. Len(ps) : C!Covered(ps, j) = IF j = 0 THEN {} ELSE {N}
  <2> SUFFICES ASSUME NEW j \in 0 .. Len(ps)
               PROVE  C!Covered(ps, j) = IF j = 0 THEN {} ELSE {N}
    OBVIOUS
  <2>1. \A l \in 1 .. j : l \in DOMAIN ps /\ ps[l].blocks = <<N>>
    BY <1>1 DEF Own
  <2>2. \A b : b \in C!Covered(ps, j) <=> \E l \in 1 .. j : b \in C!ToSet(ps[l].blocks)
    BY DEF C!Covered
  <2>3. \A l \in 1 .. j : C!ToSet(ps[l].blocks) = {N}
    BY <2>1, Single
  <2>4. \A b : b \in C!Covered(ps, j) <=> j # 0 /\ b = N
    <3>1. CASE j = 0
      <4>1. \A l : l \notin 1 .. j
        BY <3>1
      <4> QED
        BY <2>2, <3>1, <4>1
    <3>2. CASE j # 0
      <4>1. 1 \in 1 .. j
        BY <1>1, <3>2
      <4>2. \A b : b \in C!Covered(ps, j) <=> \E l \in 1 .. j : b \in {N}
        BY <2>2, <2>3
      <4> QED
        BY <3>2, <4>1, <4>2
    <3> QED
      BY <3>1, <3>2
  <2>5. CASE j = 0
    BY <2>4, <2>5
  <2>6. CASE j # 0
    BY <2>4, <2>6
  <2> QED
    BY <2>5, <2>6
<1>8. \A j \in DOMAIN ps : Fit(es, B \cup C!Covered(ps, j - 1), ps[j])
  <2> SUFFICES ASSUME NEW j \in DOMAIN ps PROVE Fit(es, B \cup C!Covered(ps, j - 1), ps[j])
    OBVIOUS
  <2> DEFINE D == B \cup C!Covered(ps, j - 1)
  <2>1. Own(es, N, ps[j]) /\ j - 1 \in 0 .. Len(ps)
    BY <1>1
  <2>2. N \notin B /\ \A b \in B : b < N
    BY <1>5, NextContents
  <2>3. N \in D \/ \A b \in D : b < N
    BY <1>7, <2>1, <2>2
  <2>4. ps[j].kind # "table" => N \notin D
    <3> SUFFICES ASSUME ps[j].kind # "table" PROVE N \notin D
      OBVIOUS
    <3>1. Len(ps) = 1 /\ j = 1 /\ j - 1 = 0
      BY <1>1, <2>1 DEF Own
    <3> QED
      BY <1>7, <2>1, <2>2, <3>1
  <2> HIDE DEF D
  <2>5. Fit(es, D, ps[j])
    BY <2>1, <2>3, <2>4, OwnFits
  <2> QED
    BY <2>5 DEF D
<1>9. Good(es, cs \o ps)
  BY <1>1, <1>6, <1>8, <1>14, GoodOver
<1>10. Done(t) = Contents(es, N)
  <2>1. \A j \in 0 .. Len(ps) : C!Covered(cs \o ps, Len(cs) + j) = B \cup C!Covered(ps, j)
    BY <1>1, <1>3, <1>14, CoveredOver
  <2>2. Len(ps) \in 0 .. Len(ps) /\ Len(ps) # 0
    BY <1>1
  <2>3. Done(t) = B \cup {N}
    BY <1>3, <1>4, <1>7, <2>1, <2>2 DEF Done
  <2> QED
    BY <1>5, <2>3, NextContents
<1>11. \A k \in DOMAIN cs : cs[k].blocks # <<N>>
  <2> SUFFICES ASSUME NEW k \in DOMAIN cs, cs[k].blocks = <<N>> PROVE FALSE
    OBVIOUS
  <2>1. 1 \in DOMAIN cs[k].blocks /\ cs[k].blocks[1] = N
    BY Single
  <2>2. k \in 1 .. Len(cs)
    BY <1>1
  <2>3. N \in B
    BY <2>1, <2>2, CoveredHas DEF B
  <2> QED
    BY <1>5, <2>3, NextContents
<1>12. TablesWhole(es, cs \o ps, N)
  <2> SUFFICES ASSUME NEW i \in 1 .. N, es[i].kind = "table"
               PROVE  C!RowsWhole(es, cs \o ps, i)
    BY DEF TablesWhole
  <2>1. CASE i = N
    BY <1>1, <1>11, <1>14, <2>1, RowsNew
  <2>2. CASE i # N
    <3>1. i \in 1 .. n
      BY <2>2 DEF NextIs
    <3>2. C!RowsWhole(es, cs, i)
      BY <3>1 DEF Sound, TablesWhole, cs
    <3>3. \A j \in DOMAIN ps : ps[j].blocks # <<i>>
      <4> SUFFICES ASSUME NEW j \in DOMAIN ps, ps[j].blocks = <<i>> PROVE FALSE
        OBVIOUS
      <4>1. ps[j].blocks = <<N>>
        BY DEF Own
      <4>2. <<N>>[1] = N /\ <<i>>[1] = i
        OBVIOUS
      <4> QED
        BY <2>2, <4>1, <4>2
    <3> QED
      BY <1>1, <1>14, <3>2, <3>3, RowsKept
  <2> QED
    BY <2>1, <2>2
<1>13. C!ToSet(t.accum) = {}
  BY <1>4 DEF C!ToSet
<1> QED
  BY <1>4, <1>9, <1>10, <1>12, <1>13 DEF Sound

-----------------------------------------------------------------------------
(* The chunker: a block of text.                                           *)

JoinIs(bs, N, xs) ==
  /\ Len(bs) \in Nat /\ Len(xs) = Len(bs) + 1
  /\ \A i \in DOMAIN bs : i \in DOMAIN xs /\ xs[i] = bs[i] /\ i \in 1 .. Len(bs)
  /\ \A i \in DOMAIN xs :
       \/ i \in DOMAIN bs /\ xs[i] = bs[i]
       \/ i = Len(xs) /\ xs[i] = N
  /\ C!ToSet(xs) = C!ToSet(bs) \cup {N}

LEMMA BehindIs ==
  ASSUME NEW D, NEW bs \in Seq(D), NEW N \in D, NEW xs, xs = Append(bs, N)
  PROVE  xs \in Seq(D) /\ JoinIs(bs, N, xs)
<1>1. /\ xs \in Seq(D) /\ Len(bs) \in Nat /\ Len(xs) = Len(bs) + 1
      /\ DOMAIN bs = 1 .. Len(bs) /\ DOMAIN xs = 1 .. Len(bs) + 1
      /\ \A i \in 1 .. Len(bs) : xs[i] = bs[i]
      /\ xs[Len(bs) + 1] = N
  BY AppendProperties
<1>2. \A i \in 1 .. Len(bs) + 1 : i \in 1 .. Len(bs) \/ i = Len(bs) + 1
  BY <1>1
<1>3. \A b : b \in C!ToSet(xs) <=> b \in C!ToSet(bs) \cup {N}
  <2>1. \A b : b \in C!ToSet(xs) <=> \E i \in 1 .. Len(bs) + 1 : b = xs[i]
    BY <1>1 DEF C!ToSet
  <2>2. \A b : b \in C!ToSet(bs) <=> \E i \in 1 .. Len(bs) : b = bs[i]
    BY <1>1 DEF C!ToSet
  <2>3. Len(bs) + 1 \in 1 .. Len(bs) + 1 /\ \A i \in 1 .. Len(bs) : i \in 1 .. Len(bs) + 1
    BY <1>1
  <2> QED
    BY <1>1, <1>2, <2>1, <2>2, <2>3
<1> QED
  BY <1>1, <1>2, <1>3 DEF JoinIs

\* A block behind others that may be a chunk with it.
LEMMA FitBehind ==
  ASSUME NEW es, NEW n, NEW N, NextIs(es, n, N), es[N].kind = "prose", C!Content(es[N]),
         NEW B, B \subseteq Contents(es, n),
         NEW bs \in Seq(DOMAIN es), Rises(bs), Comes(B, bs), \A i \in DOMAIN bs : bs[i] < N,
         NEW p, p = C!Paths(es)[N], Belongs(es, C!Chunk("prose", bs, <<>>, p)),
         NEW xs, xs = Append(bs, N), C!Length(es, xs) <= MaxChars, C!Seeded(es, xs, B)
  PROVE  Fit(es, B, C!Chunk("prose", xs, <<>>, p))
<1> DEFINE c == C!Chunk("prose", xs, <<>>, p)
<1>1. N \in DOMAIN es /\ DOMAIN es \subseteq Nat
  BY DEF NextIs
<1>2. /\ xs \in Seq(DOMAIN es) /\ Len(bs) \in Nat /\ Len(xs) = Len(bs) + 1
      /\ \A i \in DOMAIN bs : i \in DOMAIN xs /\ xs[i] = bs[i] /\ i \in 1 .. Len(bs)
      /\ \A i \in DOMAIN xs :
           \/ i \in DOMAIN bs /\ xs[i] = bs[i]
           \/ i = Len(xs) /\ xs[i] = N
  BY <1>1, BehindIs DEF JoinIs
<1>3. c.kind = "prose" /\ c.blocks = xs /\ c.rows = <<>> /\ c.path = p
  BY DEF C!Chunk
<1> HIDE DEF c
<1>4. Rises(xs)
  <2> SUFFICES ASSUME NEW i \in DOMAIN xs, NEW j \in DOMAIN xs, i < j PROVE xs[i] < xs[j]
    BY DEF Rises
  <2>1. i \in DOMAIN bs
    <3>1. j <= Len(xs)
      BY <1>2
    <3> QED
      BY <1>2, <3>1
  <2>2. CASE j \in DOMAIN bs
    BY <1>2, <2>1, <2>2 DEF Rises
  <2>3. CASE j \notin DOMAIN bs
    BY <1>2, <2>1, <2>3
  <2> QED
    BY <2>2, <2>3
<1>5. Belongs(es, c)
  <2> SUFFICES ASSUME NEW i \in DOMAIN xs
               PROVE  es[xs[i]].kind = "prose" /\ C!Content(es[xs[i]]) /\ p = C!Paths(es)[xs[i]]
    BY <1>3 DEF Belongs
  <2>1. \A j \in DOMAIN bs : /\ es[bs[j]].kind = "prose" /\ C!Content(es[bs[j]])
                             /\ p = C!Paths(es)[bs[j]]
    BY ChunkIs DEF Belongs
  <2> QED
    BY <1>2, <2>1
<1>6. Comes(B, xs)
  <2>1. \A b \in B : b < N
    BY NextContents
  <2> QED
    BY <1>2, <2>1 DEF Comes
<1>7. Sized(es, c)
  BY <1>3 DEF Sized
<1>8. Len(xs) > 0
  BY <1>2
<1>9. Fit(es, B, c)
  BY <1>3, <1>4, <1>5, <1>6, <1>7, <1>8 DEF Fit
<1> QED
  BY <1>9 DEF c

\* What is accumulated next.
Holding(s, a) == [s EXCEPT !.accum = a]
MayHold(es, s, n, N, a) ==
  /\ a \in Seq(DOMAIN es) /\ Done(s) \cup C!ToSet(a) = Contents(es, n) \cup {N}
  /\ Fit(es, Done(s), C!Chunk("prose", a, <<>>, s.path))

LEMMA Accumulated ==
  ASSUME NEW es, NEW s, NEW n, Sound(es, s, n), NEW N, NextIs(es, n, N),
         es[N].kind = "prose", C!Content(es[N]),
         NEW a, MayHold(es, s, n, N, a), NEW t, t = Holding(s, a)
  PROVE  Sound(es, t, N) /\ t.path = s.path
<1>1. s \in States(es)
  BY DEF Sound
<1>2. t \in States(es) /\ t.chunks = s.chunks /\ t.accum = a /\ t.path = s.path
  BY <1>1 DEF States, Holding, MayHold
<1>3. TablesWhole(es, t.chunks, N)
  <2>1. \A i \in 1 .. N : i \in 1 .. n \/ i = N
    BY DEF NextIs
  <2> QED
    BY <1>2, <2>1 DEF Sound, TablesWhole
<1>4. Done(t) \cup C!ToSet(t.accum) = Contents(es, N)
  <2>1. Contents(es, N) = Contents(es, n) \cup {N}
    BY NextContents
  <2> QED
    BY <1>2, <2>1 DEF Done, MayHold
<1>5. Fit(es, Done(t), Pending(t))
  BY <1>2 DEF Done, Pending, MayHold
<1> QED
  BY <1>2, <1>3, <1>4, <1>5 DEF Sound

\* An element without a content.
LEMMA Skipped ==
  ASSUME NEW es, NEW s, NEW n, Sound(es, s, n), NEW N, NextIs(es, n, N),
         es[N].kind = "prose", ~C!Content(es[N])
  PROVE  Sound(es, s, N)
<1>1. TablesWhole(es, s.chunks, N)
  <2>1. \A i \in 1 .. N : i \in 1 .. n \/ i = N
    BY DEF NextIs
  <2> QED
    BY <2>1 DEF Sound, TablesWhole
<1>2. Contents(es, N) = Contents(es, n)
  BY NextContents
<1> QED
  BY <1>1, <1>2 DEF Sound

\* A block that nothing is accumulated before.
LEMMA AloneKeeps ==
  ASSUME NEW es, NEW s, NEW n, Sound(es, s, n), s.accum = <<>>, NEW N, NextIs(es, n, N),
         es[N].kind = "prose", C!Content(es[N]), s.path = C!Paths(es)[N],
         NEW t, t = C!Alone(es, s, N)
  PROVE  Sound(es, t, N) /\ t.path = s.path
<1> DEFINE c == C!Chunk("prose", <<N>>, <<>>, s.path)
<1>1. s \in States(es) /\ N \in DOMAIN es
  BY DEF Sound, NextIs
<1>2. Own(es, N, c)
  BY ChunkIs DEF Own
<1>3. c.kind = "prose"
  BY ChunkIs
<1>4. Done(s) = Contents(es, n)
  <2>1. C!ToSet(s.accum) = {}
    BY DEF C!ToSet
  <2> QED
    BY <2>1 DEF Sound
<1>5. CASE es[N].size > MaxChars
  <2> DEFINE ps == <<c>>
  <2>1. t = C!Emit(s, ps)
    BY <1>5 DEF C!Alone
  <2>2. c \in Pieces(es)
    BY <1>1 DEF Pieces, States, C!Chunk
  <2>3. ps \in Seq(Pieces(es)) /\ Len(ps) = 1 /\ \A j \in DOMAIN ps : ps[j] = c
    BY <2>2
  <2>4. /\ Len(ps) > 0 /\ \A j \in DOMAIN ps : Own(es, N, ps[j])
        /\ es[N].kind = "table" => C!RowsWhole(es, ps, N)
        /\ es[N].kind # "table" => Len(ps) = 1
    BY <1>2, <2>3
  <2>5. ps \in Seq(Pieces(es))
    BY <2>3
  <2> HIDE DEF ps, c
  <2> QED
    BY <2>1, <2>4, <2>5, Emitted, SMTT(60)
<1>6. CASE ~(es[N].size > MaxChars)
  <2> DEFINE a == <<N>>
  <2>1. t = Holding(s, a)
    BY <1>6 DEF C!Alone, Holding
  <2>2. a \in Seq(DOMAIN es) /\ C!ToSet(a) = {N}
    BY <1>1, Single
  <2>3. Fit(es, Done(s), c)
    <3>1. N \notin Done(s) /\ \A b \in Done(s) : b < N
      BY <1>4, NextContents
    <3> HIDE DEF c
    <3> QED
      BY <1>2, <1>3, <3>1, OwnFits
  <2>4. c = C!Chunk("prose", a, <<>>, s.path)
    OBVIOUS
  <2> HIDE DEF a, c
  <2>5. MayHold(es, s, n, N, a)
    BY <1>4, <2>2, <2>3, <2>4 DEF MayHold
  <2> QED
    BY <2>1, <2>5, Accumulated
<1> QED
  BY <1>5, <1>6

\* The end of a chunk that the next one begins with.
LEMMA Overlapped ==
  ASSUME NEW es, NEW D, NEW a \in Seq(D), NEW N, NEW sd, sd = C!Overlap(es, a, N), sd # <<>>
  PROVE  \E k \in 2 .. Len(a) :
           /\ sd = SubSeq(a, k, Len(a)) /\ C!Length(es, sd) <= OverlapChars
           /\ C!Length(es, Append(sd, N)) <= MaxChars
<1> DEFINE fits == {k \in 2 .. Len(a) : C!Length(es, SubSeq(a, k, Len(a))) <= OverlapChars}
           k == C!Min(fits)
<1>1. /\ fits # {} /\ sd = SubSeq(a, k, Len(a))
      /\ C!Length(es, Append(SubSeq(a, k, Len(a)), N)) <= MaxChars
  BY DEF C!Overlap
<1>2. fits \subseteq Nat
  OBVIOUS
<1>3. k \in fits
  <2> HIDE DEF fits
  <2>1. \E m \in fits : \A l \in fits : m <= l
    BY <1>1, <1>2, LeastNumber
  <2> QED
    BY <2>1 DEF C!Min
<1>4. k \in 2 .. Len(a) /\ C!Length(es, SubSeq(a, k, Len(a))) <= OverlapChars
  BY <1>3
<1> HIDE DEF fits, k
<1> QED
  BY <1>1, <1>4

\* What such an end is.
LEMMA EndIs ==
  ASSUME NEW D, NEW a \in Seq(D), NEW k \in 2 .. Len(a), NEW sd, sd = SubSeq(a, k, Len(a))
  PROVE  /\ sd \in Seq(D) /\ Len(sd) = Len(a) - k + 1
         /\ \A i \in DOMAIN sd : i + (k - 1) \in DOMAIN a /\ sd[i] = a[i + (k - 1)]
<1> DEFINE m == Len(a)
<1>1. m \in Nat /\ DOMAIN a = 1 .. m /\ k \in Int /\ m \in Int /\ k <= m /\ k >= 2
  OBVIOUS
<1>2. \A i \in k .. m : a[i] \in D
  BY <1>1
<1> HIDE DEF m
<1>3. /\ SubSeq(a, k, m) \in Seq(D)
      /\ Len(SubSeq(a, k, m)) = m - k + 1
      /\ \A i \in 1 .. m - k + 1 : SubSeq(a, k, m)[i] = a[k + i - 1]
  BY <1>1, <1>2, SubSeqProperties
<1>4. sd = SubSeq(a, k, m)
  BY DEF m
<1>5. sd \in Seq(D) /\ Len(sd) = m - k + 1 /\ DOMAIN sd = 1 .. m - k + 1
  BY <1>3, <1>4
<1>6. ASSUME NEW i \in DOMAIN sd PROVE i + (k - 1) \in DOMAIN a /\ sd[i] = a[i + (k - 1)]
  <2>1. i \in 1 .. m - k + 1 /\ k + i - 1 = i + (k - 1)
    BY <1>1, <1>5
  <2>2. sd[i] = a[k + i - 1]
    BY <1>3, <1>4, <2>1
  <2> QED
    BY <1>1, <2>1, <2>2
<1> QED
  BY <1>5, <1>6 DEF m

LEMMA SeededLonger ==
  ASSUME NEW es, NEW B, NEW D, NEW bs \in Seq(D), NEW N \in D, N \notin B,
         C!Seeded(es, bs, B), NEW xs, xs = Append(bs, N)
  PROVE  C!Seeded(es, xs, B)
<1>1. PICK m \in 0 .. Len(bs) - 1 :
        /\ m > 0 => C!Length(es, SubSeq(bs, 1, m)) <= OverlapChars
        /\ \A i \in DOMAIN bs : i <= m <=> bs[i] \in B
  BY DEF C!Seeded
<1>2. /\ xs \in Seq(D) /\ Len(bs) \in Nat /\ Len(xs) = Len(bs) + 1
      /\ \A i \in DOMAIN bs : i \in DOMAIN xs /\ xs[i] = bs[i] /\ i \in 1 .. Len(bs)
      /\ \A i \in DOMAIN xs :
           \/ i \in DOMAIN bs /\ xs[i] = bs[i]
           \/ i = Len(xs) /\ xs[i] = N
  BY BehindIs DEF JoinIs
<1>3. m \in 0 .. Len(xs) - 1
  BY <1>2
<1>4. SubSeq(xs, 1, m) = SubSeq(bs, 1, m)
  <2>1. \A i \in 1 .. m : bs[i] \in D /\ xs[i] \in D /\ xs[i] = bs[i]
    BY <1>2
  <2>2. m \in Int /\ 1 \in Int
    OBVIOUS
  <2>3. /\ SubSeq(bs, 1, m) \in Seq(D)
        /\ Len(SubSeq(bs, 1, m)) = IF 1 <= m THEN m - 1 + 1 ELSE 0
        /\ \A i \in 1 .. m - 1 + 1 : SubSeq(bs, 1, m)[i] = bs[1 + i - 1]
    BY <2>1, <2>2, SubSeqProperties
  <2>4. /\ SubSeq(xs, 1, m) \in Seq(D)
        /\ Len(SubSeq(xs, 1, m)) = IF 1 <= m THEN m - 1 + 1 ELSE 0
        /\ \A i \in 1 .. m - 1 + 1 : SubSeq(xs, 1, m)[i] = xs[1 + i - 1]
    BY <2>1, <2>2, SubSeqProperties
  <2> DEFINE p == SubSeq(bs, 1, m)
             q == SubSeq(xs, 1, m)
  <2>5. p \in Seq(D) /\ q \in Seq(D) /\ Len(p) = m /\ Len(q) = m
    BY <2>3, <2>4
  <2>6. ASSUME NEW i \in 1 .. m PROVE p[i] = q[i]
    <3>1. i \in 1 .. m - 1 + 1 /\ 1 + i - 1 = i
      OBVIOUS
    <3> QED
      BY <2>1, <2>3, <2>4, <3>1
  <2> HIDE DEF p, q
  <2>7. p = q
    BY <2>5, <2>6
  <2> QED
    BY <2>7 DEF p, q
<1>5. \A i \in DOMAIN xs : i <= m <=> xs[i] \in B
  <2> SUFFICES ASSUME NEW i \in DOMAIN xs PROVE i <= m <=> xs[i] \in B
    OBVIOUS
  <2>1. CASE i \in DOMAIN bs /\ xs[i] = bs[i]
    BY <1>1, <2>1
  <2>2. CASE i = Len(xs) /\ xs[i] = N
    BY <1>2, <2>2
  <2> QED
    BY <1>2, <2>1, <2>2
<1> QED
  BY <1>1, <1>3, <1>4, <1>5 DEF C!Seeded

\* A block that the accumulated ones have room for.
Reaches(es, s, n, N) ==
  /\ Sound(es, s, n) /\ s.accum # <<>> /\ NextIs(es, n, N)
  /\ es[N].kind = "prose" /\ C!Content(es[N]) /\ s.path = C!Paths(es)[N]

Joins(es, s, N, xs, t) ==
  xs = Append(s.accum, N) /\ C!Length(es, xs) <= MaxChars /\ t = Holding(s, xs)
Restarts(es, s, N, sd, xs, u, t) ==
  /\ sd = C!Overlap(es, s.accum, N) /\ sd # <<>> /\ xs = Append(sd, N)
  /\ u = C!Flush(s) /\ t = Holding(u, xs)

LEMMA RoomLeft ==
  ASSUME NEW es, NEW s, NEW n, NEW N, Reaches(es, s, n, N),
         NEW xs, NEW t, Joins(es, s, N, xs, t)
  PROVE  Sound(es, t, N) /\ t.path = s.path
<1> USE DEF Reaches, Joins
<1>0. PICK bs, p, B, D : bs = s.accum /\ p = s.path /\ B = Done(s) /\ D = DOMAIN es
  OBVIOUS
<1>1. s \in States(es) /\ N \in D /\ bs \in Seq(D)
  BY <1>0 DEF Sound, States, NextIs
<1>2. /\ xs \in Seq(D) /\ C!ToSet(xs) = C!ToSet(bs) \cup {N}
  <2>1. xs \in Seq(D) /\ JoinIs(bs, N, xs)
    BY <1>0, <1>1, BehindIs
  <2> QED
    BY <2>1 DEF JoinIs
<1>3. B \cup C!ToSet(bs) = Contents(es, n)
  BY <1>0 DEF Sound
<1>4. N \notin B /\ B \subseteq Contents(es, n)
  BY <1>3, NextContents
<1>5. \A i \in DOMAIN bs : bs[i] < N
  <2>1. \A i \in DOMAIN bs : bs[i] \in C!ToSet(bs)
    BY DEF C!ToSet
  <2> QED
    BY <1>3, <2>1, NextContents
<1>6. Fit(es, B, Pending(s))
  BY <1>0 DEF Sound
<1>7. /\ Pending(s).blocks = bs /\ Pending(s).kind = "prose"
      /\ Pending(s) = C!Chunk("prose", bs, <<>>, p)
  BY <1>0 DEF Pending, C!Chunk
<1>8. Rises(bs) /\ Comes(B, bs) /\ C!Seeded(es, bs, B) /\ Belongs(es, C!Chunk("prose", bs, <<>>, p))
  BY <1>6, <1>7 DEF Fit
<1>10. C!Seeded(es, xs, B)
  BY <1>1, <1>4, <1>8, <1>0, SeededLonger
<1>11. Fit(es, B, C!Chunk("prose", xs, <<>>, p))
  BY <1>1, <1>4, <1>5, <1>8, <1>0, <1>10, FitBehind
<1>12. B \cup C!ToSet(xs) = Contents(es, n) \cup {N}
  BY <1>2, <1>3
<1>13. MayHold(es, s, n, N, xs)
  BY <1>2, <1>0, <1>11, <1>12 DEF MayHold
<1>14. Sound(es, s, n) /\ es[N].kind = "prose" /\ C!Content(es[N]) /\ NextIs(es, n, N)
  OBVIOUS
<1> QED
  BY <1>13, <1>14, Accumulated

\* A block that comes after the end of a chunk.
LEMMA Restarted ==
  ASSUME NEW es, NEW s, NEW n, NEW N, Reaches(es, s, n, N),
         NEW sd, NEW xs, NEW u, NEW t, Restarts(es, s, N, sd, xs, u, t)
  PROVE  Sound(es, t, N) /\ t.path = s.path
<1> USE DEF Reaches, Restarts
<1> DEFINE bs == s.accum
           p == s.path
           B == Contents(es, n)
           D == DOMAIN es
<1>1. s \in States(es) /\ N \in D /\ bs \in Seq(D) /\ sd = C!Overlap(es, bs, N)
  BY DEF Sound, States, NextIs
<1>2. Sound(es, u, n) /\ u.path = p /\ Done(u) = B
  BY Flushed
<1>3. Done(s) \cup C!ToSet(bs) = B
  BY DEF Sound
<1>4. Fit(es, Done(s), Pending(s))
  BY DEF Sound
<1>5. Pending(s).blocks = bs /\ Pending(s).kind = "prose" /\ Pending(s).path = p
  BY DEF Pending, C!Chunk
<1>6. /\ Rises(bs)
      /\ \A i \in DOMAIN bs : es[bs[i]].kind = "prose" /\ C!Content(es[bs[i]])
                              /\ p = C!Paths(es)[bs[i]]
  BY <1>4, <1>5 DEF Fit, Belongs
<1>7. bs = s.accum /\ p = s.path /\ B = Contents(es, n) /\ D = DOMAIN es /\ p = C!Paths(es)[N]
  OBVIOUS
<1> HIDE DEF bs, p, B, D
<1>8. PICK k \in 2 .. Len(bs) :
        /\ sd = SubSeq(bs, k, Len(bs)) /\ C!Length(es, sd) <= OverlapChars
        /\ C!Length(es, Append(sd, N)) <= MaxChars
  BY <1>1, Overlapped
<1>9. /\ sd \in Seq(D) /\ Len(sd) = Len(bs) - k + 1
      /\ \A i \in DOMAIN sd : i + (k - 1) \in DOMAIN bs /\ sd[i] = bs[i + (k - 1)]
  BY <1>1, <1>8, EndIs
<1>10. /\ xs \in Seq(D) /\ Len(sd) \in Nat /\ Len(xs) = Len(sd) + 1
       /\ \A i \in DOMAIN sd : i \in DOMAIN xs /\ xs[i] = sd[i] /\ i \in 1 .. Len(sd)
       /\ \A i \in DOMAIN xs :
            \/ i \in DOMAIN sd /\ xs[i] = sd[i]
            \/ i = Len(xs) /\ xs[i] = N
       /\ C!ToSet(xs) = C!ToSet(sd) \cup {N}
  <2>1. sd \in Seq(D) /\ N \in D
    BY <1>1, <1>9
  <2>2. xs \in Seq(D) /\ JoinIs(sd, N, xs)
    BY <2>1, BehindIs
  <2> QED
    BY <2>2 DEF JoinIs
<1>11. \A i \in DOMAIN sd : sd[i] \in B /\ sd[i] \in C!ToSet(sd)
  <2>1. \A i \in DOMAIN bs : bs[i] \in C!ToSet(bs)
    BY DEF C!ToSet
  <2>2. \A i \in DOMAIN sd : sd[i] \in C!ToSet(sd)
    BY DEF C!ToSet
  <2> QED
    BY <1>3, <1>9, <2>1, <2>2
<1>12. Rises(sd)
  <2> SUFFICES ASSUME NEW i \in DOMAIN sd, NEW j \in DOMAIN sd, i < j PROVE sd[i] < sd[j]
    BY DEF Rises
  <2> DEFINE v == i + (k - 1)
             w == j + (k - 1)
  <2>1. v < w
    BY <1>8, <1>10
  <2>2. v \in DOMAIN bs /\ w \in DOMAIN bs /\ sd[i] = bs[v] /\ sd[j] = bs[w]
    BY <1>9
  <2> HIDE DEF v, w
  <2> QED
    BY <1>6, <2>1, <2>2 DEF Rises
<1>13. Belongs(es, C!Chunk("prose", sd, <<>>, p))
  <2> DEFINE c == C!Chunk("prose", sd, <<>>, p)
  <2>1. c.kind = "prose" /\ c.blocks = sd /\ c.path = p
    BY DEF C!Chunk
  <2> HIDE DEF c
  <2>2. \A i \in DOMAIN sd : es[sd[i]].kind = "prose" /\ C!Content(es[sd[i]])
                             /\ p = C!Paths(es)[sd[i]]
    BY <1>6, <1>9
  <2>3. Belongs(es, c)
    BY <2>1, <2>2 DEF Belongs
  <2> QED
    BY <2>3 DEF c
<1>14. Comes(B, sd)
  BY <1>11 DEF Comes
<1>15. N \notin B /\ \A b \in B : b < N
  BY <1>7, NextContents
<1>16. \A i \in DOMAIN sd : sd[i] < N
  BY <1>11, <1>15
<1>17. C!Seeded(es, xs, B)
  <2> DEFINE m == Len(sd)
  <2>1. m \in 0 .. Len(xs) - 1 /\ m \in Int /\ 1 \in Int
    BY <1>10
  <2>2. SubSeq(xs, 1, m) = sd
    <3>1. \A i \in 1 .. m : xs[i] \in D /\ xs[i] = sd[i]
      BY <1>9, <1>10
    <3>2. /\ SubSeq(xs, 1, m) \in Seq(D)
          /\ Len(SubSeq(xs, 1, m)) = IF 1 <= m THEN m - 1 + 1 ELSE 0
          /\ \A i \in 1 .. m - 1 + 1 : SubSeq(xs, 1, m)[i] = xs[1 + i - 1]
      BY <2>1, <3>1, SubSeqProperties
    <3> DEFINE q == SubSeq(xs, 1, m)
    <3>3. q \in Seq(D) /\ Len(q) = m
      BY <2>1, <3>2
    <3>4. ASSUME NEW i \in 1 .. m PROVE q[i] = sd[i]
      <4>1. i \in 1 .. m - 1 + 1 /\ 1 + i - 1 = i
        BY <1>10
      <4> QED
        BY <3>1, <3>2, <4>1
    <3> HIDE DEF q
    <3>5. q = sd
      <4>1. sd \in Seq(D) /\ Len(sd) = m
        BY <1>9
      <4> HIDE DEF m
      <4> QED
        BY <3>3, <3>4, <4>1
    <3> QED
      BY <3>5 DEF q
  <2>3. m > 0 => C!Length(es, SubSeq(xs, 1, m)) <= OverlapChars
    BY <1>8, <2>2
  <2>4. \A i \in DOMAIN xs : i <= m <=> xs[i] \in B
    BY <1>10, <1>11, <1>15
  <2> HIDE DEF m
  <2> QED
    BY <2>1, <2>3, <2>4 DEF C!Seeded
<1>18. C!Length(es, xs) <= MaxChars /\ B \subseteq Contents(es, n)
  BY <1>7, <1>8
<1>19. Fit(es, B, C!Chunk("prose", xs, <<>>, p))
  BY <1>7, <1>9, <1>12, <1>13, <1>14, <1>16, <1>17, <1>18, FitBehind
<1>20. B \cup C!ToSet(xs) = B \cup {N}
  <2>1. C!ToSet(sd) \subseteq B
    BY <1>11 DEF C!ToSet
  <2> QED
    BY <1>10, <2>1
<1>21. MayHold(es, u, n, N, xs)
  BY <1>2, <1>7, <1>10, <1>19, <1>20 DEF MayHold
<1>22. Sound(es, u, n) /\ es[N].kind = "prose" /\ C!Content(es[N]) /\ NextIs(es, n, N)
  BY <1>2
<1>23. Sound(es, t, N) /\ t.path = u.path
  BY <1>21, <1>22, Accumulated
<1> QED
  BY <1>2, <1>7, <1>23

\* Whatever becomes of a block of text.
LEMMA Prosed ==
  ASSUME NEW es, NEW s, NEW n, Sound(es, s, n), NEW N, NextIs(es, n, N),
         es[N].kind = "prose", s.path = C!Paths(es)[N],
         NEW t, t = C!AddProse(es, s, N)
  PROVE  Sound(es, t, N) /\ t.path = s.path
<1>1. es[N].size \in Nat
  <2>1. es \in Seq(Nodes) /\ N \in DOMAIN es
    BY DEF NextIs
  <2>2. es[N] \in Nodes
    BY <2>1
  <2> QED
    BY <2>2 DEF Nodes
<1>2. C!Content(es[N]) <=> es[N].size # 0
  BY <1>1 DEF C!Content
<1>3. CASE es[N].size = 0
  <2>1. t = s
    BY <1>3 DEF C!AddProse
  <2> QED
    BY <1>2, <1>3, <2>1, Skipped
<1>4. CASE es[N].size # 0 /\ s.accum = <<>>
  <2>1. t = C!Alone(es, s, N)
    BY <1>4 DEF C!AddProse
  <2> QED
    BY <1>2, <1>4, <2>1, AloneKeeps
<1>5. CASE es[N].size # 0 /\ s.accum # <<>>
  <2> DEFINE xs == Append(s.accum, N)
  <2>1. CASE C!Length(es, xs) <= MaxChars
    <3>1. t = Holding(s, xs)
      BY <1>5, <2>1 DEF C!AddProse, Holding
    <3>2. xs = Append(s.accum, N)
      OBVIOUS
    <3>3. Reaches(es, s, n, N)
      BY <1>2, <1>5 DEF Reaches
    <3> HIDE DEF xs
    <3>4. Joins(es, s, N, xs, t)
      BY <2>1, <3>1, <3>2 DEF Joins
    <3>5. Sound(es, t, N)
      BY ONLY <3>3, <3>4, RoomLeft
    <3>6. t.path = s.path
      BY ONLY <3>3, <3>4, RoomLeft
    <3> QED
      BY ONLY <3>5, <3>6
  <2>2. CASE ~(C!Length(es, xs) <= MaxChars)
    <3> DEFINE sd == C!Overlap(es, s.accum, N)
               u == C!Flush(s)
               bs == Append(sd, N)
    <3>1. t = IF sd # <<>> THEN Holding(u, bs) ELSE C!Alone(es, u, N)
      BY <1>5, <2>2 DEF C!AddProse, Holding
    <3>2. sd = C!Overlap(es, s.accum, N) /\ u = C!Flush(s) /\ bs = Append(sd, N)
      OBVIOUS
    <3>5. Reaches(es, s, n, N)
      BY <1>2, <1>5 DEF Reaches
    <3> HIDE DEF xs, sd, u, bs
    <3>3. CASE sd # <<>>
      <4>1. t = Holding(u, bs)
        BY <3>1, <3>3
      <4>2. Restarts(es, s, N, sd, bs, u, t)
        BY <3>2, <3>3, <4>1 DEF Restarts
      <4> QED
        BY <3>5, <4>2, Restarted
    <3>4. CASE sd = <<>>
      <4>1. t = C!Alone(es, u, N)
        BY <3>1, <3>4
      <4>2. Sound(es, u, n) /\ u.accum = <<>> /\ u.path = s.path
        BY <3>2, Flushed
      <4>3. C!Content(es[N]) /\ u.path = C!Paths(es)[N]
        BY <1>2, <1>5, <4>2
      <4> QED
        BY <4>1, <4>2, <4>3, AloneKeeps
    <3> QED
      BY <3>3, <3>4
  <2> QED
    BY <2>1, <2>2
<1> QED
  BY <1>3, <1>4, <1>5

-----------------------------------------------------------------------------
(* The chunker: a table.                                                   *)

\* The first r rows of e, each once and in order.
HasRow(ps, x) == \E k \in DOMAIN ps : \E p \in DOMAIN ps[k] : x = ps[k][p]
Ascends(ps) ==
  \A k, l \in DOMAIN ps : \A p \in DOMAIN ps[k], q \in DOMAIN ps[l] :
    k < l \/ (k = l /\ p < q) => ps[k][p] < ps[l][q]
Divided(e, ps, r) ==
  /\ ps \in Seq(Seq(Nat))
  /\ \A k \in DOMAIN ps : Len(ps[k]) > 1 => C!RowsSize(e, ps[k]) <= MaxChars
  /\ \A x : x \in 1 .. r <=> HasRow(ps, x)
  /\ Ascends(ps)

\* One more row, at the end.
RowBehind(ps, qs, r) ==
  /\ \A k \in DOMAIN qs : \A p \in DOMAIN qs[k] :
       \/ k \in DOMAIN ps /\ p \in DOMAIN ps[k] /\ qs[k][p] = ps[k][p]
       \/ k = Len(qs) /\ p = Len(qs[k]) /\ qs[k][p] = r
  /\ \A k \in DOMAIN ps : \A p \in DOMAIN ps[k] :
       k \in DOMAIN qs /\ p \in DOMAIN qs[k] /\ qs[k][p] = ps[k][p]
  /\ \E k \in DOMAIN qs : \E p \in DOMAIN qs[k] : r = qs[k][p]

LEMMA GrownAscends ==
  ASSUME NEW ps, NEW qs \in Seq(Seq(Nat)), NEW n \in Nat, NEW r, r = n + 1, RowBehind(ps, qs, r),
         \A x : x \in 1 .. n <=> HasRow(ps, x), Ascends(ps)
  PROVE  /\ \A x : x \in 1 .. r <=> HasRow(qs, x)
         /\ Ascends(qs)
<1>1. \A x : x \in 1 .. r <=> x \in 1 .. n \/ x = r
  OBVIOUS
<1>2. \A x : HasRow(qs, x) <=> HasRow(ps, x) \/ x = r
  BY DEF HasRow, RowBehind
<1>3. Ascends(qs)
  <2> SUFFICES ASSUME NEW k \in DOMAIN qs, NEW l \in DOMAIN qs, NEW p \in DOMAIN qs[k],
                      NEW q \in DOMAIN qs[l], k < l \/ (k = l /\ p < q)
               PROVE  qs[k][p] < qs[l][q]
    BY DEF Ascends
  <2>1. k \in DOMAIN ps /\ p \in DOMAIN ps[k] /\ qs[k][p] = ps[k][p]
    <3> SUFFICES ASSUME k = Len(qs) /\ p = Len(qs[k]) PROVE FALSE
      BY DEF RowBehind
    <3>1. qs[l] \in Seq(Nat) /\ l <= Len(qs) /\ q <= Len(qs[l])
      OBVIOUS
    <3> QED
      BY <3>1
  <2>2. CASE l \in DOMAIN ps /\ q \in DOMAIN ps[l] /\ qs[l][q] = ps[l][q]
    BY <2>1, <2>2 DEF Ascends
  <2>3. CASE qs[l][q] = r
    <3>1. HasRow(ps, ps[k][p])
      BY <2>1 DEF HasRow
    <3>2. ps[k][p] \in 1 .. n
      BY <3>1
    <3> QED
      BY <2>1, <2>3, <3>2
  <2> QED
    BY <2>2, <2>3 DEF RowBehind
<1> QED
  BY <1>1, <1>2, <1>3

LEMMA RowAdded ==
  ASSUME NEW e, NEW ps, NEW n \in Nat, Divided(e, ps, n), NEW r, r = n + 1,
         NEW qs, qs = C!AddRow(e, ps, r)
  PROVE  Divided(e, qs, r)
<1>1. ps \in Seq(Seq(Nat)) /\ r \in Nat
  BY DEF Divided
<1>2. \A k \in DOMAIN ps : Len(ps[k]) > 1 => C!RowsSize(e, ps[k]) <= MaxChars
  BY DEF Divided
<1>3. CASE ps # <<>> /\ C!RowsSize(e, Append(C!Last(ps), r)) <= MaxChars
  <2> DEFINE m == Len(ps)
             a == Append(ps[m], r)
  <2>1. m \in Nat \ {0} /\ DOMAIN ps = 1 .. m /\ m \in DOMAIN ps /\ ps[m] \in Seq(Nat)
    BY <1>1, <1>3
  <2>2. C!RowsSize(e, a) <= MaxChars
    BY <1>3 DEF C!Last
  <2>3. qs = [ps EXCEPT ![m] = a]
    BY <1>3 DEF C!AddRow
  <2>4. /\ a \in Seq(Nat) /\ Len(a) = Len(ps[m]) + 1 /\ DOMAIN a = 1 .. Len(ps[m]) + 1
        /\ \A i \in 1 .. Len(ps[m]) : a[i] = ps[m][i]
        /\ a[Len(ps[m]) + 1] = r
        /\ DOMAIN ps[m] = 1 .. Len(ps[m])
    BY <1>1, <2>1, AppendProperties
  <2>5. m = Len(ps)
    OBVIOUS
  <2> HIDE DEF a, m
  <2>6. qs \in Seq(Seq(Nat)) /\ Len(qs) = m /\ DOMAIN qs = 1 .. m
    <3>1. PICK S : S = Seq(Nat)
      OBVIOUS
    <3>2. ps \in Seq(S) /\ a \in S /\ m = Len(ps) /\ m \in DOMAIN ps
      BY <1>1, <2>1, <2>4, <2>5, <3>1
    <3>3. [ps EXCEPT ![m] = a] \in Seq(S) /\ Len([ps EXCEPT ![m] = a]) = Len(ps)
      BY <3>2
    <3>4. DOMAIN qs = DOMAIN ps
      BY <2>3
    <3> QED
      BY <2>1, <2>3, <3>1, <3>2, <3>3, <3>4
  <2>7. qs[m] = a /\ \A k \in 1 .. m : k # m => qs[k] = ps[k]
    BY <2>1, <2>3
  <2>8. RowBehind(ps, qs, r)
    <3>1. ASSUME NEW k \in DOMAIN qs, NEW p \in DOMAIN qs[k]
          PROVE  \/ k \in DOMAIN ps /\ p \in DOMAIN ps[k] /\ qs[k][p] = ps[k][p]
                 \/ k = Len(qs) /\ p = Len(qs[k]) /\ qs[k][p] = r
      <4>1. CASE k # m
        BY <2>1, <2>6, <2>7, <4>1
      <4>2. CASE k = m
        <5>1. p \in 1 .. Len(ps[m]) + 1 /\ Len(ps[m]) \in Nat
          BY <2>1, <2>4, <2>7, <4>2
        <5>2. CASE p \in 1 .. Len(ps[m])
          BY <2>1, <2>4, <2>7, <4>2, <5>2
        <5>3. CASE p = Len(ps[m]) + 1
          BY <2>4, <2>6, <2>7, <4>2, <5>3
        <5> QED
          BY <5>1, <5>2, <5>3
      <4> QED
        BY <4>1, <4>2
    <3>2. ASSUME NEW k \in DOMAIN ps, NEW p \in DOMAIN ps[k]
          PROVE  k \in DOMAIN qs /\ p \in DOMAIN qs[k] /\ qs[k][p] = ps[k][p]
      <4>1. CASE k # m
        BY <2>1, <2>6, <2>7, <4>1
      <4>2. CASE k = m
        <5>1. p \in 1 .. Len(ps[m]) + 1
          BY <2>1, <2>4, <4>2
        <5> QED
          BY <2>1, <2>4, <2>6, <2>7, <4>2, <5>1
      <4> QED
        BY <4>1, <4>2
    <3>3. \E k \in DOMAIN qs : \E p \in DOMAIN qs[k] : r = qs[k][p]
      <4>1. Len(ps[m]) + 1 \in DOMAIN qs[m] /\ m \in DOMAIN qs
        BY <2>1, <2>4, <2>6, <2>7
      <4>2. qs[m][Len(ps[m]) + 1] = r
        BY <2>4, <2>7
      <4> QED
        BY <4>1, <4>2
    <3> QED
      BY <3>1, <3>2, <3>3 DEF RowBehind
  <2>9. \A k \in DOMAIN qs : Len(qs[k]) > 1 => C!RowsSize(e, qs[k]) <= MaxChars
    BY <1>2, <2>1, <2>2, <2>6, <2>7
  <2> QED
    BY <2>6, <2>8, <2>9, GrownAscends DEF Divided
<1>4. CASE ~(ps # <<>> /\ C!RowsSize(e, Append(C!Last(ps), r)) <= MaxChars)
  <2> DEFINE m == Len(ps)
             a == <<r>>
  <2>1. qs = Append(ps, a) /\ a \in Seq(Nat) /\ Len(a) = 1 /\ DOMAIN a = {1} /\ a[1] = r
    BY <1>1, <1>4 DEF C!AddRow
  <2>7. ~(Len(a) > 1)
    BY <2>1
  <2> HIDE DEF a
  <2>2. /\ qs \in Seq(Seq(Nat)) /\ Len(qs) = m + 1 /\ m \in Nat
        /\ DOMAIN qs = 1 .. m + 1 /\ DOMAIN ps = 1 .. m
        /\ \A k \in 1 .. m : qs[k] = ps[k]
        /\ qs[m + 1] = a
    <3>1. PICK S : S = Seq(Nat)
      OBVIOUS
    <3>2. ps \in Seq(S) /\ a \in S /\ qs = Append(ps, a)
      BY <1>1, <2>1, <3>1
    <3>3. /\ qs \in Seq(S) /\ Len(qs) = Len(ps) + 1 /\ Len(ps) \in Nat
          /\ \A k \in 1 .. Len(ps) : qs[k] = ps[k]
          /\ qs[Len(ps) + 1] = a
      BY ONLY <3>2, AppendProperties
    <3> QED
      BY <1>1, <3>1, <3>3
  <2> HIDE DEF m
  <2>3. \A k \in 1 .. m + 1 : k \in 1 .. m \/ k = m + 1
    BY <2>2
  <2>4. m + 1 \in 1 .. m + 1 /\ \A k \in 1 .. m : k \in 1 .. m + 1
    BY <2>2
  <2>5. RowBehind(ps, qs, r)
    BY <2>1, <2>2, <2>3, <2>4 DEF RowBehind
  <2>6. \A k \in DOMAIN qs : Len(qs[k]) > 1 => C!RowsSize(e, qs[k]) <= MaxChars
    <3> SUFFICES ASSUME NEW k \in DOMAIN qs, Len(qs[k]) > 1
                 PROVE  C!RowsSize(e, qs[k]) <= MaxChars
      OBVIOUS
    <3>1. CASE k \in 1 .. m
      BY <1>2, <2>2, <3>1
    <3>2. CASE k = m + 1
      <4>1. qs[k] = a
        BY <2>2, <3>2
      <4> QED
        BY <2>7, <4>1
    <3> QED
      BY <2>2, <2>3, <3>1, <3>2
  <2> QED
    BY <2>2, <2>5, <2>6, GrownAscends DEF Divided
<1> QED
  BY <1>3, <1>4

LEMMA PartsDivided ==
  ASSUME NEW e, e.rows \in Seq(Nat), NEW n, n = Len(e.rows)
  PROVE  Divided(e, C!Parts(e), n)
<1>1. n \in Nat
  OBVIOUS
<1>2. PICK f : /\ C!Parts(e) = f[n]
               /\ f[0] = <<>>
               /\ \A i \in 1 .. n : f[i] = C!AddRow(e, f[i - 1], i)
  BY <1>1, DividesSteps
<1> DEFINE S == {r \in Nat : r <= n => Divided(e, f[r], r)}
<1>3. 0 \in S
  <2>1. \A x : x \notin 1 .. 0 /\ ~HasRow(<<>>, x)
    BY DEF HasRow
  <2>2. Ascends(<<>>)
    BY DEF Ascends
  <2>3. Divided(e, <<>>, 0)
    BY <2>1, <2>2 DEF Divided
  <2> QED
    BY <1>2, <2>3
<1>4. ASSUME NEW r \in S PROVE r + 1 \in S
  <2> SUFFICES ASSUME r + 1 <= n PROVE Divided(e, f[r + 1], r + 1)
    OBVIOUS
  <2> DEFINE q == r + 1
  <2>1. q \in 1 .. n /\ q - 1 = r /\ r \in Nat /\ Divided(e, f[r], r)
    BY <1>1
  <2>2. f[q] = C!AddRow(e, f[q - 1], q)
    BY <1>2, <2>1
  <2>3. f[q] = C!AddRow(e, f[r], q)
    BY <2>1, <2>2
  <2> QED
    BY <2>1, <2>3, RowAdded
<1>5. S = Nat
  <2>1. S \subseteq Nat
    OBVIOUS
  <2> HIDE DEF S
  <2> QED
    BY <1>3, <1>4, <2>1, Induction
<1> QED
  BY <1>1, <1>2, <1>5

\* The rows of a table of r rows, in parts, as the chunks cs of the table N.
CutInto(es, N, cs, p) ==
  \E ps : /\ Divided(es[N], ps, Len(es[N].rows)) /\ Len(ps) > 0 /\ DOMAIN cs = DOMAIN ps
          /\ Len(cs) = Len(ps) /\ cs \in Seq(Pieces(es))
          /\ \A k \in DOMAIN ps : cs[k] = C!Chunk("table", <<N>>, ps[k], p)

LEMMA TableSplit ==
  ASSUME NEW es \in Seq(Nodes), NEW N \in DOMAIN es, es[N].kind = "table",
         NEW p \in PathsOf(es), NEW cs, cs = C!TableChunks(es, N, p)
  PROVE  CutInto(es, N, cs, p)
<1> DEFINE e == es[N]
           m == Len(e.rows)
           all == [r \in DOMAIN e.rows |-> r]
<1>1. e.rows \in Seq(Nat) /\ m \in Nat /\ DOMAIN e.rows = 1 .. m
  <2>1. es[N] \in Nodes
    OBVIOUS
  <2> QED
    BY <2>1 DEF Nodes
<1>2. all \in Seq(Nat) /\ Len(all) = m /\ DOMAIN all = 1 .. m /\ \A r \in 1 .. m : all[r] = r
  <2>1. all = [r \in 1 .. m |-> r]
    BY <1>1
  <2> QED
    BY <1>1, <2>1
<1>3. ASSUME NEW rs \in Seq(Nat) PROVE C!Chunk("table", <<N>>, rs, p) \in Pieces(es)
  BY DEF C!Chunk, Pieces
<1>4. CASE C!RowsSize(e, all) <= MaxChars \/ e.rows = <<>>
  <2> DEFINE ps == <<all>>
  <2>1. cs = <<C!Chunk("table", <<N>>, all, p)>>
    BY <1>4 DEF C!TableChunks
  <2>2. Len(all) > 1 => C!RowsSize(e, all) <= MaxChars
    BY <1>2, <1>4
  <2> HIDE DEF all
  <2>3. /\ ps \in Seq(Seq(Nat)) /\ Len(ps) = 1 /\ DOMAIN ps = {1} /\ ps[1] = all
    BY <1>2
  <2> HIDE DEF ps
  <2>4. \A x : x \in 1 .. m <=> HasRow(ps, x)
    <3>1. \A x : HasRow(ps, x) <=> \E r \in 1 .. m : x = all[r]
      BY <1>2, <2>3 DEF HasRow
    <3> QED
      BY <1>2, <3>1
  <2>5. Ascends(ps)
    <3> SUFFICES ASSUME NEW k \in DOMAIN ps, NEW l \in DOMAIN ps, NEW i \in DOMAIN ps[k],
                        NEW j \in DOMAIN ps[l], k < l \/ (k = l /\ i < j)
                 PROVE  ps[k][i] < ps[l][j]
      BY DEF Ascends
    <3>1. k = 1 /\ l = 1 /\ i < j /\ i \in 1 .. m /\ j \in 1 .. m
      BY <1>2, <2>3
    <3> QED
      BY <1>2, <2>3, <3>1
  <2>6. Divided(e, ps, m)
    BY <2>2, <2>3, <2>4, <2>5 DEF Divided
  <2>7. /\ cs \in Seq(Pieces(es)) /\ Len(cs) = 1 /\ DOMAIN cs = {1}
        /\ cs[1] = C!Chunk("table", <<N>>, all, p)
    BY <1>2, <1>3, <2>1
  <2>8. \A k \in DOMAIN ps : cs[k] = C!Chunk("table", <<N>>, ps[k], p)
    BY <2>3, <2>7
  <2>9. Len(ps) > 0 /\ DOMAIN cs = DOMAIN ps /\ Len(cs) = Len(ps) /\ cs \in Seq(Pieces(es))
    BY <2>3, <2>7
  <2> QED
    BY <2>6, <2>8, <2>9 DEF CutInto
<1>5. CASE ~(C!RowsSize(e, all) <= MaxChars \/ e.rows = <<>>)
  <2> DEFINE ps == C!Parts(e)
  <2>1. cs = [k \in DOMAIN ps |-> C!Chunk("table", <<N>>, ps[k], p)]
    BY <1>5 DEF C!TableChunks
  <2>2. m > 0
    BY <1>1, <1>5
  <2> HIDE DEF all, e
  <2>3. Divided(e, ps, m)
    BY <1>1, PartsDivided
  <2> HIDE DEF ps
  <2>4. ps \in Seq(Seq(Nat)) /\ DOMAIN ps = 1 .. Len(ps) /\ Len(ps) \in Nat
    BY <2>3 DEF Divided
  <2>5. Len(ps) > 0
    <3>1. 1 \in 1 .. m
      BY <1>1, <2>2
    <3>2. HasRow(ps, 1)
      BY <2>3, <3>1 DEF Divided
    <3>3. PICK k : k \in DOMAIN ps
      BY <3>2 DEF HasRow
    <3> QED
      BY <2>4, <3>3
  <2>6. \A k \in 1 .. Len(ps) : cs[k] = C!Chunk("table", <<N>>, ps[k], p) /\ cs[k] \in Pieces(es)
    <3> SUFFICES ASSUME NEW k \in 1 .. Len(ps)
                 PROVE  cs[k] = C!Chunk("table", <<N>>, ps[k], p) /\ cs[k] \in Pieces(es)
      OBVIOUS
    <3>1. ps[k] \in Seq(Nat) /\ k \in DOMAIN ps
      BY <2>4
    <3>2. cs[k] = C!Chunk("table", <<N>>, ps[k], p)
      BY <2>1, <3>1
    <3> QED
      BY <1>3, <3>1, <3>2
  <2>7. cs \in Seq(Pieces(es)) /\ Len(cs) = Len(ps) /\ DOMAIN cs = DOMAIN ps
    <3> DEFINE n == Len(ps)
    <3>1. DOMAIN cs = 1 .. n /\ n \in Nat /\ DOMAIN ps = 1 .. n
      BY <2>1, <2>4
    <3>2. cs = [k \in 1 .. n |-> cs[k]]
      BY <2>1, <3>1
    <3>3. \A k \in 1 .. n : cs[k] \in Pieces(es)
      BY <2>6
    <3> HIDE DEF n
    <3>4. cs \in Seq(Pieces(es)) /\ Len(cs) = n
      BY <3>1, <3>2, <3>3
    <3> QED
      BY <3>1, <3>4 DEF n
  <2>8. \A k \in DOMAIN ps : cs[k] = C!Chunk("table", <<N>>, ps[k], p)
    BY <2>4, <2>6
  <2> QED
    BY <2>3, <2>5, <2>7, <2>8 DEF CutInto, e
<1> QED
  BY <1>4, <1>5

LEMMA SplitWhole ==
  ASSUME NEW es, NEW N, NEW cs, NEW p, CutInto(es, N, cs, p), es[N].kind = "table",
         es[N].rows \in Seq(Nat), p = C!Paths(es)[N]
  PROVE  /\ cs \in Seq(Pieces(es)) /\ Len(cs) > 0
         /\ \A j \in DOMAIN cs : Own(es, N, cs[j])
         /\ C!RowsWhole(es, cs, N)
<1> DEFINE m == Len(es[N].rows)
<1>1. PICK ps : /\ Divided(es[N], ps, m) /\ Len(ps) > 0
                /\ DOMAIN cs = DOMAIN ps /\ Len(cs) = Len(ps) /\ cs \in Seq(Pieces(es))
                /\ \A k \in DOMAIN ps : cs[k] = C!Chunk("table", <<N>>, ps[k], p)
  BY DEF CutInto
<1>2. DOMAIN es[N].rows = 1 .. m
  OBVIOUS
<1> HIDE DEF m
<1>3. \A k \in DOMAIN ps : /\ cs[k].blocks = <<N>> /\ cs[k].kind = "table"
                           /\ cs[k].rows = ps[k] /\ cs[k].path = p
  <2> SUFFICES ASSUME NEW k \in DOMAIN ps
               PROVE  /\ cs[k].blocks = <<N>> /\ cs[k].kind = "table"
                      /\ cs[k].rows = ps[k] /\ cs[k].path = p
    OBVIOUS
  <2>1. cs[k] = C!Chunk("table", <<N>>, ps[k], p)
    BY <1>1
  <2> QED
    BY <2>1 DEF C!Chunk
<1>4. ASSUME NEW j \in DOMAIN cs PROVE Own(es, N, cs[j])
  <2>1. j \in DOMAIN ps
    BY <1>1
  <2>2. Len(ps[j]) > 1 => C!RowsSize(es[N], ps[j]) <= MaxChars
    BY <1>1, <2>1 DEF Divided
  <2> QED
    BY <1>3, <2>1, <2>2 DEF Own
<1>5. \A k : PartOfTable(cs, N, k) <=> k \in DOMAIN ps
  BY <1>1, <1>3 DEF PartOfTable
<1>6. \A r : RowsIn(cs, N, r) <=> HasRow(ps, r)
  BY <1>3, <1>5 DEF RowsIn, HasRow
<1>7. \A r : r \in DOMAIN es[N].rows <=> RowsIn(cs, N, r)
  BY <1>1, <1>2, <1>6 DEF Divided
<1>8. ASSUME NEW k, NEW l, PartOfTable(cs, N, k), PartOfTable(cs, N, l) PROVE RowsRise(cs, k, l)
  <2>1. k \in DOMAIN ps /\ l \in DOMAIN ps
    BY <1>5, <1>8
  <2>2. cs[k].rows = ps[k] /\ cs[l].rows = ps[l]
    BY <1>3, <2>1
  <2>3. Ascends(ps)
    BY <1>1 DEF Divided
  <2> QED
    BY <2>1, <2>2, <2>3 DEF RowsRise, Ascends
<1>9. C!RowsWhole(es, cs, N)
  BY <1>7, <1>8, RowsWholeIs
<1> QED
  BY <1>1, <1>4, <1>9

-----------------------------------------------------------------------------
(* The chunker: an element, and all of them.                               *)

\* The chunks of an element that is not a block of text.
LEMMA Unaccumulated ==
  ASSUME NEW es, NEW s, NEW n, Sound(es, s, n), NEW N, NextIs(es, n, N),
         es[N].kind # "prose", NEW p, p = C!Paths(es)[N], p \in PathsOf(es), s.path = p,
         NEW ps, es[N].kind = "table" => ps = C!TableChunks(es, N, p),
         es[N].kind # "table" => ps = <<C!Chunk(es[N].kind, <<N>>, <<>>, p)>>,
         NEW u, u = C!Flush(s), NEW t, t = C!Emit(u, ps)
  PROVE  Sound(es, t, N) /\ t.path = p
<1>1. Sound(es, u, n) /\ u.accum = <<>> /\ u.path = p
  BY Flushed
<1>2. es[N] \in Nodes /\ N \in DOMAIN es /\ es \in Seq(Nodes)
  <2>1. es \in Seq(Nodes) /\ N \in DOMAIN es
    BY DEF NextIs
  <2> QED
    BY <2>1
<1>3. C!Content(es[N])
  BY DEF C!Content
<1>4. /\ ps \in Seq(Pieces(es)) /\ Len(ps) > 0 /\ \A j \in DOMAIN ps : Own(es, N, ps[j])
      /\ es[N].kind = "table" => C!RowsWhole(es, ps, N)
      /\ es[N].kind # "table" => Len(ps) = 1
  <2>1. CASE es[N].kind = "table"
    <3>1. es[N].rows \in Seq(Nat)
      BY <1>2 DEF Nodes
    <3>2. CutInto(es, N, ps, p)
      BY <1>2, <2>1, TableSplit
    <3> QED
      BY <2>1, <3>1, <3>2, SplitWhole
  <2>2. CASE es[N].kind # "table"
    <3> DEFINE c == C!Chunk(es[N].kind, <<N>>, <<>>, p)
    <3>1. ps = <<c>>
      BY <2>2
    <3>2. c \in Pieces(es)
      BY <1>2 DEF C!Chunk, Pieces, Nodes
    <3>3. Own(es, N, c)
      BY DEF Own, C!Chunk
    <3> HIDE DEF c
    <3>4. ps \in Seq(Pieces(es)) /\ Len(ps) = 1 /\ \A j \in DOMAIN ps : ps[j] = c
      BY <3>1, <3>2
    <3> QED
      BY <2>2, <3>3, <3>4
  <2> QED
    BY <2>1, <2>2
<1>5. Sound(es, t, N) /\ t.path = u.path
  BY <1>1, <1>3, <1>4, Emitted
<1> QED
  BY <1>1, <1>5

LEMMA Stepped ==
  ASSUME NEW es, NEW s, NEW n, Sound(es, s, n), NEW N, NextIs(es, n, N),
         s.path = C!Paths(es)[n], NEW t, t = C!AddElement(es, s, N)
  PROVE  Sound(es, t, N) /\ t.path = C!Paths(es)[N]
<1> DEFINE p == C!NewPath(es[N], N, s.path)
           at1 == [C!Flush(s) EXCEPT !.path = p]
           s1 == IF es[N].kind = "header" \/ p # s.path THEN at1 ELSE s
<1>1. n \in Nat /\ N = n + 1 /\ N \in DOMAIN es /\ es \in Seq(Nodes)
  BY DEF NextIs
<1>2. p = C!Paths(es)[N] /\ p \in PathsOf(es)
  <2> DEFINE m == Len(es)
  <2>1. m \in Nat /\ N \in 1 .. m /\ N - 1 = n /\ m = Len(es)
    BY <1>1
  <2>2. PICK f : /\ C!Paths(es) = f
                 /\ f[0] = <<>>
                 /\ \A i \in 1 .. m : f[i] = C!NewPath(es[i], i, f[i - 1])
    BY <2>1, NestsSteps
  <2>3. f[N] = C!NewPath(es[N], N, f[n])
    BY <2>1, <2>2
  <2>4. N \in 0 .. Len(es)
    BY <2>1
  <2> QED
    BY <2>2, <2>3, <2>4 DEF PathsOf
<1>3. Sound(es, s1, n) /\ s1.path = p
  <2>1. CASE es[N].kind = "header" \/ p # s.path
    <3> DEFINE u == C!Flush(s)
    <3>1. Sound(es, u, n) /\ u.accum = <<>> /\ u \in States(es)
      BY Flushed DEF Sound
    <3> HIDE DEF u
    <3>2. Sound(es, [u EXCEPT !.path = p], n) /\ [u EXCEPT !.path = p].path = p
      BY <1>2, <3>1, Repathed DEF States
    <3> QED
      BY <2>1, <3>2 DEF u
  <2>2. CASE ~(es[N].kind = "header" \/ p # s.path)
    BY <2>2
  <2> QED
    BY <2>1, <2>2
<1>4. s1.path = C!Paths(es)[N] /\ C!Paths(es)[N] \in PathsOf(es)
  BY <1>2, <1>3
<1>5. CASE es[N].kind = "prose"
  <2>1. t = C!AddProse(es, s1, N)
    BY <1>5 DEF C!AddElement
  <2> HIDE DEF s1, p
  <2>2. Sound(es, t, N) /\ t.path = s1.path
    BY <1>3, <1>4, <1>5, <2>1, Prosed
  <2> QED
    BY <1>4, <2>2
<1>6. CASE es[N].kind # "prose"
  <2> DEFINE ps == IF es[N].kind = "table" THEN C!TableChunks(es, N, p)
                   ELSE <<C!Chunk(es[N].kind, <<N>>, <<>>, p)>>
             u == C!Flush(s1)
  <2>1. t = C!Emit(u, ps)
    BY <1>6 DEF C!AddElement
  <2>2. /\ es[N].kind = "table" => ps = C!TableChunks(es, N, p)
        /\ es[N].kind # "table" => ps = <<C!Chunk(es[N].kind, <<N>>, <<>>, p)>>
        /\ u = C!Flush(s1)
    OBVIOUS
  <2> HIDE DEF s1, p, ps, u
  <2>3. p = C!Paths(es)[N] /\ p \in PathsOf(es) /\ s1.path = p /\ Sound(es, s1, n)
          /\ NextIs(es, n, N)
    BY <1>2, <1>3
  <2>4. Sound(es, t, N) /\ t.path = p
    BY <1>6, <2>1, <2>2, <2>3, Unaccumulated
  <2> QED
    BY <2>3, <2>4
<1> QED
  BY <1>5, <1>6

LEMMA NothingSound ==
  ASSUME NEW es \in Seq(Nodes)
  PROVE  Sound(es, Nothing, 0) /\ Nothing.path = C!Paths(es)[0]
<1> DEFINE m == Len(es)
<1>1. m \in Nat /\ m = Len(es)
  OBVIOUS
<1>2. C!Paths(es)[0] = <<>>
  <2> HIDE DEF m
  <2> QED
    BY <1>1, NestsSteps
<1>3. <<>> \in PathsOf(es)
  BY <1>1, <1>2 DEF PathsOf
<1>4. Nothing.chunks = <<>> /\ Nothing.accum = <<>> /\ Nothing.path = <<>>
  BY DEF Nothing
<1>5. Nothing \in States(es)
  BY <1>3 DEF Nothing, States
<1>6. Good(es, <<>>) /\ TablesWhole(es, <<>>, 0)
  BY DEF Good, TablesWhole
<1>7. Done(Nothing) = {}
  <2>1. Len(Nothing.chunks) = 0
    BY <1>4
  <2>2. \A b : b \notin C!Covered(Nothing.chunks, 0)
    BY CoveredHas
  <2> QED
    BY <2>1, <2>2 DEF Done
<1>8. C!ToSet(<<>>) = {} /\ Contents(es, 0) = {}
  BY DEF C!ToSet, Contents
<1> QED
  BY <1>2, <1>4, <1>5, <1>6, <1>7, <1>8 DEF Sound

LEMMA FinalSound ==
  ASSUME NEW es \in Seq(Nodes), NEW m, m = Len(es)
  PROVE  Sound(es, Final(es), m)
<1>1. m \in Nat
  OBVIOUS
<1>2. PICK f : /\ Final(es) = f[m]
               /\ f[0] = Nothing
               /\ \A i \in 1 .. m : f[i] = C!AddElement(es, f[i - 1], i)
  BY <1>1, ChunkingSteps
<1> DEFINE S == {n \in Nat : n <= m => Sound(es, f[n], n) /\ f[n].path = C!Paths(es)[n]}
<1>3. 0 \in S
  BY <1>2, NothingSound
<1>4. ASSUME NEW n \in S PROVE n + 1 \in S
  <2> DEFINE N == n + 1
  <2> SUFFICES ASSUME N <= m PROVE Sound(es, f[N], N) /\ f[N].path = C!Paths(es)[N]
    OBVIOUS
  <2>1. N \in 1 .. m /\ N - 1 = n /\ n \in Nat /\ Sound(es, f[n], n) /\ f[n].path = C!Paths(es)[n]
    BY <1>1
  <2>2. f[N] = C!AddElement(es, f[n], N)
    BY <1>2, <2>1
  <2>3. NextIs(es, n, N)
    BY <2>1 DEF NextIs
  <2> HIDE DEF N
  <2> QED
    BY <2>1, <2>2, <2>3, Stepped
<1>5. S = Nat
  <2>1. S \subseteq Nat
    OBVIOUS
  <2> HIDE DEF S
  <2> QED
    BY <1>3, <1>4, <2>1, Induction
<1> QED
  BY <1>1, <1>2, <1>5

LEMMA ElementsType ==
  ASSUME NEW children \in Seq(Nodes), NEW tables \in Seq(Nodes)
  PROVE  C!Elements(children, tables) \in Seq(Nodes)
<1> DEFINE m == Len(tables)
<1>1. m \in Nat /\ m = Len(tables) /\ \A i \in 1 .. m : tables[i] \in Nodes
  OBVIOUS
<1> HIDE DEF m
<1>2. PICK f : /\ C!Elements(children, tables) = f[m]
               /\ f[0] = children
               /\ \A i \in 1 .. m : f[i] = C!Found(f[i - 1], tables[i])
  <2>1. m \in Nat /\ m = Len(tables)
    BY <1>1
  <2> QED
    BY <2>1, CollectsSteps, SMTT(60)
<1> DEFINE S == {n \in Nat : n <= m => f[n] \in Seq(Nodes)}
<1>3. 0 \in S
  BY <1>2
<1>4. ASSUME NEW n \in S PROVE n + 1 \in S
  <2> DEFINE i == n + 1
  <2> SUFFICES ASSUME i <= m PROVE f[i] \in Seq(Nodes)
    OBVIOUS
  <2>1. i \in 1 .. m /\ i - 1 = n /\ f[n] \in Seq(Nodes)
    BY <1>1
  <2>2. f[i] = C!Found(f[n], tables[i]) /\ tables[i] \in Nodes
    BY <1>1, <1>2, <2>1
  <2> HIDE DEF i
  <2>3. Append(f[n], tables[i]) \in Seq(Nodes)
    BY <2>1, <2>2, AppendProperties
  <2> QED
    BY <2>1, <2>2, <2>3 DEF C!Found
<1>5. S = Nat
  <2>1. S \subseteq Nat
    OBVIOUS
  <2> HIDE DEF S
  <2> QED
    BY <1>3, <1>4, <2>1, Induction
<1> QED
  BY <1>1, <1>2, <1>5

\* The chunks of any document are the whole of it, in its order, each within its
\* bounds and of one section: SectionAwareChunker.chunk.
THEOREM ChunksOfAll ==
  ASSUME NEW children \in Seq(Nodes), NEW tables \in Seq(Nodes),
         NEW es, es = C!Elements(children, tables), NEW cs, cs = C!Chunks(children, tables)
  PROVE  C!Complete(es, cs) /\ C!Bounded(es, cs) /\ C!OneSection(es, cs)
<1> DEFINE m == Len(es)
           t == C!Flush(Final(es))
<1>1. es \in Seq(Nodes) /\ m = Len(es) /\ DOMAIN es = 1 .. m
  <2>1. es \in Seq(Nodes)
    BY ElementsType
  <2> QED
    BY <2>1
<1>2. cs = t.chunks
  BY DEF C!Chunks, Final, Nothing
<1>3. Sound(es, t, m) /\ Done(t) = Contents(es, m)
  <2>1. Sound(es, Final(es), m)
    BY <1>1, FinalSound
  <2> HIDE DEF m
  <2> QED
    BY <2>1, Flushed
<1> HIDE DEF m, t
<1>4. ASSUME NEW k \in DOMAIN cs PROVE Fit(es, C!Covered(cs, k - 1), cs[k])
  BY <1>2, <1>3 DEF Sound, Good
<1>5. C!Complete(es, cs)
  <2>1. C!Covered(cs, Len(cs)) = {n \in DOMAIN es : C!Content(es[n])}
    BY <1>1, <1>2, <1>3 DEF Done, Contents
  <2>2. \A n \in DOMAIN es : es[n].kind = "table" => C!RowsWhole(es, cs, n)
    BY <1>1, <1>2, <1>3 DEF Sound, TablesWhole
  <2>3. ASSUME NEW k \in DOMAIN cs
        PROVE  Rises(cs[k].blocks) /\ Comes(C!Covered(cs, k - 1), cs[k].blocks)
    BY <1>4 DEF Fit
  <2> QED
    BY <2>1, <2>2, <2>3 DEF C!Complete, Rises, Comes
<1>6. C!Bounded(es, cs)
  <2> SUFFICES ASSUME NEW k \in DOMAIN cs
               PROVE  /\ Len(cs[k].blocks) > 1 => C!Length(es, cs[k].blocks) <= MaxChars
                      /\ Len(cs[k].rows) > 1
                           => C!RowsSize(es[cs[k].blocks[1]], cs[k].rows) <= MaxChars
                      /\ cs[k].kind # "table"
                           => C!Seeded(es, cs[k].blocks, C!Covered(cs, k - 1))
    BY DEF C!Bounded
  <2>1. Fit(es, C!Covered(cs, k - 1), cs[k])
    BY <1>4
  <2> QED
    BY <2>1 DEF Fit, Sized
<1>7. C!OneSection(es, cs)
  <2> SUFFICES ASSUME NEW k \in DOMAIN cs, NEW b \in C!ToSet(cs[k].blocks)
               PROVE  cs[k].path = C!Paths(es)[b]
    BY DEF C!OneSection
  <2>1. PICK i \in DOMAIN cs[k].blocks : b = cs[k].blocks[i]
    BY DEF C!ToSet
  <2>2. Belongs(es, cs[k])
    BY <1>4 DEF Fit
  <2> QED
    BY <2>1, <2>2 DEF Belongs
<1> QED
  BY <1>5, <1>6, <1>7

\* The trees that the run starts from are such documents.
TreeInv == input.is = "tree" => input.children \in Seq(Nodes) /\ input.tables \in Seq(Nodes)

LEMMA TreesType ==
  \A x \in Trees : x.is = "tree" /\ x.children \in Seq(Nodes) /\ x.tables \in Seq(Nodes)
<1>1. Parts \subseteq Nodes /\ Plain \subseteq Nodes /\ Table \in Nodes
  <2>1. <<>> \in Seq(Nat) /\ <<100>> \in Seq(Nat) /\ <<2, 2, 2>> \in Seq(Nat)
    OBVIOUS
  <2>2. ASSUME NEW h \in Seq(Nat), NEW z \in Nat
        PROVE  C!Header(z, h) \in Nodes /\ C!Prose(z, h) \in Nodes
    BY <2>1, <2>2 DEF C!Header, C!Prose, Nodes
  <2>3. C!Atom("figure") \in Nodes
    BY <2>1 DEF C!Atom, Nodes
  <2>4. Table \in Nodes
    BY <2>1 DEF Table, C!TableOf, Nodes
  <2> QED
    BY <2>1, <2>2, <2>3, <2>4 DEF Parts, Plain
<1>2. ASSUME NEW P, P \subseteq Nodes, NEW n \in Nat, NEW c \in Upto(P, n) PROVE c \in Seq(Nodes)
  <2>1. PICK k \in 0 .. n : c \in [1 .. k -> P]
    BY DEF Upto
  <2>2. c \in [1 .. k -> Nodes] /\ k \in Nat
    BY <1>2, <2>1
  <2> QED
    BY <2>2
<1> SUFFICES ASSUME NEW x \in Trees
             PROVE  x.is = "tree" /\ x.children \in Seq(Nodes) /\ x.tables \in Seq(Nodes)
  OBVIOUS
<1>3. /\ x.is = "tree" /\ x.tables \in {<<>>, <<Table>>}
      /\ x.children \in Upto(Parts, 3) \/ x.children \in Upto(Plain, 5)
  BY DEF Trees
<1>4. x.tables \in Seq(Nodes)
  <2>1. <<>> \in Seq(Nodes) /\ <<Table>> \in Seq(Nodes)
    BY <1>1
  <2> QED
    BY <1>3, <2>1
<1>5. x.children \in Seq(Nodes)
  <2>1. 3 \in Nat /\ 5 \in Nat /\ Parts \subseteq Nodes /\ Plain \subseteq Nodes
    BY <1>1
  <2> QED
    BY <1>2, <1>3, <2>1
<1> QED
  BY <1>3, <1>4, <1>5

\* The chunks of a document hold all of it, in its order, each within its bounds and
\* of one section, overlaps included.
THEOREM DocumentsChunked == MCSpec => []ChunksWhole
<1>1. MCInit => TreeInv
  <2> SUFFICES ASSUME MCInit, input.is = "tree"
               PROVE  input.children \in Seq(Nodes) /\ input.tables \in Seq(Nodes)
    BY DEF TreeInv
  <2>1. CASE input = [is |-> "run"]
    <3>1. input.is = "run"
      BY <2>1
    <3> QED
      BY <3>1
  <2>2. CASE input \in Sheets
    <3>1. input.is = "sheet"
      BY <2>2, SheetsType
    <3> QED
      BY <3>1
  <2>3. CASE input \in Trees
    BY <2>3, TreesType
  <2> QED
    BY <2>1, <2>2, <2>3 DEF MCInit
<1>2. TreeInv /\ [MCNext]_<<vars, input>> => TreeInv'
  BY DEF TreeInv, MCNext
<1>3. TreeInv => ChunksWhole
  BY ChunksOfAll DEF TreeInv, ChunksWhole
<1> QED
  BY <1>1, <1>2, <1>3, PTL DEF MCSpec
=============================================================================
