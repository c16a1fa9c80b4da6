----------------------------- MODULE PageWorkflow -----------------------------
(***************************************************************************)
(* One run of OmniScribe's hybrid OCR engine (core/workflows): conversion, *)
(* layout, concurrent OCR of the pages, refinement of empty boxes, repair  *)
(* of unreliable text, assembly and output.                                *)
(*                                                                         *)
(* OCR, refine and repair each fan out over an asyncio.TaskGroup whose     *)
(* body consumes the finished tasks (as_completed).  The group hears of a  *)
(* finished task in a callback scheduled after it: until then another task *)
(* can end, and fail, too.  The first failure it hears of cancels the      *)
(* other tasks and the body.                                               *)
(*                                                                         *)
(* A page has one block of text, and a dense page Boxes crops read in a    *)
(* TaskGroup of their own.  A text is what the confidence heuristic and    *)
(* the PDF's text layer tell apart.  The is_cancelled flag of the loops is *)
(* left out: it is set in the step whose exception cancels every task.     *)
(***************************************************************************)
EXTENDS Naturals, FiniteSets

CONSTANTS
  Pages, Boxes,
  Concurrency,  \* the job's concurrency option
  MaxRetries,   \* attempts of the repair loop per block
  Readings      \* bound: what the OCR and refine phases may read

ASSUME ConcurrencyAssumption ==
  Concurrency \in Nat \ {0} /\ MaxRetries \in Nat \ {0} /\ "none" \in Readings
ASSUME PagesAssumption == Pages \cap {"out", "await", "exiting"} = {}

VARIABLES
  \* ---- the run ----
  phase, options, local,   \* local: the model server is localhost or on the LAN
  dense, text, failed,     \* failed: last_failed_pages
  outcome,
  \* ---- the two ways to cancel it ----
  asked,                   \* cancel_check() answers yes
  ext,                     \* the awaiting asyncio task was cancelled
  \* ---- the current TaskGroup: its tasks ----
  at, result, got, attempt, box,
  \* ---- its callbacks and its body ----
  told, inbox, body, errors, aborting,
  \* ---- history ----
  broke,                   \* pages whose OCR failed for a reason of their own
  late                     \* the run was cancelled after its last gate

runVars == <<phase, options, local, dense, text, failed, outcome>>
taskVars == <<at, result, got, attempt, box>>
groupVars == <<told, inbox, body, errors, aborting>>
vars == <<runVars, asked, ext, taskVars, groupVars, broke, late>>

-----------------------------------------------------------------------------
Signals == {"OCRCancelled", "CircuitOpen", "Balance"}
CallErrors == {"CircuitOpen", "Balance"}
Fanouts == {"ocr", "refine", "repair"}
Texts == {"none", "noisy", "fair", "fluent", "sound"}
ASSUME ReadingsAssumption == Readings \subseteq Texts
Finished == {"ok", "failed", "cancelled", "Other"} \cup Signals
Open == {"new", "admitted", "reading", "boxes"}

\* _estimate_confidence: "fluent" is well-formed text that the page's text
\* layer does not confirm.
Confidence(t) == CASE t = "none" -> 0 [] t = "noisy" -> 1 [] t = "fair" -> 2 [] OTHER -> 3
Target == 3

TypeOK ==
  /\ phase \in Fanouts \cup {"convert", "layout", "finalize", "emit", "over"}
  /\ options \subseteq {"refine", "repair"} /\ local \in BOOLEAN
  /\ dense \subseteq Pages /\ failed \subseteq Pages
  /\ text \in [Pages -> Texts] /\ got \in [Pages -> Texts]
  /\ outcome \in {"none", "done", "CancelledError", "error", "group"} \cup Signals
  /\ asked \in BOOLEAN /\ ext \in BOOLEAN /\ late \in BOOLEAN
  /\ at \in [Pages -> Open \cup {"none", "closed"}]
  /\ result \in [Pages -> Finished \cup {"none"}]
  /\ \A p \in Pages : at[p] = "closed" <=> result[p] # "none"
  /\ attempt \in [Pages -> 1..MaxRetries]
  /\ box \in [Pages -> [Boxes -> {"wait", "read", "ok"} \cup CallErrors]]
  /\ told \subseteq {p \in Pages : at[p] = "closed"} /\ inbox \subseteq told
  /\ body \in {"out", "await", "exiting"} \cup Pages
  /\ errors \subseteq Signals \cup {"Other"} /\ aborting \in BOOLEAN
  /\ broke \subseteq Pages

\* _reset_run_state: nothing of an earlier run is left.
Fresh ==
  /\ dense = {} /\ text = [p \in Pages |-> "none"] /\ failed = {} /\ outcome = "none"
  /\ asked = FALSE /\ ext = FALSE
  /\ at = [p \in Pages |-> "none"] /\ result = [p \in Pages |-> "none"]
  /\ got = text /\ attempt = [p \in Pages |-> 1]
  /\ box = [p \in Pages |-> [b \in Boxes |-> "wait"]]
  /\ told = {} /\ inbox = {} /\ body = "out" /\ errors = {} /\ aborting = FALSE
  /\ broke = {} /\ late = FALSE

Init ==
  /\ phase = "convert" /\ options \in SUBSET {"refine", "repair"} /\ local \in BOOLEAN
  /\ Fresh

-----------------------------------------------------------------------------
(* Phases                                                                  *)

\* The tasks of a fan-out: all pages, or the empty blocks of sparse pages.
\* Without anything to repair there is no repair phase.
Unreliable(t) == t # "none" /\ (Confidence(t) < Target \/ t = "fluent")
Todo(f, txt) ==
  CASE f = "refine" -> {p \in Pages \ dense : txt[p] = "none"}
    [] f = "repair" -> IF \E p \in Pages : Unreliable(txt[p]) THEN Pages ELSE {}
    [] OTHER -> Pages

\* The next phase that has something to do.
After(f, txt) ==
  IF f = "ocr" /\ "refine" \in options /\ Todo("refine", txt) # {} THEN "refine"
  ELSE IF f # "repair" /\ "repair" \in options /\ Todo("repair", txt) # {} THEN "repair"
  ELSE "finalize"

\* The tasks of the phase before are gone with their locals.
Enter(f, txt) ==
  /\ phase' = f
  /\ IF f \in Fanouts
       THEN /\ at' = [p \in Pages |-> IF p \in Todo(f, txt) THEN "new" ELSE "none"]
            /\ body' = "await"
       ELSE at' = [p \in Pages |-> "none"] /\ body' = "out"
  /\ result' = [p \in Pages |-> "none"] /\ got' = result' /\ attempt' = [p \in Pages |-> 1]
  /\ box' = [p \in Pages |-> [b \in Boxes |-> "wait"]]
  /\ told' = {} /\ inbox' = {} /\ errors' = {} /\ aborting' = FALSE

\* The run ends, by an exception or by its return.
End(verdict) ==
  /\ phase' = "over" /\ outcome' = verdict /\ body' = "out"
  /\ UNCHANGED <<options, local, dense, text, failed, asked, ext, taskVars, told,
                 inbox, errors, aborting, broke, late>>

Convert ==
  /\ phase = "convert"
  /\ \/ phase' = "layout" /\ UNCHANGED <<options, local, dense, text, failed, outcome,
          asked, ext, taskVars, groupVars, broke, late>>
     \/ End("error")

\* The gate of _detect_layout; then layout detection, the choice of the dense
\* pages, and the preflight check of the model.
Layout ==
  /\ phase = "layout"
  /\ \/ asked /\ End("OCRCancelled")
     \/ ~asked /\ End("error")
     \/ /\ ~asked /\ dense' \in SUBSET Pages /\ Enter("ocr", text)
        /\ UNCHANGED <<options, local, text, failed, outcome, asked, ext, broke, late>>

Passes_Ungated == TRUE
\* The gate of _finalize, the last one.
Passes == ~asked

Finalize ==
  /\ phase = "finalize"
  /\ \/ ~Passes /\ End("OCRCancelled")
     \/ /\ Passes /\ phase' = "emit"
        /\ UNCHANGED <<options, local, dense, text, failed, outcome, asked, ext,
                       taskVars, groupVars, broke, late>>
Emit == phase = "emit" /\ (End("done") \/ End("error"))

-----------------------------------------------------------------------------
(* Semaphores.  The calls and the pages of the OCR phase have one of the   *)
(* same size each; a repair holds its page's for all its attempts.         *)

Clamped == IF local THEN 1 ELSE Concurrency
Calls ==
  Cardinality({p \in Pages : at[p] = "reading"}) +
  Cardinality({x \in Pages \X Boxes : at[x[1]] = "boxes" /\ box[x[1]][x[2]] = "read"})
Admitted == Cardinality({p \in Pages : at[p] \in {"admitted", "reading", "boxes"}})

PageSlot == phase = "refine" \/ Admitted < Clamped
\* The OCR phase's calls; the refiner is not clamped for a local server.
CallSlot ==
  CASE phase = "ocr" -> Calls < Clamped
    [] phase = "refine" -> Calls < Concurrency
    [] OTHER -> TRUE
BoxSlot_PageSemaphore == Admitted < Clamped
\* The crops of a dense page share the semaphore of the calls.
BoxSlot == CallSlot

-----------------------------------------------------------------------------
(* The tasks                                                               *)

Running(p) == at[p] \in Open /\ ~aborting
\* A task starts waiting for a call only when every callback has run: no call
\* is made and answered between the end of a task and its callback.
Idle == told = {p \in Pages : at[p] = "closed"}
Close(p, r) ==
  /\ at' = [at EXCEPT ![p] = "closed"] /\ result' = [result EXCEPT ![p] = r]
  /\ attempt' = [attempt EXCEPT ![p] = 1]

Admit(p) ==
  /\ at[p] = "new" /\ Running(p) /\ Idle /\ PageSlot
  /\ at' = [at EXCEPT ![p] = "admitted"]
  /\ UNCHANGED <<runVars, asked, ext, result, got, attempt, box, groupVars, broke, late>>

Read(p) ==
  /\ at[p] = "admitted" /\ Running(p) /\ Idle
  /\ IF phase = "ocr" /\ p \in dense
       THEN at' = [at EXCEPT ![p] = "boxes"] /\ UNCHANGED <<result, attempt>>
     ELSE IF phase = "repair" /\ ~Unreliable(text[p])
       THEN Close(p, "ok")
     ELSE CallSlot /\ at' = [at EXCEPT ![p] = "reading"] /\ UNCHANGED <<result, attempt>>
  /\ UNCHANGED <<runVars, asked, ext, got, box, groupVars, broke, late>>

\* perform_ocr and perform_ocr_on_crop: any text, or any error.  An open
\* circuit and an empty balance leave the task; another error is the page's
\* own in the OCR phase, and an empty text in the refine phase.
Answer(p) ==
  /\ at[p] = "reading" /\ Running(p) /\ phase \in {"ocr", "refine"}
  /\ \/ \E t \in Readings : got' = [got EXCEPT ![p] = t] /\ Close(p, "ok") /\ UNCHANGED broke
     \/ /\ got' = [got EXCEPT ![p] = text[p]]
        /\ Close(p, IF phase = "ocr" THEN "failed" ELSE "ok")
        /\ broke' = IF phase = "ocr" THEN broke \cup {p} ELSE broke
     \/ \E e \in CallErrors : Close(p, e) /\ UNCHANGED <<got, broke>>
  /\ UNCHANGED <<runVars, asked, ext, box, groupVars, late>>

Accepts_Any(t, new) == TRUE
\* QualityRepairLoop.repair_page accepts strictly better text only, which it
\* writes at once, and stops at the target, at a stall, at an error, or after
\* its attempts.
Accepts(t, new) == Confidence(new) > Confidence(t)

Repair(p) ==
  /\ at[p] = "reading" /\ Running(p) /\ phase = "repair"
  /\ \/ \E new \in Texts :
          LET kept == IF Accepts(text[p], new) THEN new ELSE text[p] IN
          /\ text' = [text EXCEPT ![p] = kept]
          /\ IF Accepts(text[p], new) /\ Confidence(new) < Target /\ attempt[p] < MaxRetries
               THEN attempt' = [attempt EXCEPT ![p] = @ + 1] /\ UNCHANGED <<at, result>>
               ELSE Close(p, "ok")
     \/ \E e \in {"ok", "Other"} \cup CallErrors :  \* "Other": a callback's error
          Close(p, e) /\ UNCHANGED text
  /\ UNCHANGED <<phase, options, local, dense, failed, outcome, asked, ext, got, box,
                 groupVars, broke, late>>

\* The crops of a dense page that raised.
Signalled(p) == {box[p][b] : b \in Boxes} \cap CallErrors

\* The crops of a dense page: an error of its own leaves a box empty.
ReadBox(p, b) ==
  /\ at[p] = "boxes" /\ Running(p) /\ Idle /\ Signalled(p) = {}
  /\ box[p][b] = "wait" /\ BoxSlot
  /\ box' = [box EXCEPT ![p][b] = "read"]
  /\ UNCHANGED <<runVars, asked, ext, at, result, got, attempt, groupVars, broke, late>>
AnswerBox(p, b) ==
  /\ at[p] = "boxes" /\ Running(p) /\ box[p][b] = "read"
  /\ \E r \in {"ok"} \cup CallErrors : box' = [box EXCEPT ![p][b] = r]
  /\ UNCHANGED <<runVars, asked, ext, at, result, got, attempt, groupVars, broke, late>>

\* The page's own TaskGroup ends, and with it what the crops were doing: one kind
\* of signal leaves the page, two make a group that process_page takes for an
\* error of the page.
CloseBoxes(p) ==
  /\ at[p] = "boxes"
  /\ \/ Signalled(p) # {} \/ aborting
     \/ \A b \in Boxes : box[p][b] = "ok"
  /\ box' = [box EXCEPT ![p] = [b \in Boxes |-> "wait"]]
  /\ IF Signalled(p) = {}
       THEN /\ Close(p, IF aborting THEN "cancelled" ELSE "ok")
            /\ \E t \in Readings : got' = [got EXCEPT ![p] = t]
            /\ UNCHANGED broke
     ELSE IF Cardinality(Signalled(p)) = 1
       THEN Close(p, CHOOSE e \in Signalled(p) : TRUE) /\ UNCHANGED <<got, broke>>
     ELSE /\ Close(p, "failed") /\ got' = [got EXCEPT ![p] = text[p]]
          /\ broke' = broke \cup {p}
  /\ UNCHANGED <<runVars, asked, ext, groupVars, late>>

\* A cancelled task raises CancelledError where it waits.
Cancelled(p) ==
  /\ aborting /\ at[p] \in {"new", "admitted", "reading"} /\ Close(p, "cancelled")
  /\ UNCHANGED <<runVars, asked, ext, got, box, groupVars, broke, late>>

-----------------------------------------------------------------------------
(* The TaskGroup and its body                                              *)

Hear(p) ==
  /\ at[p] = "closed" /\ p \notin told /\ told' = told \cup {p}
  /\ inbox' = IF result[p] \in {"ok", "failed"} THEN inbox \cup {p} ELSE inbox
  /\ IF result[p] \in Signals \cup {"Other"}
       THEN errors' = errors \cup {result[p]} /\ aborting' = TRUE
       ELSE UNCHANGED <<errors, aborting>>
  /\ UNCHANGED <<runVars, asked, ext, taskVars, body, broke, late>>

\* The body raises: the tasks are cancelled before anything else runs.
Raise(e) == errors' = errors \cup {e} /\ aborting' = TRUE /\ body' = "exiting"

\* The next finished task: its text is stored and cancel_check asked (repair
\* has none), before the callbacks are awaited.
Take(p) ==
  /\ body = "await" /\ p \in inbox /\ ~aborting /\ inbox' = inbox \ {p}
  /\ text' = IF phase = "repair" THEN text ELSE [text EXCEPT ![p] = got[p]]
  /\ IF asked /\ phase # "repair" THEN Raise("OCRCancelled")
     ELSE body' = p /\ UNCHANGED <<errors, aborting>>
  /\ UNCHANGED <<phase, options, local, dense, failed, outcome, asked, ext, taskVars,
                 told, broke, late>>

Fails_Silently(p) == FALSE
\* A page with an error of its own is a failed page.
Fails(p) == phase = "ocr" /\ result[p] = "failed"

\* The callbacks return, or one of them raises.
Handled(p) ==
  /\ body = p /\ ~aborting
  /\ \/ /\ body' = "await" /\ failed' = IF Fails(p) THEN failed \cup {p} ELSE failed
        /\ UNCHANGED <<errors, aborting>>
     \/ Raise("Other") /\ UNCHANGED failed
  /\ UNCHANGED <<phase, options, local, dense, text, outcome, asked, ext, taskVars, told,
                 inbox, broke, late>>

\* The loop is over, or the group's cancellation reaches the body.
Leave ==
  /\ \/ body = "await" /\ inbox = {} /\ ~aborting /\ told = {p \in Pages : at[p] # "none"}
     \/ body \in {"await"} \cup Pages /\ aborting
  /\ body' = "exiting"
  /\ UNCHANGED <<runVars, asked, ext, taskVars, told, inbox, errors, aborting, broke, late>>

\* The except* clauses of OCR and refine unwrap a group of one kind of signal;
\* raising from two of them makes a group again, and any other error stays in
\* its group.  _repair_failure picks one by precedence.
Unwrapped(f) ==
  IF f = "repair"
    THEN IF "OCRCancelled" \in errors THEN "OCRCancelled"
         ELSE IF "CircuitOpen" \in errors THEN "CircuitOpen"
         ELSE IF "Balance" \in errors THEN "Balance" ELSE "error"
  ELSE IF \E e \in Signals : errors = {e} THEN CHOOSE e \in Signals : errors = {e}
  ELSE "group"

Exits_AtOnce == body = "exiting"
\* The group waits for its tasks.
Exits == body = "exiting" /\ told = {p \in Pages : at[p] # "none"}

\* _drop_refined_duplicates: of the blocks this group has read, those that say
\* what a neighbour on their page says already, any of them here, are emptied.
DropRefined ==
  IF phase = "refine"
    THEN \E dup \in SUBSET {p \in Pages : at[p] # "none"} :
           text' = [p \in Pages |-> IF p \in dup THEN "none" ELSE text[p]]
    ELSE UNCHANGED text

Exit ==
  /\ Exits
  /\ IF errors # {} THEN End(Unwrapped(phase))
     ELSE IF ext THEN End("CancelledError")
     ELSE /\ DropRefined /\ Enter(After(phase, text'), text')
          /\ UNCHANGED <<options, local, dense, failed, outcome, asked, ext, broke, late>>

-----------------------------------------------------------------------------
(* Cancellation                                                            *)

\* The job is cancelled: cancel_check() says so from now on.
Ask ==
  /\ ~asked /\ phase # "over" /\ asked' = TRUE /\ late' = (phase = "emit")
  /\ UNCHANGED <<runVars, ext, taskVars, groupVars, broke>>

\* The task that awaits the run is cancelled (the server shuts down).  A group
\* that has errors reports those.
CancelTask ==
  /\ ~ext /\ phase # "over" /\ ext' = TRUE
  /\ IF phase \in Fanouts
       THEN /\ aborting' = TRUE /\ body' = "exiting" /\ UNCHANGED <<phase, outcome>>
       ELSE /\ phase' = "over" /\ outcome' = "CancelledError" /\ UNCHANGED <<aborting, body>>
  /\ UNCHANGED <<options, local, dense, text, failed, asked, taskVars, told, inbox,
                 errors, broke, late>>

-----------------------------------------------------------------------------
Task(p) ==
  \/ Admit(p) \/ Read(p) \/ Answer(p) \/ Repair(p) \/ CloseBoxes(p) \/ Cancelled(p)
  \/ \E b \in Boxes : ReadBox(p, b) \/ AnswerBox(p, b)
Group == (\E p \in Pages : Hear(p) \/ Take(p) \/ Handled(p)) \/ Leave \/ Exit
Next ==
  \/ Convert \/ Layout \/ Finalize \/ Emit
  \/ \E p \in Pages : Task(p)
  \/ Group \/ Ask \/ CancelTask
  \/ phase = "over" /\ UNCHANGED vars
Spec == Init /\ [][Next]_vars

(* Fairness: the event loop runs what can run; calls are answered or time  *)
(* out.                                                                    *)
FairSpec ==
  /\ Spec /\ WF_vars(Convert \/ Layout \/ Finalize \/ Emit) /\ WF_vars(Group)
  /\ \A p \in Pages : WF_vars(Task(p))

-----------------------------------------------------------------------------
(* Properties                                                              *)

\* A run that succeeds reports every page whose OCR failed, and only those: a
\* failure is not lost between a task, the group's callback and the body
\* (last_failed_pages).
FailuresReported == outcome = "done" => failed = broke

\* A run that was cancelled before its last gate does not succeed, in whatever
\* phase and by whichever way it was cancelled, and although repair asks no
\* cancel_check.
CancelWins == outcome = "done" => ~ext /\ (asked => late)

\* Nothing a run started outlives it or its phase: no call is in flight once
\* it is over, so no text is written behind the caller's back.
NothingOutlives == phase \notin Fanouts => Calls = 0 /\ Admitted = 0

\* No step of refine or repair replaces a text by one the heuristic trusts less,
\* whichever attempt fails or is cancelled; but for the end of refine, which may
\* empty again a block that was empty when the phase began.
TextNeverWorsens ==
  [][\A p \in Pages :
       phase \in {"refine", "repair"} =>
         \/ Confidence(text[p]) <= Confidence(text[p])'
         \/ /\ phase = "refine" /\ at[p] # "none"
            /\ (phase # "refine" /\ text[p] = "none")']_vars

\* The run ends: pages, crops and calls never wait for each other's semaphore
\* for good.
RunEnds == <>(phase = "over")

\* "_ocr_pages must unwrap it so the breaker signal stays bare"
\* (tests/core/workflows/test_workflows_hybrid.py:647): when every error the
\* OCR phase heard of is a control signal, it raises one, never a group.
SignalsStayBare == outcome = "group" => "Other" \in errors
=============================================================================
