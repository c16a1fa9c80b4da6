---------------------------- MODULE InMemoryJobs ----------------------------
(***************************************************************************)
(* The in-process job queue of OmniScribe: InMemoryJobQueue                *)
(* (plugins/jobs.py), its single worker task, the API handlers that        *)
(* submit, cancel and clear jobs, and the process around them: graceful    *)
(* shutdown, crash, and the reconciliation at boot.                        *)
(*                                                                         *)
(* Granularity.  The SQLite backend runs each operation in a thread under  *)
(* an asyncio lock, so a backend operation and the code up to the next     *)
(* await are one step; between two such steps any other task may run.      *)
(* Joining them is sound: what can slip in between (the worker popping a   *)
(* job, a runner ending) neither reads nor writes the record.              *)
(*                                                                         *)
(* A cancelled task does not stop the thread of the operation it awaits:   *)
(* the write lands now, later, or (connection closed first) never.         *)
(*                                                                         *)
(* The payload table is left out: a payload is there while its job is in   *)
(* the queue unless clear() dropped it, and a runner without its payload   *)
(* raises, which it may do anyway.                                         *)
(***************************************************************************)
EXTENDS Naturals, Sequences, FiniteSets

CONSTANTS
  Jobs,         \* job ids (uuid4, never reused)
  Uploads,      \* the OCR jobs: they have a spooled upload (others do not)
  None,         \* no job
  MaxRestarts,  \* bound: shutdowns and crashes
  MaxFaults     \* bound: backend and artifact-store calls that raise

ASSUME BoundsAssumption == MaxRestarts \in Nat /\ MaxFaults \in Nat
ASSUME JobsAssumption == None \notin Jobs /\ Uploads \subseteq Jobs

VARIABLES
  \* ---- what survives the process: StateBackend and spool ----
  record,     \* JobRecord.status, "none" when absent
  input,      \* the jobs whose spooled upload exists
  \* ---- InMemoryJobQueue ----
  fifo,       \* _queue
  cancelled,  \* _cancelled
  \* ---- the worker task: where it is, and its local variables ----
  wpc, cur, seen,
  \* ---- API requests: each job is cancelled and cleared once at most ----
  submitted, cancel, clear,
  \* ---- the process ----
  phase,      \* up, down, or a step of shutdown or boot
  page,       \* the rows of list_jobs that a sweep has still to close out
  ghost,      \* a write whose task was cancelled
  \* ---- history ----
  told,       \* terminal events emitted for the job, in order
  abandoned,  \* jobs whose failure could not be persisted
  budget      \* what is left of the bounds

storeVars   == <<record, input>>
queueVars   == <<fifo, cancelled>>
workerVars  == <<wpc, cur, seen>>
apiVars     == <<submitted, cancel, clear>>
processVars == <<phase, page, ghost>>
historyVars == <<told, abandoned>>
vars == <<storeVars, queueVars, workerVars, apiVars, processVars, historyVars,
          budget>>

-----------------------------------------------------------------------------
Terminal == {"complete", "error", "cancelled"}
Live     == {"queued", "running"}  \* a record exists and is not terminal
Status   == {"none"} \cup Live \cup Terminal

\* pcs of _process_one, and of the exception handler of _run.
Processing == {"get", "start", "running", "put", "getDone", "complete",
               "cancelRead", "cancelWrite", "failRead", "failWrite"}
Handling   == {"handlerRead", "handlerWrite"}

\* shutdown lists and closes queued rows, then all live rows; boot all of them.
Listing  == {"stop", "close", "boot"}
Sweeping == {"stopSweep", "closeSweep", "bootSweep"}

Bounded == {"restart", "fault"}

TypeOK ==
  /\ record \in [Jobs -> Status] /\ input \subseteq Jobs
  /\ fifo \in Seq(Jobs) /\ cancelled \subseteq Jobs
  /\ wpc \in {"idle"} \cup Processing \cup Handling
  /\ cur \in Jobs \cup {None} /\ (cur = None <=> wpc = "idle")
  /\ seen \in Status
  /\ submitted \subseteq Jobs
  /\ cancel \in [Jobs -> {"idle", "toWrite", "acked", "marked", "refused"}]
  /\ clear \in [Jobs -> {"idle", "listed", "deleted"}]
  /\ phase \in {"up", "down"} \cup Listing \cup Sweeping
  /\ page \in [Jobs -> {"none"} \cup Live]
  /\ ghost \in [Jobs -> Status]
  /\ told \in [Jobs -> Seq(Terminal)] /\ abandoned \subseteq Jobs
  /\ budget \in [Bounded -> Nat]

Budget == [e \in Bounded |-> IF e = "restart" THEN MaxRestarts ELSE MaxFaults]
Nothing == [j \in Jobs |-> "none"]

Init ==
  /\ record = Nothing /\ input = {}
  /\ fifo = <<>> /\ cancelled = {}
  /\ wpc = "idle" /\ cur = None /\ seen = "none"
  /\ submitted = {}
  /\ cancel = [j \in Jobs |-> "idle"] /\ clear = [j \in Jobs |-> "idle"]
  /\ phase = "boot" /\ page = Nothing /\ ghost = Nothing
  /\ told = [j \in Jobs |-> <<>>] /\ abandoned = {}
  /\ budget = Budget

\* One of the bounded events happens (a bound of the model, not of the code).
Spend(kind) == budget[kind] > 0 /\ budget' = [budget EXCEPT ![kind] = @ - 1]

Pending(j) == \E i \in 1..Len(fifo) : fifo[i] = j

-----------------------------------------------------------------------------
(* The API handlers.                                                       *)

\* submit: upsert_job(queued), then into the queue (unbounded: no await).  An
\* OCR upload was spooled before.
Submit(j) ==
  /\ phase = "up" /\ j \notin submitted
  /\ record' = [record EXCEPT ![j] = "queued"]
  /\ input' = input \cup ({j} \cap Uploads)
  /\ fifo' = Append(fifo, j)
  /\ submitted' = submitted \cup {j}
  /\ UNCHANGED <<cancelled, workerVars, cancel, clear, processVars, historyVars,
                 budget>>

\* mutant: the id enters the cancelled set only once the record is written
CancelRead_MarksRunningOnly(j) ==
  /\ phase = "up" /\ j \in submitted /\ cancel[j] = "idle"
  /\ CASE record[j] = "queued" ->
            /\ cancel' = [cancel EXCEPT ![j] = "toWrite"]
            /\ input' = input \ {j}
            /\ UNCHANGED cancelled
       [] record[j] = "running" ->
            /\ cancel' = [cancel EXCEPT ![j] = "marked"]
            /\ cancelled' = cancelled \cup {j}
            /\ UNCHANGED input
       [] OTHER ->
            /\ cancel' = [cancel EXCEPT ![j] = "refused"]
            /\ UNCHANGED <<input, cancelled>>
  /\ UNCHANGED <<record, fifo, workerVars, submitted, clear, processVars,
                 historyVars, budget>>

\* cancel: get_job and the early return; the id enters the cancelled set; a
\* job read as queued loses its upload, one read as running is answered True.
CancelRead(j) ==
  /\ phase = "up" /\ j \in submitted /\ cancel[j] = "idle"
  /\ cancelled' = IF record[j] \in Live THEN cancelled \cup {j} ELSE cancelled
  /\ input' = IF record[j] = "queued" THEN input \ {j} ELSE input
  /\ cancel' = [cancel EXCEPT ![j] = CASE record[j] = "queued"  -> "toWrite"
                                       [] record[j] = "running" -> "marked"
                                       [] OTHER                 -> "refused"]
  /\ UNCHANGED <<record, fifo, workerVars, submitted, clear, processVars,
                 historyVars, budget>>

\* The record read as queued is upserted as cancelled, whatever it is now;
\* JobCancelled; the answer is True.
CancelWrite(j) ==
  /\ phase = "up" /\ cancel[j] = "toWrite"
  /\ record' = [record EXCEPT ![j] = "cancelled"]
  /\ told' = [told EXCEPT ![j] = Append(@, "cancelled")]
  /\ cancel' = [cancel EXCEPT ![j] = "acked"]
  /\ UNCHANGED <<input, queueVars, workerVars, submitted, clear, processVars,
                 abandoned, budget>>

\* The upsert raises: the user gets an error, the id stays in the set.
CancelFails(j) ==
  /\ phase = "up" /\ cancel[j] = "toWrite" /\ Spend("fault")
  /\ cancel' = [cancel EXCEPT ![j] = "refused"]
  /\ UNCHANGED <<storeVars, queueVars, workerVars, submitted, clear, processVars,
                 historyVars>>

\* clear: list_jobs, whose statuses the rest of the call goes by.
ClearList(j) ==
  /\ phase = "up" /\ clear[j] = "idle"
  /\ record[j] \in Terminal
  /\ clear' = [clear EXCEPT ![j] = "listed"]
  /\ UNCHANGED <<storeVars, queueVars, workerVars, submitted, cancel, processVars,
                 historyVars, budget>>

\* delete_job; the id leaves the cancelled set.
ClearDelete(j) ==
  /\ phase = "up" /\ clear[j] = "listed"
  /\ record' = [record EXCEPT ![j] = "none"]
  /\ cancelled' = cancelled \ {j}
  /\ clear' = [clear EXCEPT ![j] = "deleted"]
  /\ UNCHANGED <<input, fifo, workerVars, submitted, cancel, processVars,
                 historyVars, budget>>

-----------------------------------------------------------------------------
(* The worker task: _run, _process_one, _mark_cancelled and _set_error.    *)

\* mutant: the job stays the current one
Idle_KeepsJob == wpc' = "idle" /\ cur' = cur /\ seen' = "none"

\* _process_one returns, or the handler of _run ends.
Idle == wpc' = "idle" /\ cur' = None /\ seen' = "none"

\* get_job into a local variable.
Look == seen' = record[cur]

\* "if record is not None and not terminal: upsert_job(...)", with the record
\* the worker read before.
UpsertIfLive(status) ==
  record' = IF seen \in Live THEN [record EXCEPT ![cur] = status] ELSE record

\* _mark_cancelled takes the id out of the set before its first await.
ToCancel == wpc' = "cancelRead" /\ cancelled' = cancelled \ {cur}

\* The oldest job leaves the queue; one in the cancelled set is not run.
Take ==
  /\ phase = "up" /\ wpc = "idle" /\ fifo # <<>>
  /\ cur' = Head(fifo) /\ fifo' = Tail(fifo)
  /\ wpc' = IF Head(fifo) \in cancelled THEN "cancelRead" ELSE "get"
  /\ cancelled' = cancelled \ {Head(fifo)}
  /\ UNCHANGED <<storeVars, seen, apiVars, processVars, historyVars, budget>>

\* The first get_job: a missing or terminal record is not run.
Get ==
  /\ wpc = "get"
  /\ IF record[cur] \in Live THEN wpc' = "start" /\ UNCHANGED <<cur, seen>>
                             ELSE Idle
  /\ UNCHANGED <<storeVars, queueVars, apiVars, processVars, historyVars, budget>>

\* upsert_job(running) of the record read before; JobStarted.
Start ==
  /\ wpc = "start"
  /\ record' = [record EXCEPT ![cur] = "running"]
  /\ wpc' = "running"
  /\ UNCHANGED <<input, queueVars, cur, seen, apiVars, processVars, historyVars,
                 budget>>

\* mutant: the check after the runner's return is missing
RunnerReturns_Unchecked ==
  /\ wpc = "running" /\ (cur \in Uploads => cur \in input)
  /\ input' = input \ {cur}
  /\ wpc' = "put"
  /\ UNCHANGED <<record, queueVars, cur, seen, apiVars, processVars, historyVars,
                 budget>>

\* The runner returns, that of OCR has removed the upload by then; then
\* is_cancelled.
RunnerReturns ==
  /\ wpc = "running" /\ (cur \in Uploads => cur \in input)
  /\ input' = input \ {cur}
  /\ IF cur \in cancelled THEN ToCancel ELSE wpc' = "put" /\ UNCHANGED cancelled
  /\ UNCHANGED <<record, fifo, cur, seen, apiVars, processVars, historyVars,
                 budget>>

\* mutant: no finally clause
RunnerRaises_KeepsInput ==
  /\ wpc = "running"
  /\ \/ ToCancel
     \/ cur \notin cancelled /\ wpc' = "failRead" /\ UNCHANGED cancelled
  /\ UNCHANGED <<storeVars, fifo, cur, seen, apiVars, processVars, historyVars,
                 budget>>

\* The runner raises: OCRCancelled (its channel may be cancelled without the
\* queue knowing), or an error, which counts as a cancellation if the id is in
\* the set.
RunnerRaises ==
  /\ wpc = "running"
  /\ input' = input \ {cur}
  /\ \/ ToCancel
     \/ cur \notin cancelled /\ wpc' = "failRead" /\ UNCHANGED cancelled
  /\ UNCHANGED <<record, fifo, cur, seen, apiVars, processVars, historyVars,
                 budget>>

\* artifacts.put
Put ==
  /\ wpc = "put"
  /\ wpc' = "getDone"
  /\ UNCHANGED <<storeVars, queueVars, cur, seen, apiVars, processVars,
                 historyVars, budget>>

\* get_job before the completion.
GetDone ==
  /\ wpc = "getDone"
  /\ Look /\ wpc' = "complete"
  /\ UNCHANGED <<storeVars, queueVars, cur, apiVars, processVars, historyVars,
                 budget>>

\* upsert_job(complete) if there was a record, of whatever status; JobCompleted.
Complete ==
  /\ wpc = "complete"
  /\ record' = IF seen # "none" THEN [record EXCEPT ![cur] = "complete"] ELSE record
  /\ told' = [told EXCEPT ![cur] = Append(@, "complete")]
  /\ Idle
  /\ UNCHANGED <<input, queueVars, apiVars, processVars, abandoned, budget>>

\* _mark_cancelled: get_job.
MarkRead ==
  /\ wpc = "cancelRead"
  /\ Look /\ wpc' = "cancelWrite"
  /\ UNCHANGED <<storeVars, queueVars, cur, apiVars, processVars, historyVars,
                 budget>>

\* _mark_cancelled: upsert_job(cancelled) and JobCancelled, unless the record
\* read was missing or terminal.
MarkWrite ==
  /\ wpc = "cancelWrite"
  /\ UpsertIfLive("cancelled")
  /\ told' = IF seen \in Live THEN [told EXCEPT ![cur] = Append(@, "cancelled")]
                              ELSE told
  /\ Idle
  /\ UNCHANGED <<input, queueVars, apiVars, processVars, abandoned, budget>>

\* _set_error, of _process_one or of the handler of _run: get_job.
FailRead ==
  /\ wpc \in {"failRead", "handlerRead"}
  /\ Look
  /\ wpc' = IF wpc = "failRead" THEN "failWrite" ELSE "handlerWrite"
  /\ UNCHANGED <<storeVars, queueVars, cur, apiVars, processVars, historyVars,
                 budget>>

\* _set_error: upsert_job(error) unless missing or terminal; then JobFailed in
\* any case.
FailWrite ==
  /\ wpc \in {"failWrite", "handlerWrite"}
  /\ UpsertIfLive("error")
  /\ told' = [told EXCEPT ![cur] = Append(@, "error")]
  /\ Idle
  /\ UNCHANGED <<input, queueVars, apiVars, processVars, abandoned, budget>>

\* mutant: the worker logs the exception and goes on
Raises_NotHandled ==
  /\ wpc \in Processing \ {"running"} /\ Spend("fault")
  /\ Idle
  /\ UNCHANGED <<storeVars, queueVars, apiVars, processVars, historyVars>>

\* A backend or artifact-store call of _process_one raises (or no runner is
\* registered): the handler of _run takes over.
Raises ==
  /\ wpc \in Processing \ {"running"} /\ Spend("fault")
  /\ wpc' = "handlerRead"
  /\ UNCHANGED <<storeVars, queueVars, cur, seen, apiVars, processVars,
                 historyVars>>

\* A backend call of the handler raises: logged, the record stays as it is.
HandlerRaises ==
  /\ wpc \in Handling /\ Spend("fault")
  /\ abandoned' = abandoned \cup {cur}
  /\ Idle
  /\ UNCHANGED <<storeVars, queueVars, apiVars, processVars, told>>

-----------------------------------------------------------------------------
(* The process.                                                            *)

\* The write the worker is waiting for, "none" if it is elsewhere.
Awaited ==
  CASE wpc = "start"                          -> "running"
    [] wpc = "complete" /\ seen # "none"      -> "complete"
    [] wpc = "cancelWrite" /\ seen \in Live   -> "cancelled"
    [] wpc \in {"failWrite", "handlerWrite"} /\ seen \in Live -> "error"
    [] OTHER                                  -> "none"

\* shutdown: the worker is cancelled where it stands.  The server has answered
\* every request before it runs the shutdown.  A runner that is cancelled keeps
\* the upload.
Shutdown ==
  /\ phase = "up" /\ Spend("restart")
  /\ \A j \in Jobs : cancel[j] # "toWrite" /\ clear[j] # "listed"
  /\ \/ wpc # "idle" /\ ghost' = [ghost EXCEPT ![cur] = Awaited]
     \/ UNCHANGED ghost
  /\ phase' = "stop"
  /\ Idle
  /\ UNCHANGED <<storeVars, queueVars, apiVars, page, historyVars>>

\* The thread of a cancelled task gets its write through, or finds the
\* connection closed.
GhostLands(j) ==
  /\ ghost[j] # "none"
  /\ record' = [record EXCEPT ![j] = ghost[j]]
  /\ ghost' = [ghost EXCEPT ![j] = "none"]
  /\ UNCHANGED <<input, queueVars, workerVars, apiVars, phase, page, historyVars,
                 budget>>
GhostLost(j) ==
  /\ phase = "down" /\ ghost[j] # "none"
  /\ ghost' = [ghost EXCEPT ![j] = "none"]
  /\ UNCHANGED <<storeVars, queueVars, workerVars, apiVars, phase, page,
                 historyVars, budget>>

\* mutant: boot closes running rows only
SweepList_RunningOnly ==
  /\ phase \in Listing
  /\ LET rows == IF phase = "stop" THEN {"queued"} ELSE {"running"} IN
       page' = [j \in Jobs |-> IF record[j] \in rows THEN record[j] ELSE "none"]
  /\ phase' = CASE phase = "stop"  -> "stopSweep"
                [] phase = "close" -> "closeSweep"
                [] phase = "boot"  -> "bootSweep"
  /\ UNCHANGED <<storeVars, queueVars, workerVars, apiVars, ghost, historyVars,
                 budget>>

\* list_jobs of _shutdown_owned (queued rows) and of mark_interrupted_terminal
\* (live rows).
SweepList ==
  /\ phase \in Listing
  /\ LET rows == IF phase = "stop" THEN {"queued"} ELSE Live IN
       page' = [j \in Jobs |-> IF record[j] \in rows THEN record[j] ELSE "none"]
  /\ phase' = CASE phase = "stop"  -> "stopSweep"
                [] phase = "close" -> "closeSweep"
                [] phase = "boot"  -> "bootSweep"
  /\ UNCHANGED <<storeVars, queueVars, workerVars, apiVars, ghost, historyVars,
                 budget>>

\* One row of the page, as it was listed: queued becomes cancelled and loses its
\* upload, running becomes error.
SweepJob(j) ==
  /\ phase \in Sweeping /\ page[j] # "none"
  /\ record' = [record EXCEPT ![j] = IF page[j] = "queued" THEN "cancelled"
                                                           ELSE "error"]
  /\ input' = IF page[j] = "queued" THEN input \ {j} ELSE input
  /\ page' = [page EXCEPT ![j] = "none"]
  /\ UNCHANGED <<queueVars, workerVars, apiVars, phase, ghost, historyVars, budget>>

\* The pages are exhausted: the second pass of the shutdown, its end, or the
\* end of the boot, which starts the worker of a fresh queue.
SweepEnd ==
  /\ phase \in Sweeping /\ page = Nothing
  /\ phase' = CASE phase = "stopSweep"  -> "close"
                [] phase = "closeSweep" -> "down"
                [] phase = "bootSweep"  -> "up"
  /\ UNCHANGED <<storeVars, queueVars, workerVars, apiVars, page, ghost,
                 historyVars, budget>>

\* A backend call of a sweep raises: shutdown or boot ends there, and with it
\* the process.
SweepFails ==
  /\ phase \in Listing \cup Sweeping /\ Spend("fault")
  /\ phase' = "down" /\ page' = Nothing
  /\ UNCHANGED <<storeVars, queueVars, workerVars, apiVars, ghost, historyVars>>

\* The process dies: requests get no answer, threads die with it.
Crash ==
  /\ phase # "down" /\ Spend("restart")
  /\ phase' = "down" /\ page' = Nothing /\ ghost' = Nothing
  /\ Idle
  /\ cancel' = [j \in Jobs |-> IF cancel[j] = "toWrite" THEN "refused" ELSE cancel[j]]
  /\ clear' = [j \in Jobs |-> IF clear[j] = "listed" THEN "idle" ELSE clear[j]]
  /\ UNCHANGED <<storeVars, queueVars, submitted, historyVars>>

\* The service is started again: __init__, _claim_owner (no other process may
\* hold the database), then mark_interrupted_terminal.
Boot ==
  /\ phase = "down" /\ ghost = Nothing
  /\ phase' = "boot"
  /\ fifo' = <<>> /\ cancelled' = {}
  /\ UNCHANGED <<storeVars, workerVars, apiVars, page, ghost, historyVars, budget>>

-----------------------------------------------------------------------------
\* The next step of the worker task.
Work ==
  \/ Take \/ Get \/ Start \/ RunnerReturns \/ RunnerRaises
  \/ Put \/ GetDone \/ Complete \/ MarkRead \/ MarkWrite
  \/ FailRead \/ FailWrite

\* The next step of a shutdown or a boot.
Sweep == SweepList \/ SweepEnd \/ \E j \in Jobs : SweepJob(j)

Next ==
  \/ \E j \in Jobs : \/ Submit(j)
                     \/ CancelRead(j) \/ CancelWrite(j) \/ CancelFails(j)
                     \/ ClearList(j) \/ ClearDelete(j)
                     \/ GhostLands(j) \/ GhostLost(j)
  \/ Work \/ Raises \/ HandlerRaises
  \/ Sweep \/ SweepFails \/ Shutdown \/ Crash \/ Boot

Spec == Init /\ [][Next]_vars

\* asyncio runs every ready task; a runner ends.  Nothing forces a user to call
\* or an operator to restart the service.
Fairness ==
  /\ WF_vars(Work) /\ WF_vars(Sweep)
  /\ \A j \in Jobs : WF_vars(CancelWrite(j)) /\ WF_vars(ClearDelete(j))
FairSpec == Spec /\ Fairness

-----------------------------------------------------------------------------
(* Safety.                                                                 *)

\* While the service runs, a job that callers see queued or running is in the
\* queue or with the worker, whatever shutdowns, crashes, failing calls, clears
\* and cancellations happened; the one exception is a job whose failure the
\* handler of _run could not persist.
NoStranded ==
  phase = "up" =>
    \A j \in Jobs : record[j] \in Live => Pending(j) \/ cur = j \/ j \in abandoned

\* A queued job whose cancellation was acknowledged never completes, although
\* cancel() and the worker may have read its record before either wrote it
\* (unless clear() forgets the cancellation).
QueuedCancelWins ==
  \A j \in Jobs : cancel[j] = "acked" /\ clear[j] # "deleted"
                    => record[j] # "complete"

\* JobCompleted was emitted for the job.
Completed(j) == \E i \in 1..Len(told[j]) : told[j][i] = "complete"

\* Once JobCompleted was emitted for a job its record says so until it is
\* cleared, and it is the only terminal event of the job: no late cancel, error
\* or sweep comes on top.
CompletionStands ==
  \A j \in Jobs :
    clear[j] # "deleted" /\ Completed(j)
      => record[j] = "complete" /\ Len(told[j]) = 1

\* As long as nothing fails or restarts, a job that is neither waiting nor being
\* processed has left no upload in the spool, whoever raced over it.
SpoolDrained ==
  budget = Budget =>
    \A j \in input : Pending(j) \/ cur = j

\* A queued or running job reaches a terminal status (or is cleared) while the
\* service runs, unless its failure could not be persisted.
EveryJobSettles ==
  \A j \in Jobs : record[j] \in Live
                    ~> record[j] \notin Live \/ j \in abandoned \/ phase # "up"

-----------------------------------------------------------------------------
(* What the documentation says and the code does not keep: TLC finds a     *)
(* counterexample to each under the configuration the README names.        *)

\* The docstring of InMemoryJobQueue.clear: "Does not clear queued or active
\* jobs."  It deletes what it listed as terminal, and by then the worker may have
\* written running over a cancellation.
ClearSparesActive ==
  [][\A j \in Jobs : ClearDelete(j) => record[j] \notin Live]_vars

\* docs/ARCHITECTURE.md: cancel marks an in-flight job as cancelled "without
\* letting the runner's eventual return overwrite the cancellation".  _process_one
\* looks at the cancelled set when the runner returns and no later.
RunningCancelWins ==
  [][\A j \in Jobs : cancel[j] = "marked" /\ record[j] # "complete"
                       => record'[j] # "complete"]_vars

\* docs/CHANGELOG.md: "staged OCR upload cleanup [...] on job cancellation and
\* shutdown".  The runner keeps the upload when the shutdown cancels it, and the
\* sweep closes the running row without looking at it.
ShutdownCleansInput ==
  [][phase = "closeSweep" /\ phase' = "down" => input' = {}]_vars
=============================================================================
