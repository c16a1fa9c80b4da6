------------------------------ MODULE RedisJobs ------------------------------
(***************************************************************************)
(* The distributed job queue of OmniScribe: RedisJobQueue                  *)
(* (plugins/jobs_redis.py), the omniscribe-worker loops that drive it      *)
(* (worker.py) and the API handlers that submit, cancel and clear jobs.    *)
(*                                                                         *)
(* Granularity.  A Lua script or a MULTI/EXEC pipeline is one step, and so *)
(* is every other Redis round trip: whatever the code does between two     *)
(* awaits belongs to the step before it.  A get_job followed by an         *)
(* upsert_job is therefore two steps, and anything may happen in between.  *)
(*                                                                         *)
(* Time.  A score of the active ZSET is "in the future" or "expired"; the  *)
(* visibility timeout of a live worker can elapse too (a stalled event     *)
(* loop renews late).  The queue ZSET is a set: its scores are wall clocks *)
(* read by different machines before the call, so any job may be oldest.   *)
(*                                                                         *)
(* Lease owners.  Each claim presents a fresh uuid4.  A running claim's    *)
(* uuid is named by its worker; once nobody runs under a uuid any more     *)
(* nobody will present it again, and all such uuids are the value Orphan.  *)
(***************************************************************************)
EXTENDS Naturals, Sequences, FiniteSets

CONSTANTS
  Jobs,         \* job ids (uuid4, never reused)
  Workers,      \* worker loops, one claim at a time each
  Uploads,      \* the OCR jobs: they have a spooled input (others do not)
  Cancellable,  \* the jobs some user asks to cancel (once each)
  None,         \* no lease / no job
  Orphan,       \* the uuid of a claim nobody runs any more
  MaxRetries,   \* RedisJobQueue._max_retries
  MaxCrashes,   \* bound: worker crashes and interrupted executions
  MaxLapses,    \* bound: those between the eviction of a job and its record
  MaxDrains,    \* bound: SIGTERM drains that time out
  MaxClears,    \* bound: calls of clear()
  MaxFaults     \* bound: submit pipelines that raise

ASSUME MaxRetriesAssumption == MaxRetries \in Nat
ASSUME BoundsAssumption ==
  {MaxCrashes, MaxLapses, MaxDrains, MaxClears, MaxFaults} \subseteq Nat
ASSUME OwnersAssumption ==
  /\ None \notin Workers \cup Jobs /\ Orphan \notin Workers
  /\ None # Orphan /\ Cancellable \subseteq Jobs /\ Uploads \subseteq Jobs

VARIABLES
  \* ---- Redis keys of the queue ----
  queue,      \* omniscribe:jobs:queue
  active,     \* omniscribe:jobs:active
  expired,    \* the members of active whose score is not in the future
  lease,      \* omniscribe:jobs:lease:{id}
  payload,    \* the jobs with a omniscribe:jobs:payload:{id}
  attempts,   \* omniscribe:jobs:attempts:{id}, 0 when absent
  cancelled,  \* omniscribe:jobs:cancelled
  \* ---- StateBackend and spool ----
  record,     \* JobRecord.status of omniscribe:job:{id}, "none" when absent
  input,      \* the jobs whose spooled input file exists
  \* ---- a worker loop: where it is, and its local variables ----
  pc, wjob, verdict, seen,
  heard,      \* RedisJobQueue._cancelled of the worker's process
  \* ---- API requests, one program counter per job ----
  submit, cancel, clear,
  \* ---- history ----
  told,       \* terminal events a worker emitted for the job, in order
  overlapped, \* the jobs two worker loops have had in hand at the same time
  budget      \* what is left of the bounds

redisVars == <<queue, active, expired, lease, payload, attempts, cancelled>>
storeVars == <<record, input>>
localVars == <<wjob, verdict, seen>>
apiVars   == <<submit, cancel, clear>>
history   == <<told, overlapped>>
vars == <<redisVars, storeVars, pc, localVars, heard, apiVars, history, budget>>

-----------------------------------------------------------------------------
Terminal == {"complete", "error", "cancelled"}
Status   == {"none", "queued", "running"} \cup Terminal
Live     == {"queued", "running"}  \* a record exists and is not terminal

\* pcs of _execute_job, from the claim's return to the terminal frame.
Executing == {"start", "startWrite", "drop", "running", "settled", "raised",
              "store", "read", "write", "ack", "announce"}
\* pcs of claim() after its script, before _execute_job.
Claiming  == {"claimed", "claimedBare", "invalid"}
\* pcs of the record update that follows a requeue or a recovery.
Fixing    == {"fixRead", "fixWrite"}
PC        == {"idle"} \cup Claiming \cup Executing \cup Fixing

\* The events whose number a run bounds.
Bounded == {"crash", "lapse", "drain", "clear", "fault"}

TypeOK ==
  /\ queue \subseteq Jobs /\ active \subseteq Jobs /\ expired \subseteq Jobs
  /\ payload \subseteq Jobs /\ cancelled \subseteq Jobs /\ input \subseteq Jobs
  /\ lease \in [Jobs -> Workers \cup {None, Orphan}]
  /\ attempts \in [Jobs -> 0..MaxRetries]
  /\ record \in [Jobs -> Status]
  /\ pc \in [Workers -> PC]
  /\ wjob \in [Workers -> Jobs \cup {None}]
  /\ verdict \in [Workers -> {"none", "queued"} \cup Terminal]
  /\ seen \in [Workers -> Status]
  /\ heard \in [Workers -> SUBSET Jobs]
  /\ submit \in [Jobs -> {"new", "recorded", "enqueued", "unsure", "undone",
                          "refused", "gone"}]
  /\ cancel \in [Jobs -> {"idle", "sawQueued", "sawRunning", "toWrite",
                          "acked", "announced", "refused"}]
  /\ clear \in [Jobs -> {"idle", "listed", "deleted"}]
  /\ told \in [Jobs -> Seq(Terminal)]
  /\ overlapped \subseteq Jobs
  /\ budget \in [Bounded -> Nat]

Init ==
  /\ queue = {} /\ active = {} /\ expired = {} /\ payload = {}
  /\ cancelled = {} /\ input = {}
  /\ lease = [j \in Jobs |-> None]
  /\ attempts = [j \in Jobs |-> 0]
  /\ record = [j \in Jobs |-> "none"]
  /\ pc = [w \in Workers |-> "idle"]
  /\ wjob = [w \in Workers |-> None]
  /\ verdict = [w \in Workers |-> "none"]
  /\ seen = [w \in Workers |-> "none"]
  /\ heard = [w \in Workers |-> {}]
  /\ submit = [j \in Jobs |-> "new"]
  /\ cancel = [j \in Jobs |-> "idle"]
  /\ clear = [j \in Jobs |-> "idle"]
  /\ told = [j \in Jobs |-> <<>>]
  /\ overlapped = {}
  /\ budget = [e \in Bounded |-> CASE e = "crash" -> MaxCrashes
                                   [] e = "lapse" -> MaxLapses
                                   [] e = "drain" -> MaxDrains
                                   [] e = "clear" -> MaxClears
                                   [] e = "fault" -> MaxFaults]

-----------------------------------------------------------------------------
(* The Lua scripts: what each leaves in Redis.                             *)

Owns(w, j) == lease[j] = w

\* ZREM active; the key stops being expired with its score.
Deactivate(j) == active' = active \ {j} /\ expired' = expired \ {j}

\* The writes of _FINISH_LEASE_LUA, and of _finish() without a lease owner.
EraseClaim(j) ==
  /\ Deactivate(j)
  /\ lease' = [lease EXCEPT ![j] = None]
  /\ payload' = payload \ {j}
  /\ attempts' = [attempts EXCEPT ![j] = 0]

\* _FINISH_LEASE_LUA: only the lease's owner removes the claim.
FinishLease(w, j) ==
  IF Owns(w, j) THEN EraseClaim(j)
                ELSE UNCHANGED <<active, expired, lease, payload, attempts>>

\* mutant: the lease key survives
Requeue_KeepsLease(j) ==
  /\ Deactivate(j)
  /\ queue' = queue \cup {j}
  /\ UNCHANGED lease

\* The writes of _REQUEUE_JOB_LUA: back to the queue, lease dropped.
Requeue(j) ==
  /\ Deactivate(j)
  /\ queue' = queue \cup {j}
  /\ lease' = [lease EXCEPT ![j] = None]

\* The test _CLAIM_JOB_LUA makes before it hands a job out.
Claimable(j) == j \notin cancelled /\ record[j] \notin Terminal

\* One of the bounded events happens (a bound of the model, not of the code).
Spend(kind) == budget[kind] > 0 /\ budget' = [budget EXCEPT ![kind] = @ - 1]

-----------------------------------------------------------------------------
(* Worker bookkeeping.                                                     *)

Goto(w, p) == pc' = [pc EXCEPT ![w] = p]
Decide(w, v) == verdict' = [verdict EXCEPT ![w] = v]

\* The loop body ends: locals go out of scope.
Rest(w) ==
  /\ Goto(w, "idle")
  /\ Decide(w, "none")
  /\ wjob' = [wjob EXCEPT ![w] = None]
  /\ seen' = [seen EXCEPT ![w] = "none"]

\* The worker loop has job j in hand from here on.
Take(w, j) ==
  /\ wjob' = [wjob EXCEPT ![w] = j]
  /\ overlapped' = overlapped \cup
                     (IF \E x \in Workers \ {w} : wjob[x] = j THEN {j} ELSE {})

\* get_job into a local variable.
Look(w, j) == seen' = [seen EXCEPT ![w] = record[j]]

\* "if record is not None and not terminal: upsert_job(replace(record, ...))"
\* with the record the worker read earlier.
UpsertIfLive(w, j, status) ==
  record' = IF seen[w] \in Live THEN [record EXCEPT ![j] = status] ELSE record

-----------------------------------------------------------------------------
(* RedisJobQueue.submit, in the API process.                               *)

\* upsert_job(queued).  An OCR upload was spooled before submit is called.
SubmitRecord(j) ==
  /\ submit[j] = "new"
  /\ record' = [record EXCEPT ![j] = "queued"]
  /\ input' = input \cup ({j} \cap Uploads)
  /\ submit' = [submit EXCEPT ![j] = "recorded"]
  /\ UNCHANGED <<redisVars, pc, localVars, heard, cancel, clear, history, budget>>

\* pipeline: SET payload, ZADD queue.  Either the reply arrives, or the
\* connection breaks after Redis executed it ("unsure").
SubmitEnqueue(j) ==
  /\ submit[j] = "recorded"
  /\ payload' = payload \cup {j}
  /\ queue' = queue \cup {j}
  /\ \/ submit' = [submit EXCEPT ![j] = "enqueued"] /\ UNCHANGED budget
     \/ submit' = [submit EXCEPT ![j] = "unsure"] /\ Spend("fault")
  /\ UNCHANGED <<active, expired, lease, attempts, cancelled, storeVars, pc,
                 localVars, heard, cancel, clear, history>>

\* The pipeline raised before Redis executed it.
SubmitRefused(j) ==
  /\ submit[j] = "recorded"
  /\ submit' = [submit EXCEPT ![j] = "refused"]
  /\ Spend("fault")
  /\ UNCHANGED <<redisVars, storeVars, pc, localVars, heard, cancel, clear, history>>

\* except: delete_job, raise; OCRServiceImpl.submit then drops the work dir.
SubmitUndo(j) ==
  /\ submit[j] \in {"unsure", "refused"}
  /\ record' = [record EXCEPT ![j] = "none"]
  /\ input' = input \ {j}
  /\ submit' = [submit EXCEPT ![j] = IF @ = "unsure" THEN "undone" ELSE "gone"]
  /\ UNCHANGED <<redisVars, pc, localVars, heard, cancel, clear, history, budget>>

-----------------------------------------------------------------------------
(* RedisJobQueue.cancel, in the API process.                               *)

\* get_job and the early return for missing and terminal records.
CancelRead(j) ==
  /\ cancel[j] = "idle" /\ j \in Cancellable /\ submit[j] # "new"
  /\ cancel' = [cancel EXCEPT ![j] = CASE record[j] = "queued"  -> "sawQueued"
                                       [] record[j] = "running" -> "sawRunning"
                                       [] OTHER                 -> "refused"]
  /\ UNCHANGED <<redisVars, storeVars, pc, localVars, heard, submit, clear,
                 history, budget>>

\* pipeline: SADD cancelled, ZREM queue, PUBLISH.  A job that was running when
\* it was read is answered True here.
CancelMark(j) ==
  /\ cancel[j] \in {"sawQueued", "sawRunning"}
  /\ cancelled' = cancelled \cup {j}
  /\ queue' = queue \ {j}
  /\ cancel' = [cancel EXCEPT ![j] = IF @ = "sawQueued" THEN "toWrite"
                                                        ELSE "acked"]
  /\ UNCHANGED <<active, expired, lease, payload, attempts, storeVars, pc,
                 localVars, heard, submit, clear, history, budget>>

\* The record read as queued: drop the spooled input, upsert the stale record
\* as cancelled, emit JobCancelled ("announced"), answer True.
CancelWrite(j) ==
  /\ cancel[j] = "toWrite"
  /\ record' = [record EXCEPT ![j] = "cancelled"]
  /\ input' = input \ {j}
  /\ cancel' = [cancel EXCEPT ![j] = "announced"]
  /\ UNCHANGED <<redisVars, pc, localVars, heard, submit, clear, history, budget>>

\* A worker process learns of the cancellation: the control channel delivers
\* the message (late or never), or open() loads the cancelled set.
Hear(w, j) ==
  /\ j \in cancelled \ heard[w]
  /\ heard' = [heard EXCEPT ![w] = @ \cup {j}]
  /\ UNCHANGED <<redisVars, storeVars, pc, localVars, apiVars, history, budget>>

-----------------------------------------------------------------------------
(* RedisJobQueue.clear, in the API process.                                *)

\* list_jobs: the statuses the rest of the call goes by.
ClearList(j) ==
  /\ clear[j] = "idle" /\ Spend("clear")
  /\ record[j] \in Terminal
  /\ clear' = [clear EXCEPT ![j] = "listed"]
  /\ UNCHANGED <<redisVars, storeVars, pc, localVars, heard, submit, cancel,
                 history>>

\* delete_job
ClearDelete(j) ==
  /\ clear[j] = "listed"
  /\ record' = [record EXCEPT ![j] = "none"]
  /\ clear' = [clear EXCEPT ![j] = "deleted"]
  /\ UNCHANGED <<redisVars, input, pc, localVars, heard, submit, cancel, history,
                 budget>>

\* pipeline: DEL payload, DEL lease, SREM cancelled.  Nothing looks at the
\* queue or at the active set.
ClearKeys(j) ==
  /\ clear[j] = "deleted"
  /\ payload' = payload \ {j}
  /\ lease' = [lease EXCEPT ![j] = None]
  /\ cancelled' = cancelled \ {j}
  /\ clear' = [clear EXCEPT ![j] = "idle"]
  /\ UNCHANGED <<queue, active, expired, attempts, storeVars, pc, localVars,
                 heard, submit, cancel, history, budget>>

-----------------------------------------------------------------------------
(* recover_stale_jobs, which every claim() runs first.                     *)

\* mutant: one retry too many
RecoverLease_ExtraRetry(w, j) ==
  /\ pc[w] = "idle"
  /\ j \in expired
  /\ IF attempts[j] > MaxRetries
       THEN EraseClaim(j) /\ Decide(w, "error") /\ UNCHANGED queue
       ELSE /\ Requeue(j) /\ Decide(w, "queued") /\ UNCHANGED payload
            /\ attempts' = [attempts EXCEPT ![j] = @ + 1]
  /\ Take(w, j)
  /\ Goto(w, "fixRead")
  /\ UNCHANGED <<cancelled, storeVars, seen, heard, apiVars, told, budget>>

\* _RECOVER_STALE_JOB_LUA for one of the expired ids.
RecoverLease(w, j) ==
  /\ pc[w] = "idle"
  /\ j \in expired
  /\ IF attempts[j] + 1 > MaxRetries
       THEN /\ EraseClaim(j)
            /\ Decide(w, "error")
            /\ UNCHANGED queue
       ELSE /\ Requeue(j)
            /\ attempts' = [attempts EXCEPT ![j] = @ + 1]
            /\ Decide(w, "queued")
            /\ UNCHANGED payload
  /\ Take(w, j)
  /\ Goto(w, "fixRead")
  /\ UNCHANGED <<cancelled, storeVars, seen, heard, apiVars, told, budget>>

\* get_job, after the script (of a recovery or of a drain's requeue).
FixRead(w) ==
  /\ pc[w] = "fixRead"
  /\ Look(w, wjob[w])
  /\ Goto(w, "fixWrite")
  /\ UNCHANGED <<redisVars, storeVars, wjob, verdict, heard, apiVars, history,
                 budget>>

\* upsert_job with the record just read, unless that was terminal; JobFailed is
\* emitted for a job out of retries whatever the record says.
FixWrite(w) ==
  /\ pc[w] = "fixWrite"
  /\ UpsertIfLive(w, wjob[w], verdict[w])
  /\ told' = IF verdict[w] = "error"
               THEN [told EXCEPT ![wjob[w]] = Append(@, "error")] ELSE told
  /\ Rest(w)
  /\ UNCHANGED <<overlapped, redisVars, input, heard, apiVars, budget>>

-----------------------------------------------------------------------------
(* RedisJobQueue.claim.                                                    *)

\* mutant: the claimed job is not popped
Claim_KeepsQueued(w, j) ==
  /\ pc[w] = "idle"
  /\ j \in queue /\ Claimable(j)
  /\ active' = active \cup {j}
  /\ lease' = [lease EXCEPT ![j] = w]
  /\ Take(w, j)
  /\ Goto(w, "claimed")
  /\ UNCHANGED <<queue, payload, expired, attempts, cancelled, storeVars, verdict,
                 seen, heard, apiVars, told, budget>>

\* _CLAIM_JOB_LUA hands out job j after popping and purging the dead jobs that
\* were older than j.
Claim(w, j) ==
  /\ pc[w] = "idle"
  /\ j \in queue /\ Claimable(j)
  /\ \E dead \in SUBSET {d \in queue : ~Claimable(d)} :
       /\ queue' = queue \ (dead \cup {j})
       /\ payload' = payload \ dead
  /\ active' = active \cup {j}
  /\ lease' = [lease EXCEPT ![j] = w]
  /\ Take(w, j)
  /\ Goto(w, IF j \in payload THEN "claimed" ELSE "claimedBare")
  /\ UNCHANGED <<expired, attempts, cancelled, storeVars, verdict, seen, heard,
                 apiVars, told, budget>>

\* mutant: dead jobs are skipped, not purged
ClaimNothing_KeepsQueue(w) ==
  /\ pc[w] = "idle"
  /\ queue # {} /\ \A d \in queue : ~Claimable(d)
  /\ payload' = payload \ queue
  /\ UNCHANGED <<queue, active, expired, lease, attempts, cancelled, storeVars, pc,
                 localVars, heard, apiVars, history, budget>>

\* _CLAIM_JOB_LUA finds nothing but dead jobs: it purges them all.
ClaimNothing(w) ==
  /\ pc[w] = "idle"
  /\ queue # {} /\ \A d \in queue : ~Claimable(d)
  /\ queue' = {}
  /\ payload' = payload \ queue
  /\ UNCHANGED <<active, expired, lease, attempts, cancelled, storeVars, pc,
                 localVars, heard, apiVars, history, budget>>

\* "Double check cancelled status": fail() with the lease, and no job.
ClaimCancelled(w) ==
  /\ pc[w] \in {"claimed", "claimedBare"}
  /\ wjob[w] \in heard[w]
  /\ FinishLease(w, wjob[w])
  /\ Rest(w)
  /\ UNCHANGED <<queue, cancelled, storeVars, heard, apiVars, history, budget>>

\* _deserialize_claimed_payload reads the record: an OCR payload without a record
\* to bind it to is invalid; a missing payload is None and is not checked.
ClaimPayload(w) ==
  /\ pc[w] \in {"claimed", "claimedBare"}
  /\ wjob[w] \notin heard[w]
  /\ Goto(w, IF /\ pc[w] = "claimed" /\ record[wjob[w]] = "none"
                    /\ wjob[w] \in Uploads
               THEN "invalid" ELSE "start")
  /\ UNCHANGED <<redisVars, storeVars, localVars, heard, apiVars, history, budget>>

\* fail() with the lease; JobFailed if the lease was still ours.
ClaimInvalid(w) ==
  /\ pc[w] = "invalid"
  /\ FinishLease(w, wjob[w])
  /\ IF Owns(w, wjob[w])
       THEN Decide(w, "error") /\ Goto(w, "announce") /\ UNCHANGED <<wjob, seen>>
       ELSE Rest(w)
  /\ UNCHANGED <<queue, cancelled, storeVars, heard, apiVars, history, budget>>

-----------------------------------------------------------------------------
(* _execute_job and _handle_job_failure.                                   *)

\* The first get_job.
StartRead(w) ==
  /\ pc[w] = "start"
  /\ Goto(w, IF record[wjob[w]] \in Live THEN "startWrite" ELSE "drop")
  /\ UNCHANGED <<redisVars, storeVars, localVars, heard, apiVars, history, budget>>

\* No record, or a terminal one: queue.fail(job_id) or queue.complete(job_id),
\* both without a lease owner.
Drop(w) ==
  /\ pc[w] = "drop"
  /\ EraseClaim(wjob[w])
  /\ Rest(w)
  /\ UNCHANGED <<queue, cancelled, storeVars, heard, apiVars, history, budget>>

\* upsert_job(running), JobStarted.
StartWrite(w) ==
  /\ pc[w] = "startWrite"
  /\ record' = [record EXCEPT ![wjob[w]] = "running"]
  /\ Goto(w, "running")
  /\ UNCHANGED <<redisVars, input, localVars, heard, apiVars, history, budget>>

\* The runner returns; that of OCR has removed the work directory by then.
RunnerReturns(w) ==
  /\ pc[w] = "running"
  /\ wjob[w] \in Uploads => wjob[w] \in input
  /\ input' = input \ {wjob[w]}
  /\ Goto(w, "settled")
  /\ UNCHANGED <<redisVars, record, localVars, heard, apiVars, history, budget>>

\* The runner raises: an error of its own, the input missing, or (cancelled)
\* its cancel check fired.
RunnerRaises(w) ==
  /\ pc[w] = "running"
  /\ input' = input \ {wjob[w]}
  /\ \E v \in {"error", "cancelled"} : Decide(w, v)
  /\ Goto(w, "raised")
  /\ UNCHANGED <<redisVars, record, wjob, seen, heard, apiVars, history, budget>>

\* still_owns_lease(), then is_cancelled().
CheckSettled(w) ==
  /\ pc[w] = "settled"
  /\ \/ /\ ~Owns(w, wjob[w])
        /\ Rest(w)
     \/ /\ Owns(w, wjob[w])
        /\ IF wjob[w] \in heard[w]
             THEN Decide(w, "cancelled") /\ Goto(w, "read")
             ELSE Decide(w, "complete")  /\ Goto(w, "store")
        /\ UNCHANGED <<wjob, seen>>
  /\ UNCHANGED <<redisVars, storeVars, heard, apiVars, history, budget>>

\* _handle_job_failure: owns_lease(), then is_cancelled() or the exception's
\* class name.
CheckRaised(w) ==
  /\ pc[w] = "raised"
  /\ \/ /\ ~Owns(w, wjob[w])
        /\ Rest(w)
     \/ /\ Owns(w, wjob[w])
        /\ Decide(w, IF wjob[w] \in heard[w] THEN "cancelled" ELSE verdict[w])
        /\ Goto(w, "read")
        /\ UNCHANGED <<wjob, seen>>
  /\ UNCHANGED <<redisVars, storeVars, heard, apiVars, history, budget>>

\* artifacts.put; an exception goes through _handle_job_failure.
Store(w) ==
  /\ pc[w] = "store"
  /\ \/ Goto(w, "read") /\ UNCHANGED verdict
     \/ Goto(w, "raised") /\ Decide(w, "error")
  /\ UNCHANGED <<redisVars, storeVars, wjob, seen, heard, apiVars, history, budget>>

\* mutant: the lease is acknowledged before the outcome is persisted
Read_AckFirst(w) ==
  /\ pc[w] = "read"
  /\ Look(w, wjob[w])
  /\ FinishLease(w, wjob[w])
  /\ Goto(w, "write")
  /\ UNCHANGED <<queue, cancelled, storeVars, wjob, verdict, heard, apiVars, history,
                 budget>>

\* get_job before the terminal upsert.
Read(w) ==
  /\ pc[w] = "read"
  /\ Look(w, wjob[w])
  /\ Goto(w, "write")
  /\ UNCHANGED <<redisVars, storeVars, wjob, verdict, heard, apiVars, history,
                 budget>>

\* The terminal upsert, skipped when the record read was terminal or missing.
Write(w) ==
  /\ pc[w] = "write"
  /\ UpsertIfLive(w, wjob[w], verdict[w])
  /\ seen' = [seen EXCEPT ![w] = "none"]
  /\ Goto(w, "ack")
  /\ UNCHANGED <<redisVars, input, wjob, verdict, heard, apiVars, history, budget>>

\* mutant: the return after a lost lease is missing
Ack_NoReturn(w) ==
  /\ pc[w] = "ack"
  /\ FinishLease(w, wjob[w])
  /\ Goto(w, "announce")
  /\ UNCHANGED <<queue, cancelled, localVars, storeVars, heard, apiVars, history,
                 budget>>

\* queue.complete / queue.fail with the lease owner.
Ack(w) ==
  /\ pc[w] = "ack"
  /\ FinishLease(w, wjob[w])
  /\ IF Owns(w, wjob[w])
       THEN Goto(w, "announce") /\ UNCHANGED localVars
       ELSE Rest(w)
  /\ UNCHANGED <<queue, cancelled, storeVars, heard, apiVars, history, budget>>

\* _broadcast_terminal_frame and the terminal event.
Announce(w) ==
  /\ pc[w] = "announce"
  /\ told' = [told EXCEPT ![wjob[w]] = Append(@, verdict[w])]
  /\ Rest(w)
  /\ UNCHANGED <<overlapped, redisVars, storeVars, heard, apiVars, budget>>

-----------------------------------------------------------------------------
(* Leases in time, crashes and drains.                                     *)

\* A score of the active set passes: the holder crashed, or renews late.
Expire(j) ==
  /\ j \in active \ expired
  /\ expired' = expired \cup {j}
  /\ UNCHANGED <<queue, active, lease, payload, attempts, cancelled, storeVars,
                 pc, localVars, heard, apiVars, history, budget>>

\* _RENEW_LEASE_LUA, by the renewal task that lives as long as _execute_job.
Renew(w) ==
  /\ pc[w] \in Executing
  /\ Owns(w, wjob[w])
  /\ wjob[w] \in active \cap expired
  /\ expired' = expired \ {wjob[w]}
  /\ UNCHANGED <<queue, active, lease, payload, attempts, cancelled, storeVars,
                 pc, localVars, heard, apiVars, history, budget>>

\* A recovery has evicted the job and not yet written its record.
Evicting(w) == pc[w] \in Fixing /\ verdict[w] = "error"

\* The execution ends where it stands: the process dies and is started again
\* (open() then loads the cancelled set), or a backend call raised and
\* _worker_loop goes on.  The lease stays, under a uuid nobody uses any more.
Crash(w) ==
  /\ pc[w] # "idle"
  /\ Spend(IF Evicting(w) THEN "lapse" ELSE "crash")
  /\ lease' = [j \in Jobs |-> IF Owns(w, j) THEN Orphan ELSE lease[j]]
  /\ \E h \in {heard[w], cancelled} : heard' = [heard EXCEPT ![w] = h]
  /\ Rest(w)
  /\ UNCHANGED <<queue, active, expired, payload, attempts, cancelled, storeVars,
                 apiVars, history>>

\* run_worker's drain timed out: the task is cancelled where it stands and its
\* job requeued by _REQUEUE_JOB_LUA, if the lease is still ours.
Drain(w) ==
  /\ pc[w] \in Executing /\ Spend("drain")
  /\ \/ /\ Owns(w, wjob[w])
        /\ Requeue(wjob[w])
        /\ Decide(w, "queued") /\ Goto(w, "fixRead")
        /\ seen' = [seen EXCEPT ![w] = "none"]
        /\ UNCHANGED wjob
     \/ /\ ~Owns(w, wjob[w])
        /\ Rest(w)
        /\ UNCHANGED <<queue, active, expired, lease>>
  /\ UNCHANGED <<payload, attempts, cancelled, storeVars, heard, apiVars, history>>

-----------------------------------------------------------------------------
\* The next step of _execute_job.
Execute(w) ==
  \/ StartRead(w) \/ Drop(w) \/ StartWrite(w)
  \/ RunnerReturns(w) \/ RunnerRaises(w)
  \/ CheckSettled(w) \/ CheckRaised(w) \/ Store(w)
  \/ Read(w) \/ Write(w) \/ Ack(w) \/ Announce(w)

\* The next step of a worker loop.
Work(w) ==
  \/ \E j \in Jobs : RecoverLease(w, j) \/ Claim(w, j)
  \/ ClaimNothing(w)
  \/ FixRead(w) \/ FixWrite(w)
  \/ ClaimCancelled(w) \/ ClaimPayload(w) \/ ClaimInvalid(w)
  \/ Execute(w)

\* The next step of the API requests about a job.
Submit(j) == SubmitRecord(j) \/ SubmitEnqueue(j) \/ SubmitRefused(j) \/ SubmitUndo(j)
Cancel(j) == CancelRead(j) \/ CancelMark(j) \/ CancelWrite(j)
Clear(j)  == ClearList(j) \/ ClearDelete(j) \/ ClearKeys(j)

Next ==
  \/ \E j \in Jobs : Submit(j) \/ Cancel(j) \/ Clear(j) \/ Expire(j)
  \/ \E w \in Workers : Work(w) \/ Renew(w) \/ Crash(w) \/ Drain(w)
  \/ \E w \in Workers, j \in Jobs : Hear(w, j)

\* A worker loop and an API request that can go on do so (asyncio runs every
\* ready task); the score of a lease nobody renews passes.  Nothing forces a
\* user to call, a message to arrive, or a live worker's lease to expire.
Fairness ==
  /\ \A w \in Workers : WF_vars(Work(w))
  /\ \A j \in Jobs : /\ WF_vars(SubmitEnqueue(j) \/ SubmitUndo(j))
                     /\ WF_vars(CancelMark(j) \/ CancelWrite(j))
                     /\ WF_vars(lease[j] \notin Workers /\ Expire(j))

\* From some time on, renewals come in time: the interval is a third of the
\* visibility timeout (_renew_lease_loop).
RenewalsInTime == <>[][\A j \in Jobs : Expire(j) => lease[j] \notin Workers]_vars

Spec == Init /\ [][Next]_vars
FairSpec == Spec /\ Fairness /\ RenewalsInTime

-----------------------------------------------------------------------------
(* Safety.                                                                 *)

\* The job reached the queue at some time.
Entered(j) == submit[j] \in {"enqueued", "unsure", "undone"}

\* It was in the queue once and is now neither pending nor claimed.
Retired(j) == Entered(j) /\ j \notin queue \cup active

\* Workers that will still announce an outcome, unless they crash first.
Announcing(w) == pc[w] = "announce" \/ Evicting(w)

\* The pcs of an execution that has not acknowledged its claim.
Holding == Claiming \cup (Executing \ {"announce"})

\* A job is pending or claimed, never both; a lease exists for claimed jobs
\* only; the execution a lease names is running that very job, so two live
\* executions never both own one job.  Rests on every script moving a job and
\* its lease together.
OneHolder ==
  /\ queue \cap active = {} /\ expired \subseteq active
  /\ \A j \in Jobs : lease[j] # None => j \in active
  /\ \A w \in Workers, j \in Jobs :
       Owns(w, j) => wjob[w] = j /\ pc[w] \in Holding

\* However many workers ran the job, stalled, lost their lease and came back,
\* the workers announce at most one outcome for it (one terminal frame or
\* JobFailed of the recovery), and only when it cannot run again.
SingleVerdict ==
  \A j \in Jobs : Len(told[j]) <= 1 /\ (told[j] # <<>> => Retired(j))

stage == [j \in Jobs |-> CASE j \in queue  -> "pending"
                           [] j \in active -> "claimed"
                           [] Retired(j)   -> "retired"
                           [] OTHER        -> "new"]
announced == {j \in Jobs : told[j] # <<>>}
withdrawn == {j \in Jobs : cancel[j] = "announced"}
Lifecycle ==
  INSTANCE JobLifecycle WITH stage <- stage, announced <- announced,
                             withdrawn <- withdrawn

\* The queue implements the lifecycle: a retired job never comes back, and the
\* executions announce one outcome, after that.  The JobCancelled of cancel() is
\* counted apart: a job it read as queued may have been claimed since.
RefinesLifecycle == Lifecycle!Spec

\* Nobody works on the job or is about to write its record.
Quiet(j) == (\A w \in Workers : wjob[w] # j) /\ cancel[j] # "toWrite"

\* The job has left the queue for good with a record that says otherwise.
Forgotten(j) == Retired(j) /\ Quiet(j) /\ record[j] \in Live

\* "Worker Terminal Persistence Ordering Contract": when a job has left the
\* queue for good and nobody works on it, its record is terminal (or deleted).
\* A crash between the terminal upsert and the acknowledgement must not lose
\* the outcome; nor may one before it lose the job.  The outcome is lost only for
\* a job that two loops had in hand at once (the stale upsert of one lands on
\* that of the other) or that somebody asked to cancel (a claim purges it before
\* its record is written), or by a crash between an eviction and its record.
RetiredHasOutcome ==
  budget["lapse"] = MaxLapses =>
    \A j \in Jobs : Forgotten(j) => j \in overlapped \/ cancel[j] # "idle"

\* A job waiting for a first or another run can be run: its payload is there,
\* although late workers, failed claims and purges delete payloads.
PendingHasPayload ==
  \A j \in queue \ cancelled : record[j] \in Live => j \in payload

\* A job in the queue or claimed does not stay so for ever: a lost lease
\* expires and is recovered, retries are bounded.
EveryJobRetires ==
  \A j \in Jobs : (j \in queue \cup active) ~> (j \notin queue \cup active)

-----------------------------------------------------------------------------
(* What the documentation says and the code does not keep: TLC finds a     *)
(* counterexample to each under the configuration the README names.        *)

\* docs/ARCHITECTURE.md: completion checks prevent "worker race conditions from
\* overwriting user cancellations with complete".  _execute_job checks the
\* status in get_job and overwrites it in a later upsert_job.
CancellationKept ==
  [][\A j \in Jobs : record[j] = "cancelled" => record'[j] # "complete"]_record

\* docs/ARCHITECTURE.md: the terminal record is persisted "before the worker
\* releases or acknowledges the queue lease".  The stale upsert of another worker
\* (the running of a late one, the queued of a recovery) can land in between.
AckFindsTerminalRecord ==
  [][\A w \in Workers : Ack(w) /\ Owns(w, wjob[w])
                          => record[wjob[w]] \in Terminal]_vars

\* jobs_redis.py:1053: with its attempts used up, a "job is transitioned to error
\* and evicted".  The script evicts it first, and a crash (or a failing call)
\* before the upsert leaves a record that says running for ever.
EvictedEndsInError == \A j \in Jobs : ~Forgotten(j)

\* docs/ARCHITECTURE.md: the cancel endpoint "marks an in-flight job as
\* cancelled".  If the worker crashes first, the recovered job is purged by the
\* next claim and its record stays queued for ever.
AckedCancelEnds ==
  \A j \in Jobs : cancel[j] \in {"acked", "announced"} ~> record[j] \notin Live

\* tests/plugins/test_jobs_redis.py: "A late worker cannot remove a newer
\* claim's payload or active lease."  One that finds the record terminal can:
\* it calls queue.complete without its lease owner.
LateWorkerSparesClaim ==
  [][\A w \in Workers :
       Execute(w) /\ lease[wjob[w]] \in Workers \ {w}
         => UNCHANGED <<lease, active, payload>>]_vars

\* docs/ARCHITECTURE.md: the work dir is preserved on CancelledError "so
\* requeued jobs during worker drain maintain valid input files".  A drain that
\* interrupts _execute_job after the runner has returned requeues a job whose
\* input is gone.
DrainKeepsInput ==
  [][\A w \in Workers : Drain(w) /\ wjob[w] \in queue' /\ record[wjob[w]] \in Live
                             /\ wjob[w] \in Uploads => wjob[w] \in input]_vars
=============================================================================
