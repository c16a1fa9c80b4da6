# OmniScribe: specifications, model checking and proofs

OmniScribe is a document OCR, translation and transcription server
(`src/src/omniscribe`, Python/asyncio) with a Flutter client (`src/client`). This
directory holds TLA+ specifications translated from its source, the TLC
configurations that check them, and TLAPS proofs about them. `PROJECT.json` lists
the components, runs, mutants, findings, hazards and theorems, and maps every
definition to the source lines it models.

## 1. Inventory

Paths are relative to `src/src/omniscribe`.

| Component | State it keeps | Operations | Correct when | Modelled in |
|---|---|---|---|---|
| Redis job queue, `plugins/jobs_redis.py` | Redis: queue ZSET, active ZSET (lease deadlines), lease, payload and attempts keys, cancelled set; in the process: a cache of cancelled ids | submit, cancel, clear, claim, recover, requeue, complete/fail, renew | a job is pending or claimed by one execution; bounded retries; one outcome | `RedisJobs` |
| Worker, `worker.py` | loops with a job each, renewal tasks, the map of active jobs | claim, execute, fail, drain | the record is terminal before the lease is released; a late worker does no harm | `RedisJobs`, `ProgressChannels` |
| In-process queue, `plugins/jobs.py` | an `asyncio.Queue`, payloads, cancelled ids, an ownership lock | submit, cancel, clear, process, shutdown, boot reconciliation | no record is stranded; a cancellation is kept | `InMemoryJobs` |
| State backends, `plugins/state_backend*.py`; artifacts, `plugins/artifacts.py` | job records, artifacts with a token and a TTL, channels (SQLite, memory or Redis) | upsert, get, list, put, consume, prune | what was stored stays until it expires; a channel is consumed once; bytes are reclaimed | `StateBackends` |
| Progress service, `plugins/progress.py` | attached sockets, frame counts, cancelled channels, relayed jobs | open, consume, attach, broadcast, relay | one socket handshake per channel; each terminal event relayed once | `ProgressChannels` |
| OCR service and SSE, `plugins/ocr/service.py`, `routes.py` | spooled inputs, event buffers, sequence numbers, done set | submit, run, record_event, prune, stream | no unseen event is skipped; the stream ends | `EventStream`; the spool in both queues |
| Resilience, `core/ocr/resilience.py`, `chat_client.py`, `processor.py` | circuit-breaker state, retry counters | call, retry, open, half-open, close | the circuit closes again when the server is well | `ModelCalls` |
| OCR workflows, `core/workflows` | per-page results, task groups, semaphores | convert, read, refine, repair, finalize, cancel | failed pages are reported; a cancelled run does not succeed; repair never worsens a page | `PageWorkflow` |
| Aligner, `core/aligner.py` | none | align_text | no line is lost or moved; a cheapest placement | `Aligner` |
| Chunker, `core/chunking/chunker.py` | none | chunk | the whole document, in order, within bounds and sections | `Chunker` |
| Plugin harness, `harness/*.py` | services, listeners, effects | register, emit, dispose, boot, rollback | the tables hold what is still to be reversed; dependencies outlive their users | `Harness` |
| Translation, `plugins/translate`, `core/translate` | attempts, scores, the shared cache | ask, judge, decide | the best attempt wins; no chunk is lost; no stopgap stays in the cache | `Translation`, `BestAttempt` |
| Glossary and lexicon, `plugins/glossary`, `core/lexicon` | one table of term rows, import jobs, the legacy files | import, toggle, reorder, delete, migrate | no half import; one glossary per name; the legacy library leaves when saved | `Lexicon` |
| Flutter client, `src/client/lib` | WebSocket connection, job orchestration state | run, connect, reconnect, poll, cancel | no result of another run is shown, and no block but by a socket left open; the poll goes on; no runaway job | `JobOrchestration` |
| Middleware, `middleware/*.py` | token buckets per client | admit, refill, evict | never more than the configured rate | - |
| Providers, documents, transcription, configuration, CLI, quality scoring, readers, writers, imaging, page ranges | little or none | conversions | as their tests say | - |

**How they interact.** An HTTP handler of the API process spools the upload and
calls `JobQueue.submit`. In Redis mode the queue writes the job record through the
state backend and the payload and queue entry in one pipeline; `omniscribe-worker`
processes claim jobs by a Lua script, run them, write the record, acknowledge the
lease and broadcast a terminal frame over Pub/Sub, which the progress service of
each API process relays to WebSockets and, as events, to the OCR service's SSE
buffers. Cancellation is a set in Redis, a Pub/Sub message and a cached set in each
process. In in-process mode the queue, its single worker task and the API share an
event loop and a SQLite or memory backend.

**What is hard.** Every `await` is a point where another task or process may act, and
records are read and written back whole (`get_job` … `upsert_job(replace(record, …))`).
Leases expire under live workers; workers crash and are drained; Pub/Sub messages are
late or lost; pipelines fail with an unknown outcome; buffers are bounded and pruned.
`PROJECT.json` lists each such hazard at its line, with the properties about it.

## 2. Plan

| Step | Modules | State |
|---|---|---|
| 1 | `JobLifecycle` (what a job queue promises), `RedisJobs`, `RedisJobsProofs` | checked; types, holders, verdicts, the refinement and the outcomes proved |
| 2 | `InMemoryJobs`, `InMemoryJobsProofs` | checked; four safety invariants proved. Its claims are not leases, so it is not compared with `JobLifecycle` |
| 3 | `EventStream`, `ProgressChannels` | checked; their three safety invariants proved, in `PageWorkflowProofs` and `StateBackendsProofs` |
| 4 | `ModelCalls`, `PageWorkflow`, `PageWorkflowProofs` | checked; the three safety invariants and the action property of `PageWorkflow` proved |
| 5 | `Harness`, `HarnessProofs`, `StateBackends`, `StateBackendsProofs` | checked; the safety invariants of both proved |
| 6 | `BestAttempt` (what a translation loop promises), `Translation`, `TranslationProofs`, `Lexicon`, `LexiconProofs` | checked; the refinement of `BestAttempt` and the safety invariants of both proved |
| 7 | `Aligner`, `Chunker`, composed with `PageWorkflow` in `MCPages` | checked against reference definitions over bounded inputs; what `align_text` promises of any page and the chunker of any document proved, in `PageWorkflowProofs` |
| 8 | `JobOrchestration` (the Flutter client), `JobOrchestrationProofs` | checked; its four safety invariants proved |

No module declares a `RECURSIVE` operator, so that each can be proved about. The MC
modules are `MCRedisJobs` and `MCTranslation` (symmetry), `MCLexicon` (a legacy library and
symmetry), `MCHarness` (a plugin tree) and `MCPages` (the engine with the two algorithms and
their inputs); the other modules are instantiated by their `.cfg` alone.

## 3. The Redis queue: `RedisJobs`

One action per Redis round trip: a Lua script or a MULTI/EXEC pipeline is atomic,
and a `get_job` followed by an `upsert_job` is two steps. Correspondence:

| Variables | Code |
|---|---|
| `queue`, `active`, `expired`, `lease`, `payload`, `attempts`, `cancelled` | the `omniscribe:jobs:*` keys; `expired` are the members of the active ZSET whose score has passed |
| `record`, `input` | the status in the job record; the spooled input file |
| `pc`, `wjob`, `verdict`, `seen` | a worker loop's position in `claim`/`_execute_job`/recovery and its local variables |
| `heard` | `RedisJobQueue._cancelled` of the worker's process |
| `submit`, `cancel`, `clear` | where the API request about a job is; `cancel` is `announced` once `cancel()` has emitted its own `JobCancelled` |
| `told`, `overlapped` | history: the terminal announcements the executions of a job made; the jobs two worker loops have had in hand at once |
| `budget` | what is left of the bounds |

| Actions | Code |
|---|---|
| `SubmitRecord`, `SubmitEnqueue`, `SubmitRefused`, `SubmitUndo` | `submit`, with a pipeline that fails before or after Redis executed it |
| `CancelRead`, `CancelMark`, `CancelWrite`, `Hear` | `cancel`, and the control channel |
| `ClearList`, `ClearDelete`, `ClearKeys` | `clear` |
| `RecoverLease`, `FixRead`, `FixWrite` | `recover_stale_jobs` (and the tail of `requeue`) |
| `Claim`, `ClaimNothing`, `ClaimCancelled`, `ClaimPayload`, `ClaimInvalid` | `claim` |
| `StartRead` … `Announce` | `_execute_job`, `_handle_job_failure`, the terminal frame |
| `Expire`, `Renew` | time and the renewal task |
| `Crash`, `Drain` | a dying process or a loop's unexpected exception; `run_worker`'s timed-out drain |

Abstractions: a payload is present or absent, a record is its status, a lease is the
worker that runs under its uuid (`Orphan` when nobody does), the queue's scores are
dropped because they are wall clocks of different machines, so any entry may be the
oldest. The runner is one step that returns or raises.

### Runs

| Run | Bounds | Shows |
|---|---|---|
| `redis_leases` | 1 job, 2 workers, 1 retry, 2 crashes, 1 lapse, 1 drain, 1 clear, a cancel | `TypeOK`, `OneHolder`, `SingleVerdict`, `RetiredHasOutcome`, `RefinesLifecycle` |
| `redis_recovery` | 1 job, 2 workers, 1 retry, 2 crashes, 1 lapse, 1 drain, 1 clear, 1 submit fault; fairness | `EveryJobRetires` |

- `OneHolder`: a job is pending or claimed, not both; no two executions hold its lease.
- `SingleVerdict`: however many executions overlap, they announce one outcome at most.
- `RefinesLifecycle`: every step is a step of `JobLifecycle`: a retired job never comes
  back, its executions announce one outcome, after it retired, and the request that
  cancels it announces that once. The two are counted apart because the code does both:
  a `cancel()` that read `queued` while a worker claimed the job emits `JobCancelled`, and
  the worker its own verdict (section 12).
- `RetiredHasOutcome`: a job that left the queue and that nobody works on has a terminal
  record (or was cleared), as long as no recovery lapsed, unless two loops have had it in
  hand at once or somebody cancelled it: in these two cases the code does lose outcomes.
- `EveryJobRetires`: a submitted job leaves the queue.

Two workers are enough for every race the code has between executions of one job: a
third adds no new pair, and what jobs share (a worker loop, the claim's choice) no key
depends on. One retry makes both outcomes of a recovery happen. `Uploads` are the OCR
jobs, whose spooled file the runner removes; a translation or glossary job has none.
Symmetry (workers) is used in the safety run only. `RetiredHasOutcome` leaves out the jobs
in `overlapped`, because the second loop can write `running` or `queued` over the outcome
(`AckFindsTerminalRecord`, section 12), and those somebody cancels, because a purge can
take one before its record is written (`AckedCancelEnds`). A *lapse* is a crash between the
script with which a recovery evicts a job and the record it writes next; the code does lose
the outcome then (`EvictedEndsInError`), so lapses have a budget of their own and the
property is about what happens before the first. With a submit fault `redis_leases` passes
as well, in five and a half minutes instead of one and a half.
A further instance, `RedisJobs_progress.cfg` (1 job, 2 workers, 1 crash, a cancel, no
clear and no submit fault), checks `EveryJobRetires` with a cancel, and
`PendingHasPayload`: what waits in the queue can be executed. With clears it cannot
always: the late upsert of a recovery resurrects a record whose payload is gone.
`CHECK_DEADLOCK FALSE`: the system stops when all jobs have retired and no user acts.

**Fairness** (`FairSpec`). asyncio runs every ready task, so a worker loop that can
step does, and a started API request goes on; the deadline of a lease that nobody
renews passes. `RenewalsInTime` says that from some time on a live worker's lease does
not expire: the renewal interval is a third of the visibility timeout. Without it a
job can be recovered under its live worker for ever (its attempts are reset by the
unowned finish). Users, messages, crashes and drains are never forced.

## 4. The in-process queue: `InMemoryJobs`

Without Redis the API process owns the queue: an `asyncio.Queue`, one worker task, and
a SQLite or memory backend. Each SQLite operation runs in a thread under an asyncio lock,
so a backend operation, with the code up to the next `await`, is one step; in between
any other task may run. Correspondence:

| Variables | Code |
|---|---|
| `record`, `input` | the status in the job record; the spooled upload (jobs in `Uploads`) |
| `fifo`, `cancelled` | `_queue`, `_cancelled` |
| `wpc`, `cur`, `seen` | where the worker task is in `_process_one` or in the handler of `_run`; its job; the record it last read |
| `submitted`, `cancel`, `clear` | where the API request about a job is (one of each per job) |
| `phase`, `page` | the process: up, down, or a step of shutdown or boot; the rows a sweep has still to close |
| `ghost` | the write of a cancelled task, whose thread runs on |
| `told`, `abandoned` | history: the terminal events emitted; jobs whose failure could not be persisted |
| `budget` | what is left of the bounds |

| Actions | Code |
|---|---|
| `Submit` | `submit` (one whose upsert raises leaves nothing behind and is no step) |
| `CancelRead`, `CancelWrite`, `CancelFails` | `cancel`: the read, the cancelled set and the upload; the upsert; the upsert that raises |
| `ClearList`, `ClearDelete` | `clear`: the listing; one deletion |
| `Take`, `Get`, `Start`, `RunnerReturns`, `RunnerRaises`, `Put`, `GetDone`, `Complete` | `_run`, `_process_one` |
| `MarkRead`, `MarkWrite`, `FailRead`, `FailWrite` | `_mark_cancelled`, `_set_error` |
| `Raises`, `HandlerRaises` | a backend or artifact call raises, in `_process_one` or in the handler of `_run` |
| `Shutdown`, `SweepList`, `SweepJob`, `SweepEnd`, `SweepFails` | `shutdown`, `_shutdown_owned`, `mark_interrupted_terminal` |
| `GhostLands`, `GhostLost` | the thread of a cancelled write |
| `Crash`, `Boot` | the process dies; it is started again |

Abstractions: the payload table (a runner without its payload raises, as it may anyway)
and the ownership lock on the database, assumed to work: one process at a time. The
server answers its requests before it runs the shutdown, so no cancel or clear is under
way when the sweep begins.

### Runs

| Run | Bounds | Shows |
|---|---|---|
| `inmem_jobs` | 2 jobs (one with an upload), 1 restart, 2 faults; fairness | all that follows |

- `NoStranded`: while the service is up, a record that says queued or running belongs to
  a job in the queue or with the worker, or to one in `abandoned`.
- `QueuedCancelWins`: an acknowledged cancellation of a queued job is not overwritten by
  a completion, although both sides read the record before they write it.
- `CompletionStands`: an announced completion is the only verdict, and the record keeps it.
- `SpoolDrained`: without faults and restarts no upload outlives its job's processing.
- `EveryJobSettles`: a live record becomes terminal while the service stays up.

Two jobs put one in the queue while the other is with the worker, and one with an upload
beside one without. One restart is a shutdown or a crash at any point, followed by a boot;
two faults make the worker's call and then its handler's call fail. `abandoned` is in the
properties because the code cannot do better: the write of the error itself raised.

**Fairness.** The worker task, the sweeps and the API requests that have started are
weakly fair (asyncio runs every ready task; a runner ends, by its own time limits).
Nobody is forced to submit, to cancel or to restart the service.

## 5. Events and progress: `EventStream`, `ProgressChannels`

### `EventStream`: buffers and SSE consumers

The OCR service keeps a bounded buffer of numbered events per job; an SSE response
follows a job by a cursor and waits, at most two seconds at a time, for the job's
`asyncio.Event`. A step ends at an await or a yield.

| Variables | Code |
|---|---|
| `backend`, `status`, `flagged`, `emitted` | what the queue knows of a job; whether `is_done` can read it locally |
| `order`, `buffers`, `handles`, `isSet`, `done` | `_event_buffers`, `_event_notify`, `_done_jobs` of `OCRServiceImpl` |
| `pc`, `follows`, `cursor`, `batch`, `looked`, `woken`, `orphan` | a consumer inside `iter_sse_events` and `wait_for_events` |
| `delivered`, `lost`, `pruned` | history: events sent, rotated out, dropped with their buffer |

| Actions | Code |
|---|---|
| `Submit`, `Flag`, `Unflag`, `Finish`, `Clear` | the queue's changes of the record |
| `RecordEvent` (with `Rotated`, `Prune`) | `record_event` and `prune` |
| `Subscribe`, `ReadBacklog`, `Send`, `Resume` | `iter_sse_events`: the backlog and its entries |
| `AskBackend`, `AskFails`, `Park`, `WakeUp` | `wait_for_events`: the look at the record, the wait, the second look |

Run `event_streams`: two jobs, one of them followed by one stream, buffers of 2 entries,
1 buffered job, 4 events a job: a full buffer rotates twice, and the other job's events
prune the followed job's buffer under its consumer. One stream is enough because
consumers share nothing they write but `done` and the Event, and a wake-up that another
consumer clears is the same as one that was never set.

- `InOrder`: no event is sent twice or late, whatever rotates or is pruned.
- `NoGap`: without a prune, an event is sent, still to come, or was rotated out.
- `StreamEnds`: the stream of a terminal job ends.

Fairness: a consumer's ready task runs and its wait ends after two seconds (`WF`); a
backend asked again and again answers at some time (`SF` on `AskBackend`).

### `ProgressChannels`: tokens, sockets, relay

In Redis mode each process publishes its frames, and each runs a relay that fans the
frames out to its own sockets and turns terminal ones into events. One job of one
worker, and one channel.

| Variables | Code |
|---|---|
| `channel`, `relay`, `inbox`, `others` | the channel's record, `_pubsub_task`, frames under way in Pub/Sub; a bound |
| `stage`, `verdict` | the worker in `_broadcast_terminal_frame` |
| `registry`, `counts`, `cancelled`, `localJobs`, `emitted`, `bus` | `_connections`, `_frame_counts`, `_cancelled`, the two tracking sets, and what the relay emitted |
| `ws`, `home`, `watched`, `failing`, `accepted`, `got` | the WebSocket handlers of the progress router |

| Actions | Code |
|---|---|
| `Tick`, `Conclude`, `TellJob`, `TellChan` | the worker's progress and its terminal frame, published under two ids |
| `RelayStarts`, `Relay`, `RelayDies` | `open` and `_run_redis_pubsub` |
| `Connect`, `Refuse`, `ConsumeToken`, `WatchRead`, `WatchExec`, `ExpireChannel` | the handshake; `consume_channel` by script or by WATCH |
| `Ping`, `WsCancel`, `HttpCancel` (`CancelChannel`), `Disconnect`, `ForeignDone` | the socket's loop, `cancel`, `detach`, the failed send on another loop |

Run `progress_relay`: one API process and the worker, two handshakes for the same token,
one of them on another event loop, a cap of 2 frames, one ping or cancellation. The
worker's process relays as well, so two processes hear the same frames.

- `RelayedOnce`: each process tells its bus of the job once, the worker's own not at all,
  and tells the worker's verdict.
- `VerdictArrives`: a verdict under way to a subscribed process reaches its bus, unless
  the relay dies. Nothing restarts a relay: its clients rely on their polls.

Fairness: the worker's code and a subscribed relay run on.

## 6. Reading a document: `ModelCalls`, `PageWorkflow`, `Aligner`, `Chunker`

### `ModelCalls`: retries and the circuit breaker

| Variables | Code |
|---|---|
| `endpoint` | the model server, well or ill |
| `failures`, `phase` | `_consecutive_failures`; the `state` property of `CircuitBreaker` (the clock reduced to whether the cooldown is over) |
| `calls` | where each task is in `ChatClient.chat` and in a page or crop pass |
| `probing`, `cancels` | history: calls let by while half-open; a bound |

`FailFast`, `Send`, `Succeed`, `Fail`, `Wake` and `Cancel` are the steps of `chat` between
awaits, `Begin` starts the next page or crop, `Corrected`/`Reading`/`Answered` decide what
a pass makes of two replies, `RecordSuccess`/`RecordFailure`/`Cooldown` are the breaker.

Run `model_calls`: two callers, a threshold of 2, 2 retries, one cancellation.
`Recovers`: if the server is well from some time on, the circuit is closed from some time
on, although answers of calls made before an opening are counted after it. Fairness: the
clock runs, a call ends by its timeout, and there is another page to read.

### `PageWorkflow`: one run of the hybrid engine

| Variables | Code |
|---|---|
| `phase`, `options`, `local`, `dense`, `text`, `failed`, `outcome` | the run: `execute`, its options, its pages, `last_failed_pages` |
| `asked`, `ext` | `cancel_check()` answers yes; the awaiting task was cancelled |
| `at`, `result`, `got`, `attempt`, `box` | the tasks of the current group, the crops of a dense page |
| `told`, `inbox`, `body`, `errors`, `aborting` | the `TaskGroup`: its callbacks and its body |
| `broke`, `late` | history: pages whose OCR failed of itself; a cancellation after the last gate |

| Actions | Code |
|---|---|
| `Convert`, `Layout`, `Finalize`, `Emit` | `_convert_pages`, `_detect_layout`, `_finalize`, `_emit` |
| `Admit`, `Read`, `Answer`, `ReadBox`, `AnswerBox`, `CloseBoxes` | `ocr_pages`, `ocr_per_box`; `refine_uncertain` |
| `Repair`, `Accepts` | `repair_page`, `repair_single_page` |
| `Hear`, `Take`, `Handled`, `Leave`, `Exit`, `DropRefined`, `Unwrapped` | the group and its body in the three phases |
| `Ask`, `CancelTask` | the two ways to cancel |

The grounded engine is not modelled: one pass, page after page, without a group.

- `FailuresReported`: a run that succeeds reports exactly the pages whose OCR failed.
- `CancelWins`: a run cancelled before its last gate does not succeed.
- `NothingOutlives`: no call is in flight after its phase.
- `TextNeverWorsens`: no step of refine or repair replaces a text by one the heuristic
  trusts less; but refine's end (`DropRefined`, `_drop_refined_duplicates`) may empty again
  the blocks that were empty when the phase began. The neighbours a refined text is compared
  with are the blocks of its page that the model does not have, so any of them may match.
- `RunEnds`: the two semaphores never block each other for good.

### `Aligner` and `Chunker`

Pure functions, as operators. `Aligner` is `align_text`: `RowMajor` and `Columns` (with
`Gutter`, split at most `Depth` times) are the two reading orders, `MatchCost` and `Costs` the
costs, `Table` and `NextRow` the table `dp`, `Matches` the walk back through it step by step
(`Back`), `Homes` the replay that gives skipped lines a box, `Cheaper` the choice of the order,
`Texts` what each box gets (`Among`, of `Filters`, which `EventStream` uses too), `Degenerate`
the full-page fallback. Costs are whole parts of `Unit`, where the code has floats: only
comparisons matter, and ties are broken as in the code.
`Chunker` is `SectionAwareChunker`: `Elements` collects the tree, `NewPath` keeps the
section, `TableChunks` splits tables by rows (`Parts`, `AddRow`), `AddProse` with `Overlap` and `Alone` fills
the accumulator, `Flush` empties it; a text is its length.

- `TextAligned`: in one of the two orders the boxes hold every line once and in order
  (`IsWhole`), and no other matching, in either order, is cheaper (`IsCheapest`): the
  reference is every increasing function from the lines to the boxes, 0 for a line that is
  skipped (`Matchings`), with what it costs (`CostOf`).
- `ChunksWhole`: the chunks are made of every element that has a content and of no other;
  those that a chunk does not repeat come after all that earlier chunks have, and the parts of
  a table are its rows, each once (`Complete`); nothing that could be divided is longer than
  the limit, what a chunk repeats is its front, within the overlap's limit and never all of it
  (`Bounded`); each block lies in the chunk of its own section (`OneSection`).

### The run `page_workflow`

`MCPages` extends `PageWorkflow` and instantiates the two algorithms, whose inputs are
initial states without successors. Bounds: two pages of two crops each, concurrency 2 (1
for a local server, which the code clamps), 2 repair attempts: two tasks of a group are
enough for one to fail between the other's end and its callback. Sheets: every subset of
up to 5 of 7 boxes (a title, two columns, a page number) with up to 3 lines of 1, 4 or 12
characters; in these the column order wins, lines and boxes are skipped, and the
single-line fallback happens. The other fallback, no match at all, cannot happen with the
code's costs: skipping a line and a box costs 1.4, and a match less than 1. Trees:
sequences of up to 3 of 9 elements (headers of two levels, empty, short, long and oversized
prose, prose with a hierarchy of its own, a figure, a table that splits) and of up to 5 of a
header and two short texts, limit 8, overlap 4: a full chunk, an overlap behind it and a
header before or after need four. Fairness: the event loop runs what can run; calls are answered or time out.

## 7. The plugin tree and the store: `Harness`, `StateBackends`

### `Harness`

| Variables | Code |
|---|---|
| `rows`, `boot`, `at`, `applying` | the merged rows, the lifespan, the plugin being applied |
| `mounted`, `bucket`, `services`, `handlers`, `cleanups` | `_plugin_order`, `_plugin_effects` and the tables of `Context` |
| `reversing` | the rollback or unload under way |
| `prune`, `open` | the prune loop; the state backend |
| `lost`, `faults` | history: registrations a raising cleanup left; a bound |

| Actions | Code |
|---|---|
| `RejectRow`, `MountRow`, `Ready` | `Loader`, `load`, `lifespan` |
| `Register`, `Applied`, `ApplyFails`, `Interrupted` | an `apply`, one registration at a time |
| `ReverseOne`, `CleanupRaises`, `RolledBack` | `_reverse`, the rollback in `plugin` |
| `Dispose`, `Unload`, `Unloaded`, `Disposed` | `dispose`, `unload` |
| `PruneStart`, `PruneEnd` | `cleanup_loop`, `prune_once` |

Run `harness_tree`: the plugins of `resources/cordis.yml` that have effects and one that
has none, with three patch outcomes (none, a row replaced and a plugin added that claims
a taken service), and two steps that raise.

- `Accounted`: the tables hold exactly what some list has still to reverse, or what a
  raising cleanup dropped: nothing outlives its plugin, nothing is taken from another.
- `DependenciesOutlive`: while a plugin has an effect outstanding, the services that were
  there when it was mounted are registered and the backend is open.

The last call of `unload`, `Plugin.dispose` (`context.py:232`), does nothing: no plugin overrides
it, so it is no step of the model.

### `StateBackends`

| Variables | Code |
|---|---|
| `backend`, `lock` | memory, SQLite or Redis; `_lock` |
| `call` | where each caller is, or the thread a cancelled caller left behind |
| `written`, `durable`, `blob` | rows (keys), what a crash leaves of them, files (values) |
| `pruning`, `expired` | `cleanup_loop` runs; what is past its TTL |
| `told`, `admitted`, `mishaps`, `cancels` | history and bounds |

`Put`, `Get`, `Consume` and `Prune` begin a call; `WriteBlob`, `WriteRow`, `SetBlob`,
`SelectRow`, `ReadBlob`, `SelectExpired`, `Unlink`, `SelectChannel`, `Mark`, `Script`,
`Watch`, `Exec`, `CommitCall` and `Answer` are its steps in the backend that has them;
`Fails`, `Cancel`, `Crash`, `Expire` and `BlobExpires` are what may happen in between.

Run `state_backends`: 2 artifacts, 1 channel, 2 clients and the prune loop, one mishap (a
failed write, commit or unlink, a lost reply, a crash) and one cancelled caller; each of
the three backends.

- `KeptUntilGone`: an artifact whose put returned is there, whole, until it expires.
- `AdmittedOnce`: a token is accepted once.
- `BlobsReclaimed`: while nothing goes wrong and the prune loop runs, expired bytes are
  removed, also those of a put whose caller was cancelled. It claims nothing after a prune
  pass is cancelled, which ends the loop (`pruning`), nor after a mishap; a failing INSERT,
  DELETE or UPDATE is not among the mishaps, a failing commit is.

Fairness: calls go on, Redis drops what has expired, and the prune loop gets the lock that
`asyncio.Lock` serves in order (`SF`). Not modelled: `delete_artifact`, `delete_channel`
and `clear_jobs`, which nothing calls, `aclose` under a running thread, and an unlink
between `is_file` and the read of a blob. A crash after the file and before the row leaves
a file that no prune pass finds.

## 8. Translation: `Translation`, `BestAttempt`

`BestAttempt` promises, of one piece of text: boundedly many attempts, then the best of
those the judge scored, or an unscored one where it scored none, and a failure only when
there was nothing to return (or, for the queued job, when a later call fails).  An attempt
may be `blank`: the sync loop compares scores first and looks whether the best has a text
afterwards (`if best`), so a blank best leaves it the last reply, or the failure.
`Translation` has the three loops that do it: `translate_text` of the sync endpoint, the
LangGraph nodes of a graph run, and the blocks of `translate_tree`.

| Variables | Code |
|---|---|
| `kind`, `key`, `evaluate`, `dual` | the request and its options |
| `at`, `piece`, `attempts`, `said`, `judged` | where the request is; its chunk or block |
| `texts`, `scores`, `best` | its attempts, and the best so far |
| `answer`, `out` | what was chosen for the piece; the document so far |
| `cache` | `_translation_cache` |

`Start` and `Put` are the cache, `Reply` and `Second` the calls (`_translate_once`,
`translate_node`), `Judge` the verdict, `DecideSync`, `DecideGraph` and `DecideTree` the ends
of an attempt, `NextPiece` the walk over chunks or blocks.

Run `translation_loops`: two requests (any kind beside a sync one: they meet in the cache
only), 3 attempts, scores 0 to 2 with 2 accepted, 2 pieces of which one is too short to be
judged, a cache of 1. The judge may give any score to any translation, an empty one a high
score and a faithful one 0 (`parse_evaluation_response` only clamps it). The two keys are
symmetric.

- `KeepsPromise`: each loop implements `BestAttempt` (a refinement: `tried` are the
  scores of the attempts, `blank` the sync loop's empty ones). To the graph a score of 0 is
  none: `evaluate_node` keeps an attempt that beats 0.0, so that one scored 0 is never kept,
  and the run may fail with it in hand.
- `DocumentWhole`: a graph run that returns has text for every chunk.
- `CacheHoldsFinished`: no stopgap of an outage stays in the cache.

Every call returns or raises (`WF`); no liveness is claimed. Not modelled: the text
chunker, NLLB, coordinates, entity memory. The queued job's life is that of any job.

## 9. The glossary library: `Lexicon`

| Variables | Code |
|---|---|
| `table`, `lance` | the rows of the LanceDB table `terms`, in its latest version; the directory exists |
| `view` | the version each process has open |
| `op` | what each process is in the middle of |
| `files` | the legacy files still in place |
| `planned`, `saved`, `overlapped`, `begun`, `faults` | history and bounds |

| Actions | Code |
|---|---|
| `OpenStore` | `LexiconProvider.get` |
| `Import`, `Clear`, `Add` | `save_glossary`: the match by name, the delete, the append |
| `Toggle`, `Update`, `Fallback`, `AppendCopy`, `Drop` | `toggle_glossary` and its fallback; `delete_glossary` |
| `Reorder`, `Rank`, `Delete` | `reorder_glossaries`, `delete` |
| `Migrate`, `MigrateNext`, `MoveLegacy`, `Abandon` | `run_migration`; any operation that fails or dies |

A call on the table is atomic; operations of one process never interleave, since they never
await. One process migrates. The connection is opened without a read-consistency interval
(`lancedb_store.py:170`) and the opened table is kept: a call looks at the version the
process opened or last wrote, or at the latest (`Versions`; it may have been reopened in
between). A commit goes on top of the latest version: an append always, an update or a
delete with the rows it found in its own version, unless another commit has changed one of
these; LanceDB then refuses it or makes it again on the latest version (`Finds`,
`Abandon`). Rows another process appended since are therefore missed. What LanceDB does is
external, and taken from how the store uses it.

`run_migration` saves each legacy glossary by its id and matches no name: `NameOf` may give
two ids one name, and the instance does. The ids of the library are taken as distinct.

Run `glossary_library` (`MCLexicon`): two names with two terms each, two legacy glossaries
of one name, three servers and the migration, 3 operations, 2 failures. Servers and terms
are symmetric. Three operations are enough for a stale import, deletion or toggle between
two imports, and for a migration before a reordering and an import.

- `WholeImports`: whatever overlaps or fails, and however old the versions the calls find
  their rows in, each copy of a save is there with all its terms, agreeing on flag and
  priority.
- `OneIdPerName`: as long as no process wrote between what another looked at and its last
  write, only names that the legacy library had twice are there twice. `overlapped` records
  such a write, an operation that looks at an old version included: in both cases a name
  does get a second glossary (section 12).
- `MovedWhenSaved`: the legacy library leaves its place only when all of it was saved.

Not modelled: the parsers, retrieval scores, the creation of the tables, `fingerprint()`,
the verification and dry run of the migration. A migration that failed is refused from
then on, since its directory exists; `tests/core/lexicon/test_lexicon_migration.py` states
the refusal. `reorder` checks that every id is known but not, as its route's docstring
says, that none is missing.

## 10. The Flutter client: `JobOrchestration`

`JobOrchestrationNotifier` and `WsClient`: runs the user starts, cancels and replaces, the
progress socket with its reconnection, and the poll of the job's status.

| Variables | Code |
|---|---|
| `started`, `kind`, `current` | what the user did; the run of `_runEpoch` |
| `processing`, `stage`, `shownChan`, `activeJob` | `JobOrchestrationState` |
| `pages`, `blocks` | the runs whose result the document shows, and those a block of which it shows |
| `lastChan`, `lastTok`, `sub`, `closedSub` | the notifier's channel and subscriptions |
| `poll`, `checking`, `failures`, `run`, `check`, `cancel` | its timer, and where its futures are |
| `socket`, `sock`, `heard`, `target`, `manual`, `redial`, `attempts`, `up` | `WsClient` |
| `strays` | history: the channels whose socket was left open when another was dialled |
| `sessions`, `used`, `attached`, `inbox`, `posts`, `asked`, `job` | the server, as far as the client can tell |
| `unheard` | history: the jobs of which a request to stop was lost |

`Start`, `Opened`, `Connected`, `Accepted` and their failures are `processOcrAsync`;
`Answer`, `HydrateSync` are `processOcrSync`; `PollFires`, `StatusAnswer`, `CheckFails`,
`Downloaded`, `HydrateAsync` are `_scheduleStatusCheck` and `_checkJobStatus`; `Cancel`,
`CancelAsked`, `CancelEnds` are `cancelOcr`, `Reset` is `reset`; `DialReady`, `DialFails`,
`Redial`, `Closed`, `Unanswered`, `Deliver` are the socket; `BlockSent`, `JobEnds`, `Posted`
the server. A frame is `connected`, `cancelled` or `block`: a block (`BlockCompleteFrame`,
`BlockRevisedFrame`) is written into the document whichever channel it came over. A request
to stop a job or a channel may be lost, and the client swallows the failure: `PostLost`, the
faults of `Accepted` and `CancelAsked`. Acceptance sets `isProcessing` again, so it resumes a
run that a frame had ended.

Run `client_runs`: two runs, one upset (a lost request or dial, a lost request to stop, a
dropped socket, another document) which may happen to the first, one tolerated status
failure, one reconnection; blocks of the first run (`Seen`), the only older one.

- `PagesOfThisRun`: the document shows the result of no run but the current one, and blocks
  only of the last run or of one whose socket was left open when another was dialled.
- `PollKeepsGoing`: an accepted run always has its next look at the status due, also one
  that a frame had ended before its job was accepted.
- `LiveRunStaysConnected`: an older run's end does not switch off a newer run's socket.
- `NoRunaway`: once the requests have ended, a job nobody follows was asked to stop, unless
  a request to stop it was lost, or a run was told something by another run's socket
  (`mixed`, a history variable; section 12 says how the job is then left running).

Safety only. Not modelled: `_disposeTeardown`, the sample document, a second dial of a
channel whose first is pending, display values and warnings.

## 11. Proofs

### `RedisJobsProofs`

For any sets of jobs and workers, any `MaxRetries` and any bounds (assumptions:
`MaxRetriesAssumption`, `BoundsAssumption`, `OwnersAssumption`).

- `TypeCorrect`: `Spec => []TypeOK`. Inductive invariant `IType`: the types, and that a
  worker past its claim has a job, one past the runner a terminal verdict.
- `HolderUnique`: `Spec => []OneHolder`. Inductive: `Hold`, which adds to `IType` and
  `OneHolder` that what is pending or claimed was submitted (`Entry`). Three frame
  lemmas carry the argument: a worker moves, erases a claim, or requeues a job.
- `OneVerdict`: `Spec => []SingleVerdict`. Inductive: `Fenced`, which adds to `Hold` that
  a worker about to announce is alone with its retired job and nothing has been told
  yet. A step either starts no announcement, retires a job, or announces;
  `Flow` (a retired job stays so, jobs enter by the queue) is proved for every step.
- `ImplementsLifecycle`: `Spec => RefinesLifecycle`, the refinement of `JobLifecycle`
  with `stage`, `announced` and `withdrawn` computed from the keys, the history and the
  cancel requests: from `Hold`, `Flow` and `Fenced`; only `CancelWrite` withdraws
  (`WithdrawStep`).
- `OutcomeKept`: `Spec => []RetiredHasOutcome`, with no further assumption: any number of
  loops and cancellations. Inductive with `Hold`: `Outcome`. A job is *calm* while no two
  loops had it and nobody cancels it. Of the loop that has a calm job the invariant says at
  each step where the job is and what its record may say (`Placed`), that loops with the
  same job have marked it as overlapped (`Marked`, `Apart`), and of every calm job that left
  the queue that it has its record or is about to get it (`Settled`).

### `InMemoryJobsProofs`

For any set of jobs and any bounds (assumptions: `BoundsAssumption`, `JobsAssumption`).

- `TypeCorrect`: `Spec => []TypeOK`.
- `NeverStranded`: `Spec => []NoStranded`; `CompletionKept`: `Spec =>
  []CompletionStands`; `CancellationKept`: `Spec => []QueuedCancelWins`.

The three rest on one inductive invariant, `Inv`, which adds to `TypeOK`:

- `Process`: the worker runs only while the service is up, a write outlives its task only
  across a shutdown, and a booting process has an empty queue. Without it an old write
  could reopen a record after the boot closed it.
- `Once`: a job is in the queue once, and not while the worker has it; nothing is known of
  a job that was not submitted. Otherwise a second execution could add a second verdict.
- `Closing`: during the sweep of a boot every live row is on its page, which gives
  `NoStranded` when the service comes up; and a record that the worker found closed stays
  closed until its upsert.
- `Outcomes`: what is kept of each job that was not cleared. A job whose cancellation read
  `queued` is in the cancelled set until the worker has looked, and neither the worker
  nor a late write completes it (`Stopped`); a completed job is out of the queue, the
  worker, the sweeps and the late writes; a verdict told of a job still under way is that
  of its cancellation.

A frame lemma (`KeptOther`) covers the jobs a step leaves alone; `OutcomesAPI`,
`OutcomesWork` and `OutcomesProcess` then take the actions one by one.

- `NoUploadLeft`: `Spec => []SpoolDrained`. Inductive: `Spool`, that a bound which was
  spent stays spent and that `Quiet` holds as long as none was. `Quiet` says whom each
  upload waits for: a queued job that nobody has cancelled, or the running one
  (`Awaiting`). A cancellation about to write is excluded, since it has already removed
  the upload: `SpoolDrained` alone does not survive the step that takes such a job.

### `LexiconProofs`

For any names, terms, servers and bounds. The first theorem uses no assumption on the
constants; the others use `LexiconAssumption`.

- `NoHalfImports`: `Spec => []WholeImports`. Inductive: `WInv`, that the table is whole and
  so are every version a process has open and the rows any operation carries.
  `WholeImports` alone is not inductive: a toggle that fell back appends what it read
  earlier, a stale call changes the rows it finds in an old version, and the table may have
  changed since. A set
  of rows is `Whole` if each row is a record and its siblings, which differ in the term
  only, are there too. One lemma per call says it keeps a set whole: the deletion of a
  glossary, the append of an import or of a copy, the update of a flag or a priority; one
  per kind of step carries that through `Next`.
- `NamesUnique`: `Spec => []OneIdPerName`, and `LibraryKept`: `Spec => []MovedWhenSaved`.
  Inductive: `OInv`, which adds to `WInv` what an operation saw of the table and relies on
  later. `Replaced`: without overlap a save has matched every row of its name that is not
  of the legacy library, and a copy about to be appended is of rows still there. `Moved`: what was planned and not saved is
  left to the migration. `Unopened`: a process that has not opened the store is idle.

### `PageWorkflowProofs`

For any pages, crops, readings, concurrency and number of attempts (assumptions:
`ConcurrencyAssumption`, `PagesAssumption`: a page is not one of the marks of the group's
state, `ReadingsAssumption`).

- `TypeCorrect`: `Spec => []TypeOK`, which includes that a task has a result exactly when
  it is closed.
- `CancellationWins`: `Spec => []CancelWins`, and `PhasesClean`: `Spec =>
  []NothingOutlives`, from the inductive `CInv`: a cancellation from outside never leaves the
  fan-out it came in but for the run's end, and a phase without a fan-out has no open task.
- `FailuresNotLost`: `Spec => []FailuresReported`, from the inductive `FInv`: as long as
  nothing aborts the group, a page that broke and is not yet among the failed ones has a
  task whose callback is to come, waits in the inbox, or is what the body has taken
  (`Held`), and the body leaves a group that was not aborted when it was told of all
  (`Stopped`).
- `TextsImprove`: `Spec => TextNeverWorsens`, an action property, from the inductive
  `XInv`: a refined block stays empty until the body takes its task, which it does once.

The second half of the module is about `EventStream`, for any jobs, streams and bounds
(assumptions: `LimitsAssumption`, `JobsAssumption`). The names of the two modules are
distinct (`StreamInit`, `eventVars`, ...), so that one module of proofs extends both.
Inductive invariant: `StreamInv`.

- `StreamTypes`: what the proof needs of the types; `Following`: a stream that was not
  started holds nothing, and a batch is being sent until it is empty.
- `Recorded`: along a buffer numbers and events rise (`Rising`), and its events have been
  recorded; as long as it is not pruned its numbers count the events, and each event is in it
  or lost (`Whole`).
- `Sorted`: what a stream has sent comes before its batch, which rises and lies beyond its
  cursor. `Behind`: both come before what the buffer holds beyond them. A prune starts the
  numbers again at 1 while the events go on, so this is about numbers and events together.
- `Gapless`, of a job that was not pruned: up to its cursor a stream has sent whatever is not
  lost, and its batch has no holes.

- `StreamsInOrder`: `StreamSpec => []InOrder`; `StreamsNoGap`: `StreamSpec => []NoGap`.

What a filter selects (`Among`, a recursive function) is proved by induction over the length
of its argument. The library's induction theorems take an operator as a parameter, so the
induction is over a set of numbers: a set that is not empty has a least element
(`LeastNumber`, from `WFMin` of `WellFoundedInduction`), hence a set of naturals with 0 and
with each successor has them all (`Induction`). `UnrolledExists` gives the recursive
function its values the same way, `Picks` the subsequence it selects.

The third part is about `Aligner`, for any boxes (`Detections`: whole corners and a positive
area, which is what the detection lets through), any number of them and of lines that are not
empty, and any scale (assumption: `ScaleAssumption`).

- `LayersAligned`: `align_text` keeps every line, in its order, and takes a cheapest placement;
  `TextsAligned`: `MCSpec => []TextAligned`, for the pages the run starts from.

The argument goes along the code. `Cells`: the equations of the table, from its recursive
functions. `NoneCheaper`: no placement of the first lines in the first boxes costs less than
their cell, by induction on the lines and, within a row, on the boxes (`BoundStep`: the last
line is skipped, or lies in the last box, or the last box is empty). `Walked`: the walk back
ends with a placement of that cost. Its invariant, `Ends`, says what the tail found so far is
worth: whatever places the first `i` lines in the first `j` boxes, followed by the tail, is a
placement of all lines and costs what it did plus `dp[N][M] - dp[i][j]`; each of the three steps
keeps it (`MatchedBack`, `SkippedBack`, `PassedBack`), and each brings the walk nearer to
the corner. `Orders`: sorting by a key puts every box at its own rank, so both orders are
permutations; splitting into columns keeps them so, by induction on the depth. `HomesRise`: a
skipped line goes to the nearest matched line before it, so the boxes of the lines never fall;
hence `TextsRead`: read in the order that was chosen, the boxes give the lines as they came.

The last part is about `Chunker`, for any elements (`Nodes`), any tables and any two limits;
nothing is assumed of the limits.

- `ChunksOfAll`: the chunks are the whole document, in its order, within their bounds and
  sections; `DocumentsChunked`: `MCSpec => []ChunksWhole`, for the documents the run starts from.

Unrolling the walk (`ChunkingSteps`) gives a state after each element, and `Sound` is its
invariant: each chunk so far is fit for those before it (`Fit`: it rises, comes after them but
for an overlap at its front, is of one section and no longer than it may be), the accumulated
blocks would be such a chunk, both together are made of all the contents so far, and each
table so far has its rows. That the accumulator is a fit chunk at every moment is what a proof
needs beyond the property: a flush may come at any element. Each way to take an element keeps
it: `Flushed`, `Repathed`, `Skipped`, `AloneKeeps`, `RoomLeft`, `Restarted` (the overlap is a
suffix of what was flushed, so it is old and no longer than allowed, and the new block makes
the chunk bring something), `Unaccumulated`. `PartsDivided` is the same for the rows of a
table, by induction over the rows.

### `StateBackendsProofs`

For any artifacts, channels and clients and any number of mishaps and cancellations
(assumption: `ConstantsAssumption`). Inductive invariant: `SInv`. For each call it says what
the place it has reached implies (`Local`): a put past its blob has a whole blob, past its
row a row, and a consumption that found its token found it unmarked. `Alone`: a caller who
still waits holds the lock, which a thread left behind does not; `Single`: no two callers
are about to be admitted by one token. `Books` is what holds outside of calls.

- `TypesOfTheStore`: `Spec => []TypeOK`.
- `ArtifactsKept`: `Spec => []KeptUntilGone`; `TokensOnce`: `Spec => []AdmittedOnce`. A step
  is one of a call that goes on, and leaves the others' places; a step of time; or a crash.

The last section is about `ProgressChannels`, for any processes, sockets and outcomes
(assumptions: `ServicesAssumption`, `IdsAssumption`).

- `VerdictRelayedOnce`: `ProgressSpec => []RelayedOnce`. Inductive: `Heard`, which adds that a
  frame about the job is the worker's own and tells its verdict (`Mail`), and that a process
  whose bus was told of the job remembers it, as the worker remembers its own (`Memory`).

### `TranslationProofs`

For any requests, keys, pieces, attempts and scores (assumptions: `LoopsAssumption`,
`MarksAssumption`: the marks for no score and for no answer are none of the numbers).
Inductive invariant: `TInv`. It ties the attempts to their scores (`Counted`), says what each
step of a loop has in hand (`Placed`), that `best` is a best scored attempt, or none when no
score counts (`Graded`), that a
graph run judges no empty text and goes on from no attempt it could accept (`Screened`), and
what it has written (`Written`); an entry of the cache is of a request that did not fail.

- `DocumentsWhole`: `Spec => []DocumentWhole`; `CacheSound`: `Spec => []CacheHoldsFinished`.
- `LoopsKeepPromise`: `Spec => KeepsPromise`, the refinement of `BestAttempt` with the scores
  of the watched request's attempts as `tried` (`View` hides a graph's score of 0) and the
  empty attempts of a sync request as `blank` (`Empties`): every reply is an `Attempt`, every verdict a `Judge` or a stutter, every decision a
  `Settle`, a `GiveUp` or a stutter, and the walk to the next piece a `NextPiece`.

### `HarnessProofs`

For any plugins, whatever each registers, any patches and any number of steps that raise
(assumptions: `NoneAssumption`, `ProgramAssumption`, `EffectsAssumption`, and `RowsAssumption`:
the tree and the patches are lists of plugins). That merging them gives a list of plugins too
(`MergedType`) is proved by induction over the rows of the patch. Inductive invariant: `HInv`.

- `Order`: what is mounted is a prefix of the rows without repetitions.
- `Stages`: which plugin a rollback or an unload is about, and how far the boot is.
- `Lists`: each list holds the first registrations of its plugin, in order, and only the
  last plugin mounted may lack some.
- `Tables`: `Accounted`, with one case the property leaves out: an entry that no list knows
  is not in the handlers either; and the backend is open while its closer is to be called.

`Accounted` alone is not inductive: that a reversal takes the right entry off needs to know
that the lists do not share a registration. `list.remove` takes off the first equal entry;
that the others keep their number is a bijection between the places before and after.

- `TablesAccounted`: `Spec => []Accounted`.
- `DependenciesKept`: `Spec => []DependenciesOutlive`. The plugins in the rows before one with
  an effect outstanding are mounted and whole (`BelowIsWhole`), so their services are live.

### `JobOrchestrationProofs`

For any number of runs, upsets, status failures and reconnections, and whichever runs are
unlucky (assumption: `BoundsAssumption`). Inductive invariants: `JInv`, about the current run
and about those that were left, and on top of it `BInv`, about the sockets that are heard.

- `Fresh`, `Way`: a run that was not started has left no trace, and how far a run is tells
  whether it has a session and whether anybody subscribed for it.
- `Shown`, `Checked`, `Live`: what is displayed, looked at and dialled is the current run's,
  also while its submission is under way and a frame may already have ended it.
- `Tokens`, `Told`: a cancellation holds the token of a run that has been left, and only a
  channel that was cancelled announces it.
- `Owned`: the job of a run that has been left was asked to stop, or a request was lost, or
  it will be asked, or needs not.
- `Lines`, `Latest`, `Read` (`BInv`): a socket that is dialled or admitted is the wanted one or
  a stray, the wanted one is the last run's once somebody listens for it, and so are blocks.

From it `TypeCorrect`, `PagesOwned` (`PagesOfThisRun`), `PollNeverStops` (`PollKeepsGoing`),
`ConnectionKept` (`LiveRunStaysConnected`) and `NoneRunsAway` (`NoRunaway`). The steps of the
connection share a frame lemma: a teardown touches the socket and the mailboxes only.

### Only model-checked

- Liveness (`EveryJobRetires`, `EveryJobSettles`, `StreamEnds`, `VerdictArrives`, `Recovers`,
  `RunEnds`, `BlobsReclaimed`): out of the prover's reach.
- `PendingHasPayload`, which holds without clears only.


## 12. Known divergences

Formulas that state what a document, a comment or a test of the repository says and that
the code does not keep. Each has a small instance; `tlc -config <cfg> <module>` shows the
behaviour.

| Formula | Instance (module) | Said by | What happens |
|---|---|---|---|
| `CancellationKept` | `RedisJobs_cancel_overwritten.cfg` (`MCRedisJobs`) | ARCHITECTURE.md:903, worker.py:325 | check-then-upsert: `complete` over a persisted `cancelled` |
| `AckFindsTerminalRecord` | `RedisJobs_ack_not_terminal.cfg` (`MCRedisJobs`) | ARCHITECTURE.md:903 | another worker's stale upsert lands before the acknowledgement |
| `AckedCancelEnds` | `RedisJobs_cancel_lost.cfg` (`MCRedisJobs`) | ARCHITECTURE.md:894-896 | the worker of a cancelled job crashes: its record stays non-terminal |
| `EvictedEndsInError` | `RedisJobs_evicted.cfg` (`MCRedisJobs`) | plugins/jobs_redis.py:1053 | the script evicts first: a crash before the upsert leaves a record that says running for ever |
| `LateWorkerSparesClaim` | `RedisJobs_late_worker.cfg` (`MCRedisJobs`) | tests/plugins/test_jobs_redis.py:428 | the unowned `complete` of a late worker removes a newer claim |
| `DrainKeepsInput` | `RedisJobs_drain_input.cfg` (`MCRedisJobs`) | ARCHITECTURE.md:902 | a drain after the runner returned requeues a job without its input |
| `ClearSparesActive` | `InMemoryJobs_clear_active.cfg` (`InMemoryJobs`) | plugins/jobs.py:436 | the worker upserts `running` over a row `clear` has listed; an active job is deleted |
| `RunningCancelWins` | `InMemoryJobs_cancel_running.cfg` (`InMemoryJobs`) | ARCHITECTURE.md:895-896 | a cancel after the runner returned is answered True and the job completes |
| `ShutdownCleansInput` | `InMemoryJobs_shutdown_input.cfg` (`InMemoryJobs`) | CHANGELOG.md:78 | the upload of a job running at shutdown stays in the spool |
| `EndsComplete` | `EventStream_ends_complete.cfg` (`EventStream`) | the docstring of `iter_sse_events` | an event recorded while the backlog is sent can end the stream unsent |
| `SingleProbe` | `ModelCalls_single_probe.cfg` (`ModelCalls`) | the docstring of `CircuitBreaker` | every caller passes a half-open breaker |
| `SignalsStayBare` | `PageWorkflow_signals.cfg` (`PageWorkflow`) | tests/core/workflows/test_workflows_hybrid.py:647 | two kinds of control signals leave as a group |
| `EveryRegistrationReversed` | `Harness_reversed.cfg` (`MCHarness`) | the docstring of `Context.unload` | a cleanup that raises drops the rest of the list |
| `ToggleKeepsRows` | `Lexicon_toggle.cfg` (`MCLexicon`) | core/lexicon/lancedb_store.py:516 | the fallback deletes the copy it has appended with the original |
| `OneTextPerBox` | `Aligner_one_per_box.cfg` (`MCPages`) | core/aligner.py:307 | the full-page fallback returns one box |

Also met while modelling: `_performConnect` of the client sets its channel only when the
socket is ready (`ws_client.dart:94-114`), so `_cleanupChannel` does not close a socket that
is still being dialled, and `_applyWsFrame` does not compare a frame's channel with the
run's. With two dials pending, the text of the older run's blocks is written into the newer
run's document (lines 953-955, 995-999; `strays` in `PagesOfThisRun`); its `connected` frame
replaces the newer run's channel by the older one, so that a new document cancels the wrong
channel; and its `cancelled` frame ends the newer run although its job was accepted: after a
third start nobody asks that job to stop (`mixed` in `NoRunaway`). The client swallows the
failure of every request to stop (lines 375, 638-643, 838-854): the job then runs on
(`unheard`). `cancel()` of the Redis queue emits `JobCancelled` when the record it
read was queued (`jobs_redis.py:595`), and the worker that claimed the job meanwhile announces
its own verdict: two announcements, which `JobLifecycle` counts apart. The docstring of
`translate_text` says that the best-scoring attempt wins (`plugins/translate/service.py:154`):
where the judge scored an empty reply best, the last reply is returned, or the failure
raised, although another attempt with a text was scored (lines 225, 252); `BestAttempt` has
that case as `blank`. An import "replaces the glossary with the same (name, source_uri)
instead of duplicating" it (`lancedb_store.py:399`): not one that another process imported
after this one opened the table, since the import looks for the name in the version it has
open, nor one that another process imports meanwhile; `OneIdPerName` without `overlapped`
fails either way. And `run_migration` keeps two legacy glossaries of one name as two, of
which an import then replaces one (`migration.py:332-341`). Further: `min_chars` of the chunker is validated and used
nowhere; a header after a shallower path is appended whatever its level, so two headers of
one level can nest.

## 13. Not modelled

Components with status `not_modelled` in `PROJECT.json`, each with its reason: HTTP
middleware, providers, quality scoring, readers, writers, PDF and imaging, documents and
transcription, configuration and server assembly, evaluation scripts. In the modelled
components, beside what their sections name: the WATCH fallback of the claim, forged
payloads, Redis data loss, and an API process that dies between a job's record and its
queue entry, for which the code has no answer (Redis queue); two processes on one database,
against which the ownership lock is an assumption, and listeners of the emitted events
(in-process queue); detection and its retry (aligner); the page-range parser.

The share of the implementation that the map covers is small because most of its lines
convert: HTTP forms, PDF bytes, pixels, Markdown and HTML, prompts, settings and the
evaluation scripts have no state that two actors share and no order of steps to get wrong.
