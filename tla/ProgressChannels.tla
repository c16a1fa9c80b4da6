-------------------------- MODULE ProgressChannels --------------------------
(***************************************************************************)
(* The progress service of OmniScribe in Redis mode (plugins/progress.py): *)
(* every process publishes its frames on Redis Pub/Sub, every process runs *)
(* a relay that fans the frames out to its WebSockets and turns terminal   *)
(* frames into events of its own bus; a WebSocket is admitted by a token   *)
(* that can be consumed once (consume_channel of the state backend).       *)
(*                                                                         *)
(* One job, executed by Worker, and the progress channel Chan of its       *)
(* request.  Granularity: a broadcast (its publish and its local sends) is *)
(* one step; the consumption of a token is one step where the Lua script   *)
(* runs, two where the WATCH fallback does.                                *)
(***************************************************************************)
EXTENDS Naturals, Sequences, FiniteSets, SequencesExt

CONSTANTS
  Apis,       \* processes that serve WebSockets
  Worker,     \* the process that runs the job
  Conns,      \* WebSocket handshakes
  Foreign,    \* those accepted on another event loop
  Outcomes,   \* how the job may end
  Job, Chan,  \* the ids under which frames are published
  None,
  FrameCap,   \* frame_cap
  MaxFrames   \* bound: ticks, pings and cancellations

Services == Apis \cup {Worker}
Ids == {Job, Chan}
Verdicts == {"complete", "failed", "cancelled"}

ASSUME ServicesAssumption == Worker \notin Apis /\ None \notin Services \cup Ids
ASSUME IdsAssumption == Job # Chan /\ Outcomes \subseteq Verdicts
ASSUME LimitsAssumption == FrameCap \in Nat \ {0} /\ MaxFrames \in Nat

VARIABLES
  \* ---- the state backend and Redis ----
  channel,    \* the channel record: "open", "consumed", or expired
  relay,      \* _pubsub_task: not started, subscribed, or ended for good
  inbox,      \* frames on their way to each subscriber
  others,     \* number of ticks, pings and cancellations
  \* ---- the worker ----
  stage,      \* where _broadcast_terminal_frame is
  verdict,
  \* ---- per process ----
  registry,   \* _connections, for Chan
  counts,     \* _frame_counts, for Chan
  cancelled,  \* Chan is in _cancelled
  localJobs,  \* _local_terminal_jobs
  emitted,    \* _emitted_terminal_jobs
  bus,        \* history: the terminal events the relay emitted
  \* ---- the WebSocket handlers ----
  ws, home,
  watched,    \* what the WATCH fallback read
  failing,    \* sends on another loop that failed, not yet reported
  accepted,   \* history: connections whose token was accepted
  got         \* history: frames dispatched to each

redisVars  == <<channel, relay, inbox, others>>
workerVars == <<stage, verdict>>
localVars  == <<registry, counts, cancelled, localJobs, emitted, bus>>
wsVars     == <<ws, home, watched, failing, accepted, got>>
progressVars == <<redisVars, workerVars, localVars, wsVars>>

-----------------------------------------------------------------------------
\* key: frame.get("job_id") or channel_id; sender: _sender_id, if there is one.
Frame == [chan : Ids, key : Ids, kind : {"other"} \cup Verdicts,
          sender : {None} \cup Services]
Event == [key : Ids, kind : Verdicts]

ProgressTypeOK ==
  /\ channel \in {"open", "consumed", "expired"}
  /\ relay \in [Services -> {"off", "on", "dead"}]
  /\ inbox \in [Services -> Seq(Frame)] /\ others \in 0..MaxFrames
  /\ stage \in {"run", "toJob", "toChan", "told"}
  /\ verdict \in Verdicts \cup {None}
  /\ registry \in [Services -> SUBSET Conns]
  /\ counts \in [Services -> 0..FrameCap]
  /\ cancelled \in [Services -> BOOLEAN]
  /\ localJobs \in [Services -> SUBSET Ids] /\ emitted \in [Services -> SUBSET Ids]
  /\ bus \in [Services -> Seq(Event)]
  /\ ws \in [Conns -> {"away", "auth", "exec", "live", "closed"}]
  /\ home \in [Conns -> Apis \cup {None}]
  /\ watched \in [Conns -> {"open", None}]
  /\ failing \subseteq Foreign /\ accepted \subseteq Conns
  /\ got \in [Conns -> Nat]

ProgressInit ==
  /\ channel = "open" /\ relay = [s \in Services |-> "off"]
  /\ inbox = [s \in Services |-> <<>>] /\ others = 0
  /\ stage = "run" /\ verdict = None
  /\ registry = [s \in Services |-> {}] /\ counts = [s \in Services |-> 0]
  /\ cancelled = [s \in Services |-> FALSE]
  /\ localJobs = [s \in Services |-> {}] /\ emitted = [s \in Services |-> {}]
  /\ bus = [s \in Services |-> <<>>]
  /\ ws = [c \in Conns |-> "away"] /\ home = [c \in Conns |-> None]
  /\ watched = [c \in Conns |-> None] /\ failing = {}
  /\ accepted = {} /\ got = [c \in Conns |-> 0]

-----------------------------------------------------------------------------
(* broadcast.                                                              *)

\* publish reaches the subscribers there are.
Published(f) ==
  inbox' = [s \in Services |->
             IF relay[s] = "on" THEN Append(inbox[s], f) ELSE inbox[s]]

\* The sockets a frame is sent to: none beyond the cap.
Recipients(s, f, reg) ==
  IF f.chan = Chan /\ counts[s] < FrameCap THEN reg[s] ELSE {}

\* The local half: each send succeeds or fails; a failed one detaches the
\* socket, at once on this loop, through a callback on another.
FanOut(s, f, reg) ==
  LET to == Recipients(s, f, reg) IN
    \E bad \in SUBSET to :
      /\ registry' = [reg EXCEPT ![s] = @ \ (bad \ Foreign)]
      /\ failing' = failing \cup (bad \cap Foreign)
      /\ counts' = [counts EXCEPT ![s] = IF to = {} THEN @ ELSE @ + 1]
      /\ got' = [c \in Conns |-> IF c \in to \ (bad \ Foreign) THEN got[c] + 1
                                 ELSE got[c]]

\* A frame that s sends on Chan; the bound is on those sent again and again.
Broadcast(s, f, reg) == Published(f) /\ FanOut(s, f, reg)
Again(s, f) ==
  /\ others < MaxFrames /\ others' = others + 1
  /\ Broadcast(s, f, registry)

OnChan(kind) == [chan |-> Chan, key |-> Chan, kind |-> kind, sender |-> None]

-----------------------------------------------------------------------------
(* The worker.                                                             *)

\* emit_progress of the running job: the frame does not name the job.
Tick ==
  /\ stage = "run"
  /\ Again(Worker, OnChan("other"))
  /\ UNCHANGED <<channel, relay, workerVars, cancelled, localJobs, emitted, bus,
                 ws, home, watched, accepted>>

\* _broadcast_terminal_frame: the job is noted as this process's own, then the
\* frame goes to the job's id and to its channel.  A publish that raises is
\* swallowed by broadcast, so that the second way of publishing is not taken.
Conclude(v) ==
  /\ stage = "run"
  /\ stage' = "toJob" /\ verdict' = v
  /\ localJobs' = [localJobs EXCEPT ![Worker] = @ \cup {Job}]
  /\ UNCHANGED <<redisVars, registry, counts, cancelled, emitted, bus, wsVars>>

Tell(from, to, ch) ==
  /\ stage = from /\ stage' = to
  /\ \/ Published([chan |-> ch, key |-> Job, kind |-> verdict, sender |-> Worker])
     \/ UNCHANGED inbox
  /\ UNCHANGED <<channel, relay, others, verdict, localVars, wsVars>>
TellJob == Tell("toJob", "toChan", Job)
TellChan == Tell("toChan", "told", Chan)

-----------------------------------------------------------------------------
(* The relay of a process.                                                 *)

\* open(): the ping succeeded, the task subscribes.
RelayStarts(s) ==
  /\ relay[s] = "off"
  /\ relay' = [relay EXCEPT ![s] = "on"]
  /\ UNCHANGED <<channel, inbox, others, workerVars, localVars, wsVars>>

\* get_message raises: the task ends and is not started again.
RelayDies(s) ==
  /\ relay[s] = "on"
  /\ relay' = [relay EXCEPT ![s] = "dead"]
  /\ inbox' = [inbox EXCEPT ![s] = <<>>]
  /\ UNCHANGED <<channel, others, workerVars, localVars, wsVars>>

\* mutant: no memory of what was emitted
IsNews_Forgets(s, f) ==
  f.kind \in Verdicts /\ ~(f.sender = s \/ f.key \in localJobs[s])
\* mutant: a frame that comes by the job's own id is skipped
IsNews_JobOnly(s, f) ==
  /\ f.kind \in Verdicts /\ f.key \notin emitted[s] /\ f.chan # f.key
  /\ ~(f.sender = s \/ f.key \in localJobs[s])

\* A terminal frame of another process about a job not concluded here before.
IsNews(s, f) ==
  /\ f.kind \in Verdicts /\ f.key \notin emitted[s]
  /\ ~(f.sender = s \/ f.key \in localJobs[s])

EventOf(f) == [key |-> f.key, kind |-> f.kind]

\* One message: sent to the local sockets (not published again), put on the bus
\* as a ProgressFrame, and as a terminal event if it is news.
Relay(s) ==
  /\ relay[s] = "on" /\ inbox[s] # <<>>
  /\ LET f == Head(inbox[s]) IN
       /\ inbox' = [inbox EXCEPT ![s] = Tail(@)]
       /\ FanOut(s, f, registry)
       /\ IF IsNews(s, f)
            THEN /\ emitted' = [emitted EXCEPT ![s] = @ \cup {f.key}]
                 /\ bus' = [bus EXCEPT ![s] = Append(@, EventOf(f))]
            ELSE UNCHANGED <<emitted, bus>>
  /\ UNCHANGED <<channel, relay, others, workerVars, cancelled, localJobs, ws,
                 home, watched, accepted>>

-----------------------------------------------------------------------------
(* The WebSocket handler.                                                  *)

\* The origin is allowed, the socket accepted; the token comes in the query or
\* in the first frame.
Connect(c, s) ==
  /\ ws[c] = "away"
  /\ ws' = [ws EXCEPT ![c] = "auth"] /\ home' = [home EXCEPT ![c] = s]
  /\ UNCHANGED <<redisVars, workerVars, localVars, watched, failing, accepted, got>>

\* No frame in time, a malformed one, or a wrong, used or expired token.
Refuse(c) ==
  /\ ws[c] = "auth"
  /\ ws' = [ws EXCEPT ![c] = "closed"]
  /\ UNCHANGED <<redisVars, workerVars, localVars, home, watched, failing,
                 accepted, got>>

\* The token is accepted: the socket is attached.
Admit(c) ==
  /\ ws' = [ws EXCEPT ![c] = "live"] /\ accepted' = accepted \cup {c}
  /\ channel' = "consumed"
  /\ Broadcast(home[c], OnChan("other"),
               [registry EXCEPT ![home[c]] = @ \cup {c}])

\* consume_channel by the Lua script, then attach and the "connected" frame.
ConsumeToken(c) ==
  /\ ws[c] = "auth" /\ channel = "open"
  /\ Admit(c)
  /\ UNCHANGED <<relay, others, workerVars, cancelled, localJobs, emitted, bus, home,
                 watched>>

\* _consume_channel_watch: WATCH and GET ...
WatchRead(c) ==
  /\ ws[c] = "auth" /\ channel = "open"
  /\ ws' = [ws EXCEPT ![c] = "exec"] /\ watched' = [watched EXCEPT ![c] = channel]
  /\ UNCHANGED <<redisVars, workerVars, localVars, home, failing, accepted, got>>

\* The key was not written since WATCH.
Unchanged(c) == channel = watched[c]

\* ... and MULTI, SET, EXEC; a write in between sends it back to the start.
WatchExec(c) ==
  /\ ws[c] = "exec"
  /\ watched' = [watched EXCEPT ![c] = None]
  /\ \/ /\ Unchanged(c) /\ Admit(c)
        /\ UNCHANGED <<relay, others, workerVars, cancelled, localJobs, emitted, bus, home>>
     \/ /\ ~Unchanged(c)
        /\ ws' = [ws EXCEPT ![c] = "auth"]
        /\ UNCHANGED <<redisVars, workerVars, localVars, home, failing, accepted, got>>

\* {"type": "ping"}: the pong goes to the whole channel.
Ping(c) ==
  /\ ws[c] = "live"
  /\ Again(home[c], OnChan("other"))
  /\ UNCHANGED <<channel, relay, workerVars, cancelled, localJobs, emitted, bus,
                 ws, home, watched, accepted>>

\* {"type": "cancel"}, or the HTTP route with the session token: only this
\* process remembers it; the frame has neither job nor sender.
CancelChannel(s) ==
  /\ cancelled' = [cancelled EXCEPT ![s] = TRUE]
  /\ Again(s, OnChan("cancelled"))
  /\ UNCHANGED <<channel, relay, workerVars, localJobs, emitted, bus, ws, home,
                 watched, accepted>>
WsCancel(c) == ws[c] = "live" /\ CancelChannel(home[c])
HttpCancel(s) == channel # "expired" /\ CancelChannel(s)

\* detach
Detached(c, reg) == [reg EXCEPT ![home[c]] = @ \ {c}]

\* The client is gone: the finally of the handler.
Disconnect(c) ==
  /\ ws[c] = "live"
  /\ ws' = [ws EXCEPT ![c] = "closed"]
  /\ registry' = Detached(c, registry)
  /\ UNCHANGED <<redisVars, workerVars, counts, cancelled, localJobs, emitted, bus,
                 home, watched, failing, accepted, got>>

\* _on_foreign_send_done with an exception.
ForeignDone(c) ==
  /\ c \in failing
  /\ failing' = failing \ {c}
  /\ registry' = Detached(c, registry)
  /\ UNCHANGED <<redisVars, workerVars, counts, cancelled, localJobs, emitted, bus,
                 ws, home, watched, accepted, got>>

\* The TTL of the key runs out.
ExpireChannel ==
  /\ channel # "expired" /\ channel' = "expired"
  /\ UNCHANGED <<relay, inbox, others, workerVars, localVars, wsVars>>

-----------------------------------------------------------------------------
Working == TellJob \/ TellChan

ProgressNext ==
  \/ Tick \/ Working \/ ExpireChannel
  \/ \E v \in Outcomes : Conclude(v)
  \/ \E s \in Services : RelayStarts(s) \/ RelayDies(s) \/ Relay(s)
  \/ \E s \in Apis : HttpCancel(s)
  \/ \E c \in Conns :
       \/ \E s \in Apis : Connect(c, s)
       \/ Refuse(c) \/ ConsumeToken(c) \/ WatchRead(c) \/ WatchExec(c)
       \/ Ping(c) \/ WsCancel(c) \/ Disconnect(c) \/ ForeignDone(c)

ProgressSpec == ProgressInit /\ [][ProgressNext]_progressVars

\* The worker's code and a relay that is subscribed run on.
Fairness == WF_progressVars(Working) /\ \A s \in Services : WF_progressVars(Relay(s))
ProgressFairSpec == ProgressSpec /\ Fairness

-----------------------------------------------------------------------------
(* Properties.                                                             *)

\* A process's relay tells its bus about the end of the job once, although the
\* worker publishes the frame twice and a client may cancel the channel; the
\* worker's own process, which emits the event itself, is not told by the frames
\* it hears; and what is told is the worker's verdict (the tracking sets of
\* _run_redis_pubsub).
Told(s) == {i \in DOMAIN bus[s] : bus[s][i].key = Job}
RelayedOnce ==
  /\ Told(Worker) = {}
  /\ \A s \in Services : \A i \in Told(s) :
       bus[s][i].kind = verdict /\ Told(s) = {i}

\* A process that is subscribed while the verdict's frame is on its way tells its
\* bus in the end, unless its relay dies (the terminal relay for event streams).
VerdictArrives ==
  \A s \in Apis :
    (\E i \in DOMAIN inbox[s] : inbox[s][i].key = Job /\ inbox[s][i].kind \in Verdicts)
      ~> (relay[s] = "dead" \/ \E i \in DOMAIN bus[s] : bus[s][i].key = Job)
=============================================================================
