----------------------------- MODULE EventStream -----------------------------
(***************************************************************************)
(* The event streams of OmniScribe's API process: the per-job event        *)
(* buffers of OCRServiceImpl (record_event, prune, is_done and             *)
(* wait_for_events of plugins/ocr/service.py) and the consumers that       *)
(* follow a job by a sequence cursor (iter_sse_events of                   *)
(* plugins/ocr/routes.py).                                                 *)
(*                                                                         *)
(* Granularity.  The service runs on one event loop, so a step ends at an  *)
(* await or a yield: record_event is one step, a consumer's step goes from *)
(* one yield or backend call to the next.                                  *)
(*                                                                         *)
(* An entry is its sequence number and its event; the events of a job are  *)
(* numbered in the order in which they are recorded.                       *)
(***************************************************************************)
EXTENDS Naturals, Sequences, FiniteSets, SequencesExt, Filters

CONSTANTS
  Jobs, Streams,
  Followed,     \* the jobs somebody follows: nobody looks at the others' records
  None,
  MaxLen,       \* entries a buffer keeps (maxlen=500)
  MaxBuffered,  \* jobs with a buffer (max_buffered_jobs=500)
  MaxEvents     \* bound: events per job

ASSUME LimitsAssumption == {MaxLen, MaxBuffered, MaxEvents} \subseteq Nat \ {0}
ASSUME JobsAssumption == None \notin Jobs /\ Followed \subseteq Jobs

VARIABLES
  \* ---- the queue and its backend, seen from the service ----
  backend,    \* "local": is_done can read it; "redis": only get_job does
  status,     \* the job record
  flagged,    \* the ids in the queue's cancelled set
  emitted,    \* number of events recorded so far
  \* ---- OCRServiceImpl ----
  order,      \* the keys of _event_buffers, oldest first
  buffers,    \* _event_buffers
  handles,    \* the keys of _event_notify, oldest first
  isSet,      \* the jobs whose notify Event is set
  done,       \* _done_jobs
  \* ---- the consumers ----
  pc, follows, cursor,
  batch,      \* what is left of the backlog it is sending
  looked,     \* the job was terminal when the backend was asked
  woken,      \* waiting, and its Event was set meanwhile
  orphan,     \* waiting for an Event that prune() has dropped
  delivered,  \* history: the events sent
  \* ---- history of the buffers ----
  lost,       \* events that left a buffer
  pruned      \* jobs whose buffer was dropped

jobVars     == <<backend, status, flagged, emitted>>
serviceVars == <<order, buffers, handles, isSet, done>>
streamVars  == <<pc, follows, cursor, batch, looked, woken, orphan, delivered>>
historyVars == <<lost, pruned>>
eventVars == <<jobVars, serviceVars, streamVars, historyVars>>

-----------------------------------------------------------------------------
\* A sequence number is at least 1: the cursor 0 has seen nothing.
Entry == [seq : Nat \ {0}, event : Nat]
Waiting == {"wait"}
Follow == {"read", "send", "resume", "ask", "park", "again"} \cup Waiting

StreamTypeOK ==
  /\ backend \in {"local", "redis"}
  /\ status \in [Jobs -> {"none", "live", "terminal", "cleared"}]
  /\ flagged \subseteq Jobs /\ emitted \in [Jobs -> 0..MaxEvents]
  /\ order \in Seq(Jobs) /\ handles \in Seq(Jobs)
  /\ buffers \in [Jobs -> Seq(Entry)]
  /\ isSet \subseteq ToSet(handles) /\ done \subseteq Jobs
  /\ pc \in [Streams -> {"idle", "ended"} \cup Follow]
  /\ follows \in [Streams -> Jobs \cup {None}] /\ cursor \in [Streams -> Nat]
  /\ batch \in [Streams -> Seq(Entry)] /\ looked \in [Streams -> BOOLEAN]
  /\ woken \subseteq Streams /\ orphan \subseteq Streams
  /\ delivered \in [Streams -> Seq(Nat)]
  /\ lost \in [Jobs -> SUBSET Nat] /\ pruned \subseteq Jobs

StreamInit ==
  /\ backend \in {"local", "redis"}
  /\ status = [j \in Jobs |-> "none"] /\ flagged = {}
  /\ emitted = [j \in Jobs |-> 0]
  /\ order = <<>> /\ buffers = [j \in Jobs |-> <<>>]
  /\ handles = <<>> /\ isSet = {} /\ done = {}
  /\ pc = [c \in Streams |-> "idle"] /\ follows = [c \in Streams |-> None]
  /\ cursor = [c \in Streams |-> 0] /\ batch = [c \in Streams |-> <<>>]
  /\ looked = [c \in Streams |-> FALSE] /\ woken = {} /\ orphan = {}
  /\ delivered = [c \in Streams |-> <<>>]
  /\ lost = [j \in Jobs |-> {}] /\ pruned = {}

-----------------------------------------------------------------------------
(* The job: its queue changes the record, and emits events about it.       *)

Submit(j) ==
  /\ status[j] = "none"
  /\ status' = [status EXCEPT ![j] = "live"]
  /\ UNCHANGED <<backend, flagged, emitted, serviceVars, streamVars, historyVars>>

\* cancel() of a running job; the worker takes the id out again before it
\* writes the record.
Flag(j) ==
  /\ status[j] = "live" /\ j \notin flagged
  /\ flagged' = flagged \cup {j}
  /\ UNCHANGED <<backend, status, emitted, serviceVars, streamVars, historyVars>>
Unflag(j) ==
  /\ j \in flagged
  /\ flagged' = flagged \ {j}
  /\ UNCHANGED <<backend, status, emitted, serviceVars, streamVars, historyVars>>

\* The record becomes terminal; the event about it is emitted afterwards.
Finish(j) ==
  /\ status[j] = "live"
  /\ status' = [status EXCEPT ![j] = "terminal"]
  /\ UNCHANGED <<backend, flagged, emitted, serviceVars, streamVars, historyVars>>

\* clear() deletes the record.
Clear(j) ==
  /\ status[j] = "terminal"
  /\ status' = [status EXCEPT ![j] = "cleared"]
  /\ flagged' = flagged \ {j}
  /\ UNCHANGED <<backend, emitted, serviceVars, streamVars, historyVars>>

-----------------------------------------------------------------------------
(* record_event and prune.                                                 *)

\* mutant: the position in the buffer
NextSeq_Position(j) == Len(buffers[j]) + 1

\* The number after that of the buffer's tail: not shifted by a rotation.
NextSeq(j) == IF buffers[j] = <<>> THEN 1 ELSE Last(buffers[j]).seq + 1

\* Appended to a deque with maxlen.
Rotated(buffer, e) ==
  IF Len(buffer) < MaxLen THEN Append(buffer, e) ELSE Append(Tail(buffer), e)

\* setdefault of a dict: a new key comes last.
WithKey(keys, j) == IF Contains(keys, j) THEN keys ELSE Append(keys, j)
Newest(keys, n) ==
  IF Len(keys) <= n THEN keys ELSE SubSeq(keys, Len(keys) - n + 1, Len(keys))

\* The jobs that prune() drops: the oldest buffers, running or not.
Excess(keys) == ToSet(keys) \ ToSet(Newest(keys, MaxBuffered))

\* The streams that wait for the current Event of a job.
Waiters(j) == {c \in Streams \ orphan : follows[c] = j /\ pc[c] \in Waiting}

\* prune(): buffers, then handles, then done jobs, each down to the limit.
Prune(keys, buf, hs, marked) ==
  LET dropped == Excess(keys)
      kept    == Newest(Among(hs, Jobs \ dropped), MaxBuffered)
      gone    == ToSet(hs) \ ToSet(kept)
      still   == marked \ dropped
      keptKeys == Among(keys, Jobs \ dropped)
  IN /\ order' = keptKeys
     /\ buffers' = [j \in Jobs |-> IF j \in dropped THEN <<>> ELSE buf[j]]
     /\ handles' = kept
     /\ orphan' = orphan \cup UNION {Waiters(j) : j \in gone}
     /\ done' = IF Cardinality(still) > MaxBuffered
                  THEN still \cap ToSet(keptKeys) ELSE still
     /\ pruned' = pruned \cup dropped

\* record_event: an event of the job is appended, its handle set, the maps
\* pruned.  "last" events mark the job as done: the terminal events, and progress
\* frames that look like the last one (stage done, or 100 percent).
RecordEvent(j, last) ==
  /\ status[j] # "none" /\ emitted[j] < MaxEvents
  /\ LET e     == [seq |-> NextSeq(j), event |-> emitted[j] + 1]
         keys  == WithKey(order, j)
         out   == IF Len(buffers[j]) < MaxLen THEN {} ELSE {Head(buffers[j]).event}
         drops == Excess(keys)
     IN /\ Prune(keys, [buffers EXCEPT ![j] = Rotated(@, e)], WithKey(handles, j),
                 IF last THEN done \cup {j} ELSE done)
        /\ isSet' = (isSet \cup {j}) \cap ToSet(handles')
        /\ lost' = [k \in Jobs |->
             lost[k] \cup (IF k = j THEN out ELSE {})
                     \cup (IF k \in drops
                             THEN {buffers[k][i].event : i \in DOMAIN buffers[k]} ELSE {})]
  /\ emitted' = [emitted EXCEPT ![j] = @ + 1]
  /\ woken' = woken \cup Waiters(j)
  /\ UNCHANGED <<backend, status, flagged, pc, follows, cursor, batch, looked,
                 delivered>>

-----------------------------------------------------------------------------
(* The consumers: iter_sse_events and wait_for_events.                     *)

\* The route checks that there is a record, then the generator starts.
Subscribe(c, j) ==
  /\ pc[c] = "idle" /\ status[j] \in {"live", "terminal"}
  /\ pc' = [pc EXCEPT ![c] = "read"] /\ follows' = [follows EXCEPT ![c] = j]
  /\ UNCHANGED <<jobVars, serviceVars, cursor, batch, looked, woken, orphan,
                 delivered, historyVars>>

\* is_done: marked, in the cancelled set, or terminal in a backend that can be
\* read without waiting.
IsDone(j) == \/ j \in done \/ j \in flagged
             \/ backend = "local" /\ status[j] = "terminal"

\* The generator at "if is_done: return", then wait_for_events up to its first
\* await.
EndOrAsk(c) ==
  /\ pc' = [pc EXCEPT ![c] = IF IsDone(follows[c]) THEN "ended" ELSE "ask"]
  /\ done' = IF IsDone(follows[c]) THEN done \cup {follows[c]} ELSE done

Beyond(buffer, n) == Among(buffer, {e \in ToSet(buffer) : e.seq > n})

\* mutant: the cursor counts the entries sent
Unseen_Counted(c) == Beyond(buffers[follows[c]], Len(delivered[c]))

\* The entries of the backlog beyond the cursor.
Unseen(c) == Beyond(buffers[follows[c]], cursor[c])

\* event_backlog: a copy of the buffer, as it is now.
ReadBacklog(c) ==
  /\ pc[c] = "read"
  /\ batch' = [batch EXCEPT ![c] = Unseen(c)]
  /\ IF Unseen(c) = <<>> THEN EndOrAsk(c)
     ELSE pc' = [pc EXCEPT ![c] = "send"] /\ UNCHANGED done
  /\ UNCHANGED <<jobVars, order, buffers, handles, isSet, follows, cursor, looked,
                 woken, orphan, delivered, historyVars>>

\* One entry is yielded, and the response writes it.
Send(c) ==
  /\ pc[c] = "send"
  /\ LET e == Head(batch[c]) IN
       /\ cursor' = [cursor EXCEPT ![c] = e.seq]
       /\ delivered' = [delivered EXCEPT ![c] = Append(@, e.event)]
  /\ batch' = [batch EXCEPT ![c] = Tail(@)]
  /\ pc' = [pc EXCEPT ![c] = IF Tail(batch[c]) = <<>> THEN "resume" ELSE "send"]
  /\ UNCHANGED <<jobVars, serviceVars, follows, looked, woken, orphan, historyVars>>

\* After the last entry of the backlog.
Resume(c) ==
  /\ pc[c] = "resume"
  /\ EndOrAsk(c)
  /\ UNCHANGED <<jobVars, order, buffers, handles, isSet, follows, cursor, batch,
                 looked, woken, orphan, delivered, historyVars>>

\* get_job of wait_for_events, before the wait or after it.
AskBackend(c) ==
  /\ pc[c] \in {"ask", "again"}
  /\ looked' = [looked EXCEPT ![c] = status[follows[c]] = "terminal"]
  /\ pc' = [pc EXCEPT ![c] = IF pc[c] = "ask" THEN "park" ELSE "read"]
  /\ done' = IF status[follows[c]] = "terminal" THEN done \cup {follows[c]} ELSE done
  /\ UNCHANGED <<jobVars, order, buffers, handles, isSet, follows, cursor, batch,
                 woken, orphan, delivered, historyVars>>

\* get_job raises, which is swallowed, or outlasts the keep-alive.
AskFails(c) ==
  /\ pc[c] \in {"ask", "again"}
  /\ looked' = [looked EXCEPT ![c] = FALSE]
  /\ \/ pc' = [pc EXCEPT ![c] = "read"]
     \/ pc[c] = "ask" /\ pc' = [pc EXCEPT ![c] = "park"]
  /\ UNCHANGED <<jobVars, serviceVars, follows, cursor, batch, woken, orphan,
                 delivered, historyVars>>

\* A terminal job is not waited for; an Event that is set is cleared at once;
\* otherwise the stream waits for the job's Event, made if there is none.
Park(c) ==
  /\ pc[c] = "park"
  /\ LET j == follows[c] IN
       CASE looked[c] ->
              pc' = [pc EXCEPT ![c] = "read"] /\ UNCHANGED <<handles, isSet>>
         [] ~looked[c] /\ j \in isSet ->
              /\ pc' = [pc EXCEPT ![c] = "read"]
              /\ isSet' = isSet \ {j} /\ UNCHANGED handles
         [] OTHER ->
              /\ pc' = [pc EXCEPT ![c] = "wait"]
              /\ handles' = WithKey(handles, j) /\ UNCHANGED isSet
  /\ UNCHANGED <<jobVars, order, buffers, done, follows, cursor, batch, looked,
                 woken, orphan, delivered, historyVars>>

\* mutant: no bound on the wait
WakeUp_NoTimeout(c) ==
  /\ pc[c] = "wait" /\ c \in woken
  /\ pc' = [pc EXCEPT ![c] = "again"]
  /\ isSet' = IF c \in orphan THEN isSet ELSE isSet \ {follows[c]}
  /\ woken' = woken \ {c} /\ orphan' = orphan \ {c}
  /\ UNCHANGED <<jobVars, order, buffers, handles, done, follows, cursor, batch,
                 looked, delivered, historyVars>>

\* The Event was set, or two seconds have passed; notify.clear() on the Event it
\* waited for.
WakeUp(c) ==
  /\ pc[c] = "wait"
  /\ pc' = [pc EXCEPT ![c] = "again"]
  /\ isSet' = IF c \in orphan THEN isSet ELSE isSet \ {follows[c]}
  /\ woken' = woken \ {c} /\ orphan' = orphan \ {c}
  /\ UNCHANGED <<jobVars, order, buffers, handles, done, follows, cursor, batch,
                 looked, delivered, historyVars>>

-----------------------------------------------------------------------------
Consume(c) ==
  ReadBacklog(c) \/ Send(c) \/ Resume(c) \/ AskBackend(c) \/ Park(c) \/ WakeUp(c)

StreamNext ==
  \/ \E j \in Followed : Flag(j) \/ Unflag(j) \/ Finish(j) \/ Clear(j)
  \/ \E j \in Jobs : Submit(j) \/ \E last \in BOOLEAN : RecordEvent(j, last)
  \/ \E c \in Streams : \/ \E j \in Followed : Subscribe(c, j)
                        \/ Consume(c) \/ AskFails(c)

StreamSpec == StreamInit /\ [][StreamNext]_eventVars

\* The event loop runs every ready task, and a wait ends after two seconds.  A
\* backend that is asked again and again answers at some time.
Fairness == \A c \in Streams : WF_eventVars(Consume(c)) /\ SF_eventVars(AskBackend(c))
StreamFairSpec == StreamSpec /\ Fairness

-----------------------------------------------------------------------------
(* Properties.                                                             *)

Sent(c) == ToSet(delivered[c])

\* Nothing is replayed: what a stream sends is in the order of recording, each
\* event once, whatever a rotation, or a prune under the live cursor, did to
\* the buffer (the cursor of iter_sse_events).
InOrder == \A c \in Streams : \A i \in 1..Len(delivered[c]) - 1 :
             delivered[c][i] < delivered[c][i + 1]

\* Nothing is skipped: as long as the job's buffer was not pruned, an event the
\* stream has not sent is still in its batch or beyond its cursor, or was
\* pushed out of the full buffer (the sequence numbers of record_event).
NoGap ==
  \A c \in Streams : \A j \in Jobs \ pruned :
    follows[c] = j =>
      \A n \in 1..emitted[j] : n \in Sent(c) \cup lost[j]
        \/ \E e \in ToSet(batch[c] \o buffers[j]) : e.event = n /\ e.seq > cursor[c]

\* A stream that follows a job whose record is terminal ends, unless the record
\* is cleared before: no lost wake-up, no dropped Event and no missed event can
\* hold it for good (the bounded wait and the two looks at the backend of
\* wait_for_events).
StreamEnds ==
  \A c \in Streams : \A j \in Jobs :
    (follows[c] = j /\ status[j] = "terminal")
      ~> (pc[c] = "ended" \/ status[j] = "cleared")

\* What the docstring of iter_sse_events and the test of the burst expect: when
\* a stream ends, everything that is in the buffer has been sent.  Refuted: the
\* backlog is a copy, and an event recorded while it is being sent can be the
\* one that ends the stream.
EndsComplete ==
  [][\A c \in Streams : pc[c] # "ended" /\ pc'[c] = "ended" => Unseen(c) = <<>>]_eventVars
=============================================================================
