-------------------------- MODULE JobOrchestration --------------------------
(***************************************************************************)
(* The desktop client's OCR runs (JobOrchestrationNotifier and WsClient of *)
(* src/client/lib): what the user starts, cancels and replaces, the        *)
(* progress socket with its reconnection, and the poll of the job's status *)
(* that must end a run whatever the socket does.                           *)
(*                                                                         *)
(* The event loop runs one continuation at a time: a step is what runs     *)
(* between two awaits of a request, a dial or a timer.  Awaits of a        *)
(* subscription's cancellation only let microtasks in between and are part *)
(* of the step.  Runs are numbered in the order they are started; the      *)
(* _runEpoch of a reply is current when its run is.                        *)
(*                                                                         *)
(* The server is what the client can tell of it: a token admits one        *)
(* socket, a running job sends blocks to its channel, and a channel's      *)
(* cancellation is broadcast and asks its job to stop.                     *)
(***************************************************************************)
EXTENDS Naturals, Sequences, SequencesExt

CONSTANTS
  MaxRuns,      \* bound: runs the user starts
  MaxUpsets,    \* bound: documents loaded or cleared, failed requests (those to
                \* cancel too) and dials, dropped sockets
  Unlucky,      \* bound: the runs they may happen to
  Seen,         \* bound: the runs whose blocks are read
  MaxStatusFailures,  \* _maxConsecutiveStatusFailures
  MaxReconnects,      \* _maxReconnectAttempts
  None

Runs == 1..MaxRuns
Ended == {"complete", "stopped"}    \* stopped: by an error or a cancellation

ASSUME BoundsAssumption ==
  /\ MaxRuns \in Nat \ {0} /\ MaxUpsets \in Nat
  /\ MaxStatusFailures \in Nat /\ MaxReconnects \in Nat /\ None \notin Runs

VARIABLES
  \* ---- what the user did ----
  started, kind,
  \* ---- JobOrchestrationState ----
  processing, stage, shownChan, activeJob,
  pages,       \* runs whose result the document shows
  blocks,      \* runs a block of whose text it shows, from a progress frame
  \* ---- JobOrchestrationNotifier ----
  current,     \* the run of _runEpoch, None after a cancellation or a reset
  lastChan, lastTok,
  sub, closedSub,    \* the runs the two subscriptions were made for
  poll,        \* the run of _statusPollTimer
  checking,    \* _statusCheckRunId
  failures,
  run, check, cancel,   \* where the futures of each run are
  \* ---- WsClient; the socket of a run's channel ----
  socket,
  sock,        \* _channel
  heard,       \* sockets whose stream is listened to
  target, manual, redial, attempts, up,
  strays,      \* sockets left open when another was dialled
  \* ---- server ----
  sessions,    \* channels opened
  used, attached, inbox,
  posts,       \* channel cancellations on their way: channel and token
  asked,       \* jobs asked to stop
  unheard,     \* jobs of which a request to stop was lost
  job,
  \* ---- history ----
  upsets,
  mixed        \* a run was told something by the socket of another one

ui     == <<processing, stage, shownChan, activeJob, pages, blocks>>
mine   == <<lastChan, lastTok, sub, closedSub>>
checks == <<poll, checking, failures, check>>
ws     == <<socket, sock, heard, target, manual, redial, attempts, up, strays>>
server == <<sessions, used, attached, inbox, posts, asked, unheard, job>>
user   == <<started, kind, current>>
vars   == <<ui, mine, checks, ws, server, user, run, cancel, upsets, mixed>>

Maybe == Runs \cup {None}
Frames == {"connected", "block", "cancelled"}
Idle == [pc |-> "idle", job |-> None, chan |-> None, tok |-> None]

TypeOK ==
  /\ started \in 0..MaxRuns
  /\ kind \in [Runs -> {"async", "sync"}] /\ current \in Maybe
  /\ processing \in BOOLEAN /\ {pages, blocks, strays, unheard} \subseteq SUBSET Runs
  /\ stage \in {"Idle", "Conversion", "Queued", "Complete", "Cancelled", "Error"}
  /\ {shownChan, activeJob, lastChan, lastTok, sub, closedSub, poll, checking}
       \subseteq Maybe
  /\ failures \in 0..MaxStatusFailures + 1
  /\ run \in [Runs -> {"idle", "open", "connect", "attach", "submit", "sync", "hydrate",
                       "failing", "done"}]
  /\ \A r \in Runs : check[r].pc \in {"idle", "status", "download", "hydrate"}
  /\ \A r \in Runs : cancel[r].pc \in {"idle", "ask", "end"}
  /\ socket \in [Runs -> {"none", "dialing", "live", "rejected"}]
  /\ {sock, target} \subseteq Maybe /\ heard \subseteq Runs
  /\ {manual, redial, up, mixed} \subseteq BOOLEAN /\ attempts \in 0..MaxReconnects
  /\ {sessions, used, attached, asked} \subseteq SUBSET Runs
  /\ \A r \in Runs : Range(inbox[r]) \subseteq Frames
  /\ posts \subseteq Maybe \X Maybe
  /\ job \in [Runs -> {"none", "running"} \cup Ended] /\ upsets \in 0..MaxUpsets

Init ==
  /\ started = 0 /\ kind = [r \in Runs |-> "async"] /\ current = None
  /\ processing = FALSE /\ stage = "Idle" /\ shownChan = None /\ activeJob = None
  /\ pages = {} /\ blocks = {}
  /\ lastChan = None /\ lastTok = None /\ sub = None /\ closedSub = None
  /\ poll = None /\ checking = None /\ failures = 0
  /\ run = [r \in Runs |-> "idle"] /\ check = [r \in Runs |-> Idle]
  /\ cancel = [r \in Runs |-> Idle]
  /\ socket = [r \in Runs |-> "none"] /\ sock = None /\ heard = {} /\ target = None
  /\ manual = FALSE /\ redial = FALSE /\ attempts = 0 /\ up = FALSE
  /\ strays = {} /\ sessions = {} /\ used = {} /\ attached = {} /\ posts = {}
  /\ inbox = [r \in Runs |-> <<>>]
  /\ asked = {} /\ unheard = {} /\ job = [r \in Runs |-> "none"]
  /\ upsets = 0 /\ mixed = FALSE

Upset == upsets < MaxUpsets /\ upsets' = upsets + 1
Fault(r) == r \in Unlucky /\ Upset
NoFault == UNCHANGED upsets

-----------------------------------------------------------------------------
(* WsClient.                                                               *)

\* The server loses a socket: nothing of its channel reaches the client.
Unplug(s) ==
  /\ attached' = attached \ s
  /\ inbox' = [r \in Runs |-> IF r \in s THEN <<>> ELSE inbox[r]]

\* _cleanupChannel closes the socket the client knows of, dials r if it is one.
\* It does not know of one that is still being dialled, nor of one whose place
\* such a late one took.
Swap(r) ==
  /\ socket' = [s \in Runs |-> IF s = r THEN "dialing"
                                ELSE IF s = sock THEN "none" ELSE socket[s]]
  /\ sock' = None /\ heard' = heard \ {sock} /\ up' = FALSE /\ Unplug({sock})
  /\ strays' = strays \cup {s \in Runs \ {r, sock} :
                              r # None /\ (socket[s] = "dialing" \/ s \in attached)}

\* connect.
Connect(r) ==
  /\ manual' = FALSE /\ attempts' = 0 /\ target' = r /\ Swap(r) /\ UNCHANGED redial

\* disconnect.
Disconnect == manual' = TRUE /\ redial' = FALSE /\ Swap(None) /\ UNCHANGED <<target, attempts>>

\* _scheduleReconnect.
ScheduleReconnect ==
  IF manual \/ target = None \/ attempts >= MaxReconnects
    THEN UNCHANGED <<attempts, redial>>
    ELSE attempts' = attempts + 1 /\ redial' = TRUE

\* Mutant: whoever tears down, whatever there is.
Teardown_Any(c, t, remote) ==
  /\ sub' = None /\ closedSub' = None /\ lastChan' = None /\ lastTok' = None /\ Disconnect
  /\ posts' = IF remote THEN posts \cup {<<c, t>>} ELSE posts

\* _teardownProgressChannel: only the owner of the channel and of its token
\* ends the subscriptions and the connection.
Teardown(c, t, remote) ==
  /\ IF lastChan = c /\ lastTok = t
       THEN /\ sub' = None /\ closedSub' = None /\ lastChan' = None /\ lastTok' = None
            /\ Disconnect
       ELSE UNCHANGED <<mine, ws, attached, inbox>>
  /\ posts' = IF remote THEN posts \cup {<<c, t>>} ELSE posts

\* Mutant: the connection only.
TeardownLast_Local ==
  IF lastChan = None THEN UNCHANGED <<mine, ws, attached, inbox, posts>>
                     ELSE Teardown(lastChan, lastTok, FALSE)

\* teardownProgressChannel, reset: the channel of the moment, if there is one.
TeardownLast ==
  IF lastChan = None THEN UNCHANGED <<mine, ws, attached, inbox, posts>>
                     ELSE Teardown(lastChan, lastTok, TRUE)

\* _checkJobStatus up to its first request; without a job it leaves a mark.
Watched(r) == r = current /\ processing
Begins(r) == Watched(r) /\ activeJob # None /\ checking # r
Asking(j) == [pc |-> "status", job |-> j, chan |-> shownChan, tok |-> lastTok]

StartCheck(r) ==
  /\ checking' = IF Watched(r) THEN r ELSE checking
  /\ check' = IF Begins(r) THEN [check EXCEPT ![r] = Asking(activeJob)] ELSE check

-----------------------------------------------------------------------------
(* A run: processOcrAsync and processOcrSync.                              *)

Start(k) ==
  LET r == started + 1 IN
  /\ ~processing /\ started < MaxRuns
  /\ started' = r /\ kind' = [kind EXCEPT ![r] = k] /\ current' = r
  /\ processing' = TRUE /\ stage' = "Conversion" /\ shownChan' = None
  /\ activeJob' = None /\ pages' = {} /\ blocks' = {} /\ lastChan' = None /\ lastTok' = None
  /\ failures' = IF k = "async" THEN 0 ELSE failures
  /\ run' = [run EXCEPT ![r] = "open"]
  /\ UNCHANGED <<sub, closedSub, poll, checking, check, ws, server, cancel,
                 upsets, mixed>>

Goes(r, pc) == run' = [run EXCEPT ![r] = pc]

\* The session is open.
Opened(r) ==
  /\ run[r] = "open" /\ sessions' = sessions \cup {r}
  /\ IF r = current
       THEN /\ lastChan' = r /\ lastTok' = r /\ shownChan' = r
            /\ Connect(r) /\ Goes(r, "connect")
            /\ UNCHANGED <<sub, closedSub, posts>>
       ELSE Teardown(r, r, TRUE) /\ Goes(r, "done") /\ UNCHANGED shownChan
  /\ UNCHANGED <<processing, stage, activeJob, pages, blocks, checks, used, asked, unheard,
                 job, user, cancel, upsets, mixed>>

\* openProgressSession failed: a synchronous run goes on without progress.
NotOpened(r) ==
  /\ run[r] = "open" /\ Fault(r)
  /\ IF kind[r] = "sync" /\ r = current
       THEN Goes(r, "sync") /\ UNCHANGED ui
       ELSE /\ Goes(r, "done")
            /\ processing' = (processing /\ r # current)
            /\ stage' = IF r = current THEN "Error" ELSE stage
            /\ UNCHANGED <<shownChan, activeJob, pages, blocks>>
  /\ UNCHANGED <<mine, checks, ws, server, user, cancel, mixed>>

\* finally of processOcrSync: there may be no session.
Leave(r) == IF r \in sessions THEN Teardown(r, r, TRUE)
                              ELSE UNCHANGED <<mine, ws, attached, inbox, posts>>

\* The dial of r has ended, the run that waited for it goes on at once.
Connected(r) ==
  /\ run[r] = "attach"
  /\ IF r = current
       THEN /\ Goes(r, IF kind[r] = "async" THEN "submit" ELSE "sync")
            /\ sub' = r /\ closedSub' = (IF kind[r] = "async" THEN r ELSE closedSub)
            /\ UNCHANGED <<lastChan, lastTok, ws, attached, inbox, posts>>
       ELSE /\ Goes(r, "done")
            /\ IF kind[r] = "sync" THEN Leave(r)
                 ELSE UNCHANGED <<mine, ws, attached, inbox, posts>>
  /\ UNCHANGED <<ui, checks, sessions, used, asked, unheard, job, user, cancel, upsets, mixed>>

\* The job arrives; the request's progress channel may be cancelled already.
Submitted(r) ==
  /\ run[r] \in {"submit", "sync"} /\ job[r] = "none"
  /\ job' = [job EXCEPT ![r] = "running"]
  /\ UNCHANGED <<ui, mine, checks, ws, sessions, used, attached, inbox, posts, asked, unheard,
                 user, run, cancel, upsets, mixed>>

\* The reply to processOcrAsync: the job of a run the user has left is asked to
\* stop, another is processed, also if a frame had ended the run meanwhile.
Accepted(r) ==
  /\ run[r] = "submit" /\ job[r] # "none" /\ Goes(r, "done")
  /\ IF r # current
       THEN /\ \/ NoFault /\ asked' = asked \cup {r} /\ UNCHANGED unheard
               \/ Fault(r) /\ unheard' = unheard \cup {r} /\ UNCHANGED asked
            /\ Teardown(r, r, TRUE)
            /\ UNCHANGED <<ui, checks>>
       ELSE /\ processing' = TRUE /\ stage' = "Queued" /\ activeJob' = r
            /\ IF checking = r
                 THEN /\ poll' = None
                      /\ check' = [check EXCEPT ![r] = Asking(r)]
                 ELSE poll' = r /\ UNCHANGED check
            /\ NoFault
            /\ UNCHANGED <<shownChan, pages, blocks, checking, failures, mine, ws,
                           attached, inbox, posts, asked, unheard>>
  /\ UNCHANGED <<sessions, used, job, user, cancel, mixed>>

\* Its request or its reply was lost: the channel is cancelled, then the run ends.
NotAccepted(r) ==
  /\ run[r] = "submit" /\ Fault(r)
  /\ IF r = current THEN TeardownLast /\ Goes(r, "failing")
                    ELSE Goes(r, "done") /\ UNCHANGED <<mine, ws, attached, inbox, posts>>
  /\ UNCHANGED <<ui, checks, sessions, used, asked, unheard, job, user, cancel, mixed>>

Failed(r) ==
  /\ run[r] = "failing" /\ Goes(r, "done")
  /\ IF r = current THEN processing' = FALSE /\ stage' = "Error"
                    ELSE UNCHANGED <<processing, stage>>
  /\ UNCHANGED <<shownChan, activeJob, pages, blocks, mine, checks, ws, server, user, cancel,
                 upsets, mixed>>

Answer(r) ==
  /\ run[r] = "sync" /\ job[r] \in Ended
  /\ IF r # current THEN Leave(r) /\ Goes(r, "done") /\ UNCHANGED ui
     ELSE IF job[r] = "complete"
       THEN /\ pages' = pages \cup {r} /\ processing' = FALSE /\ stage' = "Complete"
            /\ Goes(r, "hydrate")
            /\ UNCHANGED <<shownChan, activeJob, blocks, mine, ws, attached, inbox, posts>>
       ELSE /\ processing' = FALSE /\ stage' = "Error" /\ Leave(r) /\ Goes(r, "done")
            /\ UNCHANGED <<shownChan, activeJob, pages, blocks>>
  /\ UNCHANGED <<checks, sessions, used, asked, unheard, job, user, cancel, upsets, mixed>>

\* The request of processOcrSync or its reply was lost.
NoAnswer(r) ==
  /\ run[r] = "sync" /\ Fault(r) /\ Leave(r) /\ Goes(r, "done")
  /\ IF r = current THEN processing' = FALSE /\ stage' = "Error"
                    ELSE UNCHANGED <<processing, stage>>
  /\ UNCHANGED <<shownChan, activeJob, pages, blocks, checks, sessions, used, asked, unheard,
                 job, user, cancel, mixed>>

\* Mutant: the run epoch is not looked at again.
Hydrated_Late(r, j) == pages' = pages \cup {r}

\* _hydrateMissingTextArtifact after its await: the artifact of a replaced
\* document is not merged.
Hydrated(r, j) == pages' = IF r = current /\ activeJob = j THEN pages \cup {r} ELSE pages

\* The text artifact of a synchronous run; it has no job to compare.
HydrateSync(r) ==
  /\ run[r] = "hydrate" /\ Hydrated(r, activeJob) /\ Leave(r) /\ Goes(r, "done")
  /\ UNCHANGED <<processing, stage, shownChan, activeJob, blocks, checks, sessions, used, asked,
                 unheard, job, user, cancel, upsets, mixed>>

-----------------------------------------------------------------------------
(* The poll: _checkJobStatus.                                              *)

PollFires(r) ==
  /\ poll = r /\ poll' = None /\ StartCheck(r)
  /\ UNCHANGED <<ui, mine, failures, ws, server, user, run, cancel, upsets, mixed>>

Stale(r) == r # current \/ activeJob # check[r].job

\* Mutant: the mark of the check under way stays.
Finally_Marked(r, over) ==
  /\ IF over /\ r = current /\ check[r].chan # None
       THEN Teardown(check[r].chan, check[r].tok, TRUE)
       ELSE UNCHANGED <<mine, ws, attached, inbox, posts>>
  /\ checking' = checking
  /\ poll' = IF ~Stale(r) /\ processing' THEN r ELSE poll
  /\ check' = [check EXCEPT ![r] = Idle]

\* finally: over when the run has reached its end.
Finally(r, over) ==
  /\ IF over /\ r = current /\ check[r].chan # None
       THEN Teardown(check[r].chan, check[r].tok, TRUE)
       ELSE UNCHANGED <<mine, ws, attached, inbox, posts>>
  /\ checking' = IF checking = r THEN None ELSE checking
  /\ poll' = IF ~Stale(r) /\ processing' THEN r ELSE poll
  /\ check' = [check EXCEPT ![r] = Idle]

\* getJobStatus.  A job's status only grows: to read it when the answer
\* arrives loses no behaviour of the client.
StatusAnswer(r) ==
  LET reply == job[check[r].job] IN
  /\ check[r].pc = "status"
  /\ IF Stale(r) THEN Finally(r, FALSE) /\ UNCHANGED <<ui, failures>>
     ELSE /\ failures' = 0
          /\ CASE reply = "complete" ->
                    /\ check' = [check EXCEPT ![r].pc = "download"]
                    /\ UNCHANGED <<ui, poll, checking, mine, ws, attached, inbox, posts>>
               [] reply = "stopped" ->
                    /\ processing' = FALSE /\ stage' = "Error"
                    /\ UNCHANGED <<shownChan, activeJob, pages, blocks>> /\ Finally(r, TRUE)
               [] OTHER -> UNCHANGED ui /\ Finally(r, FALSE)
  /\ UNCHANGED <<sessions, used, asked, unheard, job, user, run, cancel, upsets, mixed>>

\* A request of the check failed; too many in a row end the run.
CheckFails(r) ==
  /\ check[r].pc \in {"status", "download"} /\ r \in Unlucky
  /\ IF Stale(r) THEN Finally(r, FALSE) /\ UNCHANGED <<ui, failures>>
     ELSE IF failures < MaxStatusFailures
       THEN failures' = failures + 1 /\ UNCHANGED ui /\ Finally(r, FALSE)
       ELSE /\ failures' = MaxStatusFailures + 1
            /\ processing' = FALSE /\ stage' = "Error"
            /\ UNCHANGED <<shownChan, activeJob, pages, blocks>> /\ Finally(r, TRUE)
  /\ UNCHANGED <<sessions, used, asked, unheard, job, user, run, cancel, upsets, mixed>>

\* downloadProcessedResult.
Downloaded(r) ==
  /\ check[r].pc = "download"
  /\ IF Stale(r) THEN Finally(r, FALSE) /\ UNCHANGED ui
     ELSE /\ pages' = pages \cup {r} /\ processing' = FALSE /\ stage' = "Complete"
          /\ check' = [check EXCEPT ![r].pc = "hydrate"]
          /\ UNCHANGED <<shownChan, activeJob, blocks, poll, checking, mine, ws, attached, inbox,
                         posts>>
  /\ UNCHANGED <<failures, sessions, used, asked, unheard, job, user, run, cancel, upsets,
                 mixed>>

HydrateAsync(r) ==
  /\ check[r].pc = "hydrate" /\ Hydrated(r, check[r].job)
  /\ UNCHANGED <<processing, stage, shownChan, activeJob, blocks>> /\ Finally(r, ~Stale(r))
  /\ UNCHANGED <<failures, sessions, used, asked, unheard, job, user, run, cancel, upsets,
                 mixed>>

-----------------------------------------------------------------------------
(* cancelOcr, reset.                                                       *)

\* cancelChannel goes over the socket the client knows of.
Cancel ==
  LET r == current IN
  /\ processing
  /\ current' = None /\ poll' = None /\ failures' = 0
  /\ processing' = FALSE /\ stage' = "Cancelled"
  /\ cancel' = [cancel EXCEPT ![r] = [pc |-> "ask", job |-> activeJob,
                                      chan |-> shownChan, tok |-> lastTok]]
  /\ posts' = IF up /\ sock \in attached THEN posts \cup {<<sock, sock>>} ELSE posts
  /\ UNCHANGED <<shownChan, activeJob, pages, blocks, mine, checking, check, ws, sessions, used,
                 attached, inbox, asked, unheard, job, started, kind, run, upsets, mixed>>

\* A channel's cancellation is broadcast to its sockets.
Announced(c) == IF c \in attached /\ ~Contains(inbox[c], "cancelled")
                  THEN [inbox EXCEPT ![c] = Append(@, "cancelled")] ELSE inbox

\* The two cancellations cancelOcr waits for, of the channel and of the job; it
\* goes on if one of them or both are lost.
CancelAsked(r) ==
  /\ cancel[r].pc = "ask" /\ cancel' = [cancel EXCEPT ![r].pc = "end"]
  /\ \E lost \in SUBSET {"channel", "job"} :
       LET ofChan == IF cancel[r].chan = cancel[r].tok THEN {cancel[r].chan} \ {None} ELSE {}
           ofJob  == {cancel[r].job} \ {None} IN
       /\ IF lost = {} THEN NoFault ELSE Fault(r)
       /\ asked' = asked \cup (IF "job" \in lost THEN {} ELSE ofJob)
                         \cup (IF "channel" \in lost THEN {} ELSE ofChan)
       /\ unheard' = unheard \cup (IF "job" \in lost THEN ofJob ELSE {})
                             \cup (IF "channel" \in lost THEN ofChan ELSE {})
       /\ inbox' = IF ofChan = {} \/ "channel" \in lost THEN inbox
                                                        ELSE Announced(cancel[r].chan)
  /\ UNCHANGED <<ui, mine, checks, ws, sessions, used, attached, posts, job, user, run, mixed>>

CancelEnds(r) ==
  /\ cancel[r].pc = "end" /\ cancel' = [cancel EXCEPT ![r] = Idle]
  /\ IF cancel[r].chan = None THEN UNCHANGED <<mine, ws, attached, inbox, posts>>
                              ELSE Teardown(cancel[r].chan, cancel[r].tok, FALSE)
  /\ UNCHANGED <<ui, checks, sessions, used, asked, unheard, job, user, run, upsets, mixed>>

\* Another document is loaded, or the document is cleared.
Reset ==
  /\ Upset
  /\ current' = None /\ poll' = None /\ failures' = 0 /\ TeardownLast
  /\ processing' = FALSE /\ stage' = "Idle" /\ shownChan' = None /\ activeJob' = None
  /\ pages' = {} /\ blocks' = {}
  /\ UNCHANGED <<checking, check, sessions, used, asked, unheard, job, started, kind, run,
                 cancel, mixed>>

-----------------------------------------------------------------------------
(* The socket.                                                             *)

Dialled(r) == run' = IF run[r] = "connect" THEN [run EXCEPT ![r] = "attach"] ELSE run

\* channel.ready: the socket becomes the client's, whatever it was dialled for;
\* the server admits it once.
DialReady(r) ==
  /\ socket[r] = "dialing" /\ Dialled(r)
  /\ sock' = r /\ heard' = heard \cup {r} /\ up' = TRUE /\ attempts' = 0
  /\ used' = used \cup {r}
  /\ IF r \in used
       THEN socket' = [socket EXCEPT ![r] = "rejected"] /\ UNCHANGED <<attached, inbox>>
       ELSE /\ socket' = [socket EXCEPT ![r] = "live"] /\ attached' = attached \cup {r}
            /\ inbox' = [inbox EXCEPT ![r] = <<"connected">>]
  /\ UNCHANGED <<ui, mine, strays, checks, target, manual, redial, sessions, posts, asked,
                 unheard, job, user, cancel, upsets, mixed>>

DialFails(r) ==
  /\ socket[r] = "dialing" /\ Fault(r) /\ Dialled(r)
  /\ socket' = [socket EXCEPT ![r] = "none"] /\ up' = FALSE /\ ScheduleReconnect
  /\ UNCHANGED <<ui, mine, strays, checks, sock, heard, target, manual, server, user, cancel,
                 mixed>>

\* The timer of _scheduleReconnect.
Redial ==
  /\ redial /\ redial' = FALSE /\ socket[target] # "dialing" /\ Swap(target)
  /\ UNCHANGED <<ui, mine, checks, target, manual, attempts, sessions, used, posts, asked,
                 unheard, job, user, run, cancel, upsets, mixed>>

\* _onDone: the server refused the token, or the connection broke.
Closed(r) ==
  /\ r \in heard /\ socket[r] \in {"live", "rejected"}
  /\ IF socket[r] = "live" THEN Fault(r) ELSE NoFault
  /\ socket' = [socket EXCEPT ![r] = "none"] /\ heard' = heard \ {r} /\ Unplug({r})
  /\ up' = FALSE
  /\ IF manual THEN UNCHANGED <<attempts, redial, poll, checking, check>>
     ELSE /\ ScheduleReconnect
          /\ IF closedSub = None THEN UNCHANGED <<poll, checking, check>>
             ELSE /\ StartCheck(closedSub)
                  /\ poll' = IF Begins(closedSub) THEN None ELSE poll
  /\ UNCHANGED <<ui, mine, strays, failures, sock, target, manual, sessions, used, posts, asked,
                 unheard, job, user, run, cancel, mixed>>

\* The keep-alive's watchdog gives a half-open socket up without closing it.
Unanswered ==
  /\ up /\ sock # None /\ Fault(sock) /\ up' = FALSE /\ ScheduleReconnect
  /\ UNCHANGED <<ui, mine, strays, checks, socket, sock, heard, target, manual, server, user,
                 run, cancel, mixed>>

\* A frame of channel r, to whoever subscribed last.
Deliver(r) ==
  LET frame == Head(inbox[r])
      told  == sub # None /\ Watched(sub) IN
  /\ r \in heard /\ inbox[r] # <<>> /\ inbox' = [inbox EXCEPT ![r] = Tail(@)]
  /\ mixed' = (mixed \/ (told /\ r # current))
  /\ IF told /\ frame = "connected"
       THEN lastChan' = r /\ shownChan' = r ELSE UNCHANGED <<lastChan, shownChan>>
  /\ blocks' = IF told /\ frame = "block" THEN blocks \cup {r} ELSE blocks
  /\ IF told /\ frame = "cancelled"
       THEN processing' = FALSE /\ stage' = "Cancelled" ELSE UNCHANGED <<processing, stage>>
  /\ UNCHANGED <<activeJob, pages, lastTok, sub, closedSub, checks, ws, sessions, used,
                 attached, posts, asked, unheard, job, user, run, cancel, upsets>>

-----------------------------------------------------------------------------
(* The server.                                                             *)

JobEnds(r, how) ==
  /\ job[r] = "running" /\ job' = [job EXCEPT ![r] = how]
  /\ UNCHANGED <<ui, mine, checks, ws, sessions, used, attached, inbox, posts, asked, unheard,
                 user, run, cancel, upsets, mixed>>

\* A page is read: its blocks go to whoever listens to the job's channel.  Bound:
\* one block on its way, behind no other frame, that is not shown already.
BlockSent(r) ==
  /\ r \in Seen /\ job[r] = "running" /\ r \in attached
  /\ inbox[r] = <<>> /\ r \notin blocks
  /\ inbox' = [inbox EXCEPT ![r] = Append(@, "block")]
  /\ UNCHANGED <<ui, mine, checks, ws, sessions, used, attached, posts, asked, unheard, job,
                 user, run, cancel, upsets, mixed>>

\* A cancellation of a channel nobody waits for.
Posted(p) ==
  /\ p \in posts /\ posts' = posts \ {p}
  /\ IF p[1] = p[2] THEN asked' = asked \cup {p[1]} /\ inbox' = Announced(p[1])
                    ELSE UNCHANGED <<asked, inbox>>
  /\ UNCHANGED <<ui, mine, checks, ws, sessions, used, attached, unheard, job, user, run,
                 cancel, upsets, mixed>>

\* The client does not look at what becomes of it.
PostLost(p) ==
  /\ p \in posts /\ posts' = posts \ {p} /\ p[1] \in Runs /\ Fault(p[1])
  /\ unheard' = unheard \cup {p[1]}
  /\ UNCHANGED <<ui, mine, checks, ws, sessions, used, attached, inbox, asked, job, user, run,
                 cancel, mixed>>

Next ==
  IF \E r \in Runs : run[r] = "attach"
    THEN \E r \in Runs : Connected(r)
    ELSE \/ \E k \in {"async", "sync"} : Start(k)
         \/ Cancel \/ Reset \/ Redial \/ Unanswered
         \/ \E r \in Runs :
              \/ Opened(r) \/ NotOpened(r) \/ Submitted(r) \/ Accepted(r)
              \/ NotAccepted(r) \/ Failed(r) \/ Answer(r) \/ NoAnswer(r) \/ HydrateSync(r)
              \/ PollFires(r) \/ StatusAnswer(r) \/ CheckFails(r)
              \/ Downloaded(r) \/ HydrateAsync(r)
              \/ CancelAsked(r) \/ CancelEnds(r)
              \/ DialReady(r) \/ DialFails(r) \/ Closed(r) \/ Deliver(r)
              \/ BlockSent(r) \/ \E how \in Ended : JobEnds(r, how)
         \/ \E p \in posts : Posted(p) \/ PostLost(p)

Spec == Init /\ [][Next]_vars

-----------------------------------------------------------------------------
(* Properties.                                                             *)

\* The document shows the text of no other run than its own: a reply that comes
\* after a new start, a cancellation or another document is dropped, whichever
\* of the three requests of a result it answers.  The blocks read so far come
\* over the socket, whose frames nobody compares with the run: they are of the
\* last run too, or of one whose socket was left open when another was dialled.
PagesOfThisRun ==
  /\ pages \subseteq {current} \ {None}
  /\ blocks \subseteq {started} \cup strays
  /\ stage = "Idle" => blocks = {}

\* A run whose job was accepted is never left waiting: the next look at the
\* job's status is due or under way, whatever the socket did, however many of
\* the looks failed, and also if a frame had ended the run before the job was
\* accepted.
PollKeepsGoing ==
  processing /\ activeJob # None => poll = current \/ check[current].pc # "idle"

\* The late end of an older run does not cut a newer one from its progress:
\* once it has dialled, a run's reconnection is switched off by itself only.
LiveRunStaysConnected ==
  processing /\ current \in sessions /\ run[current] # "failing" => ~manual

Quiet ==
  /\ posts = {}
  /\ \A r \in Runs : /\ run[r] \in {"idle", "done"}
                     /\ check[r].pc = "idle" /\ cancel[r].pc = "idle"

\* No job runs on for nobody: when the requests have ended, the job of a run
\* the user has left was asked to stop, or had no session to ask by, or a
\* request to stop it was lost.  Unless frames of two runs were mixed: a socket
\* still being dialled is not closed by the dial of the next run, whose
\* subscription then hears both, and a cancellation it hears ends the run
\* without stopping its job.
NoRunaway ==
  Quiet => \A r \in Runs : job[r] = "running" /\ r # current /\ r \in sessions
                             => r \in asked \cup unheard \/ mixed
=============================================================================
