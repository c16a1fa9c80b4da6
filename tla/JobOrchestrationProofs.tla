----------------------- MODULE JobOrchestrationProofs -----------------------
(***************************************************************************)
(* Proofs about JobOrchestration, for any number of runs, upsets, status   *)
(* failures and reconnections, and whichever runs are unlucky.             *)
(***************************************************************************)
EXTENDS JobOrchestration, TLAPS

Future(pcs) == [pc : pcs, job : Maybe, chan : Maybe, tok : Maybe]

\* A cancellation of the channel waits to be read.
Tells(c) == \E i \in DOMAIN inbox[c] : inbox[c][i] = "cancelled"

-----------------------------------------------------------------------------
(* The inductive invariant.                                                *)

\* Types of what the connection and its teardown touch, and of the rest.
Wire ==
  /\ lastChan \in Maybe /\ lastTok \in Maybe /\ sub \in Maybe /\ closedSub \in Maybe
  /\ socket \in [Runs -> {"none", "dialing", "live", "rejected"}]
  /\ sock \in Maybe /\ target \in Maybe /\ heard \subseteq Runs
  /\ manual \in BOOLEAN /\ redial \in BOOLEAN /\ up \in BOOLEAN
  /\ attempts \in 0..MaxReconnects
  /\ attached \subseteq Runs /\ inbox \in [Runs -> Seq(Frames)]
  /\ posts \subseteq Runs \X Maybe

Typed ==
  /\ started \in 0..MaxRuns
  /\ kind \in [Runs -> {"async", "sync"}] /\ current \in Maybe
  /\ processing \in BOOLEAN /\ pages \subseteq Runs
  /\ stage \in {"Idle", "Conversion", "Queued", "Complete", "Cancelled", "Error"}
  /\ shownChan \in Maybe /\ activeJob \in Maybe /\ poll \in Maybe /\ checking \in Maybe
  /\ failures \in 0..MaxStatusFailures + 1
  /\ run \in [Runs -> {"idle", "open", "connect", "attach", "submit", "sync", "hydrate",
                       "failing", "done"}]
  /\ check \in [Runs -> Future({"idle", "status", "download", "hydrate"})]
  /\ cancel \in [Runs -> Future({"idle", "ask", "end"})]
  /\ sessions \subseteq Runs /\ used \subseteq Runs
  /\ asked \subseteq Runs /\ unheard \subseteq Runs
  /\ job \in [Runs -> {"none", "running"} \cup Ended]
  /\ upsets \in 0..MaxUpsets /\ mixed \in BOOLEAN

\* A run that was not started has left no trace.
Fresh ==
  /\ \A r \in Runs : run[r] = "idle" <=> r > started
  /\ \A r \in Runs : r > started =>
       /\ check[r].pc = "idle" /\ cancel[r].pc = "idle"
       /\ r \notin sessions /\ job[r] = "none"
  /\ current # None => current <= started
  /\ lastTok # None => lastTok <= started

\* How far a run is: past its dial it has a session, until then it is shown
\* as running and nobody has subscribed for it.
Way ==
  /\ \A r \in Runs : run[r] \in {"connect", "attach", "submit"} => r \in sessions
  /\ \A r \in sessions : run[r] \notin {"idle", "open"}
  /\ current # None /\ run[current] \in {"open", "connect", "attach"} => processing
  /\ sub # None => run[sub] \notin {"idle", "open", "connect", "attach"}

\* The job on display is the current run's, and a run that is shown as
\* running, or whose job may still be accepted, shows no result.
Shown ==
  /\ current # None /\ activeJob # None =>
       activeJob = current /\ run[current] = "done" /\ current \in sessions
  /\ current # None /\ run[current] = "hydrate" => ~processing
  /\ processing => pages = {} /\ current # None
  /\ current # None /\ run[current] = "submit" => pages = {}
  /\ pages \subseteq {current} \ {None}

\* A check of the current run is about its job, and remembers its channel.
Checked ==
  /\ current # None /\ check[current].pc # "idle" =>
       /\ activeJob = current /\ check[current].job = current
       /\ check[current].pc = "hydrate" => ~processing
       /\ check[current].pc = "download" => job[current] \in Ended
       /\ processing /\ ~mixed => check[current].chan = current /\ check[current].tok = current
  /\ current # None /\ processing /\ activeJob # None /\ checking = current =>
       check[current].pc # "idle"

\* The connection is the current run's, also of one that a frame has ended
\* before its job was accepted.
Followed ==
  /\ current \in Runs \cap sessions /\ run[current] # "failing"
  /\ processing \/ run[current] = "submit"

Live ==
  Followed =>
    /\ ~manual /\ lastTok = current
    /\ ~mixed => lastChan = current /\ shownChan = current

\* A cancellation holds the token of a run that has been left.
Tokens ==
  \A r \in Runs : cancel[r].pc # "idle" =>
    r # current /\ (cancel[r].tok # None => cancel[r].tok <= started /\ cancel[r].tok # current)

\* Only a channel that was cancelled announces it.
Told == \A c \in Runs : Tells(c) => c \in asked

\* The job of r was asked to stop, or could not be, will be, or needs not.
Settled(r) ==
  \/ r \in asked \cup unheard \/ <<r, r>> \in posts \/ job[r] \in Ended
  \/ cancel[r].pc = "ask" /\ (cancel[r].job = r \/ (cancel[r].chan = r /\ cancel[r].tok = r))
  \/ job[r] = "none" /\ run[r] \notin {"submit", "sync"}

Owned ==
  ~mixed => \A r \in sessions :
    (r = current => ~processing \/ run[r] = "failing") => Settled(r)

JInv ==
  /\ Wire /\ Typed /\ Fresh /\ Way /\ Shown /\ Checked /\ PollKeepsGoing
  /\ Live /\ Tokens /\ Told /\ Owned

-----------------------------------------------------------------------------
(* Mailboxes.                                                              *)

LEMMA AnnouncedTells ==
  ASSUME Wire, NEW c \in Maybe, inbox' = Announced(c)
  PROVE  /\ inbox' \in [Runs -> Seq(Frames)]
         /\ \A x \in Runs : Tells(x)' => Tells(x) \/ x = c
<1>1. CASE inbox' = inbox
  BY <1>1 DEF Wire, Tells
<1>2. CASE c \in attached /\ inbox' = [inbox EXCEPT ![c] = Append(@, "cancelled")]
  <2>1. c \in Runs /\ inbox[c] \in Seq(Frames) /\ "cancelled" \in Frames
    BY <1>2 DEF Wire, Frames
  <2>2. Append(inbox[c], "cancelled") \in Seq(Frames)
    BY <2>1
  <2> QED
    BY <1>2, <2>1, <2>2 DEF Wire, Tells
<1> QED
  BY <1>1, <1>2 DEF Announced

LEMMA UnplugTells ==
  ASSUME Wire, NEW s, Unplug(s)
  PROVE  /\ attached' \subseteq Runs /\ inbox' \in [Runs -> Seq(Frames)]
         /\ \A x \in Runs : Tells(x)' => Tells(x)
BY DEF Wire, Unplug, Tells

LEMMA DeliverTells ==
  ASSUME Wire, NEW r \in Runs, inbox[r] # <<>>, inbox' = [inbox EXCEPT ![r] = Tail(@)]
  PROVE  /\ inbox' \in [Runs -> Seq(Frames)]
         /\ \A x \in Runs : Tells(x)' => Tells(x)
         /\ Head(inbox[r]) = "cancelled" => Tells(r)
<1>1. inbox[r] \in Seq(Frames) /\ inbox[r] # <<>>
  BY DEF Wire
<1>2. /\ Tail(inbox[r]) \in Seq(Frames) /\ Head(inbox[r]) = inbox[r][1] /\ 1 \in DOMAIN inbox[r]
      /\ \A i \in DOMAIN Tail(inbox[r]) :
           i + 1 \in DOMAIN inbox[r] /\ Tail(inbox[r])[i] = inbox[r][i + 1]
  BY <1>1
<1>3. /\ inbox' \in [Runs -> Seq(Frames)] /\ inbox'[r] = Tail(inbox[r])
      /\ \A x \in Runs \ {r} : inbox'[x] = inbox[x]
  BY <1>2 DEF Wire
<1> QED
  BY <1>2, <1>3 DEF Tells

-----------------------------------------------------------------------------
(* What the connection's end does to the rest.                             *)

Connection == <<lastChan, lastTok, sub, manual>>

Torn(t) ==
  /\ Wire' /\ posts \subseteq posts'
  /\ \A x \in Runs : Tells(x)' => Tells(x)
  /\ \/ UNCHANGED Connection
     \/ lastTok = t /\ lastTok' = None /\ sub' = None

Kept == UNCHANGED <<mine, ws, attached, inbox, posts>>

LEMMA KeptTorn == ASSUME Wire, Kept PROVE Torn(None) /\ UNCHANGED Connection
BY DEF Wire, Kept, Torn, Connection, mine, ws, Tells

LEMMA TeardownTorn ==
  ASSUME Wire, NEW c \in Maybe, NEW t \in Maybe, NEW remote \in BOOLEAN, remote => c \in Runs,
         Teardown(c, t, remote)
  PROVE  Torn(t) /\ (remote => <<c, t>> \in posts')
<1>1. posts' \subseteq Runs \X Maybe /\ posts \subseteq posts' /\ (remote => <<c, t>> \in posts')
  BY DEF Teardown, Wire
<1>2. CASE lastChan = c /\ lastTok = t
  <2>1. /\ sub' = None /\ closedSub' = None /\ lastChan' = None /\ lastTok' = None
        /\ manual' = TRUE /\ redial' = FALSE /\ Swap(None) /\ UNCHANGED <<target, attempts>>
    BY <1>2 DEF Teardown, Disconnect
  <2>2. /\ attached' \subseteq Runs /\ inbox' \in [Runs -> Seq(Frames)]
        /\ \A x \in Runs : Tells(x)' => Tells(x)
    BY <2>1, UnplugTells DEF Swap
  <2>3. /\ socket' \in [Runs -> {"none", "dialing", "live", "rejected"}]
        /\ sock' = None /\ heard' \subseteq Runs /\ up' = FALSE
    BY <2>1 DEF Swap, Wire
  <2> QED
    BY <1>1, <1>2, <2>1, <2>2, <2>3 DEF Torn, Wire, Maybe
<1>3. CASE UNCHANGED <<mine, ws, attached, inbox>>
  BY <1>1, <1>3 DEF Torn, Wire, Connection, mine, ws, Tells
<1> QED
  BY <1>2, <1>3 DEF Teardown

LEMMA TeardownLastTorn ==
  ASSUME Wire, TeardownLast
  PROVE  Torn(lastTok) /\ (lastChan # None => <<lastChan, lastTok>> \in posts')
<1>1. CASE lastChan = None
  BY <1>1, KeptTorn DEF TeardownLast, Kept, Torn
<1>2. CASE lastChan # None /\ Teardown(lastChan, lastTok, TRUE)
  BY <1>2, TeardownTorn DEF Wire, TeardownLast, Maybe
<1> QED
  BY <1>1, <1>2 DEF TeardownLast

LEMMA LeaveTorn ==
  ASSUME Wire, NEW r \in Runs, Leave(r)
  PROVE  Torn(r) /\ (r \in sessions => <<r, r>> \in posts')
<1>1. CASE r \in sessions /\ Teardown(r, r, TRUE)
  BY <1>1, TeardownTorn DEF Maybe
<1>2. CASE r \notin sessions /\ Kept
  BY <1>2, KeptTorn DEF Torn
<1> QED
  BY <1>1, <1>2 DEF Leave, Kept

-----------------------------------------------------------------------------
(* A run, from its start to its end: one lemma for each of its steps.      *)

LEMMA StartInv ==
  ASSUME JInv, NEW k \in {"async", "sync"}, Start(k)
  PROVE  JInv'
<1> USE BoundsAssumption DEF JInv, Maybe, Runs, ui, mine, checks, ws, server, user
<1>1. Wire' /\ (\A x \in Runs : Tells(x)' => Tells(x))
  BY DEF Start, Idle, Wire, Tells
<1>2. Typed'
  BY <1>1 DEF Start, Idle, Typed, Future, Idle, Wire
<1>3. Fresh'
  BY <1>1 DEF Start, Idle, Fresh, Typed, Wire
<1>4. Way'
  BY <1>1, <1>3 DEF Start, Idle, Way, Fresh, Typed, Wire
<1>5. Shown'
  BY <1>1 DEF Start, Idle, Shown, Fresh, Way, Typed, Wire
<1>6. Checked' /\ PollKeepsGoing'
  BY <1>1 DEF Start, Idle, Checked, PollKeepsGoing, Shown, Fresh, Live, Followed, Typed, Wire
<1>7. Live'
  BY <1>1 DEF Start, Idle, Live, Followed, Fresh, Typed, Wire
<1>8. Tokens' /\ Told'
  <2>1. /\ current' = started + 1 /\ started' = started + 1 /\ started \in Nat
        /\ cancel' = cancel /\ asked' = asked
    BY DEF Start, Typed
  <2>2. \A x \in Runs : cancel[x].pc # "idle" => x # started + 1 /\ x <= started
    BY DEF Fresh, Typed
  <2>3. Tokens'
    BY <2>1, <2>2 DEF Tokens, Typed, Future
  <2> QED
    BY <1>1, <2>1, <2>3 DEF Told
<1>9. Owned'
  BY <1>1 DEF Start, Idle, Owned, Settled, Fresh, Way, Tokens, Typed, Wire
<1> QED
  BY <1>1, <1>2, <1>3, <1>4, <1>5, <1>6, <1>7, <1>8, <1>9

LEMMA NotOpenedInv ==
  ASSUME JInv, NEW r \in Runs, NotOpened(r)
  PROVE  JInv'
<1> USE BoundsAssumption DEF JInv, Maybe, Runs, ui, mine, checks, ws, server, user
<1>1. Wire' /\ (\A x \in Runs : Tells(x)' => Tells(x))
  BY DEF NotOpened, Goes, Wire, Tells
<1>2. /\ run[r] = "open" /\ r \notin sessions
      /\ \E pc \in {"sync", "done"} : run' = [run EXCEPT ![r] = pc]
      /\ processing' = processing \/ (r = current /\ processing' = FALSE)
      /\ UNCHANGED <<shownChan, activeJob, pages, mine, checks, ws, server, user, cancel, mixed>>
  <2>1. CASE kind[r] = "sync" /\ r = current
    BY <2>1 DEF NotOpened, Goes, Way
  <2>2. CASE ~(kind[r] = "sync" /\ r = current) /\ r = current
    BY <2>2 DEF NotOpened, Goes, Way, Typed
  <2>3. CASE r # current
    <3>1. processing' = processing
      <4>1. (processing /\ r # current) <=> processing
        BY <2>3
      <4>2. processing' = (processing /\ r # current)
        BY <2>3 DEF NotOpened
      <4> QED
        BY <2>3, <4>1, <4>2 DEF Typed
    <3> QED
      BY <2>3, <3>1 DEF NotOpened, Goes, Way
  <2> QED
    BY <2>1, <2>2, <2>3
<1>3. Typed'
  <2>1. upsets' \in 0..MaxUpsets
    BY DEF NotOpened, Fault, Upset, Typed
  <2>2. stage' \in {"Idle", "Conversion", "Queued", "Complete", "Cancelled", "Error"}
    BY DEF NotOpened, Typed
  <2> QED
    BY <1>2, <2>1, <2>2 DEF Typed
<1>4. Fresh'
  <2>1. run'[r] # "idle" /\ \A x \in Runs \ {r} : run'[x] = run[x]
    BY <1>2 DEF Typed
  <2>2. UNCHANGED <<started, current, lastTok, check, cancel, sessions, job>>
    BY <1>2
  <2> QED
    BY <1>2, <2>1, <2>2 DEF Fresh
<1>5. Way'
  BY <1>2 DEF Way, Typed, Wire
<1>6. Shown'
  BY <1>2 DEF Shown, Typed
<1>7. Checked' /\ PollKeepsGoing'
  BY <1>2 DEF Checked, PollKeepsGoing, Typed
<1>8. Live' /\ Tokens' /\ Told'
  BY <1>1, <1>2 DEF Live, Followed, Tokens, Told, Typed
<1>9. Owned'
  BY <1>2 DEF Owned, Settled, Typed
<1> QED
  BY <1>1, <1>3, <1>4, <1>5, <1>6, <1>7, <1>8, <1>9

-----------------------------------------------------------------------------
(* A run that was left.                                                    *)

\* The end of a run that is not the current one, whatever its last step has
\* torn down.
LEMMA LeftInv ==
  ASSUME JInv, NEW r \in Runs, r # current, run[r] # "idle", Goes(r, "done"), Torn(r),
         asked \subseteq asked', asked' \subseteq Runs,
         unheard \subseteq unheard', unheard' \subseteq Runs,
         sessions' = sessions \/ (sessions' = sessions \cup {r} /\ Settled(r)'),
         upsets' \in 0..MaxUpsets,
         UNCHANGED <<ui, checks, used, job, user, cancel, mixed>>
  PROVE  JInv'
<1> USE DEF JInv, Maybe, ui, checks, user
<1>1. /\ run'[r] = "done" /\ \A x \in Runs \ {r} : run'[x] = run[x]
      /\ run' \in [Runs -> {"idle", "open", "connect", "attach", "submit", "sync", "hydrate",
                            "failing", "done"}]
  BY DEF Goes, Typed
<1>2. Wire' /\ Typed'
  BY <1>1 DEF Torn, Typed
<1>3. Fresh'
  <2>1. lastTok' = lastTok \/ lastTok' = None
    BY DEF Torn, Connection
  <2>2. r \in 1..started
    BY BoundsAssumption DEF Fresh, Typed, Runs
  <2> QED
    BY <1>1, <2>1, <2>2, BoundsAssumption DEF Fresh, Typed, Runs
<1>4. Way'
  BY <1>1, <1>2 DEF Way, Torn, Connection, Wire, Typed
<1>5. Shown'
  BY <1>1 DEF Shown, Typed
<1>6. Checked' /\ PollKeepsGoing'
  BY DEF Checked, PollKeepsGoing, Typed
<1>7. Live'
  BY <1>1 DEF Live, Followed, Torn, Connection, Typed
<1>8. Tokens' /\ Told'
  BY DEF Tokens, Told, Torn
<1>9. Owned'
  <2>1. \A x \in Runs : Settled(x) => Settled(x)'
    BY <1>1 DEF Settled, Torn
  <2> QED
    BY <1>1, <2>1 DEF Owned, Typed
<1> QED
  BY <1>2, <1>3, <1>4, <1>5, <1>6, <1>7, <1>8, <1>9

LEMMA OpenedInv ==
  ASSUME JInv, NEW r \in Runs, Opened(r)
  PROVE  JInv'
<1> USE DEF JInv, Maybe, checks, user
<1>1. CASE r # current
  <2>1. Teardown(r, r, TRUE) /\ Goes(r, "done") /\ UNCHANGED shownChan
    BY <1>1 DEF Opened
  <2>2. Torn(r) /\ <<r, r>> \in posts'
    BY <2>1, TeardownTorn
  <2>3. Settled(r)' /\ run[r] = "open" /\ sessions' = sessions \cup {r} /\ asked' = asked
    BY <2>2 DEF Settled, Opened
  <2> QED
    BY <1>1, <2>1, <2>2, <2>3, LeftInv DEF Opened, ui, Typed
<1>2. CASE r = current
  <2>1. /\ run[r] = "open" /\ sessions' = sessions \cup {r}
        /\ lastChan' = r /\ lastTok' = r /\ shownChan' = r
        /\ manual' = FALSE /\ attempts' = 0 /\ target' = r /\ Swap(r) /\ UNCHANGED redial
        /\ run' = [run EXCEPT ![r] = "connect"]
        /\ UNCHANGED <<sub, closedSub, posts, processing, stage, activeJob, pages, checks,
                       used, asked, unheard, job, user, cancel, upsets, mixed>>
    BY <1>2 DEF Opened, Connect, Goes
  <2>2. Wire' /\ (\A x \in Runs : Tells(x)' => Tells(x))
    <3>1. /\ attached' \subseteq Runs /\ inbox' \in [Runs -> Seq(Frames)]
          /\ \A x \in Runs : Tells(x)' => Tells(x)
      BY <2>1, UnplugTells DEF Swap
    <3>2. /\ socket' \in [Runs -> {"none", "dialing", "live", "rejected"}]
          /\ sock' = None /\ heard' \subseteq Runs /\ up' = FALSE
      BY <2>1 DEF Swap, Wire
    <3>3. attempts' \in 0..MaxReconnects
      BY <2>1, BoundsAssumption
    <3> QED
      BY <2>1, <3>1, <3>2, <3>3 DEF Wire
  <2>3. Typed'
    BY <2>1 DEF Typed
  <2>4. Fresh'
    BY <1>2, <2>1, BoundsAssumption DEF Fresh, Typed, Runs
  <2>5. Way' /\ Shown'
    BY <1>2, <2>1 DEF Way, Shown, Typed, Wire
  <2>6. Checked' /\ PollKeepsGoing'
    BY <1>2, <2>1 DEF Checked, PollKeepsGoing, Typed, Shown
  <2>7. Live' /\ Tokens' /\ Told'
    BY <1>2, <2>1, <2>2 DEF Live, Followed, Tokens, Told
  <2>8. Owned'
    <3>1. processing' /\ run'[r] # "failing"
      BY <1>2, <2>1, BoundsAssumption DEF Way, Typed
    <3>2. \A x \in Runs \ {r} : Settled(x) => Settled(x)'
      BY <2>1 DEF Settled, Typed
    <3>3. \A x \in sessions \ {r} : ~mixed => Settled(x)
      BY <1>2 DEF Owned
    <3> QED
      BY <1>2, <2>1, <3>1, <3>2, <3>3 DEF Owned, Typed
  <2> QED
    BY <2>2, <2>3, <2>4, <2>5, <2>6, <2>7, <2>8
<1> QED
  BY <1>1, <1>2

LEMMA ConnectedInv ==
  ASSUME JInv, NEW r \in Runs, Connected(r)
  PROVE  JInv'
<1> USE DEF JInv, Maybe, checks, user, ui
<1>1. CASE r # current
  <2>1. Goes(r, "done") /\ Torn(r)
    <3>1. CASE kind[r] = "sync"
      BY <1>1, <3>1, LeaveTorn DEF Connected
    <3>2. CASE kind[r] # "sync"
      BY <1>1, <3>2, KeptTorn DEF Connected, Kept, Torn
    <3> QED
      BY <3>1, <3>2
  <2> QED
    BY <1>1, <2>1, LeftInv DEF Connected, Typed
<1>2. CASE r = current
  <2>1. /\ run[r] = "attach" /\ sub' = r /\ closedSub' \in {r, closedSub}
        /\ \E pc \in {"submit", "sync"} : run' = [run EXCEPT ![r] = pc]
        /\ UNCHANGED <<lastChan, lastTok, ws, attached, inbox, posts, ui, checks, sessions,
                       used, asked, unheard, job, user, cancel, upsets, mixed>>
    BY <1>2 DEF Connected, Goes
  <2>2. Wire' /\ (\A x \in Runs : Tells(x)' => Tells(x))
    BY <2>1 DEF Wire, ws, Tells
  <2>3. Typed'
    BY <2>1 DEF Typed
  <2>4. Fresh'
    BY <1>2, <2>1 DEF Fresh, Typed
  <2>5. Way' /\ Shown'
    BY <1>2, <2>1 DEF Way, Shown, Typed, Wire
  <2>6. Checked' /\ PollKeepsGoing'
    BY <2>1 DEF Checked, PollKeepsGoing
  <2>7. Live' /\ Tokens' /\ Told'
    <3>1. processing /\ current \in Runs \cap sessions
      BY <1>2, <2>1, BoundsAssumption DEF Way, Typed
    <3>2. Followed /\ run'[r] # "failing"
      BY <1>2, <2>1, <3>1 DEF Followed, Typed
    <3> QED
      BY <1>2, <2>1, <2>2, <3>2 DEF Live, Tokens, Told, ws
  <2>8. Owned'
    <3>1. processing' /\ run'[r] # "failing"
      BY <1>2, <2>1, BoundsAssumption DEF Way, Typed
    <3>2. \A x \in Runs \ {r} : Settled(x) => Settled(x)'
      BY <2>1 DEF Settled, Typed
    <3>3. \A x \in sessions \ {r} : ~mixed => Settled(x)
      BY <1>2 DEF Owned
    <3> QED
      BY <1>2, <2>1, <3>1, <3>2, <3>3 DEF Owned, Typed
  <2> QED
    BY <2>2, <2>3, <2>4, <2>5, <2>6, <2>7, <2>8
<1> QED
  BY <1>1, <1>2

LEMMA AcceptedInv ==
  ASSUME JInv, NEW r \in Runs, Accepted(r)
  PROVE  JInv'
<1> USE BoundsAssumption DEF JInv, Maybe, checks, user, ui
<1>1. CASE r # current
  <2>1. Goes(r, "done") /\ Teardown(r, r, TRUE)
    BY <1>1 DEF Accepted
  <2>3. /\ asked \subseteq asked' /\ asked' \subseteq Runs
        /\ unheard \subseteq unheard' /\ unheard' \subseteq Runs
        /\ upsets' \in 0..MaxUpsets
    BY <1>1 DEF Accepted, NoFault, Fault, Upset, Typed
  <2>2. Torn(r)
    BY <2>1, TeardownTorn
  <2> QED
    BY <1>1, <2>1, <2>2, <2>3, LeftInv DEF Accepted
<1>2. CASE r = current
  <2>1. /\ run[r] = "submit" /\ run' = [run EXCEPT ![r] = "done"] /\ r \in sessions
        /\ processing' = TRUE /\ stage' = "Queued" /\ activeJob' = r
        /\ \/ checking = r /\ poll' = None /\ check' = [check EXCEPT ![r] = Asking(r)]
           \/ checking # r /\ poll' = r /\ check' = check
        /\ Kept
        /\ UNCHANGED <<shownChan, pages, checking, failures, asked, unheard, sessions,
                       used, job, user, cancel, upsets, mixed>>
    BY <1>2 DEF Accepted, Goes, Way, Kept, NoFault
  <2>2. Wire' /\ UNCHANGED Connection /\ posts' = posts /\ \A x \in Runs : Tells(x)' => Tells(x)
    BY <2>1, KeptTorn DEF Torn, Kept
  <2>3. Asking(r) \in Future({"idle", "status", "download", "hydrate"})
    BY DEF Asking, Future, Wire, Typed
  <2>4. Typed'
    BY <2>1, <2>3 DEF Typed
  <2>5. Fresh'
    BY <1>2, <2>1, <2>2 DEF Fresh, Typed, Runs, Connection
  <2>6. Way' /\ Shown'
    BY <1>2, <2>1, <2>2 DEF Way, Shown, Typed, Wire, Connection
  <2>7. Checked' /\ PollKeepsGoing'
    <3>1. ~mixed => shownChan = r /\ lastTok = r
      BY <1>2, <2>1 DEF Live, Followed
    <3>2. CASE checking = r /\ poll' = None /\ check' = [check EXCEPT ![r] = Asking(r)]
      <4>1. check'[r] = [pc |-> "status", job |-> r, chan |-> shownChan, tok |-> lastTok]
        BY <3>2 DEF Asking, Typed
      <4> QED
        BY <1>2, <2>1, <3>1, <4>1 DEF Checked, PollKeepsGoing
    <3>3. CASE checking # r /\ poll' = r /\ check' = check
      BY <1>2, <2>1, <3>3 DEF Checked, PollKeepsGoing, Shown
    <3> QED
      BY <2>1, <3>2, <3>3
  <2>8. Live' /\ Tokens' /\ Told'
    BY <1>2, <2>1, <2>2 DEF Live, Followed, Tokens, Told, Connection, Typed
  <2>9. Owned'
    <3>1. \A x \in Runs : Settled(x) => Settled(x)'
      BY <2>1, <2>2 DEF Settled, Typed
    <3> QED
      BY <1>2, <2>1, <3>1 DEF Owned, Typed
  <2> QED
    BY <2>2, <2>4, <2>5, <2>6, <2>7, <2>8, <2>9
<1> QED
  BY <1>1, <1>2

-----------------------------------------------------------------------------
(* The end of the current run.                                             *)

\* The current run is over, or on its way there: what it tears down is its
\* own, and its job is settled.
LEMMA OverInv ==
  ASSUME JInv, NEW r \in Runs, r = current, NEW t \in Maybe, Torn(t),
         NEW pc \in {"hydrate", "failing", "done"},
         run[r] # "idle", Goes(r, pc), processing' \in BOOLEAN,
         processing' => processing /\ pc = "failing" /\ pages' = pages,
         ~processing' \/ pc = "failing",
         activeJob # None => pc = "done",
         r \in sessions /\ ~mixed => Settled(r)',
         stage' \in {"Idle", "Conversion", "Queued", "Complete", "Cancelled", "Error"},
         pages' \subseteq pages \cup {r}, upsets' \in 0..MaxUpsets,
         UNCHANGED <<shownChan, activeJob, checks, sessions, used, asked, unheard, job, user, cancel, mixed>>
  PROVE  JInv'
<1> USE BoundsAssumption DEF JInv, Maybe, checks, user
<1>1. /\ run'[r] = pc /\ \A x \in Runs \ {r} : run'[x] = run[x]
      /\ run' \in [Runs -> {"idle", "open", "connect", "attach", "submit", "sync", "hydrate",
                            "failing", "done"}]
  BY DEF Goes, Typed
<1>2. Wire' /\ Typed'
  BY <1>1 DEF Torn, Typed
<1>3. Fresh'
  <2>1. lastTok' = lastTok \/ lastTok' = None
    BY DEF Torn, Connection
  <2> QED
    BY <1>1, <2>1 DEF Fresh, Typed, Runs
<1>4. Way'
  BY <1>1, <1>2 DEF Way, Torn, Connection, Wire, Typed
<1>5. Shown'
  BY <1>1 DEF Shown, Typed
<1>6. Checked' /\ PollKeepsGoing'
  BY DEF Checked, PollKeepsGoing, Typed
<1>7. Live' /\ Tokens' /\ Told'
  BY <1>1 DEF Live, Followed, Tokens, Told, Torn
<1>9. Owned'
  <2>1. \A x \in Runs \ {r} : Settled(x) => Settled(x)'
    BY <1>1 DEF Settled, Torn
  <2>2. \A x \in sessions \ {r} : ~mixed => Settled(x)
    BY DEF Owned
  <2> QED
    BY <2>1, <2>2 DEF Owned, Typed
<1> QED
  BY <1>2, <1>3, <1>4, <1>5, <1>6, <1>7, <1>9

LEMMA FailedInv ==
  ASSUME JInv, NEW r \in Runs, Failed(r)
  PROVE  JInv'
<1> USE BoundsAssumption DEF JInv, Maybe
<1>1. /\ run[r] = "failing" /\ Goes(r, "done") /\ Kept /\ upsets' \in 0..MaxUpsets
      /\ UNCHANGED <<shownChan, activeJob, pages, checks, sessions, used, asked, unheard, job, user, cancel, mixed>>
  BY DEF Failed, Kept, server, Typed
<1>2. Torn(None)
  BY <1>1, KeptTorn
<1>3. CASE r # current
  <2>1. Torn(r)
    BY <1>1, KeptTorn DEF Torn
  <2> QED
    BY <1>1, <1>3, <2>1, LeftInv DEF Failed, ui, Typed
<1>4. CASE r = current
  <2>1. processing' = FALSE /\ stage' = "Error"
    BY <1>4 DEF Failed
  <2>2. r \in sessions /\ ~mixed => Settled(r)'
    <3>1. r \in sessions /\ ~mixed => Settled(r)
      BY <1>1 DEF Owned
    <3> QED
      BY <1>1, <1>2, <3>1 DEF Settled, Torn, Goes, Typed
  <2> QED
    BY <1>1, <1>2, <1>4, <2>1, <2>2, OverInv DEF Typed
<1> QED
  BY <1>3, <1>4

LEMMA NotAcceptedInv ==
  ASSUME JInv, NEW r \in Runs, NotAccepted(r)
  PROVE  JInv'
<1> USE BoundsAssumption DEF JInv, Maybe, checks, user, ui
<1>1. run[r] = "submit" /\ r \in sessions /\ upsets' \in 0..MaxUpsets
  BY DEF NotAccepted, Fault, Upset, Way, Typed
<1>2. CASE r # current
  <2>1. Goes(r, "done") /\ Torn(r)
    BY <1>2, KeptTorn DEF NotAccepted, Kept, Torn
  <2> QED
    BY <1>1, <1>2, <2>1, LeftInv DEF NotAccepted, Typed
<1>3. CASE r = current
  <2>1. Goes(r, "failing") /\ Torn(lastTok) /\ (lastChan # None => <<lastChan, lastTok>> \in posts')
    BY <1>3, TeardownLastTorn DEF NotAccepted
  <2>2. activeJob = None
    BY <1>1, <1>3 DEF Shown, Typed
  <2>3. ~mixed => Settled(r)'
    <3>1. CASE processing /\ ~mixed
      BY <1>1, <1>3, <2>1, <3>1 DEF Live, Followed, Settled
    <3>2. CASE ~processing /\ ~mixed
      <4>1. Settled(r)
        BY <1>1, <3>2 DEF Owned
      <4> QED
        BY <1>1, <2>1, <4>1 DEF Settled, Torn, NotAccepted
    <3> QED
      BY <3>1, <3>2 DEF Typed
  <2> QED
    BY <1>1, <1>3, <2>1, <2>2, <2>3, OverInv DEF NotAccepted, Typed, Wire
<1> QED
  BY <1>2, <1>3

\* The end of a synchronous run, with or without a session to leave.
LEMMA LeaveInv ==
  ASSUME JInv, NEW r \in Runs, run[r] \in {"sync", "hydrate"}, Leave(r), Goes(r, "done"),
         r = current => ~processing' /\ stage' \in {"Complete", "Error", stage}
                        /\ pages' \subseteq pages \cup {r} /\ UNCHANGED <<shownChan, activeJob>>,
         r # current => UNCHANGED ui, processing' \in BOOLEAN,
         upsets' \in 0..MaxUpsets,
         UNCHANGED <<checks, sessions, used, asked, unheard, job, user, cancel, mixed>>
  PROVE  JInv'
<1> USE DEF JInv
<1>1. Torn(r) /\ (r \in sessions => <<r, r>> \in posts')
  BY LeaveTorn
<1>2. r \in sessions => Settled(r)'
  BY <1>1 DEF Settled
<1>3. CASE r # current
  BY <1>1, <1>3, LeftInv DEF Typed
<1>4. CASE r = current
  <2>1. /\ stage' \in {"Idle", "Conversion", "Queued", "Complete", "Cancelled", "Error"}
        /\ r \in Maybe /\ run[r] # "idle" /\ ~processing'
    BY <1>4 DEF Typed, Maybe
  <2> QED
    BY <1>1, <1>2, <1>4, <2>1, OverInv
<1> QED
  BY <1>3, <1>4

LEMMA AnswerInv ==
  ASSUME JInv, NEW r \in Runs, Answer(r)
  PROVE  JInv'
<1> USE DEF JInv, ui
<1>1. run[r] = "sync" /\ job[r] \in Ended /\ upsets' \in 0..MaxUpsets /\ run[r] # "idle"
  BY DEF Answer, Typed
<1>2. CASE r = current /\ job[r] = "complete"
  <2>1. /\ pages' = pages \cup {r} /\ ~processing' /\ processing' \in BOOLEAN
        /\ stage' = "Complete" /\ Goes(r, "hydrate") /\ Kept /\ UNCHANGED <<shownChan, activeJob>>
    BY <1>2 DEF Answer, Kept
  <2>2. Torn(None) /\ None \in Maybe
    BY <2>1, KeptTorn DEF Maybe, Typed
  <2>3. Settled(r)'
    BY <1>1 DEF Settled, Answer
  <2>4. activeJob = None
    BY <1>1, <1>2, BoundsAssumption DEF Shown, Typed
  <2> QED
    BY <1>1, <1>2, <2>1, <2>2, <2>3, <2>4, OverInv DEF Answer
<1>3. CASE ~(r = current /\ job[r] = "complete")
  <2>1. /\ Leave(r) /\ Goes(r, "done")
        /\ r = current => ~processing' /\ stage' = "Error" /\ UNCHANGED <<shownChan, activeJob, pages>>
        /\ r # current => UNCHANGED ui
    BY <1>3 DEF Answer
  <2>2. processing' \in BOOLEAN
    BY <1>3 DEF Answer, Typed
  <2> QED
    BY <1>1, <2>1, <2>2, LeaveInv DEF Answer
<1> QED
  BY <1>2, <1>3

LEMMA NoAnswerInv ==
  ASSUME JInv, NEW r \in Runs, NoAnswer(r)
  PROVE  JInv'
<1>1. upsets' \in 0..MaxUpsets
  BY BoundsAssumption DEF JInv, NoAnswer, Fault, Upset, Typed
<1>2. processing' \in BOOLEAN
  BY DEF JInv, NoAnswer, Typed
<1> QED
  BY <1>1, <1>2, LeaveInv DEF NoAnswer, ui

LEMMA HydrateSyncInv ==
  ASSUME JInv, NEW r \in Runs, HydrateSync(r)
  PROVE  JInv'
<1>1. upsets' \in 0..MaxUpsets /\ processing' \in BOOLEAN /\ processing' = processing
  BY DEF JInv, HydrateSync, Typed
<1>2. r = current => ~processing /\ pages' \subseteq pages \cup {r}
  BY BoundsAssumption DEF JInv, Shown, HydrateSync, Hydrated
<1>3. r # current => pages' = pages
  BY DEF HydrateSync, Hydrated
<1> QED
  BY <1>1, <1>2, <1>3, LeaveInv DEF HydrateSync, ui

-----------------------------------------------------------------------------
(* The poll.                                                               *)

LEMMA AskingType ==
  ASSUME Wire, Typed, NEW j \in Maybe
  PROVE  Asking(j) \in Future({"idle", "status", "download", "hydrate"})
BY DEF Asking, Future, Wire, Typed

\* What a look at the status that is due does to the checks.
LEMMA StartCheckLook ==
  ASSUME JInv, NEW r \in Runs, StartCheck(r),
         UNCHANGED <<processing, pages, shownChan, activeJob, lastTok, sessions, job, user, run, mixed>>,
         poll' \in Maybe, poll' = poll \/ poll = r \/ Begins(r)
  PROVE  /\ checking' \in Maybe
         /\ check' \in [Runs -> Future({"idle", "status", "download", "hydrate"})]
         /\ \A x \in Runs : x # current => check'[x] = check[x]
         /\ Checked' /\ PollKeepsGoing'
<1> USE BoundsAssumption DEF JInv, Maybe, user
<1>1. CASE Begins(r)
  <2>1. r = current /\ processing /\ activeJob # None /\ check' = [check EXCEPT ![r] = Asking(activeJob)]
    BY <1>1 DEF Begins, Watched, StartCheck
  <2>2. activeJob = r /\ run[r] = "done" /\ r \in sessions
    BY <2>1 DEF Shown
  <2>3. ~mixed => shownChan = r /\ lastTok = r
    BY <2>1, <2>2 DEF Live, Followed
  <2>4. check'[r] = [pc |-> "status", job |-> r, chan |-> shownChan, tok |-> lastTok]
    BY <2>1, <2>2 DEF Asking, Typed
  <2>5. Checked' /\ PollKeepsGoing'
    BY <2>1, <2>2, <2>3, <2>4 DEF Checked, PollKeepsGoing
  <2> QED
    BY <2>1, <2>5, AskingType DEF StartCheck, Typed
<1>2. CASE ~Begins(r)
  <2>1. check' = check /\ checking' \in {r, checking}
    BY <1>2 DEF StartCheck
  <2>2. checking' # checking => r = current /\ processing /\ activeJob = None
    BY <1>2 DEF StartCheck, Begins, Watched
  <2>3. Checked'
    BY <2>1, <2>2 DEF Checked
  <2>4. PollKeepsGoing'
    <3>1. CASE r = current /\ processing
      <4>1. activeJob # None => checking = r
        BY <1>2, <3>1 DEF Begins, Watched
      <4> QED
        BY <2>1, <3>1, <4>1 DEF Checked, PollKeepsGoing
    <3>2. CASE ~(r = current /\ processing)
      BY <1>2, <2>1, <3>2 DEF PollKeepsGoing
    <3> QED
      BY <3>1, <3>2
  <2> QED
    BY <2>1, <2>3, <2>4 DEF Typed
<1> QED
  BY <1>1, <1>2

LEMMA PollFiresInv ==
  ASSUME JInv, NEW r \in Runs, PollFires(r)
  PROVE  JInv'
<1> USE DEF JInv, user
<1>1. /\ StartCheck(r) /\ poll = r /\ poll' = None /\ Kept
      /\ UNCHANGED <<ui, failures, sessions, used, asked, unheard, job, user, run, cancel, upsets, mixed>>
  BY DEF PollFires, Kept, server
<1>2. Wire' /\ UNCHANGED Connection /\ posts' = posts /\ \A x \in Runs : Tells(x)' => Tells(x)
  BY <1>1, KeptTorn DEF Torn, Kept
<1>3. /\ checking' \in Maybe /\ poll' \in Maybe
      /\ check' \in [Runs -> Future({"idle", "status", "download", "hydrate"})]
      /\ \A x \in Runs : x # current => check'[x] = check[x]
      /\ Checked' /\ PollKeepsGoing'
  BY <1>1, <1>2, StartCheckLook DEF ui, Connection, Maybe
<1>4. Typed'
  BY <1>1, <1>3 DEF Typed, ui
<1>5. Fresh'
  BY <1>1, <1>2, <1>3, BoundsAssumption DEF Fresh, Connection, Typed, Runs
<1>6. Way' /\ Shown' /\ Live' /\ Tokens' /\ Told'
  BY <1>1, <1>2 DEF Way, Shown, Live, Followed, Tokens, Told, Connection, Kept, mine, ui
<1>7. Owned'
  BY <1>1, <1>2 DEF Owned, Settled, ui
<1> QED
  BY <1>2, <1>3, <1>4, <1>5, <1>6, <1>7

\* The end of a check, over or not.
LEMMA FinallyInv ==
  ASSUME JInv, NEW r \in Runs, check[r].pc # "idle", NEW over \in BOOLEAN, Finally(r, over),
         over => ~Stale(r) /\ processing' = FALSE,
         ~over => UNCHANGED <<processing, stage>>,
         pages' = pages \/ (over /\ pages' = pages \cup {r}),
         stage' \in {"Idle", "Conversion", "Queued", "Complete", "Cancelled", "Error"},
         failures' \in 0..MaxStatusFailures + 1,
         UNCHANGED <<shownChan, activeJob, sessions, used, asked, unheard, job, user, run, cancel,
                     upsets, mixed>>
  PROVE  JInv'
<1> USE BoundsAssumption DEF JInv, Maybe, user
<1> DEFINE c == check[r].chan
           t == check[r].tok
<1>1. c \in Maybe /\ t \in Maybe /\ check[r].job \in Maybe
  BY DEF Typed, Future
<1>2. /\ Torn(IF over THEN t ELSE None)
      /\ over /\ c # None => <<c, t>> \in posts'
  <2>1. CASE over /\ r = current /\ c # None
    BY <1>1, <2>1, TeardownTorn DEF Finally
  <2>2. CASE ~(over /\ r = current /\ c # None)
    <3>1. Kept
      BY <2>2 DEF Finally, Kept
    <3>2. over => c = None
      BY <2>2 DEF Stale
    <3> QED
      BY <3>1, <3>2, KeptTorn DEF Torn
  <2> QED
    BY <2>1, <2>2
<1>3. /\ check' = [check EXCEPT ![r] = Idle] /\ check'[r].pc = "idle"
      /\ checking' = (IF checking = r THEN None ELSE checking)
      /\ poll' = (IF ~Stale(r) /\ processing' THEN r ELSE poll)
      /\ check' \in [Runs -> Future({"idle", "status", "download", "hydrate"})]
  BY DEF Finally, Idle, Typed, Future
<1>4. r = current =>
        /\ activeJob = r /\ run[r] = "done" /\ r \in sessions /\ check[r].job = r /\ ~Stale(r)
        /\ processing /\ ~mixed => c = r /\ t = r
  BY DEF Checked, Shown, Stale
<1>5. processing' => processing /\ pages' = pages
  BY DEF Typed
<1>6. ~processing' => ~processing \/ (over /\ r = current)
  BY DEF Stale
<1>7. Wire' /\ Typed'
  BY <1>2, <1>3 DEF Torn, Typed
<1>8. Fresh'
  <2>1. lastTok' = lastTok \/ lastTok' = None
    BY <1>2 DEF Torn, Connection
  <2> QED
    BY <1>3, <2>1 DEF Fresh, Typed, Runs
<1>9. Way' /\ Shown'
  <2>1. Way'
    BY <1>2, <1>4, <1>6 DEF Way, Torn, Connection, Wire, Typed
  <2>2. pages' = pages \/ (r = current /\ pages' = pages \cup {r})
    BY DEF Stale
  <2>3. Shown'
    BY <1>4, <1>5, <2>2 DEF Shown
  <2> QED
    BY <2>1, <2>3
<1>10. Checked' /\ PollKeepsGoing'
  <2>1. CASE r = current
    BY <1>3, <1>4, <2>1 DEF Checked, PollKeepsGoing
  <2>2. CASE r # current
    BY <1>3, <1>5, <2>2 DEF Checked, PollKeepsGoing, Stale, Typed
  <2> QED
    BY <2>1, <2>2
<1>11. Live'
  <2>1. Followed' => Followed /\ ~over
    BY <1>4, <1>5 DEF Followed, Stale
  <2>2. ~over => UNCHANGED Connection
    BY DEF Finally, Connection, mine, ws
  <2> QED
    BY <2>1, <2>2 DEF Live, Connection
<1>12. Tokens' /\ Told'
  BY <1>2 DEF Tokens, Told, Torn
<1>13. Owned'
  <2>1. \A x \in Runs : Settled(x) => Settled(x)'
    BY <1>2 DEF Settled, Torn
  <2>2. over /\ processing /\ ~mixed => Settled(r)'
    BY <1>2, <1>4 DEF Settled, Stale
  <2> QED
    BY <1>6, <2>1, <2>2 DEF Owned, Typed
<1> QED
  BY <1>7, <1>8, <1>9, <1>10, <1>11, <1>12, <1>13

\* A check goes on to its next request.
LEMMA GoesOnInv ==
  ASSUME JInv, NEW r \in Runs, ~Stale(r), NEW pc \in {"download", "hydrate"},
         check[r].pc # "idle", check' = [check EXCEPT ![r].pc = pc],
         pc = "hydrate" => ~processing' /\ processing' \in BOOLEAN /\ pages' = pages \cup {r},
         pc = "download" => UNCHANGED <<processing, pages>>,
         job[check[r].job] \in Ended,
         stage' \in {"Idle", "Conversion", "Queued", "Complete", "Cancelled", "Error"},
         failures' \in 0..MaxStatusFailures + 1, Kept,
         UNCHANGED <<shownChan, activeJob, poll, checking, sessions, used, asked, unheard, job, user, run,
                     cancel, upsets, mixed>>
  PROVE  JInv'
<1> USE BoundsAssumption DEF JInv, Maybe, user
<1>1. /\ r = current /\ activeJob = r /\ check[r].job = r /\ run[r] = "done" /\ r \in sessions
      /\ processing /\ ~mixed => check[r].chan = r /\ check[r].tok = r
  BY DEF Checked, Shown, Stale
<1>2. /\ check'[r] = [check[r] EXCEPT !.pc = pc]
      /\ check' \in [Runs -> Future({"idle", "status", "download", "hydrate"})]
      /\ \A x \in Runs \ {r} : check'[x] = check[x]
  BY DEF Typed, Future
<1>3. /\ check'[r].pc = pc /\ check'[r].job = r
      /\ processing /\ ~mixed => check'[r].chan = r /\ check'[r].tok = r
  BY <1>1, <1>2 DEF Typed, Future
<1>4. processing' => processing /\ pages' = pages /\ pc = "download"
  OBVIOUS
<1>5. Wire' /\ UNCHANGED Connection /\ posts' = posts /\ \A x \in Runs : Tells(x)' => Tells(x)
  BY KeptTorn DEF Torn, Kept
<1>6. Typed'
  BY <1>2 DEF Typed
<1>7. Fresh'
  BY <1>1, <1>2, <1>5 DEF Fresh, Typed, Runs, Connection
<1>8. Way' /\ Shown'
  BY <1>1, <1>4, <1>5 DEF Way, Shown, Connection, Typed
<1>9. Checked' /\ PollKeepsGoing'
  BY <1>1, <1>3, <1>4 DEF Checked, PollKeepsGoing
<1>10. Live' /\ Tokens' /\ Told'
  BY <1>4, <1>5 DEF Live, Followed, Tokens, Told, Connection, Kept, mine
<1>11. Owned'
  <2>1. \A x \in Runs : Settled(x) => Settled(x)'
    BY <1>5 DEF Settled
  <2>2. Settled(r)'
    BY <1>1 DEF Settled
  <2> QED
    BY <1>1, <2>1, <2>2 DEF Owned, Typed
<1> QED
  BY <1>5, <1>6, <1>7, <1>8, <1>9, <1>10, <1>11

LEMMA StatusAnswerInv ==
  ASSUME JInv, NEW r \in Runs, StatusAnswer(r)
  PROVE  JInv'
<1> USE BoundsAssumption DEF JInv, ui
<1>1. check[r].pc # "idle"
  BY DEF StatusAnswer
<1>2. CASE Stale(r)
  BY <1>1, <1>2, FinallyInv DEF StatusAnswer, Typed
<1>3. CASE ~Stale(r)
  <2>1. failures' = 0 /\ failures' \in 0..MaxStatusFailures + 1
    BY <1>3 DEF StatusAnswer
  <2>2. CASE job[check[r].job] = "complete"
    BY <1>1, <1>3, <2>1, <2>2, GoesOnInv DEF StatusAnswer, Kept, Ended, Typed
  <2>3. CASE job[check[r].job] = "stopped"
    <3>1. processing' = FALSE /\ stage' = "Error" /\ UNCHANGED <<shownChan, activeJob, pages>> /\ Finally(r, TRUE)
      BY <1>3, <2>3 DEF StatusAnswer
    <3> QED
      BY <1>1, <1>3, <2>1, <3>1, FinallyInv DEF StatusAnswer
  <2>4. CASE job[check[r].job] \notin {"complete", "stopped"}
    <3>1. UNCHANGED ui /\ Finally(r, FALSE)
      BY <1>3, <2>4 DEF StatusAnswer
    <3> QED
      BY <1>1, <2>1, <3>1, FinallyInv DEF StatusAnswer, Typed
  <2> QED
    BY <2>2, <2>3, <2>4
<1> QED
  BY <1>2, <1>3

LEMMA CheckFailsInv ==
  ASSUME JInv, NEW r \in Runs, CheckFails(r)
  PROVE  JInv'
<1> USE BoundsAssumption DEF JInv, ui
<1>1. check[r].pc # "idle"
  BY DEF CheckFails
<1>2. CASE Stale(r) \/ failures < MaxStatusFailures
  <2>1. Finally(r, FALSE) /\ UNCHANGED ui
    BY <1>2 DEF CheckFails
  <2>2. failures' \in 0..MaxStatusFailures + 1
    <3>1. CASE Stale(r)
      BY <3>1 DEF CheckFails, Typed
    <3>2. CASE ~Stale(r) /\ failures < MaxStatusFailures
      <4>1. failures' = failures + 1
        BY <3>2 DEF CheckFails
      <4> QED
        BY <3>2, <4>1 DEF Typed
    <3> QED
      BY <1>2, <3>1, <3>2
  <2> QED
    BY <1>1, <2>1, <2>2, FinallyInv DEF CheckFails, Typed
<1>3. CASE ~Stale(r) /\ ~(failures < MaxStatusFailures)
  <2>1. /\ failures' = MaxStatusFailures + 1 /\ processing' = FALSE /\ stage' = "Error"
        /\ UNCHANGED <<shownChan, activeJob, pages>> /\ Finally(r, TRUE)
    BY <1>3 DEF CheckFails
  <2>2. failures' \in 0..MaxStatusFailures + 1
    BY <2>1
  <2> QED
    BY <1>1, <1>3, <2>1, <2>2, FinallyInv DEF CheckFails
<1> QED
  BY <1>2, <1>3

LEMMA DownloadedInv ==
  ASSUME JInv, NEW r \in Runs, Downloaded(r)
  PROVE  JInv'
<1> USE BoundsAssumption DEF JInv, ui
<1>1. check[r].pc # "idle"
  BY DEF Downloaded
<1>2. CASE Stale(r)
  BY <1>1, <1>2, FinallyInv DEF Downloaded, Typed
<1>3. CASE ~Stale(r)
  <2>1. /\ pages' = pages \cup {r} /\ ~processing' /\ processing' \in BOOLEAN
        /\ stage' = "Complete" /\ check' = [check EXCEPT ![r].pc = "hydrate"]
    BY <1>3 DEF Downloaded
  <2>2. job[check[r].job] \in Ended
    BY <1>3 DEF Downloaded, Checked, Stale, Typed, Maybe
  <2> QED
    BY <1>1, <1>3, <2>1, <2>2, GoesOnInv DEF Downloaded, Kept, Typed
<1> QED
  BY <1>2, <1>3

LEMMA HydrateAsyncInv ==
  ASSUME JInv, NEW r \in Runs, HydrateAsync(r)
  PROVE  JInv'
<1> USE BoundsAssumption DEF JInv
<1>1. /\ check[r].pc = "hydrate" /\ Finally(r, ~Stale(r)) /\ (~Stale(r)) \in BOOLEAN
      /\ UNCHANGED <<processing, stage>>
  BY DEF HydrateAsync, Stale
<1>2. ~Stale(r) => processing' = FALSE
  BY <1>1 DEF Checked, Stale, Typed
<1>3. pages' = pages \/ (~Stale(r) /\ pages' = pages \cup {r})
  BY DEF HydrateAsync, Hydrated, Stale
<1> QED
  BY <1>1, <1>2, <1>3, FinallyInv DEF HydrateAsync, Typed

-----------------------------------------------------------------------------
(* Cancellation and reset.                                                 *)

LEMMA CancelInv ==
  ASSUME JInv, Cancel
  PROVE  JInv'
<1> USE BoundsAssumption DEF JInv, Maybe
<1>1. PICK r \in Runs : r = current
  BY DEF Cancel, Shown, Typed
<1> DEFINE order == [pc |-> "ask", job |-> activeJob, chan |-> shownChan, tok |-> lastTok]
<1>2. /\ r \in 1..started /\ processing /\ cancel[r].pc = "idle"
      /\ current' = None /\ poll' = None /\ failures' = 0 /\ processing' = FALSE
      /\ stage' = "Cancelled" /\ cancel' = [cancel EXCEPT ![r] = order]
      /\ UNCHANGED <<shownChan, activeJob, pages, mine, checking, check, ws, sessions, used,
                     attached, inbox, asked, unheard, job, started, kind, run, upsets, mixed>>
  BY <1>1 DEF Cancel, Typed, Fresh, Runs, Tokens, Future
<1>3. posts \subseteq posts' /\ posts' \subseteq Runs \X Maybe
  BY DEF Cancel, Wire
<1>4. order \in Future({"idle", "ask", "end"})
  BY DEF Future, Typed, Wire
<1>5. Wire'
  BY <1>2, <1>3 DEF Wire, mine, ws
<1>6. /\ cancel' \in [Runs -> Future({"idle", "ask", "end"})] /\ cancel'[r] = order
      /\ \A x \in Runs \ {r} : cancel'[x] = cancel[x]
  BY <1>2, <1>4 DEF Typed
<1>7. Typed'
  <2>1. failures' \in 0..MaxStatusFailures + 1
    BY <1>2
  <2> QED
    BY <1>2, <1>6, <2>1 DEF Typed
<1>8. Fresh'
  BY <1>2, <1>6 DEF Fresh, mine, Typed, Runs
<1>9. Way' /\ Shown' /\ Checked' /\ PollKeepsGoing' /\ Live'
  BY <1>2 DEF Way, Shown, Checked, PollKeepsGoing, Live, Followed, mine
<1>10. Tokens'
  BY <1>2, <1>6 DEF Tokens, Fresh, Typed
<1>11. Told'
  BY <1>2 DEF Told, Tells
<1>12. Owned'
  <2>1. \A x \in Runs \ {r} : Settled(x) => Settled(x)'
    BY <1>2, <1>3, <1>6 DEF Settled
  <2>2. Settled(r) => Settled(r)'
    BY <1>2, <1>3 DEF Settled
  <2>3. r \in sessions /\ run[r] # "failing" /\ ~mixed => Settled(r)'
    BY <1>1, <1>2, <1>6 DEF Settled, Live, Followed
  <2> QED
    BY <1>1, <1>2, <2>1, <2>2, <2>3 DEF Owned, Typed
<1> QED
  BY <1>5, <1>7, <1>8, <1>9, <1>10, <1>11, <1>12

\* A job, a channel is asked to stop or the request is lost, or a frame is
\* announced: nothing else changes for the runs.
LEMMA AskInv ==
  ASSUME JInv, NEW c \in Maybe, inbox' = Announced(c) \/ inbox' = inbox,
         asked \subseteq asked', asked' \subseteq Runs, inbox' # inbox => c \in asked',
         unheard' \subseteq Runs, upsets' \in 0..MaxUpsets,
         cancel' \in [Runs -> Future({"idle", "ask", "end"})],
         \A x \in Runs : /\ cancel'[x].tok = cancel[x].tok
                         /\ cancel'[x].pc = "idle" <=> cancel[x].pc = "idle"
                         /\ Settled(x) => Settled(x)',
         posts' \subseteq posts,
         UNCHANGED <<ui, mine, checks, ws, sessions, used, attached, job, user, run, mixed>>
  PROVE  JInv'
<1> USE BoundsAssumption DEF JInv, ui, checks, user
<1>1. /\ inbox' \in [Runs -> Seq(Frames)]
      /\ \A x \in Runs : Tells(x)' => Tells(x) \/ x \in asked'
  <2>1. CASE inbox' = inbox
    BY <2>1 DEF Wire, Tells
  <2>2. CASE inbox' # inbox
    BY <2>2, AnnouncedTells
  <2> QED
    BY <2>1, <2>2
<1>2. Wire' /\ Typed'
  BY <1>1 DEF Wire, Typed, mine, ws
<1>3. Fresh' /\ Way' /\ Shown' /\ Checked' /\ PollKeepsGoing' /\ Live'
  BY DEF Fresh, Way, Shown, Checked, PollKeepsGoing, Live, Followed, mine, ws
<1>4. Tokens' /\ Told'
  BY <1>1 DEF Tokens, Told
<1>5. Owned'
  BY DEF Owned, Typed
<1> QED
  BY <1>2, <1>3, <1>4, <1>5

LEMMA CancelAskedInv ==
  ASSUME JInv, NEW r \in Runs, CancelAsked(r)
  PROVE  JInv'
<1> USE BoundsAssumption DEF JInv
<1> DEFINE c      == cancel[r].chan
           ofChan == IF c = cancel[r].tok THEN {c} \ {None} ELSE {}
           ofJob  == {cancel[r].job} \ {None}
<1>1. c \in Maybe /\ cancel[r].job \in Maybe /\ cancel[r].pc = "ask"
  BY DEF Typed, Future, CancelAsked
<1>2. PICK lost \in SUBSET {"channel", "job"} :
        /\ IF lost = {} THEN NoFault ELSE Fault(r)
        /\ asked' = asked \cup (IF "job" \in lost THEN {} ELSE ofJob)
                          \cup (IF "channel" \in lost THEN {} ELSE ofChan)
        /\ unheard' = unheard \cup (IF "job" \in lost THEN ofJob ELSE {})
                              \cup (IF "channel" \in lost THEN ofChan ELSE {})
        /\ inbox' = IF ofChan = {} \/ "channel" \in lost THEN inbox ELSE Announced(c)
  BY DEF CancelAsked
<1>3. /\ ofChan \subseteq Runs \cap {c} /\ ofJob \subseteq Runs
      /\ c # None /\ c = cancel[r].tok => c \in ofChan
      /\ cancel[r].job # None => cancel[r].job \in ofJob
  BY <1>1 DEF Maybe
<1> HIDE DEF c, ofChan, ofJob
<1>4. /\ asked \subseteq asked' /\ asked' \subseteq Runs
      /\ unheard \subseteq unheard' /\ unheard' \subseteq Runs
      /\ ofChan \cup ofJob \subseteq asked' \cup unheard'
  BY <1>2, <1>3 DEF Typed
<1>5. inbox' = Announced(c) \/ inbox' = inbox
  BY <1>2
<1>6. inbox' # inbox => c \in asked'
  BY <1>2, <1>3
<1>7. upsets' \in 0..MaxUpsets
  BY <1>2 DEF NoFault, Fault, Upset, Typed
<1>8. /\ cancel' \in [Runs -> Future({"idle", "ask", "end"})]
      /\ cancel'[r] = [cancel[r] EXCEPT !.pc = "end"]
      /\ \A x \in Runs \ {r} : cancel'[x] = cancel[x]
  BY DEF CancelAsked, Typed, Future
<1>9. cancel'[r].pc = "end" /\ cancel'[r].tok = cancel[r].tok
  BY <1>8 DEF Typed, Future
<1>10. \A x \in Runs : Settled(x) => Settled(x)'
  <2>1. \A x \in Runs \ {r} : Settled(x) => Settled(x)'
    BY <1>4, <1>8 DEF Settled, CancelAsked
  <2>2. Settled(r) => Settled(r)'
    <3>1. CASE cancel[r].job = r
      <4>1. r \in asked' \cup unheard'
        BY <1>3, <1>4, <3>1 DEF Runs
      <4> QED
        BY <4>1 DEF Settled
    <3>2. CASE cancel[r].chan = r /\ cancel[r].tok = r
      <4>1. r \in asked' \cup unheard'
        BY <1>3, <1>4, <3>2 DEF c, Runs
      <4> QED
        BY <4>1 DEF Settled
    <3>3. CASE ~(cancel[r].job = r \/ (cancel[r].chan = r /\ cancel[r].tok = r))
      BY <1>4, <3>3 DEF Settled, CancelAsked
    <3> QED
      BY <3>1, <3>2, <3>3
  <2> QED
    BY <2>1, <2>2
<1>11. \A x \in Runs : /\ cancel'[x].tok = cancel[x].tok
                       /\ cancel'[x].pc = "idle" <=> cancel[x].pc = "idle"
  BY <1>1, <1>8, <1>9
<1>12. /\ posts' \subseteq posts
       /\ UNCHANGED <<ui, mine, checks, ws, sessions, used, attached, job, user, run, mixed>>
  BY DEF CancelAsked
<1> QED
  BY <1>1, <1>4, <1>5, <1>6, <1>7, <1>8, <1>10, <1>11, <1>12, AskInv DEF c

\* A request on its way that was honoured, or lost, is accounted for.
LEMMA SentSettled ==
  ASSUME Wire, NEW p \in posts, posts' = posts \ {p},
         asked \subseteq asked', unheard \subseteq unheard',
         p[1] = p[2] => p[1] \in asked' \cup unheard',
         UNCHANGED <<job, cancel, run>>
  PROVE  \A x \in Runs : Settled(x) => Settled(x)'
<1> SUFFICES ASSUME NEW x \in Runs, Settled(x) PROVE Settled(x)'
  OBVIOUS
<1>1. p = <<p[1], p[2]>>
  BY DEF Wire
<1>2. CASE <<x, x>> \in posts
  <2>1. <<x, x>> \in posts' \/ x \in asked' \cup unheard'
    BY <1>1, <1>2
  <2> QED
    BY <2>1 DEF Settled
<1>3. CASE <<x, x>> \notin posts
  BY <1>3 DEF Settled
<1> QED
  BY <1>2, <1>3

LEMMA PostedInv ==
  ASSUME JInv, NEW p \in posts, Posted(p)
  PROVE  JInv'
<1> USE DEF JInv
<1>1. p[1] \in Runs /\ p[1] \in Maybe /\ posts' = posts \ {p}
  BY DEF Wire, Maybe, Posted
<1>2. /\ p[1] = p[2] => asked' = asked \cup {p[1]} /\ inbox' = Announced(p[1])
      /\ p[1] # p[2] => UNCHANGED <<asked, inbox>>
      /\ unheard' = unheard
  BY DEF Posted
<1>3. /\ asked \subseteq asked' /\ asked' \subseteq Runs
      /\ inbox' = Announced(p[1]) \/ inbox' = inbox
      /\ inbox' # inbox => p[1] \in asked'
      /\ p[1] = p[2] => p[1] \in asked' \cup unheard'
  BY <1>1, <1>2 DEF Typed
<1>4. \A x \in Runs : Settled(x) => Settled(x)'
  BY <1>1, <1>2, <1>3, SentSettled DEF Posted
<1> QED
  BY <1>1, <1>2, <1>3, <1>4, AskInv DEF Posted, Typed

LEMMA PostLostInv ==
  ASSUME JInv, NEW p \in posts, PostLost(p)
  PROVE  JInv'
<1> USE BoundsAssumption DEF JInv
<1>1. /\ p[1] \in Runs /\ posts' = posts \ {p} /\ unheard' = unheard \cup {p[1]}
      /\ None \in Maybe /\ asked' = asked /\ inbox' = inbox
  BY DEF PostLost, Maybe
<1>2. upsets' \in 0..MaxUpsets /\ unheard' \subseteq Runs
  BY <1>1 DEF PostLost, Fault, Upset, Typed
<1>3. \A x \in Runs : Settled(x) => Settled(x)'
  BY <1>1, SentSettled DEF PostLost
<1> QED
  BY <1>1, <1>2, <1>3, AskInv DEF PostLost, Typed

LEMMA CancelEndsInv ==
  ASSUME JInv, NEW r \in Runs, CancelEnds(r)
  PROVE  JInv'
<1> USE BoundsAssumption DEF JInv, ui, checks, user
<1> DEFINE c == cancel[r].chan
           t == cancel[r].tok
<1>1. c \in Maybe /\ t \in Maybe /\ cancel[r].pc = "end"
  BY DEF Typed, Future, CancelEnds
<1>2. Torn(t)
  BY <1>1, TeardownTorn, KeptTorn DEF CancelEnds, Kept, Torn
<1>3. Followed => lastTok # t
  BY <1>1 DEF Live, Followed, Tokens, Typed, Maybe
<1>4. /\ cancel' \in [Runs -> Future({"idle", "ask", "end"})]
      /\ cancel'[r].pc = "idle" /\ \A x \in Runs \ {r} : cancel'[x] = cancel[x]
      /\ UNCHANGED <<ui, checks, sessions, used, asked, unheard, job, user, run, upsets, mixed>>
  BY DEF CancelEnds, Typed, Future, Idle, Maybe
<1>5. Wire' /\ Typed'
  BY <1>2, <1>4 DEF Torn, Typed
<1>6. Fresh'
  <2>1. lastTok' = lastTok \/ lastTok' = None
    BY <1>2 DEF Torn, Connection
  <2> QED
    BY <1>4, <2>1 DEF Fresh, Typed
<1>7. Way' /\ Shown' /\ Checked' /\ PollKeepsGoing'
  BY <1>2, <1>4 DEF Way, Shown, Checked, PollKeepsGoing, Torn, Connection
<1>8. Live' /\ Tokens' /\ Told'
  <2>1. Live'
    BY <1>2, <1>3, <1>4 DEF Live, Followed, Torn, Connection
  <2>2. Tokens'
    BY <1>4 DEF Tokens
  <2> QED
    BY <1>2, <1>4, <2>1, <2>2 DEF Told, Torn
<1>9. Owned'
  <2>1. \A x \in Runs : Settled(x) => Settled(x)'
    BY <1>1, <1>2, <1>4 DEF Settled, Torn
  <2> QED
    BY <1>4, <2>1 DEF Owned, Typed
<1> QED
  BY <1>5, <1>6, <1>7, <1>8, <1>9

LEMMA ResetInv ==
  ASSUME JInv, Reset
  PROVE  JInv'
<1> USE BoundsAssumption DEF JInv, Maybe
<1>1. Torn(lastTok) /\ (lastChan # None => <<lastChan, lastTok>> \in posts')
  BY TeardownLastTorn DEF Reset
<1>2. /\ current' = None /\ poll' = None /\ failures' = 0 /\ processing' = FALSE
      /\ stage' = "Idle" /\ shownChan' = None /\ activeJob' = None /\ pages' = {}
      /\ UNCHANGED <<checking, check, sessions, used, asked, unheard, job, started, kind, run, cancel, mixed>>
  BY DEF Reset
<1>3. Wire' /\ Typed'
  <2>1. failures' \in 0..MaxStatusFailures + 1 /\ upsets' \in 0..MaxUpsets
    BY <1>2 DEF Reset, Upset, Typed
  <2> QED
    BY <1>1, <1>2, <2>1 DEF Torn, Typed
<1>4. Fresh'
  <2>1. lastTok' = lastTok \/ lastTok' = None
    BY <1>1 DEF Torn, Connection
  <2> QED
    BY <1>2, <2>1 DEF Fresh, Typed
<1>5. Way' /\ Shown' /\ Checked' /\ PollKeepsGoing' /\ Live'
  BY <1>1, <1>2 DEF Way, Shown, Checked, PollKeepsGoing, Live, Followed, Torn, Connection
<1>6. Tokens' /\ Told'
  BY <1>1, <1>2 DEF Tokens, Told, Torn, Typed, Future
<1>7. Owned'
  <2>1. \A x \in Runs : Settled(x) => Settled(x)'
    BY <1>1, <1>2 DEF Settled, Torn
  <2>2. processing /\ current \in sessions /\ run[current] # "failing" /\ ~mixed =>
          <<current, current>> \in posts'
    BY <1>1 DEF Live, Followed, Typed
  <2>3. \A x \in sessions : ~mixed => Settled(x) \/ <<x, x>> \in posts'
    BY <2>2 DEF Owned
  <2> QED
    BY <1>2, <2>1, <2>3 DEF Owned, Settled, Typed
<1> QED
  BY <1>3, <1>4, <1>5, <1>6, <1>7

-----------------------------------------------------------------------------
(* The socket, and the server.                                             *)

\* A step of the socket: a dial that has ended, a look at the status that is
\* due, and nothing else of the notifier's.
LEMMA SocketInv ==
  ASSUME JInv, Wire', \A x \in Runs : Tells(x)' => Tells(x),
         NEW d \in Runs, Dialled(d) \/ run' = run,
         UNCHANGED checks \/ (run' = run /\ poll' \in Maybe /\ \E s \in Runs :
           StartCheck(s) /\ (poll' = poll \/ Begins(s))),
         used' \subseteq Runs, upsets' \in 0..MaxUpsets,
         UNCHANGED <<ui, mine, failures, manual, posts, sessions, asked, unheard, job, user, cancel, mixed>>
  PROVE  JInv'
<1> USE BoundsAssumption DEF JInv, mine, user
<1>1. /\ \A x \in Runs : run'[x] = run[x] \/ (run[x] = "connect" /\ run'[x] = "attach")
      /\ run' \in [Runs -> {"idle", "open", "connect", "attach", "submit", "sync", "hydrate",
                            "failing", "done"}]
  <2>1. run' = run \/ (run[d] = "connect" /\ run' = [run EXCEPT ![d] = "attach"])
    BY DEF Dialled
  <2> QED
    BY <2>1 DEF Typed
<1>2. /\ checking' \in Maybe /\ poll' \in Maybe
      /\ check' \in [Runs -> Future({"idle", "status", "download", "hydrate"})]
      /\ \A x \in Runs : x # current => check'[x] = check[x]
      /\ Checked' /\ PollKeepsGoing'
  <2>1. CASE UNCHANGED checks
    BY <2>1 DEF checks, ui, Typed, Checked, PollKeepsGoing
  <2>2. CASE run' = run /\ poll' \in Maybe /\ \E s \in Runs :
               StartCheck(s) /\ (poll' = poll \/ Begins(s))
    BY <2>2, StartCheckLook DEF ui
  <2> QED
    BY <2>1, <2>2
<1>3. Typed'
  BY <1>1, <1>2 DEF Typed, ui
<1>4. Fresh'
  BY <1>1, <1>2 DEF Fresh, Typed, Runs
<1>5. Way' /\ Shown'
  BY <1>1 DEF Way, Shown, ui, Typed, Wire, Maybe
<1>6. Live'
  BY <1>1 DEF Live, Followed, ui, Typed, Maybe
<1>7. Tokens' /\ Told'
  BY DEF Tokens, Told
<1>8. Owned'
  <2>1. \A x \in Runs : Settled(x) => Settled(x)'
    BY <1>1 DEF Settled
  <2> QED
    BY <1>1, <2>1 DEF Owned, ui, Typed
<1> QED
  BY <1>2, <1>3, <1>4, <1>5, <1>6, <1>7, <1>8

LEMMA SwapWire ==
  ASSUME Wire, NEW r \in Maybe, Swap(r)
  PROVE  /\ socket' \in [Runs -> {"none", "dialing", "live", "rejected"}]
         /\ sock' \in Maybe /\ heard' \subseteq Runs /\ up' \in BOOLEAN
         /\ attached' \subseteq Runs /\ inbox' \in [Runs -> Seq(Frames)]
         /\ \A x \in Runs : Tells(x)' => Tells(x)
<1>1. Unplug({sock}) /\ sock' = None /\ heard' = heard \ {sock} /\ up' = FALSE
  BY DEF Swap
<1>2. socket' \in [Runs -> {"none", "dialing", "live", "rejected"}]
  BY DEF Swap, Wire
<1> QED
  BY <1>1, <1>2, UnplugTells DEF Wire, Maybe

LEMMA RescheduleType ==
  ASSUME Wire, ScheduleReconnect
  PROVE  attempts' \in 0..MaxReconnects /\ redial' \in BOOLEAN
<1>1. attempts \in 0..MaxReconnects /\ redial \in BOOLEAN /\ MaxReconnects \in Nat
  BY BoundsAssumption DEF Wire
<1>2. CASE manual \/ target = None \/ attempts >= MaxReconnects
  BY <1>1, <1>2 DEF ScheduleReconnect
<1>3. CASE ~(manual \/ target = None \/ attempts >= MaxReconnects)
  <2>1. attempts' = attempts + 1 /\ redial' = TRUE /\ attempts < MaxReconnects
    BY <1>1, <1>3 DEF ScheduleReconnect
  <2> QED
    BY <1>1, <2>1
<1> QED
  BY <1>2, <1>3

LEMMA DialReadyInv ==
  ASSUME JInv, NEW r \in Runs, DialReady(r)
  PROVE  JInv'
<1> USE DEF JInv
<1>1. /\ inbox' \in [Runs -> Seq(Frames)] /\ attached' \subseteq Runs
      /\ \A x \in Runs : Tells(x)' => Tells(x)
  <2>1. CASE UNCHANGED <<attached, inbox>>
    BY <2>1 DEF Wire, Tells
  <2>2. CASE attached' = attached \cup {r} /\ inbox' = [inbox EXCEPT ![r] = <<"connected">>]
    <3>1. <<"connected">> \in Seq(Frames) /\ \A i \in DOMAIN <<"connected">> : <<"connected">>[i] # "cancelled"
      BY DEF Frames
    <3> QED
      BY <2>2, <3>1 DEF Wire, Tells
  <2> QED
    BY <2>1, <2>2 DEF DialReady
<1>2. socket' \in [Runs -> {"none", "dialing", "live", "rejected"}]
  BY DEF DialReady, Wire
<1>3. attempts' \in 0..MaxReconnects
  BY BoundsAssumption DEF DialReady
<1>4. Wire'
  BY <1>1, <1>2, <1>3 DEF DialReady, Wire, Maybe, mine
<1>5. used' \subseteq Runs /\ upsets' \in 0..MaxUpsets
  BY DEF DialReady, Typed
<1> QED
  BY <1>1, <1>4, <1>5, SocketInv DEF DialReady, checks

LEMMA DialFailsInv ==
  ASSUME JInv, NEW r \in Runs, DialFails(r)
  PROVE  JInv'
<1> USE DEF JInv
<1>1. attempts' \in 0..MaxReconnects /\ redial' \in BOOLEAN
  BY RescheduleType DEF DialFails
<1>2. Wire' /\ \A x \in Runs : Tells(x)' => Tells(x)
  BY <1>1 DEF DialFails, Wire, Tells, mine, server
<1>3. used' \subseteq Runs /\ upsets' \in 0..MaxUpsets
  BY BoundsAssumption DEF DialFails, Typed, Fault, Upset, server
<1> QED
  BY <1>2, <1>3, SocketInv DEF DialFails, checks, server

LEMMA RedialInv ==
  ASSUME JInv, Redial
  PROVE  JInv'
<1> USE DEF JInv
<1>1. Swap(target) /\ target \in Maybe
  BY DEF Redial, Wire
<1>2. Wire' /\ \A x \in Runs : Tells(x)' => Tells(x)
  BY <1>1, SwapWire DEF Redial, Wire, mine
<1>3. used' \subseteq Runs /\ upsets' \in 0..MaxUpsets /\ 1 \in Runs
  BY BoundsAssumption DEF Redial, Typed, Runs
<1> QED
  BY <1>2, <1>3, SocketInv DEF Redial, checks

LEMMA ClosedInv ==
  ASSUME JInv, NEW r \in Runs, Closed(r)
  PROVE  JInv'
<1> USE DEF JInv
<1>1. attempts' \in 0..MaxReconnects /\ redial' \in BOOLEAN
  BY RescheduleType DEF Closed, Wire
<1>2. /\ attached' \subseteq Runs /\ inbox' \in [Runs -> Seq(Frames)]
      /\ \A x \in Runs : Tells(x)' => Tells(x)
  BY UnplugTells DEF Closed
<1>3. socket' \in [Runs -> {"none", "dialing", "live", "rejected"}] /\ heard' \subseteq Runs
  BY DEF Closed, Wire
<1>4. Wire'
  BY <1>1, <1>2, <1>3 DEF Closed, Wire, mine
<1>5. used' \subseteq Runs /\ upsets' \in 0..MaxUpsets
  BY BoundsAssumption DEF Closed, Typed, Fault, Upset, NoFault
<1>6. \/ UNCHANGED checks
      \/ poll' \in Maybe /\ \E s \in Runs : StartCheck(s) /\ (poll' = poll \/ Begins(s))
  <2>1. CASE manual \/ closedSub = None
    BY <2>1 DEF Closed, checks
  <2>2. CASE ~manual /\ closedSub # None
    <3>1. StartCheck(closedSub) /\ poll' = IF Begins(closedSub) THEN None ELSE poll
      BY <2>2 DEF Closed
    <3>2. closedSub \in Runs /\ poll \in Maybe /\ None \in Maybe
      BY <2>2 DEF Wire, Typed, Maybe
    <3> QED
      BY <3>1, <3>2
  <2> QED
    BY <2>1, <2>2
<1> QED
  BY <1>2, <1>4, <1>5, <1>6, SocketInv DEF Closed

LEMMA UnansweredInv ==
  ASSUME JInv, Unanswered
  PROVE  JInv'
<1> USE DEF JInv
<1>1. attempts' \in 0..MaxReconnects /\ redial' \in BOOLEAN
  BY RescheduleType DEF Unanswered
<1>2. Wire' /\ \A x \in Runs : Tells(x)' => Tells(x)
  BY <1>1 DEF Unanswered, Wire, Tells, mine, server
<1>3. used' \subseteq Runs /\ upsets' \in 0..MaxUpsets /\ 1 \in Runs
  BY BoundsAssumption DEF Unanswered, Typed, Fault, Upset, server, Runs
<1> QED
  BY <1>2, <1>3, SocketInv DEF Unanswered, checks, server

LEMMA DeliverInv ==
  ASSUME JInv, NEW r \in Runs, Deliver(r)
  PROVE  JInv'
<1> USE BoundsAssumption DEF JInv, Maybe, checks, user, ws
<1> DEFINE told == sub # None /\ Watched(sub)
           frame == Head(inbox[r])
<1>1. /\ inbox' \in [Runs -> Seq(Frames)] /\ \A x \in Runs : Tells(x)' => Tells(x)
      /\ frame = "cancelled" => Tells(r)
  BY DeliverTells DEF Deliver
<1>2. told => sub = current /\ current \in Runs /\ processing
  BY DEF Watched, Wire
<1>3. /\ mixed' \in BOOLEAN
      /\ ~mixed' => ~mixed /\ (told => r = current)
  <2>1. CASE mixed \/ (told /\ r # current)
    BY <2>1 DEF Deliver
  <2>2. CASE ~(mixed \/ (told /\ r # current))
    BY <2>2 DEF Deliver
  <2> QED
    BY <2>1, <2>2
<1>4. /\ \/ told /\ frame = "connected" /\ lastChan' = r /\ shownChan' = r
         \/ UNCHANGED <<lastChan, shownChan>>
      /\ \/ told /\ frame = "cancelled" /\ processing' = FALSE /\ stage' = "Cancelled"
         \/ UNCHANGED <<processing, stage>>
      /\ UNCHANGED <<activeJob, pages, lastTok, sub, closedSub, checks, ws, sessions, used, attached,
                     posts, asked, unheard, job, user, run, cancel, upsets>>
  BY DEF Deliver
<1> HIDE DEF told, frame
<1>5. Wire' /\ Typed'
  <2>1. lastChan' \in Maybe /\ shownChan' \in Maybe
    BY <1>4 DEF Wire, Typed
  <2>2. processing' \in BOOLEAN
    BY <1>4 DEF Typed
  <2>3. stage' \in {"Idle", "Conversion", "Queued", "Complete", "Cancelled", "Error"}
    BY <1>4 DEF Typed
  <2>4. Wire'
    BY <1>1, <1>4, <2>1 DEF Wire
  <2>5. Typed'
    BY <1>3, <1>4, <2>1, <2>2, <2>3 DEF Typed
  <2> QED
    BY <2>4, <2>5
<1>6. Fresh'
  BY <1>4 DEF Fresh
<1>7. Way' /\ Shown'
  BY <1>2, <1>4 DEF Way, Shown
<1>8. Checked' /\ PollKeepsGoing'
  BY <1>3, <1>4 DEF Checked, PollKeepsGoing
<1>9. Live' /\ Tokens' /\ Told'
  <2>1. CASE told /\ frame = "connected" /\ lastChan' = r /\ shownChan' = r
    <3>1. Live'
      BY <1>2, <1>3, <1>4, <2>1 DEF Live, Followed, Typed
    <3> QED
      BY <1>1, <1>4, <3>1 DEF Tokens, Told
  <2>2. CASE UNCHANGED <<lastChan, shownChan>>
    <3>1. processing' => processing
      BY <1>2, <1>4
    <3>2. Live'
      BY <1>3, <1>4, <2>2, <3>1 DEF Live, Followed
    <3> QED
      BY <1>1, <1>4, <3>2 DEF Tokens, Told
  <2> QED
    BY <1>4, <2>1, <2>2
<1>10. Owned'
  <2>1. \A x \in Runs : Settled(x) => Settled(x)'
    BY <1>4 DEF Settled
  <2>2. ~mixed' /\ processing' # processing => current \in asked
    BY <1>1, <1>3, <1>4 DEF Told
  <2>3. ~mixed' /\ processing' # processing => Settled(current)'
    BY <1>4, <2>2 DEF Settled
  <2> QED
    BY <1>3, <1>4, <2>1, <2>3 DEF Owned, Typed
<1> QED
  BY <1>5, <1>6, <1>7, <1>8, <1>9, <1>10

LEMMA BlockSentInv ==
  ASSUME JInv, NEW r \in Runs, BlockSent(r)
  PROVE  JInv'
<1> USE DEF JInv
<1>1. inbox[r] \in Seq(Frames) /\ "block" \in Frames /\ inbox[r] = <<>>
  BY DEF Wire, Frames, BlockSent
<1>2. /\ Append(inbox[r], "block") \in Seq(Frames)
      /\ \A i \in DOMAIN Append(inbox[r], "block") : Append(inbox[r], "block")[i] = "block"
  BY <1>1
<1>3. /\ inbox' \in [Runs -> Seq(Frames)] /\ inbox'[r] = Append(inbox[r], "block")
      /\ \A x \in Runs \ {r} : inbox'[x] = inbox[x]
  BY <1>2 DEF BlockSent, Wire
<1>4. \A x \in Runs : Tells(x)' => Tells(x)
  BY <1>2, <1>3 DEF Tells
<1>5. Wire'
  BY <1>3 DEF BlockSent, Wire, mine, ws
<1> QED
  BY <1>4, <1>5, SocketInv DEF BlockSent, checks, ws, Typed

\* A job arrives or ends.
LEMMA JobInv ==
  ASSUME JInv, NEW r \in Runs, NEW s \in {"running"} \cup Ended,
         \/ job[r] = "none" /\ run[r] \in {"submit", "sync"}
         \/ job[r] = "running" /\ s \in Ended,
         job' = [job EXCEPT ![r] = s], Kept,
         UNCHANGED <<ui, checks, sessions, used, asked, unheard, user, run, cancel, upsets, mixed>>
  PROVE  JInv'
<1> USE DEF JInv, user, ui, checks
<1>1. Wire' /\ UNCHANGED Connection /\ posts' = posts /\ \A x \in Runs : Tells(x)' => Tells(x)
  BY KeptTorn DEF Torn, Kept
<1>2. /\ job' \in [Runs -> {"none", "running"} \cup Ended]
      /\ job'[r] = s /\ \A x \in Runs \ {r} : job'[x] = job[x]
  BY DEF Typed
<1>3. job[r] \notin Ended /\ run[r] # "idle"
  BY DEF Ended, Fresh
<1>4. Typed'
  BY <1>2 DEF Typed
<1>5. Fresh'
  BY <1>1, <1>2, <1>3 DEF Fresh, Connection
<1>6. Way' /\ Shown' /\ Live' /\ Tokens' /\ Told'
  BY <1>1 DEF Way, Shown, Live, Followed, Tokens, Told, Connection, Kept, mine
<1>7. Checked' /\ PollKeepsGoing'
  <2>1. current # None /\ check[current].pc = "download" => current \in Runs \ {r} \/ s \in Ended
    BY <1>3 DEF Checked, Typed, Maybe
  <2> QED
    BY <1>2, <2>1 DEF Checked, PollKeepsGoing
<1>8. Owned'
  <2>1. \A x \in Runs : Settled(x) => Settled(x)'
    BY <1>1, <1>2, <1>3 DEF Settled
  <2> QED
    BY <2>1 DEF Owned, Typed
<1> QED
  BY <1>1, <1>4, <1>5, <1>6, <1>7, <1>8

-----------------------------------------------------------------------------
(* The invariant.                                                          *)

LEMMA InitInv == Init => JInv
<1> SUFFICES ASSUME Init PROVE JInv
  OBVIOUS
<1> USE BoundsAssumption DEF Init, Maybe
<1>1. Wire
  <2>1. inbox \in [Runs -> Seq(Frames)] /\ attempts \in 0..MaxReconnects
    OBVIOUS
  <2> QED
    BY <2>1 DEF Wire
<1>2. Typed
  <2>1. Idle \in Future({"idle", "status", "download", "hydrate"}) /\ Idle \in Future({"idle", "ask", "end"})
    BY DEF Idle, Future
  <2>2. /\ check \in [Runs -> Future({"idle", "status", "download", "hydrate"})]
        /\ cancel \in [Runs -> Future({"idle", "ask", "end"})]
    BY <2>1
  <2>3. failures \in 0..MaxStatusFailures + 1 /\ upsets \in 0..MaxUpsets /\ started \in 0..MaxRuns
    OBVIOUS
  <2> QED
    BY <2>2, <2>3 DEF Typed
<1>3. Fresh
  BY DEF Fresh, Idle, Runs
<1>4. \A x \in Runs : ~Tells(x)
  BY DEF Tells
<1>5. Way /\ Shown /\ Checked /\ PollKeepsGoing /\ Live /\ Tokens /\ Told /\ Owned
  BY <1>4 DEF Way, Shown, Checked, PollKeepsGoing, Live, Followed, Tokens, Told, Owned, Idle
<1> QED
  BY <1>1, <1>2, <1>3, <1>5 DEF JInv

LEMMA UnchangedInv ==
  ASSUME JInv, UNCHANGED vars
  PROVE  JInv'
<1> USE DEF JInv, vars, ui, mine, checks, ws, server, user
<1>1. Wire' /\ Typed' /\ Fresh' /\ Way' /\ Shown'
  BY DEF Wire, Typed, Fresh, Way, Shown
<1>2. Checked' /\ PollKeepsGoing' /\ Live' /\ Tokens'
  BY DEF Checked, PollKeepsGoing, Live, Followed, Tokens
<1>3. Told' /\ Owned'
  BY DEF Told, Tells, Owned, Settled
<1> QED
  BY <1>1, <1>2, <1>3

LEMMA NextInv ==
  ASSUME JInv, [Next]_vars
  PROVE  JInv'
<1>1. CASE \E r \in Runs : Connected(r)
  BY <1>1, ConnectedInv
<1>2. CASE \E k \in {"async", "sync"} : Start(k)
  BY <1>2, StartInv
<1>3. CASE Cancel \/ Reset \/ Redial \/ Unanswered
  BY <1>3, CancelInv, ResetInv, RedialInv, UnansweredInv
<1>4. ASSUME NEW r \in Runs,
             \/ Opened(r) \/ NotOpened(r) \/ Accepted(r) \/ NotAccepted(r) \/ Failed(r)
             \/ Answer(r) \/ NoAnswer(r) \/ HydrateSync(r)
      PROVE  JInv'
  BY <1>4, OpenedInv, NotOpenedInv, AcceptedInv, NotAcceptedInv, FailedInv, AnswerInv,
     NoAnswerInv, HydrateSyncInv
<1>5. ASSUME NEW r \in Runs,
             \/ PollFires(r) \/ StatusAnswer(r) \/ CheckFails(r) \/ Downloaded(r) \/ HydrateAsync(r)
             \/ CancelAsked(r) \/ CancelEnds(r)
      PROVE  JInv'
  BY <1>5, PollFiresInv, StatusAnswerInv, CheckFailsInv, DownloadedInv, HydrateAsyncInv,
     CancelAskedInv, CancelEndsInv
<1>6. ASSUME NEW r \in Runs,
             DialReady(r) \/ DialFails(r) \/ Closed(r) \/ Deliver(r) \/ BlockSent(r)
      PROVE  JInv'
  BY <1>6, DialReadyInv, DialFailsInv, ClosedInv, DeliverInv, BlockSentInv
<1>7. ASSUME NEW r \in Runs, Submitted(r)
      PROVE  JInv'
  BY <1>7, JobInv DEF Submitted, Kept
<1>8. ASSUME NEW r \in Runs, NEW how \in Ended, JobEnds(r, how)
      PROVE  JInv'
  BY <1>8, JobInv DEF JobEnds, Kept
<1>9. CASE \E p \in posts : Posted(p) \/ PostLost(p)
  BY <1>9, PostedInv, PostLostInv
<1>10. CASE UNCHANGED vars
  BY <1>10, UnchangedInv
<1> QED
  BY <1>1, <1>2, <1>3, <1>4, <1>5, <1>6, <1>7, <1>8, <1>9, <1>10 DEF Next

LEMMA Invariance == Spec => []JInv
<1>1. JInv /\ [Next]_vars => JInv'
  BY NextInv
<1> QED
  BY <1>1, InitInv, PTL DEF Spec

-----------------------------------------------------------------------------
(* The blocks: whose sockets may still be heard.                           *)

\* A socket that is dialled or admitted is the one that is wanted, or was left
\* open; only an admitted one has frames.
Lines ==
  /\ strays \subseteq Runs
  /\ \A r \in Runs : socket[r] = "dialing" \/ r \in attached => r = target \/ r \in strays
  /\ \A r \in Runs : inbox[r] # <<>> => r \in attached

\* The current run is the last one; once it has its session, its socket is the
\* one that is wanted.
Latest ==
  /\ current # None => current = started /\ (current \in sessions => target = current)
  /\ sub # None => sub \in sessions
  /\ processing => stage # "Idle"

Read ==
  /\ blocks \subseteq Runs /\ blocks \subseteq {started} \cup strays
  /\ stage = "Idle" => blocks = {}

BInv == Lines /\ Latest /\ Read

Hushed ==
  Lines' /\ target' = target /\ strays \subseteq strays' /\ (sub' = sub \/ sub' = None)

LEMMA KeptHush == ASSUME Lines, Kept PROVE Hushed
BY DEF Kept, Lines, Hushed, mine, ws

LEMMA UnplugLines ==
  ASSUME Wire, NEW s, Unplug(s)
  PROVE  /\ attached' = attached \ s
         /\ \A x \in Runs : inbox'[x] = IF x \in s THEN <<>> ELSE inbox[x]
BY DEF Wire, Unplug

LEMMA SwapLines ==
  ASSUME Wire, Lines, NEW r \in Maybe, Swap(r), r = None => target' = target, r # None => target' = r
  PROVE  Lines' /\ strays \subseteq strays'
<1>1. /\ attached' = attached \ {sock}
      /\ \A x \in Runs : inbox'[x] = IF x \in {sock} THEN <<>> ELSE inbox[x]
  BY UnplugLines DEF Swap
<1>2. /\ \A x \in Runs : socket'[x] = IF x = r THEN "dialing"
                                       ELSE IF x = sock THEN "none" ELSE socket[x]
      /\ strays \subseteq strays' /\ strays' \subseteq Runs
      /\ \A x \in Runs \ {r, sock} :
           r # None /\ (socket[x] = "dialing" \/ x \in attached) => x \in strays'
  BY DEF Swap, Lines
<1> QED
  BY <1>1, <1>2, BoundsAssumption DEF Lines, Maybe

LEMMA TeardownHush ==
  ASSUME Wire, Lines, NEW c, NEW t, NEW remote, Teardown(c, t, remote)
  PROVE  Hushed
<1>1. CASE lastChan = c /\ lastTok = t
  BY <1>1, SwapLines DEF Teardown, Disconnect, Hushed, Maybe
<1>2. CASE ~(lastChan = c /\ lastTok = t)
  BY <1>2 DEF Teardown, Lines, Hushed, mine, ws
<1> QED
  BY <1>1, <1>2

LEMMA TeardownLastHush ==
  ASSUME Wire, Lines, TeardownLast
  PROVE  Hushed
BY TeardownHush, KeptHush DEF TeardownLast, Kept

LEMMA LeaveHush ==
  ASSUME Wire, Lines, NEW r, Leave(r)
  PROVE  Hushed
BY TeardownHush, KeptHush DEF Leave, Kept

\* A step that reads no block and makes no run the current one.
LEMMA HushStep ==
  ASSUME BInv, Hushed, started' = started, blocks' = blocks,
         current' = current \/ current' = None,
         sessions \subseteq sessions',
         current \in sessions' => current \in sessions,
         processing' => stage' # "Idle", stage' = "Idle" => stage = "Idle"
  PROVE  BInv'
<1>1. Latest'
  BY DEF BInv, Latest, Hushed
<1>2. Read'
  BY DEF BInv, Read, Hushed, Lines
<1> QED
  BY <1>1, <1>2 DEF BInv, Hushed

LEMMA RunBlocks ==
  ASSUME JInv, BInv, NEW r \in Runs,
         \/ NotOpened(r) \/ Accepted(r) \/ NotAccepted(r) \/ Failed(r)
         \/ Answer(r) \/ NoAnswer(r) \/ HydrateSync(r) \/ Submitted(r)
  PROVE  BInv'
<1> USE DEF JInv, BInv
<1> DEFINE plain == /\ UNCHANGED <<started, blocks, current, sessions>>
                    /\ stage' \in {stage, "Error", "Queued", "Complete"}
                    /\ processing' => processing \/ stage' = "Queued"
<1>1. CASE NotOpened(r)
  <2>1. Hushed
    BY <1>1, KeptHush DEF NotOpened, Kept, server
  <2>2. plain
    BY <1>1 DEF NotOpened, user, ui, server
  <2> QED
    BY <2>1, <2>2, HushStep DEF Latest
<1>2. CASE Accepted(r)
  <2>1. Hushed
    BY <1>2, KeptHush, TeardownHush DEF Accepted, Kept
  <2>2. plain
    BY <1>2 DEF Accepted, user, ui
  <2> QED
    BY <2>1, <2>2, HushStep DEF Latest
<1>3. CASE NotAccepted(r)
  <2>1. Hushed
    BY <1>3, KeptHush, TeardownLastHush DEF NotAccepted, Kept
  <2>2. plain
    BY <1>3 DEF NotAccepted, user, ui
  <2> QED
    BY <2>1, <2>2, HushStep DEF Latest
<1>4. CASE Failed(r)
  <2>1. Hushed
    BY <1>4, KeptHush DEF Failed, Kept, server
  <2>2. plain
    BY <1>4 DEF Failed, user, ui, server
  <2> QED
    BY <2>1, <2>2, HushStep DEF Latest
<1>5. CASE Answer(r)
  <2>1. Hushed
    BY <1>5, KeptHush, LeaveHush DEF Answer, Kept
  <2>2. plain
    BY <1>5 DEF Answer, user, ui
  <2> QED
    BY <2>1, <2>2, HushStep DEF Latest
<1>6. CASE NoAnswer(r)
  <2>1. Hushed
    BY <1>6, LeaveHush DEF NoAnswer
  <2>2. plain
    BY <1>6 DEF NoAnswer, user, ui
  <2> QED
    BY <2>1, <2>2, HushStep DEF Latest
<1>7. CASE HydrateSync(r)
  <2>1. Hushed
    BY <1>7, LeaveHush DEF HydrateSync
  <2>2. plain
    BY <1>7 DEF HydrateSync, user, ui
  <2> QED
    BY <2>1, <2>2, HushStep DEF Latest
<1>8. CASE Submitted(r)
  <2>1. Hushed
    BY <1>8, KeptHush DEF Submitted, Kept
  <2>2. plain
    BY <1>8 DEF Submitted, user, ui
  <2> QED
    BY <2>1, <2>2, HushStep DEF Latest
<1> QED
  BY <1>1, <1>2, <1>3, <1>4, <1>5, <1>6, <1>7, <1>8

LEMMA StartBlocks ==
  ASSUME JInv, BInv, NEW k, Start(k)
  PROVE  BInv'
<1>1. /\ current' = started + 1 /\ started' = started + 1 /\ blocks' = {} /\ stage' = "Conversion"
      /\ UNCHANGED <<sub, target, strays, socket, attached, inbox, sessions>>
  BY DEF Start, ws, server
<1>2. started + 1 \notin sessions
  BY DEF Start, JInv, Fresh, Typed, Runs
<1> QED
  BY <1>1, <1>2 DEF BInv, Lines, Latest, Read

LEMMA OpenedBlocks ==
  ASSUME JInv, BInv, NEW r \in Runs, Opened(r)
  PROVE  BInv'
<1> USE DEF JInv, BInv
<1>1. /\ sessions' = sessions \cup {r}
      /\ UNCHANGED <<processing, stage, blocks, started, current>>
  BY DEF Opened, user
<1>2. CASE r = current
  <2>1. target' = r /\ Swap(r) /\ sub' = sub /\ r # None /\ r \in Maybe
    BY <1>2, BoundsAssumption DEF Opened, Connect, Maybe
  <2>2. Lines' /\ strays \subseteq strays'
    BY <2>1, SwapLines
  <2> QED
    BY <1>1, <1>2, <2>1, <2>2 DEF Latest, Read
<1>3. CASE r # current
  <2>1. Hushed
    BY <1>3, TeardownHush DEF Opened
  <2> QED
    BY <1>1, <1>3, <2>1, HushStep DEF Latest
<1> QED
  BY <1>2, <1>3

LEMMA ConnectedBlocks ==
  ASSUME JInv, BInv, NEW r \in Runs, Connected(r)
  PROVE  BInv'
<1> USE DEF JInv, BInv
<1>1. UNCHANGED <<processing, stage, blocks, started, current, sessions>>
  BY DEF Connected, user, ui
<1>2. CASE r = current
  <2>1. sub' = r /\ r \in sessions /\ UNCHANGED <<target, strays, socket, attached, inbox>>
    BY <1>2 DEF Connected, Way, ws
  <2> QED
    BY <1>1, <2>1 DEF Lines, Latest, Read
<1>3. CASE r # current
  <2>1. Hushed
    BY <1>3, KeptHush, LeaveHush DEF Connected, Kept
  <2> QED
    BY <1>1, <2>1, HushStep DEF Latest
<1> QED
  BY <1>2, <1>3

LEMMA FinallyHush ==
  ASSUME Wire, Lines, NEW r, NEW over, Finally(r, over)
  PROVE  Hushed
BY TeardownHush, KeptHush DEF Finally, Kept

LEMMA PollBlocks ==
  ASSUME JInv, BInv, NEW r \in Runs,
         \/ PollFires(r) \/ StatusAnswer(r) \/ CheckFails(r) \/ Downloaded(r) \/ HydrateAsync(r)
  PROVE  BInv'
<1> USE DEF JInv, BInv
<1>1. Hushed /\ UNCHANGED <<started, blocks, current, sessions>>
      /\ stage' \in {stage, "Error", "Complete"} /\ (processing' => processing)
  <2>1. CASE PollFires(r)
    BY <2>1, KeptHush DEF PollFires, Kept, ui, user, server
  <2>2. CASE StatusAnswer(r)
    <3>1. CASE Stale(r)
      BY <2>2, <3>1, FinallyHush DEF StatusAnswer, ui, user
    <3>2. CASE ~Stale(r) /\ job[check[r].job] = "complete"
      BY <2>2, <3>2, KeptHush DEF StatusAnswer, Kept, ui, user
    <3>3. CASE ~Stale(r) /\ job[check[r].job] = "stopped"
      <4>1. processing' = FALSE /\ stage' = "Error" /\ blocks' = blocks /\ Finally(r, TRUE)
        BY <2>2, <3>3 DEF StatusAnswer
      <4> QED
        BY <2>2, <4>1, FinallyHush DEF StatusAnswer, user
    <3>4. CASE ~Stale(r) /\ job[check[r].job] \notin {"complete", "stopped"}
      <4>1. UNCHANGED ui /\ Finally(r, FALSE)
        BY <2>2, <3>4 DEF StatusAnswer
      <4> QED
        BY <2>2, <4>1, FinallyHush DEF StatusAnswer, ui, user
    <3> QED
      BY <3>1, <3>2, <3>3, <3>4
  <2>3. CASE CheckFails(r)
    BY <2>3, FinallyHush DEF CheckFails, ui, user
  <2>4. CASE Downloaded(r)
    BY <2>4, FinallyHush, KeptHush DEF Downloaded, Kept, ui, user
  <2>5. CASE HydrateAsync(r)
    BY <2>5, FinallyHush DEF HydrateAsync, user
  <2> QED
    BY <2>1, <2>2, <2>3, <2>4, <2>5
<1> QED
  BY <1>1, HushStep DEF Latest

LEMMA CancelBlocks ==
  ASSUME JInv, BInv, Cancel \/ \E r \in Runs : CancelEnds(r)
  PROVE  BInv'
<1> USE DEF JInv, BInv
<1>1. Hushed
  <2>1. CASE Cancel
    BY <2>1 DEF Cancel, Lines, Hushed, mine, ws
  <2>2. ASSUME NEW r \in Runs, CancelEnds(r) PROVE Hushed
    BY <2>2, KeptHush, TeardownHush DEF CancelEnds, Kept
  <2> QED
    BY <2>1, <2>2
<1>2. /\ UNCHANGED <<started, blocks, sessions>> /\ (current' = current \/ current' = None)
      /\ stage' \in {stage, "Cancelled"} /\ (processing' => processing)
  <2>1. CASE Cancel
    BY <2>1 DEF Cancel
  <2>2. ASSUME NEW r \in Runs, CancelEnds(r)
        PROVE  UNCHANGED <<started, blocks, sessions, current, stage, processing>>
    BY <2>2 DEF CancelEnds, ui, user
  <2> QED
    BY <2>1, <2>2
<1> QED
  BY <1>1, <1>2, HushStep DEF Latest

LEMMA ResetBlocks ==
  ASSUME JInv, BInv, Reset
  PROVE  BInv'
<1>1. Hushed
  BY TeardownLastHush DEF Reset, JInv, BInv
<1>2. current' = None /\ blocks' = {} /\ processing' = FALSE /\ started' = started /\ sessions' = sessions
  BY DEF Reset
<1> QED
  BY <1>1, <1>2 DEF BInv, Latest, Read, Hushed

\* What the socket and the server do.
LEMMA WireBlocks ==
  ASSUME BInv, Lines', UNCHANGED <<ui, sub, target, sessions, user>>, strays \subseteq strays'
  PROVE  BInv'
BY HushStep DEF BInv, Hushed, Latest, ui, user

LEMMA AnnouncedLines ==
  ASSUME Wire, Lines, NEW c, inbox' = Announced(c) \/ inbox' = inbox,
         UNCHANGED <<socket, attached, target, strays>>
  PROVE  Lines'
<1>1. \A x \in Runs : inbox'[x] = inbox[x] \/ x \in attached
  BY DEF Announced, Wire
<1> QED
  BY <1>1 DEF Lines

LEMMA ServerBlocks ==
  ASSUME JInv, BInv,
         \/ \E r \in Runs : CancelAsked(r) \/ BlockSent(r) \/ \E how \in Ended : JobEnds(r, how)
         \/ \E p \in posts : Posted(p) \/ PostLost(p)
  PROVE  BInv'
<1> USE DEF JInv, BInv
<1>1. /\ UNCHANGED <<ui, sub, target, sessions, user, strays, socket, attached>>
      /\ \/ \E c : inbox' = Announced(c) \/ inbox' = inbox
         \/ \E r \in Runs : r \in attached /\ inbox' = [inbox EXCEPT ![r] = Append(@, "block")]
  BY DEF CancelAsked, BlockSent, JobEnds, Posted, PostLost, mine, ws
<1>2. Lines'
  <2>1. CASE \E c : inbox' = Announced(c) \/ inbox' = inbox
    BY <1>1, <2>1, AnnouncedLines
  <2>2. CASE \E r \in Runs : r \in attached /\ inbox' = [inbox EXCEPT ![r] = Append(@, "block")]
    <3>1. \A x \in Runs : inbox'[x] = inbox[x] \/ x \in attached
      BY <2>2 DEF Wire
    <3> QED
      BY <1>1, <3>1 DEF Lines
  <2> QED
    BY <1>1, <2>1, <2>2
<1> QED
  BY <1>1, <1>2, WireBlocks

LEMMA SocketBlocks ==
  ASSUME JInv, BInv,
         \/ Redial \/ Unanswered
         \/ \E r \in Runs : DialReady(r) \/ DialFails(r) \/ Closed(r)
  PROVE  BInv'
<1> USE DEF JInv, BInv
<1>1. UNCHANGED <<ui, sub, target, sessions, user>>
  BY DEF Redial, Unanswered, DialReady, DialFails, Closed, mine, server
<1>2. Lines' /\ strays \subseteq strays'
  <2>1. CASE Redial
    BY <1>1, <2>1, SwapLines DEF Redial, Wire, Maybe
  <2>2. CASE Unanswered
    BY <2>2 DEF Unanswered, Lines, server
  <2>3. ASSUME NEW r \in Runs, DialReady(r) PROVE Lines' /\ strays \subseteq strays'
    <3>1. /\ strays' = strays /\ socket[r] = "dialing" /\ socket'[r] # "dialing"
          /\ \A x \in Runs \ {r} : socket'[x] = socket[x]
          /\ attached' \subseteq attached \cup {r} /\ attached \subseteq attached'
          /\ \A x \in Runs : inbox'[x] = inbox[x] \/ x \in attached'
      BY <2>3 DEF DialReady, Wire
    <3> QED
      BY <1>1, <3>1 DEF Lines
  <2>4. ASSUME NEW r \in Runs, DialFails(r) PROVE Lines' /\ strays \subseteq strays'
    BY <1>1, <2>4 DEF DialFails, Lines, Wire, server
  <2>5. ASSUME NEW r \in Runs, Closed(r) PROVE Lines' /\ strays \subseteq strays'
    <3>1. /\ attached' = attached \ {r}
          /\ \A x \in Runs : inbox'[x] = IF x \in {r} THEN <<>> ELSE inbox[x]
      BY <2>5, UnplugLines DEF Closed
    <3>2. strays' = strays /\ socket' = [socket EXCEPT ![r] = "none"]
      BY <2>5 DEF Closed
    <3> QED
      BY <1>1, <3>1, <3>2 DEF Lines, Wire
  <2> QED
    BY <2>1, <2>2, <2>3, <2>4, <2>5
<1> QED
  BY <1>1, <1>2, WireBlocks

\* A block is shown to the run that subscribed last: its socket is the wanted
\* one, any other that is heard was left open.
LEMMA DeliverBlocks ==
  ASSUME JInv, BInv, NEW r \in Runs, Deliver(r)
  PROVE  BInv'
<1> USE DEF JInv, BInv
<1> DEFINE told == sub # None /\ Watched(sub)
<1>1. /\ UNCHANGED <<sub, target, strays, socket, attached, sessions, started, current>>
      /\ blocks' = blocks \/ (told /\ blocks' = blocks \cup {r})
      /\ stage' \in {stage, "Cancelled"} /\ (processing' => processing)
      /\ inbox[r] # <<>> /\ inbox' = [inbox EXCEPT ![r] = Tail(@)]
  BY DEF Deliver, ws, user
<1>2. Lines'
  <2>1. \A x \in Runs : inbox'[x] = inbox[x] \/ x \in attached
    BY <1>1 DEF Lines, Wire
  <2> QED
    BY <1>1, <2>1 DEF Lines
<1>3. told => r \in {started} \cup strays
  <2>1. r = target \/ r \in strays
    BY <1>1 DEF Lines
  <2>2. told => target = started
    BY DEF Watched, Latest
  <2> QED
    BY <2>1, <2>2
<1>4. told => stage # "Idle"
  BY DEF Watched, Latest
<1> HIDE DEF told
<1>5. Latest'
  BY <1>1 DEF Latest
<1>6. Read'
  BY <1>1, <1>3, <1>4 DEF Read
<1> QED
  BY <1>2, <1>5, <1>6

LEMMA InitBlocks == Init => BInv
BY DEF Init, BInv, Lines, Latest, Read

LEMMA NextBlocks ==
  ASSUME JInv, BInv, [Next]_vars
  PROVE  BInv'
<1>1. ASSUME NEW r \in Runs, Connected(r) \/ Opened(r) \/ Deliver(r) PROVE BInv'
  BY <1>1, ConnectedBlocks, OpenedBlocks, DeliverBlocks
<1>2. ASSUME NEW k \in {"async", "sync"}, Start(k) PROVE BInv'
  BY <1>2, StartBlocks
<1>3. CASE Cancel \/ Reset \/ Redial \/ Unanswered
  BY <1>3, CancelBlocks, ResetBlocks, SocketBlocks
<1>4. ASSUME NEW r \in Runs,
             \/ NotOpened(r) \/ Submitted(r) \/ Accepted(r) \/ NotAccepted(r) \/ Failed(r)
             \/ Answer(r) \/ NoAnswer(r) \/ HydrateSync(r)
      PROVE  BInv'
  BY <1>4, RunBlocks
<1>5. ASSUME NEW r \in Runs,
             \/ PollFires(r) \/ StatusAnswer(r) \/ CheckFails(r) \/ Downloaded(r) \/ HydrateAsync(r)
      PROVE  BInv'
  BY <1>5, PollBlocks
<1>6. ASSUME NEW r \in Runs,
             \/ CancelEnds(r) \/ DialReady(r) \/ DialFails(r) \/ Closed(r)
             \/ CancelAsked(r) \/ BlockSent(r) \/ \E how \in Ended : JobEnds(r, how)
      PROVE  BInv'
  BY <1>6, CancelBlocks, SocketBlocks, ServerBlocks
<1>7. CASE \E p \in posts : Posted(p) \/ PostLost(p)
  BY <1>7, ServerBlocks
<1>8. CASE UNCHANGED vars
  BY <1>8 DEF vars, ui, mine, ws, server, user, BInv, Lines, Latest, Read
<1> QED
  BY <1>1, <1>2, <1>3, <1>4, <1>5, <1>6, <1>7, <1>8 DEF Next

LEMMA BlocksInvariance == Spec => []BInv
<1>1. JInv /\ BInv /\ [Next]_vars => BInv'
  BY NextBlocks
<1> QED
  BY <1>1, InitBlocks, Invariance, PTL DEF Spec

-----------------------------------------------------------------------------
(* The theorems.                                                           *)

\* Every variable keeps its type: no counter leaves its bound, and what the
\* client remembers of channels, tokens and jobs is of runs it has started.
THEOREM TypeCorrect == Spec => []TypeOK
<1>1. JInv /\ BInv => TypeOK
  <2> SUFFICES ASSUME JInv, BInv PROVE TypeOK
    OBVIOUS
  <2>1. \A r \in Runs : check[r].pc \in {"idle", "status", "download", "hydrate"}
                        /\ cancel[r].pc \in {"idle", "ask", "end"}
    BY DEF JInv, Typed, Future
  <2>2. \A r \in Runs : Range(inbox[r]) \subseteq Frames
    <3>1. \A r \in Runs : inbox[r] \in Seq(Frames)
      BY DEF JInv, Wire
    <3> QED
      BY <3>1 DEF Range
  <2>3. {pages, blocks, strays, unheard} \subseteq SUBSET Runs
    BY DEF JInv, BInv, Typed, Lines, Read
  <2>4. {sessions, used, attached, asked} \subseteq SUBSET Runs
    BY DEF JInv, Typed, Wire
  <2>5. {shownChan, activeJob, lastChan, lastTok, sub, closedSub, poll, checking} \subseteq Maybe
    BY DEF JInv, Typed, Wire
  <2>6. posts \subseteq Maybe \X Maybe
    BY DEF JInv, Wire, Maybe
  <2> QED
    BY <2>1, <2>2, <2>3, <2>4, <2>5, <2>6 DEF JInv, Typed, Wire, TypeOK
<1> QED
  BY <1>1, Invariance, BlocksInvariance, PTL

\* However many runs the user starts, cancels and replaces, whatever replies
\* come late and however their sockets overlap: the result on display is the
\* current run's, and the blocks on display are the last run's or came over a
\* socket that was left open.
THEOREM PagesOwned == Spec => []PagesOfThisRun
<1>1. JInv /\ BInv => PagesOfThisRun
  BY DEF JInv, BInv, Shown, Read, PagesOfThisRun
<1> QED
  BY <1>1, Invariance, BlocksInvariance, PTL

\* An accepted run that is shown as running has its next look at the job's
\* status due or under way, also if a frame of another run's socket had ended
\* it before its job was accepted.
THEOREM PollNeverStops == Spec => []PollKeepsGoing
<1>1. JInv => PollKeepsGoing
  BY DEF JInv
<1> QED
  BY <1>1, Invariance, PTL

\* No end of an older run switches off the reconnection of the current one.
THEOREM ConnectionKept == Spec => []LiveRunStaysConnected
<1>1. JInv => LiveRunStaysConnected
  BY DEF JInv, Live, Followed, Typed, LiveRunStaysConnected
<1> QED
  BY <1>1, Invariance, PTL

\* Once the requests have ended, a job that nobody follows was asked to stop, or
\* a request to stop it was lost, as long as no run was told anything by another
\* run's socket.
THEOREM NoneRunsAway == Spec => []NoRunaway
<1>1. JInv => NoRunaway
  <2> SUFFICES ASSUME JInv, Quiet, NEW r \in Runs, job[r] = "running", r # current,
                      r \in sessions, ~mixed
               PROVE  r \in asked \cup unheard
    BY DEF NoRunaway
  <2>1. Settled(r)
    BY DEF JInv, Owned
  <2> QED
    BY <2>1 DEF Settled, Quiet, Ended
<1> QED
  BY <1>1, Invariance, PTL
=============================================================================
