--------------------------- MODULE StateBackends ---------------------------
(***************************************************************************)
(* The three StateBackends under the artifact store, the progress          *)
(* channels and the prune loop (plugins/state_backend_*.py, artifacts.py,  *)
(* runtime.py): artifacts are stored, read and pruned, a channel's token   *)
(* is consumed.                                                            *)
(*                                                                         *)
(* memory: a call is alone from beginning to end.  sqlite: a call holds an *)
(* asyncio.Lock while a thread works on the one shared connection; a       *)
(* cancelled caller gives the lock up at once, its thread goes on, and any *)
(* commit on the connection commits what every thread has written.         *)
(* Blobs are files, written before the row and unlinked after it is gone.  *)
(* redis: no lock, one step per command, expiry by the server; another     *)
(* process's calls look like those of another caller.                      *)
(*                                                                         *)
(* Ids are fresh for every put (uuid4), tokens are the right ones.  The    *)
(* delete and clear operations have no caller in the program.              *)
(***************************************************************************)
EXTENDS Naturals, FiniteSets

CONSTANTS
  Artifacts, Channels,
  Clients,      \* tasks that call the backend, one call at a time
  Pruner,       \* the task of cleanup_loop
  MaxMishaps,   \* bound: failed writes, commits and unlinks, lost replies, crashes
  MaxCancels    \* bound: cancelled callers

Items == Artifacts \cup Channels
Callers == Clients \cup {Pruner}
Backends == {"memory", "sqlite", "redis"}

ASSUME ConstantsAssumption ==
  /\ Artifacts \cap Channels = {} /\ Pruner \notin Clients
  /\ MaxMishaps \in Nat /\ MaxCancels \in Nat

VARIABLES
  backend,
  call,       \* where each caller's call is, or the thread it left behind
  lock,       \* _lock
  written,    \* artifacts with a metadata row (key), channels marked consumed
  durable,    \* what a crash leaves of it
  blob,       \* an artifact's bytes
  pruning,    \* cleanup_loop runs
  expired,
  \* ---- history ----
  told,       \* artifacts whose put has returned
  admitted,   \* how often a channel's token was accepted
  mishaps, cancels

vars == <<backend, call, lock, written, durable, blob, pruning, expired, told, admitted,
          mishaps, cancels>>

NoCall == [op |-> "none", pc |-> "idle", on |-> {}, alive |-> TRUE, found |-> FALSE]

TypeOK ==
  /\ backend \in Backends /\ lock \subseteq Callers /\ Cardinality(lock) <= 1
  /\ \A c \in Callers :
       /\ call[c].op \in {"none", "put", "get", "prune", "consume"}
       /\ call[c].pc \in {"idle", "write", "row", "select", "read", "unlink", "commit",
                          "script", "watch", "exec", "answer"}
       /\ call[c].on \subseteq Items /\ {call[c].alive, call[c].found} \subseteq BOOLEAN
  /\ written \subseteq Items /\ durable \subseteq Items
  /\ blob \in [Artifacts -> {"none", "part", "whole"}]
  /\ pruning \in BOOLEAN /\ expired \subseteq Items /\ told \subseteq Artifacts
  /\ admitted \in [Channels -> Nat] /\ mishaps \in 0..MaxMishaps /\ cancels \in 0..MaxCancels

Init ==
  /\ backend \in Backends /\ call = [c \in Callers |-> NoCall] /\ lock = {}
  /\ written = {} /\ durable = {} /\ blob = [a \in Artifacts |-> "none"]
  /\ pruning = TRUE /\ expired = {} /\ told = {} /\ admitted = [c \in Channels |-> 0]
  /\ mishaps = 0 /\ cancels = 0

Mishap == mishaps < MaxMishaps /\ mishaps' = mishaps + 1
Smooth == UNCHANGED mishaps

\* What is written is durable at once, but for sqlite's open transaction.
Write(s) == written' = s /\ durable' = (IF backend = "sqlite" THEN durable ELSE s)
Commit == durable' = written /\ UNCHANGED written
Kept == UNCHANGED <<written, durable>>

At(c, op, pc) == call[c].op = op /\ call[c].pc = pc
Goes(c, pc) == call' = [call EXCEPT ![c].pc = pc] /\ UNCHANGED lock
Of(c) == CHOOSE i \in call[c].on : TRUE

\* The lock is given back when the call ends, unless its caller was cancelled.
Return(c) == call' = [call EXCEPT ![c] = NoCall] /\ lock' = lock \ {c}

-----------------------------------------------------------------------------
(* The calls begin.                                                        *)

Begin(c, op, on, pc) ==
  /\ call[c].op = "none" /\ lock = {}
  /\ call' = [call EXCEPT ![c] = [NoCall EXCEPT !.op = op, !.on = on, !.pc = pc]]
  /\ lock' = IF backend = "redis" THEN {} ELSE {c}

Busy == UNION {call[c].on : c \in Callers}

\* put_artifact under a fresh id.
Put(c) ==
  /\ \E a \in Artifacts : /\ blob[a] = "none" /\ a \notin Busy \cup written \cup expired
                          /\ Begin(c, "put", {a}, IF backend = "redis" THEN "row" ELSE "write")
  /\ Kept /\ UNCHANGED <<blob, told, admitted, pruning>> /\ Smooth

\* get_artifact, by somebody the handle was given to.
Get(c) ==
  /\ \E a \in told : Begin(c, "get", {a}, "select")
  /\ Kept /\ UNCHANGED <<blob, told, admitted, pruning>> /\ Smooth

\* consume_channel.
Consume(c) ==
  /\ \E ch \in Channels :
       /\ admitted[ch] < 2
       /\ Begin(c, "consume", {ch}, IF backend = "redis" THEN "script" ELSE "select")
  /\ Kept /\ UNCHANGED <<blob, told, admitted, pruning>> /\ Smooth

\* prune_once; redis has nothing to prune among the artifacts.
Prune ==
  /\ pruning /\ backend # "redis" /\ Begin(Pruner, "prune", {}, "select")
  /\ Kept /\ UNCHANGED <<blob, told, admitted, pruning>> /\ Smooth

-----------------------------------------------------------------------------
(* put_artifact.                                                           *)

\* write_bytes, in two steps; memory stores the pair in one.
WriteBlob(c) ==
  /\ At(c, "put", "write")
  /\ IF backend = "sqlite" /\ blob[Of(c)] = "none"
       THEN blob' = [blob EXCEPT ![Of(c)] = "part"] /\ UNCHANGED <<call, lock>>
       ELSE blob' = [blob EXCEPT ![Of(c)] = "whole"] /\ Goes(c, "row")
  /\ Kept /\ UNCHANGED <<told, admitted, pruning>> /\ Smooth

\* INSERT, or the SET of the metadata key.
WriteRow(c) ==
  /\ At(c, "put", "row") /\ Write(written \cup call[c].on)
  /\ Goes(c, CASE backend = "sqlite" -> "commit" [] backend = "redis" -> "read" [] OTHER -> "answer")
  /\ UNCHANGED <<blob, told, admitted, pruning>> /\ Smooth

\* redis: the SET of the blob key.
SetBlob(c) ==
  /\ At(c, "put", "read") /\ blob' = [blob EXCEPT ![Of(c)] = "whole"] /\ Goes(c, "answer")
  /\ Kept /\ UNCHANGED <<told, admitted, pruning>> /\ Smooth

\* get_artifact: the row, then the file; redis asks for the two keys in turn.
SelectRow(c) ==
  /\ At(c, "get", "select")
  /\ IF call[c].on \subseteq written \ expired THEN Goes(c, "read") ELSE Goes(c, "answer")
  /\ Kept /\ UNCHANGED <<blob, told, admitted, pruning>> /\ Smooth

ReadBlob(c) ==
  /\ At(c, "get", "read")
  /\ call' = [call EXCEPT ![c].found = (blob[Of(c)] = "whole"), ![c].pc = "answer"]
  /\ Kept /\ UNCHANGED <<lock, blob, told, admitted, pruning>> /\ Smooth

-----------------------------------------------------------------------------
(* prune_expired_artifacts: both statements for the same now.              *)

Expired == written \cap expired \cap Artifacts

\* SELECT and DELETE.
SelectExpired(c) ==
  /\ At(c, "prune", "select") /\ Write(written \ Expired)
  /\ call' = [call EXCEPT ![c].on = Expired,
                          ![c].pc = IF Expired = {} THEN "answer"
                                    ELSE IF backend = "sqlite" THEN "commit" ELSE "unlink"]
  /\ UNCHANGED <<lock, blob, told, admitted, pruning>> /\ Smooth

\* Mutant: the first file only.
Unlink_One(c) ==
  /\ At(c, "prune", "unlink")
  /\ \E a \in call[c].on :
       /\ blob' = [blob EXCEPT ![a] = "none"] /\ call' = [call EXCEPT ![c].pc = "answer"]
  /\ Kept /\ UNCHANGED <<lock, told, admitted, pruning>> /\ Smooth

\* One unlink after the other; memory drops the pairs.
Unlink(c) ==
  /\ At(c, "prune", "unlink")
  /\ \E a \in call[c].on :
       /\ blob' = [blob EXCEPT ![a] = "none"]
       /\ call' = [call EXCEPT ![c].on = @ \ {a},
                               ![c].pc = IF call[c].on = {a} THEN "answer" ELSE @]
  /\ Kept /\ UNCHANGED <<lock, told, admitted, pruning>> /\ Smooth

-----------------------------------------------------------------------------
(* consume_channel.                                                        *)

Open(c) == call[c].on \cap (written \cup expired) = {}

\* sqlite and memory: SELECT, then UPDATE.
SelectChannel(c) ==
  /\ At(c, "consume", "select") /\ Goes(c, IF Open(c) THEN "row" ELSE "answer")
  /\ Kept /\ UNCHANGED <<blob, told, admitted, pruning>> /\ Smooth

Mark(c) ==
  /\ At(c, "consume", "row") /\ Write(written \cup call[c].on)
  /\ call' = [call EXCEPT ![c].found = TRUE,
                          ![c].pc = IF backend = "sqlite" THEN "commit" ELSE "answer"]
  /\ UNCHANGED <<lock, blob, told, admitted, pruning>> /\ Smooth

\* redis: the script reads and marks; without its reply WATCH is tried.
Script(c) ==
  /\ At(c, "consume", "script") /\ UNCHANGED <<lock, blob, told, admitted, pruning>>
  /\ \/ /\ Smooth /\ Write(IF Open(c) THEN written \cup call[c].on ELSE written)
        /\ call' = [call EXCEPT ![c].found = Open(c), ![c].pc = "answer"]
     \/ /\ Mishap /\ call' = [call EXCEPT ![c].pc = "watch"]
        /\ \/ Kept     \* the script could not be loaded
           \/ Write(IF Open(c) THEN written \cup call[c].on ELSE written)

\* _consume_channel_watch: WATCH and GET.
Watch(c) ==
  /\ At(c, "consume", "watch") /\ Goes(c, IF Open(c) THEN "exec" ELSE "answer")
  /\ Kept /\ UNCHANGED <<blob, told, admitted, pruning>> /\ Smooth

\* Mutant: the key is not watched.
Exec_Unwatched(c) ==
  /\ At(c, "consume", "exec") /\ UNCHANGED <<lock, blob, told, admitted, pruning>>
  /\ Write(written \cup call[c].on) /\ Smooth
  /\ call' = [call EXCEPT ![c].found = TRUE, ![c].pc = "answer"]

\* EXEC is refused once the key has changed; whatever went wrong, start over.
Exec(c) ==
  /\ At(c, "consume", "exec") /\ UNCHANGED <<lock, blob, told, admitted, pruning>>
  /\ IF Open(c)
       THEN /\ Write(written \cup call[c].on)
            /\ \/ Smooth /\ call' = [call EXCEPT ![c].found = TRUE, ![c].pc = "answer"]
               \/ Mishap /\ call' = [call EXCEPT ![c].pc = "watch"]
       ELSE Kept /\ Smooth /\ call' = [call EXCEPT ![c].pc = "watch"]

-----------------------------------------------------------------------------
(* Every call of sqlite that writes.                                       *)

\* Mutant: a put leaves its transaction to the next commit.
CommitCall_Lazy(c) ==
  /\ call[c].pc = "commit" /\ Goes(c, IF call[c].op = "prune" THEN "unlink" ELSE "answer")
  /\ IF call[c].op = "put" THEN Kept ELSE Commit
  /\ UNCHANGED <<blob, told, admitted, pruning>> /\ Smooth

\* commit: of the whole connection.
CommitCall(c) ==
  /\ call[c].pc = "commit" /\ Commit /\ Goes(c, IF call[c].op = "prune" THEN "unlink" ELSE "answer")
  /\ UNCHANGED <<blob, told, admitted, pruning>> /\ Smooth

\* The call returns to a caller that still waits.
Answer(c) ==
  /\ call[c].pc = "answer" /\ Return(c)
  /\ told' = IF call[c].alive /\ call[c].op = "put" THEN told \cup call[c].on ELSE told
  /\ admitted' = IF call[c].alive /\ call[c].op = "consume" /\ call[c].found
                   THEN [admitted EXCEPT ![Of(c)] = @ + 1] ELSE admitted
  /\ Kept /\ UNCHANGED <<blob, pruning>> /\ Smooth

\* An OSError or sqlite3.Error leaves the call; a transaction stays open, a
\* failed pass is the prune loop's last.
Fails(c) ==
  /\ backend = "sqlite" /\ Mishap
  /\ \/ At(c, "put", "write") /\ blob[Of(c)] = "part"
     \/ call[c].pc = "commit" \/ At(c, "prune", "unlink")
  /\ Return(c) /\ pruning' = (pruning /\ c # Pruner)
  /\ Kept /\ UNCHANGED <<blob, told, admitted>>

\* The caller is cancelled: a thread goes on without it, a coroutine does not.
Cancel(c) ==
  /\ backend # "memory" /\ call[c].op # "none" /\ call[c].alive
  /\ cancels < MaxCancels /\ cancels' = cancels + 1
  /\ IF backend = "sqlite"
       THEN call' = [call EXCEPT ![c].alive = FALSE] /\ lock' = lock \ {c}
       ELSE Return(c)
  /\ pruning' = (pruning /\ c # Pruner)
  /\ Kept /\ Smooth /\ UNCHANGED <<backend, blob, expired, told, admitted>>

-----------------------------------------------------------------------------
(* Time and crashes.                                                       *)

\* Redis drops an expired metadata key by itself.
Expire(i) ==
  /\ i \notin expired /\ i \in written \cup Channels /\ expired' = expired \cup {i}
  /\ IF backend = "redis" /\ i \in Artifacts THEN Write(written \ {i}) ELSE Kept
  /\ Smooth /\ UNCHANGED <<backend, call, lock, blob, pruning, told, admitted, cancels>>

\* The blob key was set later, and outlives the other by as much.
BlobExpires(a) ==
  /\ backend = "redis" /\ a \in expired /\ blob[a] = "whole"
  /\ blob' = [blob EXCEPT ![a] = "none"]
  /\ Kept /\ Smooth
  /\ UNCHANGED <<backend, call, lock, pruning, expired, told, admitted, cancels>>

\* The process dies and is started again: threads and transactions are gone,
\* files stay.  In memory nothing stays, and nothing is owed.
Crash ==
  /\ Mishap /\ call' = [c \in Callers |-> NoCall] /\ lock' = {} /\ pruning' = TRUE
  /\ IF backend = "memory"
       THEN /\ written' = {} /\ durable' = {} /\ blob' = [a \in Artifacts |-> "none"]
            /\ told' = {} /\ expired' = expired \cup Channels \cup written
       ELSE written' = durable /\ UNCHANGED <<durable, blob, told, expired>>
  /\ UNCHANGED <<backend, admitted, cancels>>

\* The next step of a call or of the thread it left behind.
Works(c) ==
  \/ WriteBlob(c) \/ WriteRow(c) \/ SetBlob(c) \/ SelectRow(c) \/ ReadBlob(c)
  \/ SelectExpired(c) \/ Unlink(c) \/ SelectChannel(c) \/ Mark(c)
  \/ Script(c) \/ Watch(c) \/ Exec(c) \/ CommitCall(c) \/ Answer(c)

Next ==
  \/ /\ UNCHANGED <<backend, expired, cancels>>
     /\ \/ Prune
        \/ \E c \in Clients : Put(c) \/ Get(c) \/ Consume(c)
        \/ \E c \in Callers : Works(c) \/ Fails(c)
  \/ \E c \in Callers : Cancel(c)
  \/ \E i \in Items : Expire(i)
  \/ \E a \in Artifacts : BlobExpires(a)
  \/ Crash
Spec == Init /\ [][Next]_vars

\* A thread, a request and the prune loop go on; asyncio.Lock serves its
\* waiters in their order; Redis drops what has expired.
FairSpec ==
  /\ Spec /\ SF_vars(Prune /\ UNCHANGED <<backend, expired, cancels>>)
  /\ \A c \in Callers : WF_vars(Works(c) /\ UNCHANGED <<backend, expired, cancels>>)
  /\ \A a \in Artifacts : WF_vars(BlobExpires(a))

-----------------------------------------------------------------------------
(* Properties.                                                             *)

\* An artifact whose put has returned is there until it expires: its row and
\* its whole blob survive a crash, other callers' failures and cancellations
\* and every prune pass, and no reader is told that there is no such artifact.
KeptUntilGone ==
  /\ \A a \in told \ expired : a \in written \cap durable /\ blob[a] = "whole"
  /\ \A c \in Clients : At(c, "get", "answer") /\ ~call[c].found => call[c].on \subseteq expired

\* A channel's token is accepted once, by whichever backend and path: with
\* replies lost, threads left behind and processes restarted in between.
AdmittedOnce == \A ch \in Channels : admitted[ch] <= 1

\* What has expired is not stored for ever: while nothing has gone wrong and
\* the prune loop runs, its bytes are removed, also those of a put whose caller
\* was cancelled.  (A cancelled prune pass ends the loop.)
BlobsReclaimed ==
  \A a \in Artifacts :
    (a \in expired /\ blob[a] # "none") ~> (blob[a] = "none" \/ mishaps > 0 \/ ~pruning)
=============================================================================
