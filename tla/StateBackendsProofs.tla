------------------------- MODULE StateBackendsProofs -------------------------
(***************************************************************************)
(* Proofs about StateBackends, for any artifacts, channels and callers, and *)
(* any number of mishaps and cancellations: a stored artifact is kept until *)
(* it expires, and a channel's token is accepted once.  The last section is *)
(* about ProgressChannels, the progress service above the backend: each    *)
(* process hears of the end of the job once.                               *)
(***************************************************************************)
EXTENDS StateBackends, ProgressChannels, FiniteSetTheorems, TLAPS

-----------------------------------------------------------------------------
(* The inductive invariant.                                                *)

Ops == {"none", "put", "get", "prune", "consume"}
Places == {"idle", "write", "row", "select", "read", "unlink", "commit", "script", "watch",
           "exec", "answer"}
CallShape == [op : Ops, pc : Places, on : SUBSET Items, alive : BOOLEAN, found : BOOLEAN]

Typed ==
  /\ call \in [Callers -> CallShape]
  /\ backend \in Backends /\ (lock = {} \/ \E c \in Callers : lock = {c})
  /\ written \subseteq Items /\ durable \subseteq Items
  /\ blob \in [Artifacts -> {"none", "part", "whole"}]
  /\ pruning \in BOOLEAN /\ expired \subseteq Items /\ told \subseteq Artifacts
  /\ admitted \in [Channels -> Nat] /\ mishaps \in 0 .. MaxMishaps /\ cancels \in 0 .. MaxCancels

\* An artifact that a put has got this far with is there, unless it has expired.
Stored(a) == a \in written \/ a \in expired
Saved(a) == a \in durable \/ a \in expired
Filled(a) == blob[a] = "whole" \/ a \in expired

\* What is known of a call at each of its steps.
Putting(c) ==
  call[c].op = "put" => \E a \in Artifacts :
    /\ call[c].on = {a} /\ call[c].pc \in {"write", "row", "read", "commit", "answer"}
    /\ call[c].pc = "read" => backend = "redis"
    /\ call[c].pc = "commit" => backend = "sqlite"
    /\ call[c].pc \in {"read", "commit", "answer"} => Stored(a)
    /\ call[c].pc = "answer" => Saved(a)
    /\ (call[c].pc = "row" /\ backend # "redis") \/ call[c].pc \in {"commit", "answer"} => Filled(a)

Getting(c) ==
  call[c].op = "get" => \E a \in told :
    /\ call[c].on = {a} /\ call[c].pc \in {"select", "read", "answer"}
    /\ call[c].pc = "answer" /\ ~call[c].found => a \in expired

Pruning(c) ==
  call[c].op = "prune" =>
    /\ call[c].on \subseteq expired \cap Artifacts
    /\ call[c].pc \in {"select", "commit", "unlink", "answer"}

Consuming(c) ==
  call[c].op = "consume" => \E ch \in Channels :
    /\ call[c].on = {ch}
    /\ call[c].pc \in (IF backend = "redis" THEN {"script", "watch", "exec", "answer"}
                       ELSE {"select", "row", "commit", "answer"})
    /\ call[c].found => call[c].pc \in {"commit", "answer"} /\ ch \in written
    /\ call[c].found /\ call[c].pc = "answer" => ch \in durable

Resting(c) == call[c].op = "none" => call[c].pc = "idle"

Local(c) == Putting(c) /\ Getting(c) /\ Pruning(c) /\ Consuming(c) /\ Resting(c)

\* A caller that still waits is alone, but for redis.
Alone(c) == backend # "redis" /\ call[c].op # "none" /\ call[c].alive => lock = {c}

\* A caller whose token will be accepted is the only one, and the first.
Claims(c) ==
  /\ call[c].op = "consume" /\ call[c].alive
  /\ call[c].found \/ (backend # "redis" /\ call[c].pc = "row")
Single(c) == Claims(c) =>
  /\ \A ch \in call[c].on : admitted[ch] = 0
  /\ \A d \in Callers : Claims(d) /\ d # c => call[d].on # call[c].on

\* What is promised outside of the calls.
Shut(ch) == (ch \in written /\ ch \in durable) \/ ch \in expired
Books ==
  /\ \A a \in told : Stored(a) /\ Saved(a) /\ Filled(a)
  /\ \A ch \in Channels : admitted[ch] = 0 \/ (admitted[ch] = 1 /\ Shut(ch))
  /\ backend # "sqlite" => durable = written

SInv ==
  /\ Typed /\ Books
  /\ \A c \in Callers : Local(c) /\ Alone(c) /\ Single(c)
-----------------------------------------------------------------------------
(* The initial state.                                                      *)

LEMMA NoCallShape ==
  /\ NoCall \in CallShape /\ NoCall.op = "none" /\ NoCall.pc = "idle" /\ NoCall.on = {}
  /\ NoCall.alive = TRUE /\ NoCall.found = FALSE
BY DEF NoCall, CallShape, Ops, Places

LEMMA RestingLocal ==
  ASSUME NEW c \in Callers, call[c] = NoCall
  PROVE  Local(c) /\ Alone(c) /\ Single(c)
BY NoCallShape DEF Local, Putting, Getting, Pruning, Consuming, Resting, Alone, Single, Claims

LEMMA InitSInv == Init => SInv
<1> SUFFICES ASSUME Init PROVE SInv
  OBVIOUS
<1>1. Typed
  BY NoCallShape, ConstantsAssumption DEF Init, Typed
<1>2. Books
  BY DEF Init, Books
<1>3. \A c \in Callers : call[c] = NoCall
  BY DEF Init
<1> QED
  BY <1>1, <1>2, <1>3, RestingLocal DEF SInv

-----------------------------------------------------------------------------
(* What a step does to the calls.                                          *)

\* Only the call of c changes.
Others(c) ==
  /\ call' \in [Callers -> CallShape]
  /\ \A d \in Callers \ {c} : call'[d] = call[d]

\* The call of c goes on, to another place.
Moves(c, pc) ==
  /\ Others(c) /\ call'[c].pc = pc /\ call'[c].op = call[c].op /\ call'[c].on = call[c].on
  /\ call'[c].alive = call[c].alive

LEMMA GoesMoves ==
  ASSUME Typed, NEW c \in Callers, NEW pc \in Places, Goes(c, pc)
  PROVE  Moves(c, pc) /\ call'[c].found = call[c].found /\ lock' = lock
BY DEF Typed, Goes, Moves, Others, CallShape

\* The call of c goes on with a result.
Finds(c, b, pc) == call' = [call EXCEPT ![c].found = b, ![c].pc = pc]

LEMMA FindsMoves ==
  ASSUME Typed, NEW c \in Callers, NEW b \in BOOLEAN, NEW pc \in Places, Finds(c, b, pc)
  PROVE  Moves(c, pc) /\ call'[c].found = b
BY DEF Typed, Finds, Moves, Others, CallShape

LEMMA ReturnRests ==
  ASSUME Typed, NEW c \in Callers, Return(c)
  PROVE  Others(c) /\ call'[c] = NoCall /\ lock' = lock \ {c}
BY NoCallShape DEF Typed, Return, Others

\* What no step takes away: what is stored and has not expired.
Grows ==
  /\ expired \subseteq expired' /\ told \subseteq told' /\ UNCHANGED backend
  /\ \A i \in Items :
       /\ i \in written => i \in written' \/ (i \in Artifacts /\ i \in expired')
       /\ i \in durable /\ i \in written => i \in durable' \/ (i \in Artifacts /\ i \in expired')
  /\ \A a \in Artifacts : blob[a] = "whole" => blob'[a] = "whole" \/ a \in expired'

LEMMA LocalStays ==
  ASSUME SInv, Grows, NEW d \in Callers, call'[d] = call[d]
  PROVE  Local(d)'
<1>1. Local(d)
  BY DEF SInv
<1>2. Putting(d)'
  <2> SUFFICES ASSUME call[d].op = "put" PROVE Putting(d)'
    BY DEF Putting
  <2>1. PICK a \in Artifacts :
          /\ call[d].on = {a} /\ call[d].pc \in {"write", "row", "read", "commit", "answer"}
          /\ call[d].pc = "read" => backend = "redis"
          /\ call[d].pc = "commit" => backend = "sqlite"
          /\ call[d].pc \in {"read", "commit", "answer"} => Stored(a)
          /\ call[d].pc = "answer" => Saved(a)
          /\ (call[d].pc = "row" /\ backend # "redis") \/ call[d].pc \in {"commit", "answer"}
               => Filled(a)
    BY <1>1 DEF Local, Putting
  <2>2. a \in Items
    BY DEF Items
  <2>3. Stored(a) => Stored(a)'
    BY <2>2 DEF Grows, Stored
  <2>4. Stored(a) /\ Saved(a) => Saved(a)'
    BY <2>2 DEF Grows, Stored, Saved
  <2>5. Filled(a) => Filled(a)'
    BY DEF Grows, Filled
  <2> QED
    BY <2>1, <2>3, <2>4, <2>5 DEF Putting, Grows
<1>3. Getting(d)' /\ Pruning(d)' /\ Resting(d)'
  BY <1>1 DEF Local, Getting, Pruning, Resting, Grows
<1>4. Consuming(d)'
  <2> SUFFICES ASSUME call[d].op = "consume" PROVE Consuming(d)'
    BY DEF Consuming
  <2>1. PICK ch \in Channels :
          /\ call[d].on = {ch}
          /\ call[d].pc \in (IF backend = "redis" THEN {"script", "watch", "exec", "answer"}
                             ELSE {"select", "row", "commit", "answer"})
          /\ call[d].found => call[d].pc \in {"commit", "answer"} /\ ch \in written
          /\ call[d].found /\ call[d].pc = "answer" => ch \in durable
    BY <1>1 DEF Local, Consuming
  <2>2. ch \in Items /\ ch \notin Artifacts
    BY ConstantsAssumption DEF Items
  <2> QED
    BY <2>1, <2>2 DEF Consuming, Grows
<1> QED
  BY <1>2, <1>3, <1>4 DEF Local

LEMMA BooksStay ==
  ASSUME SInv, Grows, UNCHANGED <<told, admitted>>, backend # "sqlite" => durable' = written'
  PROVE  Books'
<1>1. ASSUME NEW a \in told PROVE (Stored(a) /\ Saved(a) /\ Filled(a))'
  <2>1. a \in Artifacts /\ a \in Items /\ Stored(a) /\ Saved(a) /\ Filled(a)
    BY DEF SInv, Books, Typed, Items
  <2> QED
    BY <2>1 DEF Grows, Stored, Saved, Filled
<1>2. ASSUME NEW ch \in Channels, Shut(ch) PROVE Shut(ch)'
  <2>1. ch \in Items /\ ch \notin Artifacts
    BY ConstantsAssumption DEF Items
  <2> QED
    BY <1>2, <2>1 DEF Grows, Shut
<1>3. \A ch \in Channels : admitted[ch] = 0 \/ (admitted[ch] = 1 /\ Shut(ch))
  BY DEF SInv, Books
<1>4. \A ch \in Channels : admitted'[ch] = 0 \/ (admitted'[ch] = 1 /\ Shut(ch)')
  BY <1>2, <1>3
<1>5. backend' # "sqlite" => durable' = written'
  BY DEF Grows
<1> QED
  BY <1>1, <1>4, <1>5 DEF Books

\* A step that gives nobody a new claim.
LEMMA CallsStay ==
  ASSUME SInv, Grows, NEW c \in Callers, Others(c), UNCHANGED admitted, Local(c)',
         Claims(c)' => Claims(c) /\ call'[c].on = call[c].on,
         lock' = lock \/ lock' = lock \ {c},
         lock' = lock \/ call'[c].op = "none" \/ ~call'[c].alive,
         call'[c].op # "none" /\ call'[c].alive => call[c].op # "none" /\ call[c].alive
  PROVE  \A d \in Callers : (Local(d) /\ Alone(d) /\ Single(d))'
<1>1. UNCHANGED backend
  BY DEF Grows
<1>2. ASSUME NEW d \in Callers PROVE Local(d)'
  BY <1>2, LocalStays DEF Others
<1>3. ASSUME NEW d \in Callers PROVE Alone(d)'
  <2>1. Alone(d) /\ Alone(c)
    BY DEF SInv
  <2>2. CASE d = c
    BY <1>1, <2>1, <2>2 DEF Alone
  <2>3. CASE d # c
    BY <1>1, <2>1, <2>3 DEF Alone, Others
  <2> QED
    BY <2>2, <2>3
<1>4. ASSUME NEW d \in Callers, Claims(d)' PROVE Claims(d) /\ call'[d].on = call[d].on
  BY <1>1, <1>4 DEF Claims, Others
<1>5. ASSUME NEW d \in Callers PROVE Single(d)'
  <2>1. Single(d)
    BY DEF SInv
  <2> QED
    BY <1>4, <2>1 DEF Single
<1> QED
  BY <1>2, <1>3, <1>5

-----------------------------------------------------------------------------
(* The steps, one after the other.                                         *)

\* The artifact or channel a call is about.
LEMMA OfIs ==
  ASSUME NEW c \in Callers, NEW i, call[c].on = {i}
  PROVE  Of(c) = i
BY DEF Of

\* The tables of the steps that leave some alone.
Still == UNCHANGED <<backend, expired, cancels>>

LEMMA BeginKeeps ==
  ASSUME SInv, NEW c \in Callers, NEW op \in Ops \ {"none"}, NEW on \in SUBSET Items,
         NEW pc \in Places, Begin(c, op, on, pc),
         UNCHANGED <<written, durable, blob, told, admitted, pruning, mishaps>>, Still,
         \/ op = "put" /\ (\E a \in Artifacts : on = {a})
            /\ pc = (IF backend = "redis" THEN "row" ELSE "write")
         \/ op = "get" /\ (\E a \in told : on = {a}) /\ pc = "select"
         \/ op = "prune" /\ on = {} /\ pc = "select"
         \/ /\ op = "consume" /\ \E ch \in Channels : on = {ch}
            /\ pc = IF backend = "redis" THEN "script" ELSE "select"
  PROVE  SInv'
<1>1. /\ Others(c) /\ call'[c].op = op /\ call'[c].on = on /\ call'[c].pc = pc
      /\ call'[c].alive = TRUE /\ call'[c].found = FALSE
  BY NoCallShape DEF Begin, SInv, Typed, Others, CallShape
<1>2. Typed'
  <2>1. lock' = {} \/ lock' = {c}
    BY DEF Begin
  <2> QED
    BY <1>1, <2>1 DEF SInv, Typed, Others, Still
<1>3. Grows
  BY DEF Grows, Still
<1>4. Books'
  BY <1>3, BooksStay DEF SInv, Books
<1>5. Local(c)'
  <2>1. CASE op = "put"
    BY <1>1, <2>1 DEF Local, Putting, Getting, Pruning, Consuming, Resting, Still
  <2>2. CASE op = "get"
    BY <1>1, <2>2 DEF Local, Putting, Getting, Pruning, Consuming, Resting, Still
  <2>3. CASE op = "prune"
    BY <1>1, <2>3 DEF Local, Putting, Getting, Pruning, Consuming, Resting, Still
  <2>4. CASE op = "consume"
    BY <1>1, <2>4 DEF Local, Putting, Getting, Pruning, Consuming, Resting, Still
  <2> QED
    BY <2>1, <2>2, <2>3, <2>4
<1>6. ~Claims(c)'
  BY <1>1 DEF Claims
<1>7. ASSUME NEW d \in Callers PROVE (Local(d) /\ Alone(d) /\ Single(d))'
  <2>1. Local(d)'
    BY <1>1, <1>3, <1>5, LocalStays DEF Others
  <2>2. Alone(d)'
    <3>1. lock = {} /\ (backend # "redis" => lock' = {c})
      BY DEF Begin
    <3>2. Alone(d)
      BY DEF SInv
    <3> QED
      BY <1>1, <3>1, <3>2 DEF Alone, Others, Still
  <2>3. ASSUME NEW e \in Callers, Claims(e)' PROVE Claims(e) /\ call'[e] = call[e]
    BY <1>1, <1>6, <2>3 DEF Claims, Others, Still
  <2>4. Single(d)'
    <3>1. Single(d)
      BY DEF SInv
    <3> QED
      BY <2>3, <3>1 DEF Single
  <2> QED
    BY <2>1, <2>2, <2>4
<1> QED
  BY <1>2, <1>4, <1>7 DEF SInv

LEMMA BeginsKeep ==
  ASSUME SInv, Still, NEW c \in Callers, Put(c) \/ Get(c) \/ Consume(c) \/ (Prune /\ c = Pruner)
  PROVE  SInv'
<1>1. told \subseteq Items /\ Artifacts \subseteq Items /\ Channels \subseteq Items
  BY DEF SInv, Typed, Items
<1>2. CASE Put(c)
  <2>1. PICK a \in Artifacts : Begin(c, "put", {a}, IF backend = "redis" THEN "row" ELSE "write")
    BY <1>2 DEF Put
  <2> QED
    BY <1>1, <1>2, <2>1, BeginKeeps DEF Put, Kept, Smooth, Ops, Places
<1>3. CASE Get(c)
  <2>1. PICK a \in told : Begin(c, "get", {a}, "select")
    BY <1>3 DEF Get
  <2> QED
    BY <1>1, <1>3, <2>1, BeginKeeps DEF Get, Kept, Smooth, Ops, Places
<1>4. CASE Consume(c)
  <2>1. PICK ch \in Channels :
          Begin(c, "consume", {ch}, IF backend = "redis" THEN "script" ELSE "select")
    BY <1>4 DEF Consume
  <2> QED
    BY <1>1, <1>4, <2>1, BeginKeeps DEF Consume, Kept, Smooth, Ops, Places
<1>5. CASE Prune /\ c = Pruner
  BY <1>1, <1>5, BeginKeeps DEF Prune, Kept, Smooth, Ops, Places
<1> QED
  BY <1>2, <1>3, <1>4, <1>5
\* A step of the call of c that leaves the lock, the books and what is stored.
LEMMA WorkKeeps ==
  ASSUME SInv, Still, NEW c \in Callers, NEW pc \in Places, Moves(c, pc), Grows,
         UNCHANGED <<lock, told, admitted, pruning>>, Typed',
         backend # "sqlite" => durable' = written', Local(c)',
         Claims(c)' => Claims(c) \/ Open(c)
  PROVE  SInv'
<1>1. Books'
  BY BooksStay DEF Still
<1>2. ASSUME NEW d \in Callers PROVE Local(d)'
  BY <1>2, LocalStays DEF Moves, Others
<1>3. ASSUME NEW d \in Callers PROVE Alone(d)'
  <2>1. Alone(d)
    BY DEF SInv
  <2> QED
    BY <2>1 DEF Alone, Moves, Others, Still
<1>4. ASSUME NEW d \in Callers, d # c PROVE Claims(d)' <=> Claims(d)
  BY <1>4 DEF Claims, Moves, Others, Still
<1>5. Claims(c)' => \A ch \in call[c].on : admitted[ch] = 0
  <2>1. CASE Claims(c)
    BY <2>1 DEF SInv, Single
  <2>2. CASE Open(c)
    <3>1. ASSUME Claims(c)' PROVE \E ch \in Channels : call[c].on = {ch}
      BY <3>1 DEF SInv, Local, Consuming, Claims, Moves
    <3> QED
      BY <2>2, <3>1 DEF SInv, Books, Shut, Open
  <2> QED
    BY <2>1, <2>2
<1>6. ASSUME NEW d \in Callers, d # c, Claims(c)', Claims(d) PROVE call[d].on # call[c].on
  <2>1. CASE Claims(c)
    BY <1>6, <2>1 DEF SInv, Single
  <2>2. CASE Open(c) /\ backend = "redis"
    <3>1. PICK ch \in Channels : call[d].on = {ch} /\ ch \in written
      BY <1>6, <2>2 DEF SInv, Local, Consuming, Claims
    <3> QED
      BY <2>2, <3>1 DEF Open
  <2>3. CASE backend # "redis"
    BY <1>6, <2>3 DEF SInv, Alone, Claims, Moves
  <2> QED
    BY <1>6, <2>1, <2>2, <2>3
<1>7. ASSUME NEW d \in Callers PROVE Single(d)'
  <2>1. Single(d)
    BY DEF SInv
  <2>2. \A e \in Callers : call'[e].on = call[e].on
    BY DEF Moves, Others
  <2> QED
    BY <1>4, <1>5, <1>6, <2>1, <2>2 DEF Single
<1> QED
  BY <1>1, <1>2, <1>3, <1>7 DEF SInv

\* The call of a caller in the middle of a put, of a get.
LEMMA PutIs ==
  ASSUME SInv, NEW c \in Callers, call[c].op = "put"
  PROVE  \E a \in Artifacts :
    /\ call[c].on = {a} /\ Of(c) = a /\ a \in Items
    /\ call[c].pc \in {"write", "row", "read", "commit", "answer"}
    /\ call[c].pc = "read" => backend = "redis"
    /\ call[c].pc = "commit" => backend = "sqlite"
    /\ call[c].pc \in {"read", "commit", "answer"} => Stored(a)
    /\ call[c].pc = "answer" => Saved(a)
    /\ (call[c].pc = "row" /\ backend # "redis") \/ call[c].pc \in {"commit", "answer"} => Filled(a)
BY OfIs DEF SInv, Local, Putting, Items

LEMMA WriteBlobKeeps ==
  ASSUME SInv, Still, NEW c \in Callers, WriteBlob(c)
  PROVE  SInv'
<1>1. PICK a \in Artifacts : call[c].on = {a} /\ Of(c) = a /\ a \in Items
  BY PutIs DEF WriteBlob, At
<1>2. /\ call[c].op = "put" /\ call[c].pc = "write" /\ Smooth
      /\ UNCHANGED <<written, durable, told, admitted, pruning, lock>>
  BY DEF WriteBlob, At, Kept, Goes
<1>3. CASE backend = "sqlite" /\ blob[a] = "none"
  <2>1. blob' = [blob EXCEPT ![a] = "part"] /\ call' = call
    BY <1>1, <1>3 DEF WriteBlob
  <2>2. Moves(c, "write") /\ Typed'
    BY <1>2, <2>1 DEF Moves, Others, SInv, Typed, Still, Smooth
  <2>3. Grows
    BY <1>2, <1>3, <2>1 DEF Grows, Still, SInv, Typed
  <2>4. Local(c)'
    BY <2>1, <2>3, LocalStays
  <2>5. Claims(c)' => Claims(c)
    BY <2>1 DEF Claims, Still
  <2> QED
    BY <1>2, <2>2, <2>3, <2>4, <2>5, WorkKeeps DEF SInv, Books, Places
<1>4. CASE ~(backend = "sqlite" /\ blob[a] = "none")
  <2>1. blob' = [blob EXCEPT ![a] = "whole"] /\ Goes(c, "row")
    BY <1>1, <1>4 DEF WriteBlob
  <2>2. Moves(c, "row") /\ call'[c].found = call[c].found
    BY <2>1, GoesMoves DEF SInv, Places
  <2>3. Typed'
    BY <1>2, <2>1, <2>2 DEF Moves, Others, SInv, Typed, Still, Smooth
  <2>4. Grows
    BY <1>2, <2>1 DEF Grows, Still, SInv, Typed
  <2>5. blob'[a] = "whole"
    BY <2>1 DEF SInv, Typed
  <2>6. Local(c)'
    BY <1>1, <1>2, <2>2, <2>5
       DEF Moves, Local, Putting, Getting, Pruning, Consuming, Resting, Filled
  <2>7. ~Claims(c)'
    BY <1>2, <2>2 DEF Claims, Moves
  <2> QED
    BY <1>2, <2>2, <2>3, <2>4, <2>6, <2>7, WorkKeeps DEF SInv, Books, Places
<1> QED
  BY <1>3, <1>4

LEMMA WriteRowKeeps ==
  ASSUME SInv, Still, NEW c \in Callers, WriteRow(c)
  PROVE  SInv'
<1>1. /\ call[c].op = "put" /\ call[c].pc = "row" /\ Smooth
      /\ UNCHANGED <<blob, told, admitted, pruning>>
  BY DEF WriteRow, At
<1>2. PICK a \in Artifacts : /\ call[c].on = {a} /\ a \in Items
                             /\ backend # "redis" => Filled(a)
  BY <1>1, PutIs
<1>3. PICK pc \in {"commit", "read", "answer"} :
        /\ Goes(c, pc) /\ (pc = "commit" <=> backend = "sqlite")
        /\ (pc = "read" <=> backend = "redis")
  BY DEF WriteRow, SInv, Typed, Backends
<1>4. Moves(c, pc) /\ call'[c].found = call[c].found /\ lock' = lock
  BY <1>3, GoesMoves DEF SInv, Places
<1>5. /\ written' = written \cup {a}
      /\ durable' = IF backend = "sqlite" THEN durable ELSE written \cup {a}
  BY <1>2 DEF WriteRow, Write
<1>6. Typed'
  BY <1>1, <1>2, <1>4, <1>5 DEF Moves, Others, SInv, Typed, Still, Smooth
<1>7. Grows
  BY <1>1, <1>5 DEF Grows, Still, SInv, Books
<1>8. Local(c)'
  BY <1>1, <1>2, <1>3, <1>4, <1>5
     DEF Moves, Local, Putting, Getting, Pruning, Consuming, Resting, Stored, Saved, Filled, Still
<1>9. ~Claims(c)'
  BY <1>1, <1>4 DEF Claims, Moves
<1> QED
  BY <1>1, <1>4, <1>5, <1>6, <1>7, <1>8, <1>9, WorkKeeps DEF Places

LEMMA SetBlobKeeps ==
  ASSUME SInv, Still, NEW c \in Callers, SetBlob(c)
  PROVE  SInv'
<1>1. /\ call[c].op = "put" /\ call[c].pc = "read" /\ Smooth /\ Goes(c, "answer")
      /\ UNCHANGED <<written, durable, told, admitted, pruning>>
  BY DEF SetBlob, At, Kept
<1>2. PICK a \in Artifacts : /\ call[c].on = {a} /\ Of(c) = a /\ a \in Items
                             /\ backend = "redis" /\ Stored(a)
  BY <1>1, PutIs
<1>3. Moves(c, "answer") /\ call'[c].found = call[c].found /\ lock' = lock
  BY <1>1, GoesMoves DEF SInv, Places
<1>4. blob' = [blob EXCEPT ![a] = "whole"] /\ blob'[a] = "whole"
  BY <1>2 DEF SetBlob, SInv, Typed
<1>5. Typed'
  BY <1>1, <1>2, <1>3, <1>4 DEF Moves, Others, SInv, Typed, Still, Smooth
<1>6. Grows
  BY <1>1, <1>4 DEF Grows, Still, SInv, Typed
<1>7. Saved(a)
  BY <1>2 DEF Stored, Saved, SInv, Books
<1>8. Local(c)'
  BY <1>1, <1>2, <1>3, <1>4, <1>7
     DEF Moves, Local, Putting, Getting, Pruning, Consuming, Resting, Stored, Saved, Filled, Still
<1>9. ~Claims(c)'
  BY <1>1, <1>3 DEF Claims, Moves
<1> QED
  BY <1>1, <1>3, <1>5, <1>6, <1>8, <1>9, WorkKeeps DEF SInv, Books, Places

LEMMA SelectRowKeeps ==
  ASSUME SInv, Still, NEW c \in Callers, SelectRow(c)
  PROVE  SInv'
<1>1. /\ call[c].op = "get" /\ call[c].pc = "select" /\ Smooth
      /\ UNCHANGED <<written, durable, blob, told, admitted, pruning>>
  BY DEF SelectRow, At, Kept
<1>2. PICK a \in told : call[c].on = {a}
  BY <1>1 DEF SInv, Local, Getting
<1>3. PICK pc \in {"read", "answer"} : Goes(c, pc) /\ (pc = "answer" => a \notin written \ expired)
  BY <1>2 DEF SelectRow
<1>4. Moves(c, pc) /\ call'[c].found = call[c].found /\ lock' = lock
  BY <1>3, GoesMoves DEF SInv, Places
<1>5. Typed'
  BY <1>1, <1>4 DEF Moves, Others, SInv, Typed, Still, Smooth
<1>6. Grows
  BY <1>1 DEF Grows, Still
<1>7. pc = "answer" => a \in expired
  BY <1>3 DEF SInv, Books, Stored
<1>8. Local(c)'
  BY <1>1, <1>2, <1>4, <1>7
     DEF Moves, Local, Putting, Getting, Pruning, Consuming, Resting, Still
<1>9. ~Claims(c)'
  BY <1>1, <1>4 DEF Claims, Moves
<1> QED
  BY <1>1, <1>4, <1>5, <1>6, <1>8, <1>9, WorkKeeps DEF SInv, Books, Places

LEMMA ReadBlobKeeps ==
  ASSUME SInv, Still, NEW c \in Callers, ReadBlob(c)
  PROVE  SInv'
<1>1. /\ call[c].op = "get" /\ call[c].pc = "read" /\ Smooth
      /\ UNCHANGED <<written, durable, blob, told, admitted, pruning, lock>>
  BY DEF ReadBlob, At, Kept
<1>2. PICK a \in told : call[c].on = {a} /\ Of(c) = a
  BY <1>1, OfIs DEF SInv, Local, Getting
<1>3. PICK b \in BOOLEAN : (b <=> blob[a] = "whole") /\ Finds(c, b, "answer")
  <2>1. CASE blob[a] = "whole"
    <3>1. Finds(c, TRUE, "answer")
      BY <1>2, <2>1, Zenon DEF ReadBlob, Finds
    <3> QED
      BY <2>1, <3>1
  <2>2. CASE blob[a] # "whole"
    <3>0. (blob[a] = "whole") = FALSE
      BY <2>2
    <3>1. Finds(c, FALSE, "answer")
      BY <1>2, <3>0, Zenon DEF ReadBlob, Finds
    <3> QED
      BY <2>2, <3>1
  <2> QED
    BY <2>1, <2>2
<1>4. Moves(c, "answer") /\ (call'[c].found <=> blob[a] = "whole")
  BY <1>3, FindsMoves DEF SInv, Places
<1>5. Typed'
  BY <1>1, <1>4 DEF Moves, Others, SInv, Typed, Still, Smooth
<1>6. Grows
  BY <1>1 DEF Grows, Still
<1>7. ~call'[c].found => a \in expired
  BY <1>4 DEF SInv, Books, Filled
<1>8. Local(c)'
  BY <1>1, <1>2, <1>4, <1>7
     DEF Moves, Local, Putting, Getting, Pruning, Consuming, Resting, Still
<1>9. ~Claims(c)'
  BY <1>1, <1>4 DEF Claims, Moves
<1> QED
  BY <1>1, <1>4, <1>5, <1>6, <1>8, <1>9, WorkKeeps DEF SInv, Books, Places
LEMMA SelectExpiredKeeps ==
  ASSUME SInv, Still, NEW c \in Callers, SelectExpired(c)
  PROVE  SInv'
<1>1. /\ call[c].op = "prune" /\ call[c].pc = "select" /\ Smooth
      /\ UNCHANGED <<lock, blob, told, admitted, pruning>>
      /\ written' = written \ Expired
      /\ durable' = IF backend = "sqlite" THEN durable ELSE written \ Expired
  BY DEF SelectExpired, At, Write
<1>2. Expired \subseteq expired \cap Artifacts /\ Expired \subseteq Items
  BY DEF Expired, Items
<1>3. PICK pc \in {"answer", "commit", "unlink"} :
        call' = [call EXCEPT ![c].on = Expired, ![c].pc = pc]
  BY DEF SelectExpired
<1>4. /\ Others(c) /\ call'[c].op = "prune" /\ call'[c].pc = pc /\ call'[c].on = Expired
      /\ call'[c].alive = call[c].alive
  BY <1>1, <1>2, <1>3 DEF SInv, Typed, CallShape, Places, Others
<1>5. Typed'
  BY <1>1, <1>4 DEF Others, SInv, Typed, Still, Smooth
<1>6. Grows
  BY <1>1, <1>2 DEF Grows, Still, SInv, Books
<1>7. Books'
  BY <1>1, <1>6, BooksStay
<1>8. Local(c)'
  BY <1>2, <1>4 DEF Local, Putting, Getting, Pruning, Consuming, Resting, Still
<1>9. ~Claims(c)'
  BY <1>4 DEF Claims
<1> QED
  BY <1>1, <1>4, <1>5, <1>6, <1>7, <1>8, <1>9, CallsStay DEF SInv

LEMMA UnlinkKeeps ==
  ASSUME SInv, Still, NEW c \in Callers, Unlink(c)
  PROVE  SInv'
<1>1. /\ call[c].op = "prune" /\ call[c].pc = "unlink" /\ Smooth
      /\ UNCHANGED <<lock, written, durable, told, admitted, pruning>>
      /\ call[c].on \subseteq expired \cap Artifacts
  BY DEF Unlink, At, Kept, SInv, Local, Pruning
<1>2. PICK a \in call[c].on, pc \in {"answer", "unlink"} :
        /\ blob' = [blob EXCEPT ![a] = "none"]
        /\ call' = [call EXCEPT ![c].on = @ \ {a}, ![c].pc = pc]
  <2>1. PICK a \in call[c].on :
          /\ blob' = [blob EXCEPT ![a] = "none"]
          /\ call' = [call EXCEPT ![c].on = @ \ {a},
                                  ![c].pc = IF call[c].on = {a} THEN "answer" ELSE @]
    BY DEF Unlink
  <2>2. CASE call[c].on = {a}
    BY <2>1, <2>2
  <2>3. CASE call[c].on # {a}
    <3>1. call[c].on \ {a} \in SUBSET Items /\ call \in [Callers -> CallShape]
      BY DEF SInv, Typed, CallShape
    <3>2. call' = [call EXCEPT ![c].on = @ \ {a}, ![c].pc = "unlink"]
      BY <1>1, <2>1, <2>3, <3>1 DEF CallShape
    <3> QED
      BY <2>1, <3>2
  <2> QED
    BY <2>2, <2>3
<1>3. call[c].on \ {a} \in SUBSET Items
  BY DEF SInv, Typed, CallShape
<1>4. /\ Others(c) /\ call'[c].op = "prune" /\ call'[c].pc = pc
      /\ call'[c].on = call[c].on \ {a} /\ call'[c].alive = call[c].alive
  BY <1>1, <1>2, <1>3 DEF SInv, Typed, CallShape, Places, Others
<1>5. Typed'
  BY <1>1, <1>2, <1>4 DEF Others, SInv, Typed, Still, Smooth
<1>6. Grows
  BY <1>1, <1>2 DEF Grows, Still, SInv, Typed
<1>7. Books'
  BY <1>1, <1>6, BooksStay DEF SInv, Books
<1>8. Local(c)'
  BY <1>1, <1>4 DEF Local, Putting, Getting, Pruning, Consuming, Resting, Still
<1>9. ~Claims(c)'
  BY <1>4 DEF Claims
<1> QED
  BY <1>1, <1>4, <1>5, <1>6, <1>7, <1>8, <1>9, CallsStay DEF SInv

LEMMA ConsumeIs ==
  ASSUME SInv, NEW c \in Callers, call[c].op = "consume"
  PROVE  \E ch \in Channels :
    /\ call[c].on = {ch} /\ Of(c) = ch /\ ch \in Items
    /\ call[c].pc \in (IF backend = "redis" THEN {"script", "watch", "exec", "answer"}
                       ELSE {"select", "row", "commit", "answer"})
    /\ call[c].found => call[c].pc \in {"commit", "answer"} /\ ch \in written
    /\ call[c].found /\ call[c].pc = "answer" => ch \in durable
BY OfIs DEF SInv, Local, Consuming, Items

\* SELECT, WATCH: to the next place, and not in vain.
LEMMA LooksKeep ==
  ASSUME SInv, Still, NEW c \in Callers, SelectChannel(c) \/ Watch(c)
  PROVE  SInv'
<1>1. /\ call[c].op = "consume" /\ call[c].pc \in {"select", "watch"} /\ Smooth
      /\ UNCHANGED <<written, durable, blob, told, admitted, pruning>>
  BY DEF SelectChannel, Watch, At, Kept
<1>2. PICK ch \in Channels :
        /\ call[c].on = {ch} /\ ~call[c].found
        /\ call[c].pc \in (IF backend = "redis" THEN {"script", "watch", "exec", "answer"}
                           ELSE {"select", "row", "commit", "answer"})
  BY <1>1, ConsumeIs
<1>3. PICK pc \in {"row", "exec", "answer"} :
        /\ Goes(c, pc) /\ (pc # "answer" => Open(c))
        /\ pc = "row" => call[c].pc = "select"
        /\ pc = "exec" => call[c].pc = "watch"
  BY <1>1 DEF SelectChannel, Watch, At
<1>4. Moves(c, pc) /\ call'[c].found = call[c].found /\ lock' = lock
  BY <1>3, GoesMoves DEF SInv, Places
<1>5. Typed'
  BY <1>1, <1>4 DEF Moves, Others, SInv, Typed, Still, Smooth
<1>6. Grows
  BY <1>1 DEF Grows, Still
<1>7. Local(c)'
  BY <1>1, <1>2, <1>3, <1>4
     DEF Moves, Local, Putting, Getting, Pruning, Consuming, Resting, Still
<1>8. Claims(c)' => Open(c)
  BY <1>2, <1>3, <1>4 DEF Claims, Moves
<1> QED
  BY <1>1, <1>4, <1>5, <1>6, <1>7, <1>8, WorkKeeps DEF SInv, Books, Places

\* UPDATE, the script, EXEC: the channel is marked, and its caller admitted.
LEMMA MarksKeep ==
  ASSUME SInv, Still, NEW c \in Callers, call[c].op = "consume", NEW pc \in {"commit", "answer"},
         Finds(c, TRUE, pc), Write(written \cup call[c].on),
         UNCHANGED <<lock, blob, told, admitted, pruning>>, Smooth,
         pc = "commit" <=> backend = "sqlite", Claims(c)' => Claims(c) \/ Open(c)
  PROVE  SInv'
<1>1. Moves(c, pc) /\ call'[c].found = TRUE
  BY FindsMoves DEF SInv, Places
<1>2. PICK ch \in Channels : call[c].on = {ch} /\ ch \in Items
  BY ConsumeIs
<1>3. /\ written' = written \cup {ch}
      /\ durable' = IF backend = "sqlite" THEN durable ELSE written \cup {ch}
  BY <1>2 DEF Write
<1>4. Typed'
  BY <1>1, <1>2, <1>3 DEF Moves, Others, SInv, Typed, Still, Smooth
<1>5. Grows
  BY <1>3 DEF Grows, Still, SInv, Books
<1>6. Local(c)'
  BY <1>1, <1>2, <1>3, ConstantsAssumption
     DEF Moves, Local, Putting, Getting, Pruning, Consuming, Resting, Still
<1> QED
  BY <1>1, <1>3, <1>4, <1>5, <1>6, WorkKeeps DEF Places

\* A reply is lost, or the channel is closed: the caller is not admitted yet.
LEMMA TriesKeep ==
  ASSUME SInv, Still, NEW c \in Callers, call[c].op = "consume", backend = "redis",
         NEW pc \in {"watch", "exec", "answer"}, Moves(c, pc), call'[c].found = FALSE,
         durable' = written', written' = written \/ written' = written \cup call[c].on,
         UNCHANGED <<lock, blob, told, admitted, pruning>>, mishaps' \in 0 .. MaxMishaps
  PROVE  SInv'
<1>1. PICK ch \in Channels : call[c].on = {ch} /\ ch \in Items
  BY ConsumeIs
<1>2. durable = written
  BY DEF SInv, Books
<1>3. Typed'
  BY <1>1 DEF Moves, Others, SInv, Typed, Still
<1>4. Grows
  BY <1>2 DEF Grows, Still
<1>5. Local(c)'
  BY <1>1 DEF Moves, Local, Putting, Getting, Pruning, Consuming, Resting, Still
<1>6. ~Claims(c)'
  BY DEF Claims, Moves, Still
<1> QED
  BY <1>3, <1>4, <1>5, <1>6, WorkKeeps DEF Places

LEMMA MishapTyped ==
  ASSUME SInv, Mishap \/ Smooth
  PROVE  mishaps' \in 0 .. MaxMishaps
BY ConstantsAssumption DEF Mishap, Smooth, SInv, Typed

LEMMA MarkKeeps ==
  ASSUME SInv, Still, NEW c \in Callers, Mark(c)
  PROVE  SInv'
<1>1. call[c].op = "consume" /\ call[c].pc = "row" /\ backend # "redis"
  BY ConsumeIs DEF Mark, At
<1>2. Finds(c, TRUE, IF backend = "sqlite" THEN "commit" ELSE "answer")
  BY DEF Mark, Finds
<1>3. Claims(c)' => Claims(c)
  <2>1. call'[c].alive = call[c].alive
    BY <1>2, FindsMoves DEF SInv, Places, Moves
  <2> QED
    BY <1>1, <2>1 DEF Claims
<1> QED
  BY <1>1, <1>2, <1>3, MarksKeep DEF Mark

LEMMA ScriptKeeps ==
  ASSUME SInv, Still, NEW c \in Callers, Script(c)
  PROVE  SInv'
<1>1. /\ call[c].op = "consume" /\ call[c].pc = "script"
      /\ UNCHANGED <<lock, blob, told, admitted, pruning>>
  BY DEF Script, At
<1>2. PICK ch \in Channels : call[c].on = {ch} /\ backend = "redis" /\ ~call[c].found
  BY <1>1, ConsumeIs DEF SInv, Typed, Backends
<1>3. durable = written /\ call[c].found = FALSE
  BY <1>2 DEF SInv, Books, Typed, CallShape
<1>4. CASE /\ Smooth /\ Write(IF Open(c) THEN written \cup call[c].on ELSE written)
           /\ call' = [call EXCEPT ![c].found = Open(c), ![c].pc = "answer"]
  <2>1. CASE Open(c)
    <3>0. Open(c) = TRUE
      BY <2>1 DEF Open
    <3>1. Finds(c, TRUE, "answer")
      BY <1>4, <3>0, Zenon DEF Finds
    <3>2. Write(written \cup call[c].on)
      BY <1>4, <2>1
    <3> QED
      BY <1>1, <1>2, <1>4, <2>1, <3>1, <3>2, MarksKeep
  <2>2. CASE ~Open(c)
    <3>0. Open(c) = FALSE
      BY <2>2 DEF Open
    <3>1. Finds(c, FALSE, "answer")
      BY <1>4, <3>0, Zenon DEF Finds
    <3>2. durable' = written' /\ written' = written
      BY <1>2, <1>4, <2>2 DEF Write
    <3>3. Moves(c, "answer") /\ call'[c].found = FALSE
      BY <3>1, FindsMoves DEF SInv, Places
    <3> QED
      BY <1>1, <1>2, <1>4, <3>2, <3>3, TriesKeep, MishapTyped
  <2> QED
    BY <2>1, <2>2
<1>5. CASE /\ Mishap /\ call' = [call EXCEPT ![c].pc = "watch"]
           /\ Kept \/ Write(IF Open(c) THEN written \cup call[c].on ELSE written)
  <2>1. Goes(c, "watch")
    BY <1>1, <1>5 DEF Goes
  <2>2. Moves(c, "watch") /\ call'[c].found = FALSE
    BY <1>3, <2>1, GoesMoves DEF SInv, Places
  <2>3. durable' = written' /\ (written' = written \/ written' = written \cup call[c].on)
    BY <1>2, <1>3, <1>5 DEF Kept, Write
  <2> QED
    BY <1>1, <1>2, <1>5, <2>2, <2>3, TriesKeep, MishapTyped
<1> QED
  BY <1>4, <1>5 DEF Script

LEMMA ExecKeeps ==
  ASSUME SInv, Still, NEW c \in Callers, Exec(c)
  PROVE  SInv'
<1>1. /\ call[c].op = "consume" /\ call[c].pc = "exec"
      /\ UNCHANGED <<lock, blob, told, admitted, pruning>>
  BY DEF Exec, At
<1>2. PICK ch \in Channels : call[c].on = {ch} /\ backend = "redis" /\ ~call[c].found
  BY <1>1, ConsumeIs DEF SInv, Typed, Backends
<1>3. durable = written /\ call[c].found = FALSE
  BY <1>2 DEF SInv, Books, Typed, CallShape
<1>4. CASE /\ Open(c) /\ Write(written \cup call[c].on) /\ Smooth
           /\ call' = [call EXCEPT ![c].found = TRUE, ![c].pc = "answer"]
  BY <1>1, <1>2, <1>4, MarksKeep DEF Finds
<1>5. CASE /\ Kept \/ Write(written \cup call[c].on)
           /\ Mishap \/ Smooth
           /\ call' = [call EXCEPT ![c].pc = "watch"]
  <2>1. Goes(c, "watch")
    BY <1>1, <1>5 DEF Goes
  <2>2. Moves(c, "watch") /\ call'[c].found = FALSE
    BY <1>3, <2>1, GoesMoves DEF SInv, Places
  <2>3. durable' = written' /\ (written' = written \/ written' = written \cup call[c].on)
    BY <1>2, <1>3, <1>5 DEF Kept, Write
  <2> QED
    BY <1>1, <1>2, <1>5, <2>2, <2>3, TriesKeep, MishapTyped
<1> QED
  BY <1>4, <1>5 DEF Exec

LEMMA CommitKeeps ==
  ASSUME SInv, Still, NEW c \in Callers, CommitCall(c)
  PROVE  SInv'
<1>1. /\ call[c].pc = "commit" /\ durable' = written /\ Smooth
      /\ UNCHANGED <<written, blob, told, admitted, pruning>>
  BY DEF CommitCall, Commit
<1>2. PICK pc \in {"unlink", "answer"} : Goes(c, pc) /\ (pc = "unlink" <=> call[c].op = "prune")
  BY DEF CommitCall
<1>3. Moves(c, pc) /\ call'[c].found = call[c].found /\ lock' = lock
  BY <1>2, GoesMoves DEF SInv, Places
<1>4. Typed'
  BY <1>1, <1>3 DEF Moves, Others, SInv, Typed, Still, Smooth
<1>5. Grows
  BY <1>1 DEF Grows, Still
<1>6. Local(c) /\ call[c].op \in {"put", "prune", "consume"}
  BY <1>1 DEF SInv, Local, Getting, Resting, Typed, CallShape, Ops
<1>7. Local(c)'
  <2>1. CASE call[c].op = "put"
    <3>1. PICK a \in Artifacts : call[c].on = {a} /\ Stored(a) /\ Filled(a)
      BY <1>1, <2>1, PutIs
    <3> QED
      BY <1>1, <1>2, <1>3, <2>1, <3>1 DEF Moves, Local, Putting, Getting, Pruning, Consuming,
         Resting, Stored, Saved, Filled, Still
  <2>2. CASE call[c].op = "prune"
    BY <1>1, <1>2, <1>3, <1>6, <2>2 DEF Moves, Local, Putting, Getting, Pruning, Consuming,
       Resting, Still
  <2>3. CASE call[c].op = "consume"
    <3>1. PICK ch \in Channels : call[c].on = {ch} /\ backend # "redis"
                                 /\ (call[c].found => ch \in written)
      BY <1>1, <2>3, ConsumeIs
    <3> QED
      BY <1>1, <1>2, <1>3, <2>3, <3>1 DEF Moves, Local, Putting, Getting, Pruning, Consuming,
         Resting, Still
  <2> QED
    BY <1>6, <2>1, <2>2, <2>3
<1>8. Claims(c)' => Claims(c)
  <2>1. call[c].op = "consume" => pc = "answer"
    BY <1>2
  <2> QED
    BY <1>3, <2>1 DEF Claims, Moves, Still
<1>9. backend # "sqlite" => durable' = written'
  BY <1>1
<1> QED
  BY <1>1, <1>3, <1>4, <1>5, <1>7, <1>8, <1>9, WorkKeeps DEF Places

LEMMA AnswerKeeps ==
  ASSUME SInv, Still, NEW c \in Callers, Answer(c)
  PROVE  SInv'
<1>1. /\ call[c].pc = "answer" /\ Smooth
      /\ UNCHANGED <<written, durable, blob, pruning>>
      /\ Others(c) /\ call'[c] = NoCall /\ lock' = lock \ {c}
  BY ReturnRests DEF Answer, Kept, SInv
<1>2. \A d \in Callers : call'[d] = call[d] \/ ~Claims(d)'
  BY <1>1, NoCallShape DEF Others, Claims
<1>3. (Local(c) /\ Alone(c) /\ Single(c))'
  BY <1>1, NoCallShape DEF Local, Putting, Getting, Pruning, Consuming, Resting, Alone,
     Single, Claims
<1>4. CASE UNCHANGED <<told, admitted>>
  <2>1. Typed'
    BY <1>1, <1>4 DEF Others, SInv, Typed, Still, Smooth
  <2>2. Grows
    BY <1>1, <1>4 DEF Grows, Still
  <2>3. Books'
    BY <1>1, <1>4, <2>2, BooksStay DEF SInv, Books
  <2>4. call'[c].op = "none" /\ ~Claims(c)'
    BY <1>1, NoCallShape DEF Claims
  <2> QED
    BY <1>1, <1>3, <1>4, <2>1, <2>2, <2>3, <2>4, CallsStay DEF SInv
<1>5. CASE call[c].op = "put" /\ told' = told \cup call[c].on /\ admitted' = admitted
  <2>1. PICK a \in Artifacts : call[c].on = {a} /\ Stored(a) /\ Saved(a) /\ Filled(a)
    BY <1>1, <1>5, PutIs
  <2>2. Typed'
    BY <1>1, <1>5, <2>1 DEF Others, SInv, Typed, Still, Smooth
  <2>3. Grows
    BY <1>1, <1>5 DEF Grows, Still
  <2>4. Books'
    BY <1>1, <1>5, <2>1 DEF SInv, Books, Stored, Saved, Filled, Shut, Still
  <2>5. call'[c].op = "none" /\ ~Claims(c)'
    BY <1>1, NoCallShape DEF Claims
  <2> QED
    BY <1>1, <1>3, <1>5, <2>2, <2>3, <2>4, <2>5, CallsStay DEF SInv
<1>6. CASE /\ call[c].op = "consume" /\ call[c].alive /\ call[c].found /\ told' = told
           /\ admitted' = [admitted EXCEPT ![Of(c)] = @ + 1]
  <2>1. PICK ch \in Channels : /\ call[c].on = {ch} /\ Of(c) = ch /\ ch \in written
                               /\ ch \in durable
    BY <1>1, <1>6, ConsumeIs
  <2>2. Claims(c) /\ Single(c)
    BY <1>6 DEF Claims, SInv
  <2>3. admitted[ch] = 0
    BY <2>1, <2>2 DEF Single
  <2>4. /\ admitted' \in [Channels -> Nat] /\ admitted'[ch] = 1
        /\ \A k \in Channels \ {ch} : admitted'[k] = admitted[k]
    BY <1>6, <2>1, <2>3 DEF SInv, Typed
  <2>5. Typed'
    BY <1>1, <1>6, <2>4 DEF Others, SInv, Typed, Still, Smooth
  <2>6. Grows
    BY <1>1, <1>6 DEF Grows, Still
  <2>7. Books'
    BY <1>1, <1>6, <2>1, <2>4 DEF SInv, Books, Stored, Saved, Filled, Shut, Still
  <2>8. ASSUME NEW d \in Callers PROVE (Local(d) /\ Alone(d) /\ Single(d))'
    <3>1. CASE d = c
      BY <1>3, <3>1
    <3>2. CASE d # c
      <4>1. Local(d)'
        BY <1>1, <2>6, <3>2, LocalStays DEF Others
      <4>2. Alone(d)'
        BY <1>1, <3>2 DEF SInv, Alone, Others, Still
      <4>3. Claims(d)' => Claims(d) /\ call[d].on # call[c].on
        BY <1>1, <2>2, <3>2 DEF Claims, Others, Still, Single
      <4>4. Claims(d)' => \A k \in call'[d].on : admitted'[k] = 0
        <5>1. ASSUME Claims(d)' PROVE \E k \in Channels \ {ch} : call[d].on = {k} /\ admitted[k] = 0
          <6>1. Claims(d) /\ call[d].on # {ch}
            BY <2>1, <4>3, <5>1
          <6>2. PICK k \in Channels : call[d].on = {k}
            BY <6>1, ConsumeIs DEF Claims
          <6> QED
            BY <6>1, <6>2 DEF SInv, Single
        <5> QED
          BY <1>1, <2>4, <3>2, <5>1 DEF Others
      <4>5. \A e \in Callers : Claims(e)' => Claims(e) /\ call'[e].on = call[e].on
        BY <1>1, <1>2 DEF Claims, Still
      <4>6. Single(d)'
        BY <1>1, <3>2, <4>3, <4>4, <4>5 DEF SInv, Single, Others
      <4> QED
        BY <4>1, <4>2, <4>6
    <3> QED
      BY <3>1, <3>2
  <2> QED
    BY <2>5, <2>7, <2>8 DEF SInv
<1> QED
  BY <1>4, <1>5, <1>6 DEF Answer

LEMMA FailsKeep ==
  ASSUME SInv, Still, NEW c \in Callers, Fails(c)
  PROVE  SInv'
<1>1. /\ UNCHANGED <<written, durable, blob, told, admitted>> /\ pruning' \in BOOLEAN
      /\ Others(c) /\ call'[c] = NoCall /\ lock' = lock \ {c} /\ Mishap
  BY ReturnRests DEF Fails, Kept, SInv
<1>2. Typed'
  BY <1>1, MishapTyped DEF Others, SInv, Typed, Still
<1>3. Grows
  BY <1>1 DEF Grows, Still
<1>4. Books'
  BY <1>1, <1>3, BooksStay DEF SInv, Books
<1>5. call'[c].op = "none" /\ ~Claims(c)' /\ Local(c)'
  BY <1>1, NoCallShape DEF Claims, Local, Putting, Getting, Pruning, Consuming, Resting
<1> QED
  BY <1>1, <1>2, <1>3, <1>4, <1>5, CallsStay DEF SInv

LEMMA CancelKeeps ==
  ASSUME SInv, NEW c \in Callers, Cancel(c)
  PROVE  SInv'
<1>1. /\ UNCHANGED <<written, durable, blob, told, admitted, backend, expired, mishaps>>
      /\ pruning' \in BOOLEAN /\ cancels' \in 0 .. MaxCancels
  BY ConstantsAssumption DEF Cancel, Kept, Smooth, SInv, Typed
<1>2. /\ Others(c) /\ lock' = lock \ {c}
      /\ \/ call'[c] = NoCall
         \/ /\ backend = "sqlite" /\ call'[c].op = call[c].op /\ call'[c].pc = call[c].pc
            /\ call'[c].on = call[c].on /\ call'[c].found = call[c].found
            /\ call'[c].alive = FALSE
  <2>1. CASE backend = "sqlite"
    <3>1. call' = [call EXCEPT ![c].alive = FALSE] /\ lock' = lock \ {c}
      BY <2>1 DEF Cancel
    <3>2. call \in [Callers -> CallShape]
      BY DEF SInv, Typed
    <3> QED
      BY <2>1, <3>1, <3>2 DEF Others, CallShape
  <2>2. CASE backend # "sqlite"
    BY <2>2, ReturnRests DEF Cancel, SInv
  <2> QED
    BY <2>1, <2>2
<1>3. Typed'
  BY <1>1, <1>2 DEF Others, SInv, Typed
<1>4. Grows
  BY <1>1 DEF Grows
<1>5. Books'
  BY <1>1, <1>4, BooksStay DEF SInv, Books
<1>6. ~Claims(c)' /\ (call'[c].op = "none" \/ ~call'[c].alive)
  BY <1>2, NoCallShape DEF Claims
<1>7. Local(c)'
  <2>1. CASE call'[c] = NoCall
    BY <2>1, NoCallShape DEF Local, Putting, Getting, Pruning, Consuming, Resting
  <2>2. CASE call'[c] # NoCall
    <3>1. Local(c)
      BY DEF SInv
    <3> QED
      BY <1>1, <1>2, <2>2, <3>1 DEF Local, Putting, Getting, Pruning, Consuming, Resting,
         Stored, Saved, Filled
  <2> QED
    BY <2>1, <2>2
<1> QED
  BY <1>1, <1>2, <1>3, <1>4, <1>5, <1>6, <1>7, CallsStay DEF SInv

-----------------------------------------------------------------------------
(* Time and crashes.                                                       *)

LEMMA TimeKeeps ==
  ASSUME SInv, (\E i \in Items : Expire(i)) \/ (\E a \in Artifacts : BlobExpires(a))
  PROVE  SInv'
<1>1. UNCHANGED <<call, lock, backend, pruning, told, admitted, mishaps, cancels>>
  BY DEF Expire, BlobExpires, Smooth
<1>2. Typed' /\ Grows /\ (backend # "sqlite" => durable' = written')
  <2>1. CASE \E i \in Items : Expire(i)
    <3>1. PICK i \in Items : Expire(i)
      BY <2>1
    <3>2. /\ expired' = expired \cup {i} /\ blob' = blob
          /\ \/ UNCHANGED <<written, durable>>
             \/ /\ backend = "redis" /\ i \in Artifacts
                /\ written' = written \ {i} /\ durable' = written \ {i}
      BY <3>1 DEF Expire, Kept, Write
    <3> QED
      BY <1>1, <3>2 DEF Grows, SInv, Typed, Books
  <2>2. CASE \E a \in Artifacts : BlobExpires(a)
    <3>1. PICK a \in Artifacts : BlobExpires(a)
      BY <2>2
    <3>2. /\ a \in expired /\ blob' = [blob EXCEPT ![a] = "none"]
          /\ UNCHANGED <<written, durable, expired>>
      BY <3>1 DEF BlobExpires, Kept
    <3> QED
      BY <1>1, <3>2 DEF Grows, SInv, Typed, Books
  <2> QED
    BY <2>1, <2>2
<1>3. Books'
  BY <1>1, <1>2, BooksStay
<1>4. ASSUME NEW d \in Callers PROVE (Local(d) /\ Alone(d) /\ Single(d))'
  <2>1. Local(d)'
    BY <1>1, <1>2, LocalStays
  <2>2. (Alone(d) /\ Single(d))'
    BY <1>1 DEF SInv, Alone, Single, Claims
  <2> QED
    BY <2>1, <2>2
<1> QED
  BY <1>2, <1>3, <1>4 DEF SInv

LEMMA CrashKeeps ==
  ASSUME SInv, Crash
  PROVE  SInv'
<1>1. /\ call' = [c \in Callers |-> NoCall] /\ lock' = {} /\ pruning' = TRUE
      /\ mishaps' \in 0 .. MaxMishaps /\ UNCHANGED <<backend, admitted, cancels>>
  BY MishapTyped DEF Crash
<1>2. call' \in [Callers -> CallShape] /\ \A c \in Callers : call'[c] = NoCall
  BY <1>1, NoCallShape
<1>3. CASE backend = "memory"
  <2>1. /\ written' = {} /\ durable' = {} /\ blob' = [a \in Artifacts |-> "none"]
        /\ told' = {} /\ expired' = expired \cup Channels \cup written
    BY <1>3 DEF Crash
  <2>2. Typed'
    BY <1>1, <1>2, <2>1 DEF SInv, Typed, Items
  <2>3. Books'
    BY <1>1, <1>3, <2>1 DEF SInv, Books, Shut
  <2> QED
    BY <1>2, <2>2, <2>3, NoCallShape DEF SInv, Local, Putting, Getting, Pruning, Consuming,
       Resting, Alone, Single, Claims
<1>4. CASE backend # "memory"
  <2>1. written' = durable /\ UNCHANGED <<durable, blob, told, expired>>
    BY <1>4 DEF Crash
  <2>2. Typed'
    BY <1>1, <1>2, <2>1 DEF SInv, Typed
  <2>3. Books'
    BY <1>1, <2>1 DEF SInv, Books, Shut, Stored, Saved, Filled
  <2> QED
    BY <1>2, <2>2, <2>3, NoCallShape DEF SInv, Local, Putting, Getting, Pruning, Consuming,
       Resting, Alone, Single, Claims
<1> QED
  BY <1>3, <1>4

-----------------------------------------------------------------------------
(* The theorems.                                                           *)

LEMMA NextSInv == SInv /\ [Next]_vars => SInv'
<1> SUFFICES ASSUME SInv, [Next]_vars PROVE SInv'
  OBVIOUS
<1>1. ASSUME Still, NEW c \in Callers, Works(c) \/ Fails(c) PROVE SInv'
  BY <1>1, WriteBlobKeeps, WriteRowKeeps, SetBlobKeeps, SelectRowKeeps, ReadBlobKeeps,
     SelectExpiredKeeps, UnlinkKeeps, LooksKeep, MarkKeeps, ScriptKeeps, ExecKeeps, CommitKeeps,
     AnswerKeeps, FailsKeep DEF Works
<1>2. CASE Still /\ (Prune \/ \E c \in Clients : Put(c) \/ Get(c) \/ Consume(c))
  BY <1>2, BeginsKeep DEF Callers
<1>3. CASE UNCHANGED vars
  BY <1>3 DEF vars, SInv, Typed, Books, Local, Putting, Getting, Pruning, Consuming, Resting,
     Alone, Single, Claims, Stored, Saved, Filled, Shut
<1> QED
  BY <1>1, <1>2, <1>3, CancelKeeps, TimeKeeps, CrashKeeps DEF Next, Still

\* The types of the model's variables, for any number of callers.
THEOREM TypesOfTheStore == Spec => []TypeOK
<1>1. SInv => TypeOK
  <2> SUFFICES ASSUME SInv PROVE TypeOK
    OBVIOUS
  <2>1. lock \subseteq Callers /\ Cardinality(lock) <= 1
    <3>1. CASE lock = {}
      BY <3>1, FS_EmptySet
    <3>2. ASSUME NEW c \in Callers, lock = {c} PROVE lock \subseteq Callers /\ Cardinality(lock) <= 1
      <4>1. Cardinality({c}) = 1
        BY FS_Singleton
      <4> QED
        BY <3>2, <4>1
    <3> QED
      BY <3>1, <3>2 DEF SInv, Typed
  <2>2. ASSUME NEW c \in Callers
        PROVE  /\ call[c].op \in Ops /\ call[c].pc \in Places /\ call[c].on \subseteq Items
               /\ {call[c].alive, call[c].found} \subseteq BOOLEAN
    <3>1. call[c] \in CallShape
      BY DEF SInv, Typed
    <3> QED
      BY <3>1 DEF CallShape
  <2>3. \A c \in Callers :
          /\ call[c].op \in {"none", "put", "get", "prune", "consume"}
          /\ call[c].pc \in {"idle", "write", "row", "select", "read", "unlink", "commit",
                             "script", "watch", "exec", "answer"}
          /\ call[c].on \subseteq Items /\ {call[c].alive, call[c].found} \subseteq BOOLEAN
    BY <2>2 DEF Ops, Places
  <2> QED
    BY <2>1, <2>3, Zenon DEF SInv, Typed, TypeOK
<1> QED
  BY <1>1, InitSInv, NextSInv, PTL DEF Spec

\* An artifact whose put has returned is there until it expires, whatever is
\* cancelled, fails or crashes meanwhile (plugins/artifacts.py and the three
\* state backends).
THEOREM ArtifactsKept == Spec => []KeptUntilGone
<1>1. SInv => KeptUntilGone
  <2> SUFFICES ASSUME SInv PROVE KeptUntilGone
    OBVIOUS
  <2>1. \A a \in told \ expired : a \in written \cap durable /\ blob[a] = "whole"
    BY DEF SInv, Books, Stored, Saved, Filled
  <2>2. ASSUME NEW c \in Clients, At(c, "get", "answer"), ~call[c].found
        PROVE  call[c].on \subseteq expired
    BY <2>2 DEF SInv, Local, Getting, At, Callers
  <2> QED
    BY <2>1, <2>2 DEF KeptUntilGone
<1> QED
  BY <1>1, InitSInv, NextSInv, PTL DEF Spec

\* A channel's token is accepted once, by the lock and the row of sqlite, the
\* script or the watched transaction of redis, and over their crashes
\* (consume_channel of the three state backends).
THEOREM TokensOnce == Spec => []AdmittedOnce
<1>1. SInv => AdmittedOnce
  BY DEF SInv, Books, AdmittedOnce
<1> QED
  BY <1>1, InitSInv, NextSInv, PTL DEF Spec
-----------------------------------------------------------------------------
(* ProgressChannels: what the relays tell.                                 *)

\* The frames and events on their way, and the memory of the processes.
RelayTypes ==
  /\ inbox \in [Services -> Seq(Frame)]
  /\ bus \in [Services -> Seq(Event)]
  /\ localJobs \in [Services -> SUBSET Ids]
  /\ emitted \in [Services -> SUBSET Ids]

\* A frame that names the job is the worker's, and tells its verdict.
TellsVerdict(f) ==
  f.key = Job => f.kind = verdict /\ f.sender = Worker /\ stage # "run"
Mail == \A s \in Services : \A i \in DOMAIN inbox[s] : TellsVerdict(inbox[s][i])

\* Who was told remembers it, and the worker knows its own job.
Memory ==
  /\ stage # "run" => verdict \in Verdicts /\ Job \in localJobs[Worker]
  /\ \A s \in Services : Told(s) # {} => stage # "run" /\ Job \in emitted[s]

Heard == RelayTypes /\ Mail /\ Memory /\ RelayedOnce

\* Nothing that the relays use changes, or a frame about the channel goes out.
LEMMA HeardAround ==
  ASSUME Heard, UNCHANGED <<bus, localJobs, emitted, stage, verdict>>,
         inbox' \in [Services -> Seq(Frame)],
         \A s \in Services : \A i \in DOMAIN inbox'[s] :
           TellsVerdict(inbox'[s][i])
  PROVE  Heard'
<1>1. Mail'
  BY DEF Mail, TellsVerdict
<1>2. UNCHANGED RelayedOnce /\ Memory'
  BY DEF Heard, RelayedOnce, Told, Memory
<1> QED
  BY <1>1, <1>2 DEF Heard, RelayTypes

LEMMA HeardStill ==
  ASSUME Heard, UNCHANGED <<inbox, bus, localJobs, emitted, stage, verdict>>
  PROVE  Heard'
BY HeardAround DEF Heard, RelayTypes, Mail

\* A published frame reaches the inboxes at their end.
LEMMA HeardPublished ==
  ASSUME Heard, UNCHANGED <<bus, localJobs, emitted, verdict>>,
         stage' = stage \/ (stage # "run" /\ stage' # "run"),
         NEW f \in Frame, TellsVerdict(f),
         Published(f) \/ UNCHANGED inbox
  PROVE  Heard'
<1>0. RelayTypes /\ Mail
  BY DEF Heard
<1>1. \A s \in Services :
        \/ inbox'[s] = inbox[s]
        \/ inbox'[s] = Append(inbox[s], f)
  BY DEF Published
<1>2. inbox' \in [Services -> Seq(Frame)]
  <2>1. \A s \in Services : inbox[s] \in Seq(Frame)
    BY <1>0 DEF RelayTypes
  <2>2. \A s \in Services : inbox'[s] \in Seq(Frame)
    BY <1>1, <2>1
  <2> QED
    BY <1>0, <2>2 DEF RelayTypes, Published
<1>3. ASSUME NEW s \in Services, NEW i \in DOMAIN inbox'[s]
      PROVE  TellsVerdict(inbox'[s][i])
  <2>1. inbox[s] \in Seq(Frame)
    BY <1>0 DEF RelayTypes
  <2>2. CASE inbox'[s] = inbox[s]
    BY <1>0, <2>2 DEF Mail
  <2>3. CASE inbox'[s] = Append(inbox[s], f)
    <3>1. inbox'[s][i] = f \/ (i \in DOMAIN inbox[s] /\ inbox'[s][i] = inbox[s][i])
      BY <2>1, <2>3
    <3> QED
      BY <1>0, <3>1 DEF Mail
  <2> QED
    BY <1>1, <2>2, <2>3
<1>4. RelayedOnce' /\ Memory'
  BY DEF Heard, RelayedOnce, Told, Memory
<1>5. Mail'
  BY <1>3 DEF Mail, TellsVerdict
<1> QED
  BY <1>0, <1>2, <1>4, <1>5 DEF Heard, RelayTypes

\* What clients and the running job send names the channel, not the job.
LEMMA OnChanSilent ==
  ASSUME NEW kind \in {"other"} \cup Verdicts
  PROVE  OnChan(kind) \in Frame /\ TellsVerdict(OnChan(kind))
BY IdsAssumption DEF OnChan, Frame, Ids, TellsVerdict

\* The clients' requests, and what happens to sockets and tokens.
LEMMA HeardClients ==
  ASSUME Heard,
         \/ Tick \/ ExpireChannel
         \/ \E s \in Apis : HttpCancel(s)
         \/ \E c \in Conns :
              \/ \E s \in Apis : Connect(c, s)
              \/ Refuse(c) \/ ConsumeToken(c) \/ WatchRead(c)
              \/ WatchExec(c) \/ Ping(c) \/ WsCancel(c)
              \/ Disconnect(c) \/ ForeignDone(c)
  PROVE  Heard'
<1>1. /\ UNCHANGED <<bus, localJobs, emitted, stage, verdict>>
      /\ \/ UNCHANGED inbox
         \/ Published(OnChan("other"))
         \/ Published(OnChan("cancelled"))
  BY DEF Connect, Refuse, ConsumeToken, WatchRead,
         WatchExec, Ping, WsCancel, HttpCancel,
         Disconnect, ForeignDone, ExpireChannel, Tick,
         Admit, CancelChannel, Again, Broadcast,
         redisVars, workerVars, localVars
<1>2. \A kind \in {"other", "cancelled"} :
        OnChan(kind) \in Frame /\ TellsVerdict(OnChan(kind))
  BY OnChanSilent DEF Heard, Verdicts
<1> QED
  BY <1>1, <1>2, HeardStill, HeardPublished

\* The worker concludes and tells.
LEMMA HeardWorker ==
  ASSUME Heard, Working \/ \E v \in Outcomes : Conclude(v)
  PROVE  Heard'
<1>0. RelayTypes /\ Mail /\ Memory /\ Worker \in Services
  BY DEF Heard, Services
<1>1. ASSUME NEW v \in Outcomes, Conclude(v) PROVE Heard'
  <2>1. /\ UNCHANGED <<inbox, bus, emitted>> /\ stage = "run" /\ stage' = "toJob" /\ verdict' = v
        /\ localJobs' = [localJobs EXCEPT ![Worker] = @ \cup {Job}]
    BY <1>1 DEF Conclude, redisVars
  <2>2. Job \in Ids /\ v \in Verdicts
    BY <1>0, IdsAssumption DEF Ids
  <2>3. /\ localJobs' \in [Services -> SUBSET Ids]
        /\ Job \in localJobs'[Worker]
    BY <1>0, <2>1, <2>2 DEF RelayTypes
  <2>4. \A s \in Services : Told(s) = {}
    BY <1>0, <2>1 DEF Memory
  <2>5. Memory' /\ RelayedOnce'
    BY <1>0, <2>1, <2>2, <2>3, <2>4 DEF Memory, RelayedOnce, Told
  <2>6. Mail'
    BY <1>0, <2>1 DEF Mail, TellsVerdict
  <2> QED
    BY <1>0, <2>1, <2>3, <2>5, <2>6 DEF Heard, RelayTypes
<1>2. ASSUME NEW from \in {"toJob", "toChan"}, NEW to \in {"toChan", "told"},
             NEW ch \in Ids, Tell(from, to, ch)
      PROVE  Heard'
  <2> DEFINE f == [chan |-> ch, key |-> Job, kind |-> verdict, sender |-> Worker]
  <2>1. /\ UNCHANGED <<bus, localJobs, emitted, verdict>>
        /\ stage # "run" /\ stage' # "run"
        /\ Published(f) \/ UNCHANGED inbox
    BY <1>2 DEF Tell, localVars
  <2>2. f \in Frame /\ TellsVerdict(f)
    BY <1>0, <2>1 DEF Memory, Frame, Ids, TellsVerdict
  <2> HIDE DEF f
  <2> QED
    BY <2>1, <2>2, HeardPublished
<1> QED
  BY <1>1, <1>2 DEF Working, TellJob, TellChan, Ids

LEMMA TailAt ==
  ASSUME NEW T, NEW q \in Seq(T), q # <<>>, NEW i \in DOMAIN Tail(q)
  PROVE  i + 1 \in DOMAIN q /\ Tail(q)[i] = q[i + 1]
OBVIOUS

\* A relay starts, dies, or passes on a message: the bus is told of a job whose end
\* it has not been told of.
LEMMA HeardRelay ==
  ASSUME Heard, NEW s \in Services,
         RelayStarts(s) \/ RelayDies(s) \/ Relay(s)
  PROVE  Heard'
<1>0. /\ RelayTypes /\ Mail /\ Memory /\ RelayedOnce
      /\ Worker \in Services
  BY DEF Heard, Services
<1>1. CASE RelayStarts(s)
  BY <1>1, HeardStill DEF RelayStarts, workerVars, localVars
<1>2. CASE RelayDies(s)
  <2>1. /\ UNCHANGED <<bus, localJobs, emitted, stage, verdict>>
        /\ inbox' = [inbox EXCEPT ![s] = <<>>]
    BY <1>2 DEF RelayDies, workerVars, localVars
  <2> QED
    BY <1>0, <2>1, HeardAround DEF RelayTypes, Mail
<1>3. CASE Relay(s)
  <2> DEFINE f == Head(inbox[s])
  <2>1. /\ inbox[s] # <<>> /\ inbox' = [inbox EXCEPT ![s] = Tail(@)]
        /\ UNCHANGED <<localJobs, stage, verdict>>
        /\ IF IsNews(s, f)
             THEN /\ emitted' = [emitted EXCEPT ![s] = @ \cup {f.key}]
                  /\ bus' = [bus EXCEPT ![s] = Append(@, EventOf(f))]
             ELSE UNCHANGED <<emitted, bus>>
    BY <1>3 DEF Relay, workerVars
  <2>2. inbox[s] \in Seq(Frame) /\ bus[s] \in Seq(Event)
    BY <1>0 DEF RelayTypes
  <2>3. f \in Frame /\ TellsVerdict(f)
    <3>1. 1 \in DOMAIN inbox[s] /\ f = inbox[s][1]
      BY <2>1, <2>2
    <3> QED
      BY <1>0, <2>2, <3>1 DEF Mail
  <2> HIDE DEF f
  <2>4. inbox' \in [Services -> Seq(Frame)]
    BY <1>0, <2>1, <2>2 DEF RelayTypes
  <2>5. Mail'
    <3>1. ASSUME NEW x \in Services, NEW i \in DOMAIN inbox'[x]
          PROVE  TellsVerdict(inbox'[x][i])
      <4>1. \E k \in DOMAIN inbox[x] : inbox'[x][i] = inbox[x][k]
        <5>1. inbox[x] \in Seq(Frame)
          BY <1>0 DEF RelayTypes
        <5>2. CASE x = s
          <6>1. inbox'[x] = Tail(inbox[x])
            BY <1>0, <2>1, <5>2 DEF RelayTypes
          <6>2. i + 1 \in DOMAIN inbox[x] /\ inbox'[x][i] = inbox[x][i + 1]
            <7>1. inbox[x] # <<>> /\ i \in DOMAIN Tail(inbox[x])
              BY <2>1, <5>2, <6>1
            <7> QED
              BY <5>1, <6>1, <7>1, TailAt
          <6> QED
            BY <6>2
        <5>3. CASE x # s
          BY <1>0, <2>1, <5>3 DEF RelayTypes
        <5> QED
          BY <5>2, <5>3
      <4> QED
        BY <1>0, <4>1 DEF Mail
    <3> QED
      BY <2>1, <3>1 DEF Mail, TellsVerdict
  <2>6. CASE ~IsNews(s, f)
    <3>1. UNCHANGED <<emitted, bus>>
      BY <2>1, <2>6
    <3> QED
      BY <1>0, <2>1, <2>4, <2>5, <3>1, HeardAround DEF Mail, TellsVerdict
  <2>7. CASE IsNews(s, f)
    <3>1. /\ f.key \in Ids /\ EventOf(f) \in Event
          /\ f.key \notin emitted[s] /\ f.key \notin localJobs[s]
      BY <2>3, <2>7 DEF IsNews, Frame, EventOf, Event
    <3>2. /\ emitted' = [emitted EXCEPT ![s] = @ \cup {f.key}]
          /\ bus' = [bus EXCEPT ![s] = Append(@, EventOf(f))]
      BY <2>1, <2>7
    <3>3. /\ emitted' \in [Services -> SUBSET Ids]
          /\ bus' \in [Services -> Seq(Event)]
          /\ \A x \in Services : emitted[x] \subseteq emitted'[x]
          /\ f.key \in emitted'[s]
      BY <1>0, <2>2, <3>1, <3>2 DEF RelayTypes
    <3>4. \A x \in Services \ {s} : bus'[x] = bus[x]
      BY <1>0, <3>2 DEF RelayTypes
    <3>5. bus'[s] = Append(bus[s], EventOf(f))
      BY <1>0, <3>2 DEF RelayTypes
    <3>6. \A x \in Services \ {s} : Told(x)' = Told(x)
      BY <3>4 DEF Told
    <3>7. CASE f.key # Job
      <4>1. EventOf(f).key # Job
        BY <3>7 DEF EventOf
      <4>2. /\ Told(s)' = Told(s)
            /\ \A i \in Told(s) : bus'[s][i] = bus[s][i]
        BY <2>2, <3>5, <4>1 DEF Told
      <4>3. RelayedOnce'
        BY <1>0, <2>1, <3>4, <3>6, <4>2 DEF RelayedOnce
      <4>4. Memory'
        BY <1>0, <2>1, <3>3, <3>6, <4>2 DEF Memory
      <4> QED
        BY <1>0, <2>1, <2>4, <2>5, <3>3, <4>3, <4>4 DEF Heard, RelayTypes
    <3>8. CASE f.key = Job
      <4>1. f.kind = verdict /\ stage # "run" /\ s # Worker
        BY <1>0, <2>3, <3>1, <3>8 DEF TellsVerdict, Memory
      <4>2. Told(s) = {}
        BY <1>0, <3>1, <3>8 DEF Memory
      <4>3. /\ EventOf(f).key = Job /\ EventOf(f).kind = verdict
        BY <3>8, <4>1 DEF EventOf
      <4>4. /\ Told(s)' = {Len(bus[s]) + 1}
            /\ bus'[s][Len(bus[s]) + 1].kind = verdict
        BY <2>2, <3>5, <4>2, <4>3 DEF Told
      <4>5. RelayedOnce'
        BY <1>0, <2>1, <3>4, <3>6, <4>1, <4>4 DEF RelayedOnce
      <4>6. Memory'
        BY <1>0, <2>1, <3>3, <3>6, <3>8, <4>1, <4>4 DEF Memory
      <4> QED
        BY <1>0, <2>1, <2>4, <2>5, <3>3, <4>5, <4>6 DEF Heard, RelayTypes
    <3> QED
      BY <3>7, <3>8
  <2> QED
    BY <2>6, <2>7
<1> QED
  BY <1>1, <1>2, <1>3

\* Each step of the progress service.
LEMMA HeardStep == Heard /\ [ProgressNext]_(progressVars) => Heard'
<1> SUFFICES ASSUME Heard, [ProgressNext]_(progressVars) PROVE Heard'
  OBVIOUS
<1>1. CASE UNCHANGED progressVars
  BY <1>1, HeardStill DEF progressVars, redisVars, workerVars,
     localVars
<1>2. CASE ProgressNext
  BY <1>2, HeardClients, HeardWorker, HeardRelay DEF ProgressNext, Services
<1> QED
  BY <1>1, <1>2

LEMMA InitHeard == ProgressInit => Heard
BY DEF ProgressInit, Heard, RelayTypes, Mail, Memory, RelayedOnce,
       Told, Services

\* For any processes, sockets, tokens and frames: however often the worker publishes
\* its last frame, whoever cancels, and whichever relays die or start late, each
\* process's relay tells its bus about the end of the job once, with the worker's
\* verdict, and the worker's own process not at all (_run_redis_pubsub).
THEOREM VerdictRelayedOnce == ProgressSpec => []RelayedOnce
<1>1. Heard => RelayedOnce
  BY DEF Heard
<1> QED
  BY InitHeard, HeardStep, <1>1, PTL DEF ProgressSpec
=============================================================================
