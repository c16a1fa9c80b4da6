--------------------------- MODULE RedisJobsProofs ---------------------------
(***************************************************************************)
(* Proofs about RedisJobs, for any sets of jobs and workers, any number of *)
(* retries and any bounds.                                                 *)
(***************************************************************************)
EXTENDS RedisJobs, TLAPS

-----------------------------------------------------------------------------
(* Type correctness.                                                       *)

\* pcs at which the worker has a terminal outcome in hand.
Decided == {"raised", "store", "read", "write", "ack", "announce"}

\* The locals a worker loop uses have been assigned.
LocalsOK ==
  \A w \in Workers : /\ pc[w] # "idle" => wjob[w] \in Jobs
                     /\ pc[w] \in Decided => verdict[w] \in Terminal

IType == TypeOK /\ LocalsOK

LEMMA InitType == Init => IType
BY MaxRetriesAssumption, BoundsAssumption
   DEF Init, IType, TypeOK, LocalsOK, Decided, Status, Terminal, PC, Claiming,
       Executing, Fixing, Bounded

USE DEF redisVars, storeVars, localVars, apiVars, history, Take

LEMMA SpendType ==
  ASSUME budget \in [Bounded -> Nat], NEW e \in Bounded, Spend(e)
  PROVE  budget' \in [Bounded -> Nat]
BY DEF Spend

\* The API requests keep the types.
LEMMA TypeAPI ==
  ASSUME IType, NEW j \in Jobs, Submit(j) \/ Cancel(j) \/ Clear(j) \/ Expire(j)
  PROVE  IType'
<1> USE DEF IType, TypeOK, LocalsOK
<1>0. "fault" \in Bounded /\ "clear" \in Bounded
  BY DEF Bounded
<1>1. CASE SubmitRecord(j)
  BY <1>1 DEF SubmitRecord, Status
<1>2. CASE SubmitEnqueue(j)
  BY <1>2, SpendType, <1>0 DEF SubmitEnqueue
<1>3. CASE SubmitRefused(j)
  BY <1>3, SpendType, <1>0 DEF SubmitRefused
<1>4. CASE SubmitUndo(j)
  BY <1>4 DEF SubmitUndo, Status
<1>5. CASE CancelRead(j)
  BY <1>5 DEF CancelRead
<1>6. CASE CancelMark(j)
  BY <1>6 DEF CancelMark
<1>7. CASE CancelWrite(j)
  BY <1>7 DEF CancelWrite, Status, Terminal
<1>8. CASE ClearList(j)
  BY <1>8, SpendType, <1>0 DEF ClearList
<1>9. CASE ClearDelete(j)
  BY <1>9 DEF ClearDelete, Status
<1>10. CASE ClearKeys(j)
  BY <1>10 DEF ClearKeys
<1>11. CASE Expire(j)
  BY <1>11 DEF Expire
<1> QED
  BY <1>1, <1>2, <1>3, <1>4, <1>5, <1>6, <1>7, <1>8, <1>9, <1>10, <1>11
     DEF Submit, Cancel, Clear

\* What the scripts leave has the types of the keys.
KeysOK == /\ active \subseteq Jobs /\ expired \subseteq Jobs /\ payload \subseteq Jobs
          /\ lease \in [Jobs -> Workers \cup {None, Orphan}]
          /\ attempts \in [Jobs -> 0..MaxRetries]

LEMMA EraseClaimType ==
  ASSUME TypeOK, NEW j \in Jobs, EraseClaim(j)
  PROVE  KeysOK'
BY MaxRetriesAssumption DEF TypeOK, KeysOK, EraseClaim, Deactivate

LEMMA RequeueType ==
  ASSUME TypeOK, NEW j \in Jobs, Requeue(j)
  PROVE  /\ queue' \subseteq Jobs /\ active' \subseteq Jobs /\ expired' \subseteq Jobs
         /\ lease' \in [Jobs -> Workers \cup {None, Orphan}]
BY DEF TypeOK, Requeue, Deactivate

LEMMA FinishLeaseType ==
  ASSUME TypeOK, NEW w \in Workers, NEW j \in Jobs, FinishLease(w, j)
  PROVE  KeysOK'
<1>1. CASE Owns(w, j)
  BY <1>1, EraseClaimType DEF FinishLease
<1>2. CASE ~Owns(w, j)
  BY <1>2 DEF FinishLease, TypeOK, KeysOK
<1> QED
  BY <1>1, <1>2

\* A worker goes on to pc p with verdict v, or rests.
LocalsType == /\ pc \in [Workers -> PC]
              /\ wjob \in [Workers -> Jobs \cup {None}]
              /\ verdict \in [Workers -> {"none", "queued"} \cup Terminal]
              /\ seen \in [Workers -> Status]
              /\ LocalsOK

LEMMA MoveType ==
  ASSUME LocalsType, NEW w \in Workers, wjob[w] \in Jobs, NEW p \in PC,
         NEW v \in {"none", "queued"} \cup Terminal, p \in Decided => v \in Terminal,
         Goto(w, p), Decide(w, v), UNCHANGED wjob,
         UNCHANGED seen \/ seen' = [seen EXCEPT ![w] = "none"]
  PROVE  LocalsType'
BY DEF LocalsType, LocalsOK, Goto, Decide, Status

LEMMA RestType ==
  ASSUME LocalsType, NEW w \in Workers, Rest(w)
  PROVE  LocalsType'
BY DEF LocalsType, LocalsOK, Rest, Goto, Decide, PC, Status, Decided

\* So do the worker's claim and its recovery of expired leases.
LEMMA TypeClaim ==
  ASSUME IType, NEW w \in Workers,
         \/ \E j \in Jobs : RecoverLease(w, j) \/ Claim(w, j)
         \/ ClaimNothing(w) \/ FixRead(w) \/ FixWrite(w)
         \/ ClaimCancelled(w) \/ ClaimPayload(w) \/ ClaimInvalid(w)
  PROVE  IType'
<1> USE DEF IType, TypeOK, LocalsOK, PC, Claiming, Executing, Fixing, Decided,
            Goto, Decide, Rest, Owns, Deactivate
<1>1. ASSUME NEW j \in Jobs, RecoverLease(w, j) PROVE IType'
  <2>1. CASE attempts[j] + 1 > MaxRetries
    <3>1. KeysOK'
      BY <1>1, <2>1, EraseClaimType DEF RecoverLease
    <3> QED
      BY <1>1, <2>1, <3>1 DEF RecoverLease, KeysOK, Terminal
  <2>2. CASE ~(attempts[j] + 1 > MaxRetries)
    <3>1. attempts[j] + 1 \in 0..MaxRetries
      BY <2>2, MaxRetriesAssumption
    <3>2. /\ attempts' = [attempts EXCEPT ![j] = attempts[j] + 1]
          /\ Requeue(j) /\ Decide(w, "queued") /\ UNCHANGED payload
      BY <1>1, <2>2 DEF RecoverLease
    <3>3. attempts' \in [Jobs -> 0..MaxRetries]
      BY <3>1, <3>2
    <3> QED
      BY <1>1, <3>2, <3>3 DEF RecoverLease, Requeue
  <2> QED
    BY <2>1, <2>2
<1>2. ASSUME NEW j \in Jobs, Claim(w, j) PROVE IType'
  BY <1>2 DEF Claim
<1>3. CASE ClaimNothing(w)
  BY <1>3 DEF ClaimNothing
<1>4. CASE FixRead(w)
  BY <1>4 DEF FixRead, Look
<1>5. CASE FixWrite(w)
  BY <1>5 DEF FixWrite, UpsertIfLive, Status, Terminal
<1>6. CASE ClaimCancelled(w)
  <2>1. KeysOK'
    BY <1>6, FinishLeaseType DEF ClaimCancelled
  <2> QED
    BY <1>6, <2>1 DEF ClaimCancelled, KeysOK, Status
<1>7. CASE ClaimPayload(w)
  BY <1>7 DEF ClaimPayload
<1>8. CASE ClaimInvalid(w)
  <2>1. KeysOK'
    BY <1>8, FinishLeaseType DEF ClaimInvalid
  <2>2. LocalsType /\ wjob[w] \in Jobs
    BY <1>8 DEF ClaimInvalid, LocalsType
  <2>3. \/ Decide(w, "error") /\ Goto(w, "announce") /\ UNCHANGED <<wjob, seen>>
        \/ Rest(w)
    BY <1>8 DEF ClaimInvalid
  <2>4. LocalsType'
    <3>1. CASE Rest(w)
      BY <2>2, <3>1, RestType
    <3>2. CASE Decide(w, "error") /\ Goto(w, "announce") /\ UNCHANGED <<wjob, seen>>
      BY <2>2, <3>2 DEF LocalsType, Terminal
    <3> QED
      BY <2>3, <3>1, <3>2
  <2> QED
    BY <1>8, <2>1, <2>4 DEF ClaimInvalid, KeysOK, LocalsType
<1> QED
  BY <1>1, <1>2, <1>3, <1>4, <1>5, <1>6, <1>7, <1>8

\* So does the execution of a job.
LEMMA TypeExecute ==
  ASSUME IType, NEW w \in Workers, Execute(w)
  PROVE  IType'
<1> USE DEF IType, TypeOK, LocalsOK, PC, Claiming, Executing, Fixing, Decided,
            Goto, Decide, Rest, Owns
<1>1. CASE StartRead(w)
  BY <1>1 DEF StartRead
<1>2. CASE Drop(w)
  <2>1. KeysOK'
    BY <1>2, EraseClaimType DEF Drop
  <2> QED
    BY <1>2, <2>1 DEF Drop, KeysOK, Status
<1>3. CASE StartWrite(w)
  BY <1>3 DEF StartWrite, Status
<1>4. CASE RunnerReturns(w)
  <2>1. pc[w] # "idle" /\ wjob[w] \in Jobs
    BY <1>4 DEF RunnerReturns
  <2> QED
    BY <1>4, <2>1 DEF RunnerReturns
<1>5. CASE RunnerRaises(w)
  BY <1>5 DEF RunnerRaises, Terminal
<1>6. CASE CheckSettled(w)
  <2>1. LocalsType /\ wjob[w] \in Jobs
    BY <1>6 DEF CheckSettled, LocalsType
  <2>2. \/ Decide(w, "cancelled") /\ Goto(w, "read") /\ UNCHANGED <<wjob, seen>>
        \/ Decide(w, "complete") /\ Goto(w, "store") /\ UNCHANGED <<wjob, seen>>
        \/ Rest(w)
    BY <1>6 DEF CheckSettled
  <2>3. LocalsType'
    <3>1. CASE Rest(w)
      BY <2>1, <3>1, RestType
    <3>2. CASE Decide(w, "cancelled") /\ Goto(w, "read") /\ UNCHANGED <<wjob, seen>>
      BY <2>1, <3>2 DEF LocalsType, Terminal
    <3>3. CASE Decide(w, "complete") /\ Goto(w, "store") /\ UNCHANGED <<wjob, seen>>
      BY <2>1, <3>3 DEF LocalsType, Terminal
    <3> QED
      BY <2>2, <3>1, <3>2, <3>3
  <2> QED
    BY <1>6, <2>3 DEF CheckSettled, LocalsType
<1>7. CASE CheckRaised(w)
  <2>1. LocalsType /\ wjob[w] \in Jobs /\ verdict[w] \in Terminal
    BY <1>7 DEF CheckRaised, LocalsType
  <2>2. \/ \E v \in Terminal :
             Decide(w, v) /\ Goto(w, "read") /\ UNCHANGED <<wjob, seen>>
        \/ Rest(w)
    BY <1>7, <2>1 DEF CheckRaised, Terminal
  <2>3. LocalsType'
    BY <2>1, <2>2, MoveType, RestType
  <2> QED
    BY <1>7, <2>3 DEF CheckRaised, LocalsType
<1>8. CASE Store(w)
  BY <1>8 DEF Store, Terminal
<1>9. CASE Read(w)
  BY <1>9 DEF Read, Look
<1>10. CASE Write(w)
  BY <1>10 DEF Write, UpsertIfLive, Status, Terminal
<1>11. CASE Ack(w)
  <2>1. KeysOK'
    BY <1>11, FinishLeaseType DEF Ack
  <2>2. LocalsType /\ wjob[w] \in Jobs /\ verdict[w] \in Terminal
    BY <1>11 DEF Ack, LocalsType
  <2>3. \/ Goto(w, "announce") /\ Decide(w, verdict[w]) /\ UNCHANGED <<wjob, seen>>
        \/ Rest(w)
    BY <1>11 DEF Ack
  <2>4. LocalsType'
    BY <2>2, <2>3, MoveType, RestType
  <2> QED
    BY <1>11, <2>1, <2>4 DEF Ack, KeysOK, LocalsType
<1>12. CASE Announce(w)
  BY <1>12 DEF Announce, Status
<1> QED
  BY <1>1, <1>2, <1>3, <1>4, <1>5, <1>6, <1>7, <1>8, <1>9, <1>10, <1>11, <1>12
     DEF Execute

\* And so do renewals, crashes, drains and control messages.
LEMMA TypeRest ==
  ASSUME IType, NEW w \in Workers,
         Renew(w) \/ Crash(w) \/ Drain(w) \/ (\E j \in Jobs : Hear(w, j))
  PROVE  IType'
<1> USE DEF IType, TypeOK, LocalsOK, PC, Claiming, Executing, Fixing, Decided,
            Goto, Decide, Rest, Owns
<1>0. {"crash", "lapse", "drain"} \subseteq Bounded
  BY DEF Bounded
<1>1. CASE Renew(w)
  BY <1>1 DEF Renew
<1>2. CASE Crash(w)
  <2>1. budget' \in [Bounded -> Nat]
    <3>1. Spend("lapse") \/ Spend("crash")
      BY <1>2 DEF Crash
    <3> QED
      BY <1>0, <3>1, SpendType
  <2>2. heard' \in [Workers -> SUBSET Jobs]
    BY <1>2 DEF Crash
  <2> QED
    BY <1>2, <2>1, <2>2 DEF Crash, Status
<1>3. CASE Drain(w)
  <2>1. budget' \in [Bounded -> Nat]
    BY <1>3, <1>0, SpendType DEF Drain
  <2>2. LocalsType /\ wjob[w] \in Jobs
    BY <1>3 DEF Drain, LocalsType
  <2>3. LocalsType'
    <3>1. CASE Owns(w, wjob[w])
      <4>1. /\ Goto(w, "fixRead") /\ Decide(w, "queued") /\ UNCHANGED wjob
            /\ seen' = [seen EXCEPT ![w] = "none"]
        BY <1>3, <3>1 DEF Drain
      <4> QED
        BY <2>2, <4>1, MoveType
    <3>2. CASE ~Owns(w, wjob[w])
      BY <1>3, <2>2, <3>2, RestType DEF Drain
    <3> QED
      BY <3>1, <3>2
  <2>4. /\ queue' \subseteq Jobs /\ active' \subseteq Jobs /\ expired' \subseteq Jobs
        /\ lease' \in [Jobs -> Workers \cup {None, Orphan}]
    <3>1. CASE Owns(w, wjob[w])
      <4>1. Requeue(wjob[w])
        BY <1>3, <3>1 DEF Drain
      <4> QED
        BY <2>2, <4>1, RequeueType
    <3>2. CASE ~Owns(w, wjob[w])
      BY <1>3, <3>2 DEF Drain
    <3> QED
      BY <3>1, <3>2
  <2> QED
    BY <1>3, <2>1, <2>3, <2>4 DEF Drain, LocalsType
<1>4. CASE \E j \in Jobs : Hear(w, j)
  BY <1>4 DEF Hear
<1> QED
  BY <1>1, <1>2, <1>3, <1>4

LEMMA TypeStep == IType /\ [Next]_vars => IType'
<1> SUFFICES ASSUME IType, [Next]_vars PROVE IType'
  OBVIOUS
<1>1. CASE Next
  <2>1. ASSUME NEW j \in Jobs, Submit(j) \/ Cancel(j) \/ Clear(j) \/ Expire(j)
        PROVE  IType'
    BY <2>1, TypeAPI
  <2>2. ASSUME NEW w \in Workers,
               Renew(w) \/ Crash(w) \/ Drain(w) \/ (\E j \in Jobs : Hear(w, j))
        PROVE  IType'
    BY <2>2, TypeRest
  <2>3. ASSUME NEW w \in Workers, Work(w)
        PROVE  IType'
    <3>1. CASE Execute(w)
      BY <3>1, TypeExecute
    <3>2. CASE ~Execute(w)
      BY <2>3, <3>2, TypeClaim DEF Work
    <3> QED
      BY <3>1, <3>2
  <2> QED
    BY <1>1, <2>1, <2>2, <2>3 DEF Next
<1>2. CASE UNCHANGED vars
  BY <1>2 DEF vars, IType, TypeOK, LocalsOK
<1> QED
  BY <1>1, <1>2

\* Every reachable state is type-correct, for every number of jobs, workers,
\* retries, crashes, drains and clears: in particular the attempts counter of
\* a job never passes max_retries, and the retry that would is its last.
THEOREM TypeCorrect == Spec => []TypeOK
<1>1. IType => TypeOK
  BY DEF IType
<1> QED
  BY InitType, TypeStep, <1>1, PTL DEF Spec

-----------------------------------------------------------------------------
(* Who holds a job.                                                        *)

\* A job in the queue or claimed was submitted.
Entry == \A j \in queue \cup active : Entered(j)

Hold == IType /\ OneHolder /\ Entry

\* Worker w moves and the keys stay: it owned nothing, or goes on holding.
LEMMA HoldMove ==
  ASSUME Hold, NEW w \in Workers,
         UNCHANGED <<queue, active, expired, lease, submit>>,
         \A x \in Workers \ {w} : pc'[x] = pc[x] /\ wjob'[x] = wjob[x],
         \/ \A j \in Jobs : ~Owns(w, j)
         \/ wjob'[w] = wjob[w] /\ pc'[w] \in Holding
  PROVE  (OneHolder /\ Entry)'
<1>1. \A x \in Workers, j \in Jobs : Owns(x, j)' => Owns(x, j)
  BY DEF Owns
<1>2. \A x \in Workers, j \in Jobs : Owns(x, j)' => wjob'[x] = j /\ pc'[x] \in Holding
  BY <1>1 DEF Hold, OneHolder
<1>3. Entry'
  BY DEF Hold, Entry, Entered
<1> QED
  BY <1>2, <1>3 DEF Hold, OneHolder

\* A claim is erased or requeued: what Owns says of everybody else stays.
LEMMA HoldErase ==
  ASSUME Hold, NEW w \in Workers, NEW j \in Jobs, EraseClaim(j),
         UNCHANGED <<queue, submit>>,
         \A x \in Workers \ {w} : pc'[x] = pc[x] /\ wjob'[x] = wjob[x],
         \A i \in Jobs : Owns(w, i) => i = j
  PROVE  (OneHolder /\ Entry)'
<1>1. \A i \in Jobs : lease'[i] = IF i = j THEN None ELSE lease[i]
  BY DEF Hold, IType, TypeOK, EraseClaim
<1>2. \A x \in Workers, i \in Jobs : Owns(x, i)' => Owns(x, i) /\ i # j /\ x # w
  BY <1>1, OwnersAssumption DEF Owns
<1>3. active' = active \ {j} /\ expired' = expired \ {j} /\ queue' = queue
  BY DEF EraseClaim, Deactivate
<1>4. \A i \in Jobs : lease'[i] # None => i \in active'
  BY <1>1, <1>3 DEF Hold, OneHolder
<1>5. \A x \in Workers, i \in Jobs : Owns(x, i)' => wjob'[x] = i /\ pc'[x] \in Holding
  BY <1>2 DEF Hold, OneHolder
<1>6. Entry'
  BY <1>3 DEF Hold, Entry, Entered
<1> QED
  BY <1>3, <1>4, <1>5, <1>6 DEF Hold, OneHolder

LEMMA HoldRequeue ==
  ASSUME Hold, NEW w \in Workers, NEW j \in active, Requeue(j),
         UNCHANGED submit,
         \A x \in Workers \ {w} : pc'[x] = pc[x] /\ wjob'[x] = wjob[x],
         \A i \in Jobs : Owns(w, i) => i = j
  PROVE  (OneHolder /\ Entry)'
<1>0. j \in Jobs
  BY DEF Hold, IType, TypeOK
<1>1. \A i \in Jobs : lease'[i] = IF i = j THEN None ELSE lease[i]
  BY <1>0 DEF Hold, IType, TypeOK, Requeue
<1>2. \A x \in Workers, i \in Jobs : Owns(x, i)' => Owns(x, i) /\ i # j /\ x # w
  BY <1>1, OwnersAssumption DEF Owns
<1>3. /\ active' = active \ {j} /\ expired' = expired \ {j}
      /\ queue' = queue \cup {j}
  BY DEF Requeue, Deactivate
<1>4. \A i \in Jobs : lease'[i] # None => i \in active'
  BY <1>1, <1>3 DEF Hold, OneHolder
<1>5. \A x \in Workers, i \in Jobs : Owns(x, i)' => wjob'[x] = i /\ pc'[x] \in Holding
  BY <1>2 DEF Hold, OneHolder
<1>6. Entry'
  BY <1>3 DEF Hold, Entry, Entered
<1> QED
  BY <1>3, <1>4, <1>5, <1>6 DEF Hold, OneHolder

\* A worker owns only the job it runs.
LEMMA OwnsOwn ==
  ASSUME Hold, NEW w \in Workers
  PROVE  /\ \A i \in Jobs : Owns(w, i) => i = wjob[w]
         /\ pc[w] \notin Holding => \A i \in Jobs : ~Owns(w, i)
         /\ wjob[w] \in Jobs /\ ~Owns(w, wjob[w]) => \A i \in Jobs : ~Owns(w, i)
BY DEF Hold, OneHolder

\* The worker finishes its claim: erased, or lost already.
LEMMA HoldFinish ==
  ASSUME Hold, NEW w \in Workers, wjob[w] \in Jobs, FinishLease(w, wjob[w]),
         UNCHANGED <<queue, submit>>,
         \A x \in Workers \ {w} : pc'[x] = pc[x] /\ wjob'[x] = wjob[x]
  PROVE  (OneHolder /\ Entry)'
<1>1. CASE Owns(w, wjob[w])
  <2>1. EraseClaim(wjob[w])
    BY <1>1 DEF FinishLease
  <2> QED
    BY <2>1, OwnsOwn, HoldErase
<1>2. CASE ~Owns(w, wjob[w])
  <2>1. UNCHANGED <<active, expired, lease>>
    BY <1>2 DEF FinishLease
  <2> QED
    BY <1>2, <2>1, OwnsOwn, HoldMove
<1> QED
  BY <1>1, <1>2

\* Moving worker w leaves the others where they are.
LEMMA OthersStay ==
  ASSUME IType, NEW w \in Workers,
         \/ Rest(w)
         \/ (\E p \in PC : Goto(w, p)) /\ UNCHANGED wjob
         \/ (\E p \in PC : Goto(w, p)) /\ \E j \in Jobs : wjob' = [wjob EXCEPT ![w] = j]
         \/ UNCHANGED <<pc, wjob>>
  PROVE  \A x \in Workers \ {w} : pc'[x] = pc[x] /\ wjob'[x] = wjob[x]
BY DEF IType, TypeOK, Rest, Goto

LEMMA HoldAPI ==
  ASSUME Hold, NEW j \in Jobs, Submit(j) \/ Cancel(j) \/ Clear(j) \/ Expire(j)
  PROVE  (OneHolder /\ Entry)'
<1>1. ASSUME UNCHANGED <<active, lease, pc, wjob>>,
             queue' \cap active = {}, expired' \subseteq active
      PROVE  OneHolder'
  BY <1>1 DEF Hold, OneHolder, Owns
<1>2. CASE SubmitRecord(j) \/ SubmitRefused(j) \/ SubmitUndo(j)
  <2>1. Entry'
    BY <1>2 DEF Hold, IType, TypeOK, Entry, Entered, SubmitRecord, SubmitRefused,
                SubmitUndo
  <2> QED
    BY <1>1, <1>2, <2>1 DEF Hold, OneHolder, SubmitRecord, SubmitRefused, SubmitUndo
<1>3. CASE SubmitEnqueue(j)
  <2>1. j \notin active
    BY <1>3 DEF Hold, Entry, Entered, SubmitEnqueue
  <2>2. Entry'
    BY <1>3 DEF Hold, IType, TypeOK, Entry, Entered, SubmitEnqueue
  <2> QED
    BY <1>1, <1>3, <2>1, <2>2 DEF Hold, OneHolder, SubmitEnqueue
<1>4. CASE CancelRead(j) \/ CancelMark(j) \/ CancelWrite(j)
  <2>1. queue' \subseteq queue
    BY <1>4 DEF CancelRead, CancelMark, CancelWrite
  <2>2. UNCHANGED <<active, expired, lease, pc, wjob, submit>>
    BY <1>4 DEF CancelRead, CancelMark, CancelWrite
  <2> QED
    BY <1>1, <2>1, <2>2 DEF Hold, OneHolder, Entry, Entered
<1>5. CASE ClearList(j) \/ ClearDelete(j)
  BY <1>1, <1>5 DEF Hold, OneHolder, Entry, Entered, ClearList, ClearDelete
<1>6. CASE ClearKeys(j)
  <2>1. \A i \in Jobs : lease'[i] = IF i = j THEN None ELSE lease[i]
    BY <1>6 DEF Hold, IType, TypeOK, ClearKeys
  <2>2. UNCHANGED <<queue, active, expired, pc, wjob, submit>>
    BY <1>6 DEF ClearKeys
  <2> QED
    BY <2>1, <2>2, OwnersAssumption DEF Hold, OneHolder, Entry, Entered, Owns
<1>7. CASE Expire(j)
  BY <1>1, <1>7 DEF Hold, OneHolder, Entry, Entered, Expire
<1> QED
  BY <1>2, <1>3, <1>4, <1>5, <1>6, <1>7 DEF Submit, Cancel, Clear

LEMMA HoldClaim ==
  ASSUME Hold, NEW w \in Workers, NEW j \in Jobs, Claim(w, j)
  PROVE  (OneHolder /\ Entry)'
<1>1. /\ pc[w] = "idle" /\ j \in queue
      /\ queue' \subseteq queue \ {j} /\ active' = active \cup {j}
      /\ UNCHANGED <<expired, submit>>
  BY DEF Claim
<1>2. \A i \in Jobs : lease'[i] = IF i = j THEN w ELSE lease[i]
  BY DEF Claim, Hold, IType, TypeOK
<1>3. /\ wjob'[w] = j /\ pc'[w] \in Holding
      /\ \A x \in Workers \ {w} : pc'[x] = pc[x] /\ wjob'[x] = wjob[x]
  BY DEF Claim, Goto, Hold, IType, TypeOK, Holding, Claiming
<1>4. pc[w] \notin Holding
  BY <1>1 DEF Holding, Claiming, Executing
<1>5. \A x \in Workers, i \in Jobs : Owns(x, i)' => wjob'[x] = i /\ pc'[x] \in Holding
  BY <1>2, <1>3, <1>4, OwnsOwn DEF Hold, OneHolder, Owns
<1>6. Entry'
  BY <1>1 DEF Hold, Entry, Entered
<1>7. /\ queue' \cap active' = {} /\ expired' \subseteq active'
      /\ \A i \in Jobs : lease'[i] # None => i \in active'
  BY <1>1, <1>2 DEF Hold, OneHolder
<1> QED
  BY <1>5, <1>6, <1>7 DEF OneHolder

LEMMA HoldWork ==
  ASSUME Hold, NEW w \in Workers, Work(w)
  PROVE  (OneHolder /\ Entry)'
<1> USE DEF PC, Claiming, Executing, Fixing
<1>0. IType
  BY DEF Hold
<1>1. ASSUME NEW j \in Jobs, RecoverLease(w, j) PROVE (OneHolder /\ Entry)'
  <2>1. /\ pc[w] \notin Holding /\ j \in active /\ UNCHANGED submit
        /\ Goto(w, "fixRead") /\ wjob' = [wjob EXCEPT ![w] = j]
    BY <1>1 DEF RecoverLease, Holding, Hold, OneHolder
  <2>2. \A x \in Workers \ {w} : pc'[x] = pc[x] /\ wjob'[x] = wjob[x]
    BY <1>0, <2>1, OthersStay
  <2>3. \/ EraseClaim(j) /\ UNCHANGED queue
        \/ Requeue(j)
    BY <1>1 DEF RecoverLease
  <2> QED
    BY <2>1, <2>2, <2>3, OwnsOwn, HoldErase, HoldRequeue
<1>2. ASSUME NEW j \in Jobs, Claim(w, j) PROVE (OneHolder /\ Entry)'
  BY <1>2, HoldClaim
<1>3. CASE ClaimNothing(w)
  BY <1>3 DEF ClaimNothing, Hold, OneHolder, Entry, Entered, Owns
<1>4. CASE FixRead(w) \/ FixWrite(w)
  <2>1. pc[w] \notin Holding /\ UNCHANGED <<queue, active, expired, lease, submit>>
    BY <1>4 DEF FixRead, FixWrite, Holding
  <2>2. Rest(w) \/ (Goto(w, "fixWrite") /\ UNCHANGED wjob)
    BY <1>4 DEF FixRead, FixWrite
  <2>3. \A x \in Workers \ {w} : pc'[x] = pc[x] /\ wjob'[x] = wjob[x]
    BY <1>0, <2>2, OthersStay
  <2> QED
    BY <2>1, <2>3, OwnsOwn, HoldMove
<1>5. CASE ClaimCancelled(w) \/ ClaimInvalid(w) \/ Ack(w)
  <2>1. /\ FinishLease(w, wjob[w]) /\ UNCHANGED <<queue, submit>>
        /\ wjob[w] \in Jobs
    BY <1>0, <1>5 DEF ClaimCancelled, ClaimInvalid, Ack, IType, LocalsOK
  <2>2. Rest(w) \/ (Goto(w, "announce") /\ UNCHANGED wjob)
    BY <1>5 DEF ClaimCancelled, ClaimInvalid, Ack
  <2>3. \A x \in Workers \ {w} : pc'[x] = pc[x] /\ wjob'[x] = wjob[x]
    BY <1>0, <2>2, OthersStay
  <2> QED
    BY <2>1, <2>3, HoldFinish
<1>6. CASE Drop(w)
  <2>1. EraseClaim(wjob[w]) /\ UNCHANGED <<queue, submit>> /\ wjob[w] \in Jobs
    BY <1>0, <1>6 DEF Drop, IType, LocalsOK
  <2>2. \A x \in Workers \ {w} : pc'[x] = pc[x] /\ wjob'[x] = wjob[x]
    BY <1>0, <1>6, OthersStay DEF Drop
  <2> QED
    BY <2>1, <2>2, OwnsOwn, HoldErase
<1>7. CASE Announce(w)
  <2>1. pc[w] \notin Holding /\ UNCHANGED <<queue, active, expired, lease, submit>>
    BY <1>7 DEF Announce, Holding
  <2>2. \A x \in Workers \ {w} : pc'[x] = pc[x] /\ wjob'[x] = wjob[x]
    BY <1>0, <1>7, OthersStay DEF Announce
  <2> QED
    BY <2>1, <2>2, OwnsOwn, HoldMove
<1>8. CASE CheckSettled(w) \/ CheckRaised(w)
  <2>1. /\ UNCHANGED <<queue, active, expired, lease, submit>>
        /\ wjob[w] \in Jobs
    BY <1>0, <1>8 DEF CheckSettled, CheckRaised, IType, LocalsOK
  <2>2. \/ Rest(w) /\ ~Owns(w, wjob[w])
        \/ (\E p \in {"read", "store"} : Goto(w, p)) /\ UNCHANGED wjob
    BY <1>8 DEF CheckSettled, CheckRaised
  <2>3. \A x \in Workers \ {w} : pc'[x] = pc[x] /\ wjob'[x] = wjob[x]
    BY <1>0, <2>2, OthersStay
  <2>4. CASE ~Owns(w, wjob[w])
    BY <2>1, <2>3, <2>4, OwnsOwn, HoldMove
  <2>5. CASE Owns(w, wjob[w])
    <3>1. pc'[w] \in Holding /\ UNCHANGED wjob
      BY <1>0, <2>2, <2>5 DEF Goto, Holding, IType, TypeOK
    <3> QED
      BY <2>1, <2>3, <3>1, HoldMove
  <2> QED
    BY <2>4, <2>5
<1>9. ASSUME UNCHANGED <<queue, active, expired, lease, submit, wjob>>,
             \E p \in Holding : Goto(w, p)
      PROVE  (OneHolder /\ Entry)'
  <2>1. pc'[w] \in Holding
    BY <1>0, <1>9 DEF Goto, IType, TypeOK
  <2>2. \A x \in Workers \ {w} : pc'[x] = pc[x] /\ wjob'[x] = wjob[x]
    BY <1>0, <1>9, OthersStay DEF Holding
  <2> QED
    BY <1>9, <2>1, <2>2, HoldMove
<1>10. CASE ClaimPayload(w) \/ StartRead(w) \/ StartWrite(w)
  <2>1. \E p \in Holding : Goto(w, p)
    BY <1>10 DEF ClaimPayload, StartRead, StartWrite, Holding
  <2> QED
    BY <1>9, <1>10, <2>1 DEF ClaimPayload, StartRead, StartWrite
<1>11. CASE RunnerReturns(w) \/ RunnerRaises(w) \/ Store(w) \/ Read(w) \/ Write(w)
  <2>1. \E p \in Holding : Goto(w, p)
    BY <1>11 DEF RunnerReturns, RunnerRaises, Store, Read, Write, Holding
  <2>2. UNCHANGED <<queue, active, expired, lease, submit, wjob>>
    BY <1>11 DEF RunnerReturns, RunnerRaises, Store, Read, Write, Look
  <2> QED
    BY <1>9, <2>1, <2>2
<1> QED
  BY <1>1, <1>2, <1>3, <1>4, <1>5, <1>6, <1>7, <1>8, <1>10, <1>11 DEF Work, Execute

LEMMA HoldRest ==
  ASSUME Hold, NEW w \in Workers,
         Renew(w) \/ Crash(w) \/ Drain(w) \/ (\E j \in Jobs : Hear(w, j))
  PROVE  (OneHolder /\ Entry)'
<1> USE DEF PC, Claiming, Executing, Fixing
<1>0. IType
  BY DEF Hold
<1>1. CASE Renew(w)
  BY <1>1 DEF Renew, Hold, OneHolder, Entry, Entered, Owns
<1>2. CASE Crash(w)
  <2>1. UNCHANGED <<queue, active, expired, submit>>
    BY <1>2 DEF Crash
  <2>2. \A i \in Jobs : lease'[i] = IF Owns(w, i) THEN Orphan ELSE lease[i]
    BY <1>2 DEF Crash
  <2>3. \A x \in Workers \ {w} : pc'[x] = pc[x] /\ wjob'[x] = wjob[x]
    BY <1>0, <1>2, OthersStay DEF Crash
  <2>4. \A x \in Workers, i \in Jobs : Owns(x, i)' => Owns(x, i) /\ x # w
    BY <2>2, OwnersAssumption DEF Owns
  <2>5. \A i \in Jobs : lease'[i] # None => lease[i] # None
    BY <2>2, OwnersAssumption DEF Owns
  <2> QED
    BY <2>1, <2>3, <2>4, <2>5 DEF Hold, OneHolder, Entry, Entered
<1>3. CASE Drain(w)
  <2>1. UNCHANGED submit /\ wjob[w] \in Jobs
    BY <1>0, <1>3 DEF Drain, IType, LocalsOK
  <2>2. Rest(w) \/ (Goto(w, "fixRead") /\ UNCHANGED wjob)
    BY <1>3 DEF Drain
  <2>3. \A x \in Workers \ {w} : pc'[x] = pc[x] /\ wjob'[x] = wjob[x]
    BY <1>0, <2>2, OthersStay
  <2>4. CASE Owns(w, wjob[w])
    <3>1. Requeue(wjob[w])
      BY <1>3, <2>4 DEF Drain
    <3>2. wjob[w] \in active
      BY <2>1, <2>4, OwnersAssumption DEF Hold, OneHolder, Owns
    <3> QED
      BY <2>1, <2>3, <3>1, <3>2, OwnsOwn, HoldRequeue
  <2>5. CASE ~Owns(w, wjob[w])
    <3>1. UNCHANGED <<queue, active, expired, lease>>
      BY <1>3, <2>5 DEF Drain
    <3> QED
      BY <2>1, <2>3, <2>5, <3>1, OwnsOwn, HoldMove
  <2> QED
    BY <2>4, <2>5
<1>4. CASE \E j \in Jobs : Hear(w, j)
  BY <1>4 DEF Hear, Hold, OneHolder, Entry, Entered, Owns
<1> QED
  BY <1>1, <1>2, <1>3, <1>4

LEMMA HoldStep == Hold /\ [Next]_vars => Hold'
<1> SUFFICES ASSUME Hold, [Next]_vars PROVE (OneHolder /\ Entry)'
  BY TypeStep DEF Hold
<1>1. CASE Next
  BY <1>1, HoldAPI, HoldWork, HoldRest DEF Next
<1>2. CASE UNCHANGED vars
  BY <1>2 DEF vars, Hold, OneHolder, Entry, Entered, Owns
<1> QED
  BY <1>1, <1>2

LEMMA InitHold == Init => Hold
<1> SUFFICES ASSUME Init PROVE OneHolder /\ Entry
  BY InitType DEF Hold
<1> QED
  BY OwnersAssumption DEF Init, OneHolder, Entry, Owns

\* However leases expire, workers crash or drain and requests interleave, a job
\* is never pending and claimed at once, and no two live executions hold it.
THEOREM HolderUnique == Spec => []OneHolder
<1>1. Hold => OneHolder
  BY DEF Hold
<1> QED
  BY InitHold, HoldStep, <1>1, PTL DEF Spec

-----------------------------------------------------------------------------
(* At most one outcome per job.                                            *)

USE DEF Evicting

\* What a step may do to where jobs are: a retired job stays so, and a job
\* enters by way of the queue.
Flow == \A j \in Jobs : /\ Entered(j) => Entered(j)'
                        /\ Retired(j) => Retired(j)'
                        /\ ~Entered(j) /\ Entered(j)' => j \in queue'

LEMMA FlowKept ==
  ASSUME UNCHANGED submit, queue' \cup active' \subseteq queue \cup active
  PROVE  Flow
BY DEF Flow, Entered, Retired

LEMMA FlowStep ==
  ASSUME Hold, [Next]_vars
  PROVE  Flow
<1>1. ASSUME NEW j \in Jobs, Submit(j) \/ Cancel(j) \/ Clear(j) \/ Expire(j)
      PROVE  Flow
  <2>1. CASE SubmitRecord(j) \/ SubmitRefused(j) \/ SubmitUndo(j)
    BY <2>1 DEF SubmitRecord, SubmitRefused, SubmitUndo, Flow, Entered, Retired,
                Hold, IType, TypeOK
  <2>2. CASE SubmitEnqueue(j)
    BY <2>2 DEF SubmitEnqueue, Flow, Entered, Retired, Hold, IType, TypeOK
  <2>3. CASE Cancel(j) \/ Clear(j) \/ Expire(j)
    BY <2>3, FlowKept DEF Cancel, CancelRead, CancelMark, CancelWrite, Clear,
                          ClearList, ClearDelete, ClearKeys, Expire
  <2> QED
    BY <1>1, <2>1, <2>2, <2>3 DEF Submit
<1>2. ASSUME NEW w \in Workers, Work(w) PROVE Flow
  <2>1. ASSUME NEW j \in Jobs, RecoverLease(w, j) PROVE Flow
    <3>1. j \in active /\ UNCHANGED submit
      BY <2>1 DEF RecoverLease, Hold, OneHolder
    <3>2. (EraseClaim(j) /\ UNCHANGED queue) \/ Requeue(j)
      BY <2>1 DEF RecoverLease
    <3> QED
      BY <3>1, <3>2, FlowKept DEF EraseClaim, Requeue, Deactivate
  <2>2. ASSUME NEW j \in Jobs, Claim(w, j) PROVE Flow
    <3>1. j \in queue /\ queue' \subseteq queue /\ active' = active \cup {j}
      BY <2>2 DEF Claim
    <3> QED
      BY <2>2, <3>1, FlowKept DEF Claim
  <2>3. CASE ClaimNothing(w) \/ FixRead(w) \/ FixWrite(w) \/ ClaimPayload(w)
    BY <2>3, FlowKept DEF ClaimNothing, FixRead, FixWrite, ClaimPayload
  <2>4. CASE ClaimCancelled(w) \/ ClaimInvalid(w) \/ Ack(w)
    <3>1. FinishLease(w, wjob[w]) /\ UNCHANGED <<queue, submit>>
      BY <2>4 DEF ClaimCancelled, ClaimInvalid, Ack
    <3>2. active' \subseteq active
      BY <3>1 DEF FinishLease, EraseClaim, Deactivate
    <3> QED
      BY <3>1, <3>2, FlowKept
  <2>5. CASE Drop(w)
    BY <2>5, FlowKept DEF Drop, EraseClaim, Deactivate
  <2>6. CASE \/ StartRead(w) \/ StartWrite(w) \/ RunnerReturns(w) \/ RunnerRaises(w)
             \/ CheckSettled(w) \/ CheckRaised(w)
    BY <2>6, FlowKept DEF StartRead, StartWrite, RunnerReturns, RunnerRaises,
                          CheckSettled, CheckRaised
  <2>7. CASE Store(w) \/ Read(w) \/ Write(w) \/ Announce(w)
    BY <2>7, FlowKept DEF Store, Read, Write, Announce
  <2> QED
    BY <1>2, <2>1, <2>2, <2>3, <2>4, <2>5, <2>6, <2>7 DEF Work, Execute
<1>3. ASSUME NEW w \in Workers, Renew(w) \/ Crash(w) \/ (\E j \in Jobs : Hear(w, j))
      PROVE  Flow
  BY <1>3, FlowKept DEF Renew, Crash, Hear
<1>4. ASSUME NEW w \in Workers, Drain(w) PROVE Flow
  <2>1. UNCHANGED submit /\ wjob[w] \in Jobs
    BY <1>4 DEF Drain, Hold, IType, LocalsOK, Executing
  <2>2. CASE Owns(w, wjob[w])
    <3>1. Requeue(wjob[w])
      BY <1>4, <2>2 DEF Drain
    <3>2. wjob[w] \in active
      BY <2>1, <2>2, OwnersAssumption DEF Hold, OneHolder, Owns
    <3> QED
      BY <2>1, <3>1, <3>2, FlowKept DEF Requeue, Deactivate
  <2>3. CASE ~Owns(w, wjob[w])
    BY <1>4, <2>1, <2>3, FlowKept DEF Drain
  <2> QED
    BY <2>2, <2>3
<1>5. CASE UNCHANGED vars
  BY <1>5, FlowKept DEF vars
<1> QED
  BY <1>1, <1>2, <1>3, <1>4, <1>5 DEF Next

\* Whoever will announce an outcome is alone with it: the job has retired and
\* nothing has been announced.
Fence ==
  /\ \A w \in Workers : Announcing(w) => Retired(wjob[w]) /\ told[wjob[w]] = <<>>
  /\ \A w, x \in Workers :
       Announcing(w) /\ Announcing(x) /\ wjob[w] = wjob[x] => w = x
  /\ SingleVerdict

Fenced == Hold /\ Fence

\* Worker x starts to announce nothing.
Silent(x) == Announcing(x)' => Announcing(x) /\ wjob'[x] = wjob[x]

\* An announcing worker has a job.
LEMMA AnnouncingJob ==
  ASSUME IType
  PROVE  \A w \in Workers : Announcing(w) => wjob[w] \in Jobs
BY DEF IType, LocalsOK, Announcing, Fixing

LEMMA FenceFrame ==
  ASSUME Fenced, Flow, UNCHANGED told, \A x \in Workers : Silent(x)
  PROVE  Fence'
<1>1. \A x \in Workers : Announcing(x) => wjob[x] \in Jobs
  BY AnnouncingJob DEF Fenced, Hold
<1> QED
  BY <1>1 DEF Fenced, Fence, Flow, Silent, SingleVerdict

\* Worker w retires job j and is to announce its outcome.
LEMMA FenceNew ==
  ASSUME Fenced, Flow, UNCHANGED told, NEW w \in Workers, NEW j \in Jobs,
         \A x \in Workers \ {w} : Silent(x),
         ~Retired(j), Retired(j)', wjob'[w] = j
  PROVE  Fence'
<1>1. \A x \in Workers : Announcing(x) => wjob[x] \in Jobs /\ wjob[x] # j
  BY AnnouncingJob DEF Fenced, Fence, Hold
<1>2. told[j] = <<>>
  BY DEF Fenced, Fence, SingleVerdict
<1>3. \A x \in Workers : Announcing(x)' => Retired(wjob[x])' /\ told'[wjob'[x]] = <<>>
  <2>1. ASSUME NEW x \in Workers \ {w}, Announcing(x)'
        PROVE  Retired(wjob[x])' /\ told'[wjob'[x]] = <<>>
    BY <1>1, <2>1 DEF Fenced, Fence, Flow, Silent
  <2>2. Retired(wjob[w])' /\ told'[wjob'[w]] = <<>>
    BY <1>2
  <2> QED
    BY <2>1, <2>2
<1>4. \A x, y \in Workers :
        Announcing(x)' /\ Announcing(y)' /\ wjob'[x] = wjob'[y] => x = y
  BY <1>1 DEF Fenced, Fence, Silent
<1>5. SingleVerdict'
  BY DEF Fenced, Fence, Flow, SingleVerdict
<1> QED
  BY <1>3, <1>4, <1>5 DEF Fence

\* Worker w announces outcome v.
LEMMA FenceTold ==
  ASSUME Fenced, Flow, NEW w \in Workers, Announcing(w), NEW v \in Terminal,
         told' = [told EXCEPT ![wjob[w]] = Append(@, v)],
         ~Announcing(w)', \A x \in Workers \ {w} : Silent(x)
  PROVE  Fence'
<1>1. \A x \in Workers : Announcing(x) => wjob[x] \in Jobs
  BY AnnouncingJob DEF Fenced, Hold
<1>2. told \in [Jobs -> Seq(Terminal)] /\ told[wjob[w]] = <<>> /\ Retired(wjob[w])
  BY DEF Fenced, Fence, Hold, IType, TypeOK
<1>3. \A i \in Jobs : told'[i] = IF i = wjob[w] THEN <<v>> ELSE told[i]
  BY <1>1, <1>2
<1>4. \A x \in Workers : Announcing(x)' =>
        x # w /\ Announcing(x) /\ wjob'[x] = wjob[x] /\ wjob[x] # wjob[w]
  BY DEF Fenced, Fence, Silent
<1>5. \A x \in Workers : Announcing(x)' => Retired(wjob[x])' /\ told'[wjob'[x]] = <<>>
  BY <1>1, <1>3, <1>4 DEF Fenced, Fence, Flow
<1>6. \A x, y \in Workers :
        Announcing(x)' /\ Announcing(y)' /\ wjob'[x] = wjob'[y] => x = y
  BY <1>4 DEF Fenced, Fence
<1>7. SingleVerdict'
  BY <1>1, <1>2, <1>3 DEF Fenced, Fence, Flow, SingleVerdict
<1> QED
  BY <1>5, <1>6, <1>7 DEF Fence

\* A worker whose locals stay is as announcing as it was.
LEMMA OthersSilent ==
  ASSUME IType, NEW w \in Workers,
         \/ Rest(w)
         \/ /\ \E p \in PC : Goto(w, p)
            /\ UNCHANGED verdict \/ \E v \in Terminal \cup {"none", "queued"} : Decide(w, v)
            /\ UNCHANGED wjob \/ \E j \in Jobs : wjob' = [wjob EXCEPT ![w] = j]
  PROVE  \A x \in Workers \ {w} : Silent(x)
<1>1. \A x \in Workers \ {w} : /\ pc'[x] = pc[x] /\ verdict'[x] = verdict[x]
                               /\ wjob'[x] = wjob[x]
  BY DEF IType, TypeOK, Rest, Goto, Decide
<1> QED
  BY <1>1 DEF Silent, Announcing

\* A worker that rests, or goes on to a pc of Holding, announces nothing new.
LEMMA RestSilent ==
  ASSUME IType, NEW w \in Workers, Rest(w)
  PROVE  /\ \A x \in Workers : Silent(x)
         /\ ~Announcing(w)'
<1>1. pc'[w] = "idle"
  BY DEF IType, TypeOK, Rest, Goto
<1>2. ~Announcing(w)'
  BY <1>1 DEF Announcing, Fixing
<1> QED
  BY <1>2, OthersSilent DEF Silent

LEMMA MoveSilent ==
  ASSUME IType, NEW w \in Workers,
         \E p \in Holding : Goto(w, p),
         UNCHANGED verdict \/ \E v \in Terminal \cup {"none", "queued"} : Decide(w, v),
         UNCHANGED wjob \/ \E j \in Jobs : wjob' = [wjob EXCEPT ![w] = j]
  PROVE  \A x \in Workers : Silent(x)
<1>1. Holding \subseteq PC
  BY DEF Holding, PC
<1>2. pc'[w] \in Holding
  BY <1>1 DEF IType, TypeOK, Goto
<1>3. ~Announcing(w)'
  BY <1>2 DEF Announcing, Holding, Claiming, Executing, Fixing
<1> QED
  BY <1>1, <1>3, OthersSilent DEF Silent

\* An execution that acknowledges its own claim retires the job.
LEMMA FenceFinish ==
  ASSUME Fenced, Flow, NEW w \in Workers, wjob[w] \in Jobs, FinishLease(w, wjob[w]),
         UNCHANGED <<queue, submit, told>>,
         IF Owns(w, wjob[w])
           THEN /\ Goto(w, "announce") /\ UNCHANGED wjob
                /\ UNCHANGED verdict \/ Decide(w, "error")
           ELSE Rest(w)
  PROVE  Fence'
<1>0. IType
  BY DEF Fenced, Hold
<1>1. CASE Owns(w, wjob[w])
  <2>1. wjob[w] \in active /\ wjob[w] \notin queue
    BY <1>1, OwnersAssumption DEF Fenced, Hold, OneHolder, Owns
  <2>2. Entered(wjob[w]) /\ ~Retired(wjob[w])
    BY <2>1 DEF Fenced, Hold, Entry, Retired
  <2>3. EraseClaim(wjob[w])
    BY <1>1 DEF FinishLease
  <2>4. Retired(wjob[w])' /\ wjob'[w] = wjob[w]
    BY <1>1, <2>1, <2>2, <2>3 DEF EraseClaim, Deactivate, Retired, Entered
  <2>5. "announce" \in PC /\ "error" \in Terminal
    BY DEF PC, Executing, Terminal
  <2>6. \A x \in Workers \ {w} : Silent(x)
    BY <1>0, <1>1, <2>5, OthersSilent
  <2> QED
    BY <2>2, <2>4, <2>6, FenceNew DEF Retired
<1>2. CASE ~Owns(w, wjob[w])
  BY <1>0, <1>2, RestSilent, FenceFrame
<1> QED
  BY <1>1, <1>2

LEMMA FenceWork ==
  ASSUME Fenced, Flow, NEW w \in Workers, Work(w)
  PROVE  Fence'
<1>0. IType /\ Hold
  BY DEF Fenced, Hold
<1>1. ASSUME NEW j \in Jobs, RecoverLease(w, j) PROVE Fence'
  <2>1. j \in active /\ j \notin queue /\ Entered(j) /\ ~Retired(j)
    BY <1>0, <1>1 DEF RecoverLease, Hold, OneHolder, Entry, Retired
  <2>2. /\ Goto(w, "fixRead") /\ wjob' = [wjob EXCEPT ![w] = j]
        /\ UNCHANGED <<submit, told>>
    BY <1>1 DEF RecoverLease
  <2>3. pc'[w] = "fixRead" /\ wjob'[w] = j /\ "fixRead" \in PC
    BY <1>0, <2>2 DEF Goto, IType, TypeOK, PC, Fixing
  <2>4. CASE EraseClaim(j) /\ Decide(w, "error") /\ UNCHANGED queue
    <3>1. Retired(j)'
      BY <2>1, <2>2, <2>4 DEF EraseClaim, Deactivate, Retired, Entered
    <3>2. \A x \in Workers \ {w} : Silent(x)
      BY <1>0, <2>2, <2>3, <2>4, OthersSilent DEF Terminal
    <3> QED
      BY <2>1, <2>2, <2>3, <3>1, <3>2, FenceNew
  <2>5. CASE Decide(w, "queued")
    <3>1. verdict'[w] = "queued"
      BY <1>0, <2>5 DEF Decide, IType, TypeOK
    <3>2. ~Announcing(w)'
      BY <2>3, <3>1 DEF Announcing
    <3>3. \A x \in Workers \ {w} : Silent(x)
      BY <1>0, <2>2, <2>3, <2>5, OthersSilent
    <3> QED
      BY <2>2, <3>2, <3>3, FenceFrame DEF Silent
  <2> QED
    BY <1>1, <2>4, <2>5 DEF RecoverLease
<1>2. ASSUME NEW j \in Jobs, Claim(w, j) PROVE Fence'
  <2>1. /\ \E p \in Holding : Goto(w, p)
        /\ wjob' = [wjob EXCEPT ![w] = j] /\ UNCHANGED <<verdict, told>>
    BY <1>2 DEF Claim, Holding, Claiming
  <2> QED
    BY <1>0, <2>1, MoveSilent, FenceFrame
<1>3. CASE ClaimNothing(w)
  <2>1. UNCHANGED <<told, pc, wjob, verdict>>
    BY <1>3 DEF ClaimNothing
  <2> QED
    BY <2>1, FenceFrame DEF Silent, Announcing
<1>4. CASE FixRead(w)
  <2>1. /\ pc[w] = "fixRead" /\ Goto(w, "fixWrite")
        /\ UNCHANGED <<told, wjob, verdict>> /\ "fixWrite" \in PC
    BY <1>4 DEF FixRead, PC, Fixing
  <2>2. pc'[w] = "fixWrite"
    BY <1>0, <2>1 DEF Goto, IType, TypeOK
  <2>3. Silent(w)
    BY <2>1, <2>2 DEF Silent, Announcing, Fixing
  <2>4. \A x \in Workers \ {w} : Silent(x)
    BY <1>0, <2>1, OthersSilent
  <2> QED
    BY <2>1, <2>3, <2>4, FenceFrame
<1>5. CASE FixWrite(w)
  <2>1. /\ pc[w] = "fixWrite" /\ Rest(w)
        /\ told' = IF verdict[w] = "error"
                     THEN [told EXCEPT ![wjob[w]] = Append(@, "error")] ELSE told
    BY <1>5 DEF FixWrite
  <2>2. (\A x \in Workers : Silent(x)) /\ ~Announcing(w)'
    BY <1>0, <2>1, RestSilent
  <2>3. CASE verdict[w] = "error"
    <3>1. Announcing(w) /\ "error" \in Terminal
      BY <2>1, <2>3 DEF Announcing, Fixing, Terminal
    <3> QED
      BY <2>1, <2>2, <2>3, <3>1, FenceTold
  <2>4. CASE verdict[w] # "error"
    BY <2>1, <2>2, <2>4, FenceFrame
  <2> QED
    BY <2>3, <2>4
<1>6. CASE ClaimInvalid(w) \/ Ack(w)
  <2>1. /\ FinishLease(w, wjob[w]) /\ UNCHANGED <<queue, submit, told>>
        /\ IF Owns(w, wjob[w])
             THEN /\ Goto(w, "announce") /\ UNCHANGED wjob
                  /\ UNCHANGED verdict \/ Decide(w, "error")
             ELSE Rest(w)
    BY <1>6 DEF ClaimInvalid, Ack
  <2>2. wjob[w] \in Jobs
    BY <1>0, <1>6 DEF ClaimInvalid, Ack, IType, LocalsOK
  <2> QED
    BY <2>1, <2>2, FenceFinish
<1>7. CASE Announce(w)
  <2>1. /\ pc[w] = "announce" /\ Rest(w)
        /\ told' = [told EXCEPT ![wjob[w]] = Append(@, verdict[w])]
    BY <1>7 DEF Announce
  <2>2. (\A x \in Workers : Silent(x)) /\ ~Announcing(w)'
    BY <1>0, <2>1, RestSilent
  <2>3. Announcing(w) /\ verdict[w] \in Terminal
    BY <1>0, <2>1 DEF Announcing, IType, LocalsOK, Decided
  <2> QED
    BY <2>1, <2>2, <2>3, FenceTold
<1>8. CASE ClaimCancelled(w) \/ Drop(w)
  BY <1>0, <1>8, RestSilent, FenceFrame DEF ClaimCancelled, Drop
<1>9. CASE CheckSettled(w) \/ CheckRaised(w)
  <2>1. UNCHANGED told
    BY <1>9 DEF CheckSettled, CheckRaised
  <2>2. verdict[w] \in Terminal \cup {"none", "queued"}
    BY <1>0 DEF IType, TypeOK
  <2>3. \/ Rest(w)
        \/ /\ (\E p \in Holding : Goto(w, p)) /\ UNCHANGED wjob
           /\ \E v \in Terminal \cup {"none", "queued"} : Decide(w, v)
    BY <1>9, <2>2 DEF CheckSettled, CheckRaised, Holding, Executing, Terminal
  <2> QED
    BY <1>0, <2>1, <2>3, RestSilent, MoveSilent, FenceFrame
<1>10. ASSUME UNCHANGED <<told, wjob>>, \E p \in Holding : Goto(w, p),
              UNCHANGED verdict \/ \E v \in Terminal \cup {"none", "queued"} : Decide(w, v)
       PROVE  Fence'
  BY <1>0, <1>10, MoveSilent, FenceFrame
<1>11. CASE ClaimPayload(w) \/ StartRead(w) \/ StartWrite(w) \/ RunnerReturns(w)
  <2>1. \E p \in Holding : Goto(w, p)
    BY <1>11 DEF ClaimPayload, StartRead, StartWrite, RunnerReturns, Holding,
                 Claiming, Executing
  <2> QED
    BY <1>10, <1>11, <2>1 DEF ClaimPayload, StartRead, StartWrite, RunnerReturns
<1>12. CASE RunnerRaises(w) \/ Store(w) \/ Read(w) \/ Write(w)
  <2>1. \E p \in Holding : Goto(w, p)
    BY <1>12 DEF RunnerRaises, Store, Read, Write, Holding, Claiming, Executing
  <2>2. /\ UNCHANGED <<told, wjob>>
        /\ UNCHANGED verdict \/ \E v \in Terminal \cup {"none", "queued"} : Decide(w, v)
    BY <1>12 DEF RunnerRaises, Store, Read, Write, Look, Terminal
  <2> QED
    BY <1>10, <2>1, <2>2
<1> QED
  BY <1>1, <1>2, <1>3, <1>4, <1>5, <1>6, <1>7, <1>8, <1>9, <1>11, <1>12
     DEF Work, Execute

LEMMA FenceStep == Fenced /\ [Next]_vars => Fenced'
<1> SUFFICES ASSUME Fenced, [Next]_vars PROVE Fence'
  BY HoldStep DEF Fenced
<1>1. IType /\ Flow
  BY FlowStep DEF Fenced, Hold
<1>2. ASSUME NEW j \in Jobs, Submit(j) \/ Cancel(j) \/ Clear(j) \/ Expire(j)
      PROVE  Fence'
  <2>1. UNCHANGED <<told, pc, wjob, verdict>>
    BY <1>2 DEF Submit, SubmitRecord, SubmitEnqueue, SubmitRefused, SubmitUndo,
                Cancel, CancelRead, CancelMark, CancelWrite,
                Clear, ClearList, ClearDelete, ClearKeys, Expire
  <2> QED
    BY <1>1, <2>1, FenceFrame DEF Silent, Announcing
<1>3. ASSUME NEW w \in Workers, Work(w) PROVE Fence'
  BY <1>1, <1>3, FenceWork
<1>4. ASSUME NEW w \in Workers, Crash(w) PROVE Fence'
  BY <1>1, <1>4, RestSilent, FenceFrame DEF Crash
<1>5. ASSUME NEW w \in Workers, Drain(w) PROVE Fence'
  <2>1. CASE Owns(w, wjob[w])
    <3>1. /\ Goto(w, "fixRead") /\ Decide(w, "queued") /\ UNCHANGED <<wjob, told>>
          /\ "fixRead" \in PC
      BY <1>5, <2>1 DEF Drain, PC, Fixing
    <3>2. pc'[w] = "fixRead" /\ verdict'[w] = "queued"
      BY <1>1, <3>1 DEF Goto, Decide, IType, TypeOK
    <3>3. ~Announcing(w)'
      BY <3>2 DEF Announcing
    <3>4. \A x \in Workers \ {w} : Silent(x)
      BY <1>1, <3>1, OthersSilent
    <3> QED
      BY <1>1, <3>1, <3>3, <3>4, FenceFrame DEF Silent
  <2>2. CASE ~Owns(w, wjob[w])
    BY <1>1, <1>5, <2>2, RestSilent, FenceFrame DEF Drain
  <2> QED
    BY <2>1, <2>2
<1>6. CASE \/ UNCHANGED vars
           \/ \E w \in Workers : Renew(w) \/ \E j \in Jobs : Hear(w, j)
  <2>1. UNCHANGED <<told, pc, wjob, verdict>>
    BY <1>6 DEF vars, Renew, Hear
  <2> QED
    BY <1>1, <2>1, FenceFrame DEF Silent, Announcing
<1> QED
  BY <1>2, <1>3, <1>4, <1>5, <1>6 DEF Next

LEMMA InitFence == Init => Fenced
<1> SUFFICES ASSUME Init PROVE Fence
  BY InitHold DEF Fenced
<1>1. \A w \in Workers : ~Announcing(w)
  BY DEF Init, Announcing, Fixing
<1>2. \A j \in Jobs : told[j] = <<>>
  BY DEF Init
<1> QED
  BY <1>1, <1>2 DEF Fence, SingleVerdict

\* Whatever the number of workers that ran a job, one after the other or at the
\* same time, at most one of them announces an outcome, and the job never runs
\* again after that.
THEOREM OneVerdict == Spec => []SingleVerdict
<1>1. Fenced => SingleVerdict
  BY DEF Fenced, Fence
<1> QED
  BY InitFence, FenceStep, <1>1, PTL DEF Spec

-----------------------------------------------------------------------------
(* The queue implements JobLifecycle.                                      *)

\* What stage says of a job.
StageMeans ==
  \A j \in Jobs : /\ stage[j] \in Lifecycle!Stage
                  /\ stage[j] = "new" <=> ~Entered(j)
                  /\ stage[j] = "pending" <=> j \in queue
                  /\ stage[j] = "claimed" <=> j \in active
                  /\ stage[j] = "retired" <=> Retired(j)

LEMMA StageIs == Hold => StageMeans
<1> SUFFICES ASSUME Hold, NEW j \in Jobs
             PROVE  /\ stage[j] \in Lifecycle!Stage
                    /\ stage[j] = "new" <=> ~Entered(j)
                    /\ stage[j] = "pending" <=> j \in queue
                    /\ stage[j] = "claimed" <=> j \in active
                    /\ stage[j] = "retired" <=> Retired(j)
  BY DEF StageMeans
<1>1. ~(j \in queue /\ j \in active)
  BY DEF Hold, OneHolder
<1>2. j \in queue \cup active => Entered(j)
  BY DEF Hold, Entry
<1>3. CASE j \in queue
  BY <1>1, <1>2, <1>3 DEF stage, Lifecycle!Stage, Retired
<1>4. CASE j \in active
  BY <1>1, <1>2, <1>4 DEF stage, Lifecycle!Stage, Retired
<1>5. CASE j \notin queue \cup active
  BY <1>5 DEF stage, Lifecycle!Stage, Retired
<1> QED
  BY <1>3, <1>4, <1>5

\* A step that announces nothing moves jobs along the lifecycle.
LEMMA AdvanceStep ==
  ASSUME Hold, Hold', Flow, UNCHANGED <<told, withdrawn>>
  PROVE  Lifecycle!Advance
<1>0. StageMeans /\ StageMeans'
  BY StageIs, PTL
<1>1. ASSUME NEW j \in Jobs
      PROVE  /\ stage'[j] \in Lifecycle!Stage
             /\ stage'[j] = stage[j] \/ <<stage[j], stage'[j]>> \in Lifecycle!Moves
  <2>1. /\ stage'[j] \in Lifecycle!Stage
        /\ stage'[j] = "new" <=> ~Entered(j)'
        /\ stage'[j] = "pending" <=> j \in queue'
        /\ stage'[j] = "claimed" <=> j \in active'
        /\ stage'[j] = "retired" <=> Retired(j)'
    BY <1>0 DEF StageMeans
  <2>2. /\ Entered(j) => Entered(j)'
        /\ Retired(j) => Retired(j)'
        /\ ~Entered(j) /\ Entered(j)' => j \in queue'
    BY DEF Flow
  <2> QED
    BY <1>0, <2>1, <2>2 DEF StageMeans, Lifecycle!Stage, Lifecycle!Moves
<1>2. stage' \in [Jobs -> Lifecycle!Stage]
  BY <1>1 DEF stage
<1> QED
  BY <1>1, <1>2 DEF Lifecycle!Advance, announced, withdrawn

\* Only an announcing worker tells an outcome, and moves no job then.
LEMMA TellStep ==
  ASSUME IType, Next
  PROVE  \/ UNCHANGED told
         \/ /\ UNCHANGED <<queue, active, submit, cancel>>
            /\ \E w \in Workers : \E v \in Terminal :
                 Announcing(w) /\ told' = [told EXCEPT ![wjob[w]] = Append(@, v)]
<1> DEFINE Tells == \E w \in Workers : \E v \in Terminal :
                      Announcing(w) /\ told' = [told EXCEPT ![wjob[w]] = Append(@, v)]
<1> SUFFICES UNCHANGED told \/ (UNCHANGED <<queue, active, submit, cancel>> /\ Tells)
  OBVIOUS
<1>1. ASSUME NEW j \in Jobs, Submit(j) \/ Cancel(j) \/ Clear(j) \/ Expire(j)
      PROVE  UNCHANGED told
  BY <1>1 DEF Submit, SubmitRecord, SubmitEnqueue, SubmitRefused, SubmitUndo,
              Cancel, CancelRead, CancelMark, CancelWrite,
              Clear, ClearList, ClearDelete, ClearKeys, Expire
<1>2. ASSUME NEW w \in Workers,
             \/ \E j \in Jobs : RecoverLease(w, j) \/ Claim(w, j) \/ Hear(w, j)
             \/ ClaimNothing(w) \/ FixRead(w) \/ Renew(w) \/ Crash(w) \/ Drain(w)
             \/ ClaimCancelled(w) \/ ClaimPayload(w) \/ ClaimInvalid(w)
      PROVE  UNCHANGED told
  BY <1>2 DEF RecoverLease, Claim, Hear, ClaimNothing, FixRead, Renew, Crash, Drain,
              ClaimCancelled, ClaimPayload, ClaimInvalid
<1>3. ASSUME NEW w \in Workers,
             \/ StartRead(w) \/ Drop(w) \/ StartWrite(w) \/ RunnerReturns(w)
             \/ RunnerRaises(w) \/ CheckSettled(w) \/ CheckRaised(w) \/ Store(w)
             \/ Read(w) \/ Write(w) \/ Ack(w)
      PROVE  UNCHANGED told
  BY <1>3 DEF StartRead, Drop, StartWrite, RunnerReturns, RunnerRaises,
              CheckSettled, CheckRaised, Store, Read, Write, Ack
<1>4. ASSUME NEW w \in Workers, FixWrite(w), ~UNCHANGED told
      PROVE  UNCHANGED <<queue, active, submit, cancel>> /\ Tells
  <2>1. UNCHANGED <<queue, active, submit, cancel>>
    BY <1>4 DEF FixWrite
  <2>2. /\ pc[w] = "fixWrite" /\ verdict[w] = "error"
        /\ told' = [told EXCEPT ![wjob[w]] = Append(@, "error")]
    BY <1>4 DEF FixWrite
  <2>3. Announcing(w) /\ "error" \in Terminal
    BY <2>2 DEF Announcing, Fixing, Terminal
  <2> QED
    BY <2>1, <2>2, <2>3
<1>5. ASSUME NEW w \in Workers, Announce(w)
      PROVE  UNCHANGED <<queue, active, submit, cancel>> /\ Tells
  <2>1. UNCHANGED <<queue, active, submit, cancel>>
    BY <1>5 DEF Announce
  <2>2. pc[w] = "announce" /\ told' = [told EXCEPT ![wjob[w]] = Append(@, verdict[w])]
    BY <1>5 DEF Announce
  <2>3. Announcing(w) /\ verdict[w] \in Terminal
    BY <2>2 DEF IType, LocalsOK, Decided, Announcing
  <2> QED
    BY <2>1, <2>2, <2>3
<1> QED
  BY <1>1, <1>2, <1>3, <1>4, <1>5 DEF Next, Work, Execute

\* Only the request that cancelled the job announces that, and nothing else
\* moves then.
LEMMA WithdrawStep ==
  ASSUME IType, Next
  PROVE  \/ UNCHANGED withdrawn
         \/ \E j \in Jobs : Lifecycle!Withdraw(j) /\ UNCHANGED told
<1>1. ASSUME NEW j \in Jobs, CancelWrite(j)
      PROVE  Lifecycle!Withdraw(j) /\ UNCHANGED told
  <2>1. withdrawn' = withdrawn \cup {j} /\ j \notin withdrawn
    BY <1>1 DEF CancelWrite, withdrawn, IType, TypeOK
  <2>2. UNCHANGED <<stage, announced>>
    BY <1>1 DEF CancelWrite, stage, announced, Retired, Entered
  <2> QED
    BY <1>1, <2>1, <2>2 DEF Lifecycle!Withdraw, CancelWrite
<1>2. ASSUME NEW j \in Jobs, Cancel(j), ~CancelWrite(j)
      PROVE  UNCHANGED withdrawn
  BY <1>2 DEF Cancel, CancelRead, CancelMark, withdrawn, IType, TypeOK
<1>3. ASSUME NEW j \in Jobs, Submit(j) \/ Clear(j) \/ Expire(j)
      PROVE  UNCHANGED cancel
  BY <1>3 DEF Submit, SubmitRecord, SubmitEnqueue, SubmitRefused, SubmitUndo,
              Clear, ClearList, ClearDelete, ClearKeys, Expire
<1>4. ASSUME NEW w \in Workers, \E j \in Jobs : RecoverLease(w, j) \/ Claim(w, j) \/ Hear(w, j)
      PROVE  UNCHANGED cancel
  BY <1>4 DEF RecoverLease, Claim, Hear
<1>5. ASSUME NEW w \in Workers,
             \/ ClaimNothing(w) \/ FixRead(w) \/ FixWrite(w) \/ Renew(w) \/ Crash(w)
             \/ Drain(w) \/ ClaimCancelled(w) \/ ClaimPayload(w) \/ ClaimInvalid(w)
      PROVE  UNCHANGED cancel
  BY <1>5 DEF ClaimNothing, FixRead, FixWrite, Renew, Crash, Drain, ClaimCancelled,
              ClaimPayload, ClaimInvalid
<1>6. ASSUME NEW w \in Workers, Execute(w)
      PROVE  UNCHANGED cancel
  BY <1>6 DEF Execute, StartRead, Drop, StartWrite, RunnerReturns, RunnerRaises,
              CheckSettled, CheckRaised, Store, Read, Write, Ack, Announce
<1> QED
  BY <1>1, <1>2, <1>3, <1>4, <1>5, <1>6 DEF Next, Work, withdrawn

LEMMA LifecycleStep ==
  ASSUME Fenced, Fenced', [Next]_vars
  PROVE  [Lifecycle!Next]_<<stage, announced, withdrawn>>
<1>1. Hold /\ Hold' /\ IType
  BY DEF Fenced, Hold
<1>2. CASE UNCHANGED <<told, withdrawn>>
  BY <1>1, <1>2, FlowStep, AdvanceStep DEF Lifecycle!Next
<1>3. CASE ~UNCHANGED told
  <2>1. Next
    BY <1>3 DEF vars
  <2>2. PICK w \in Workers, v \in Terminal :
          /\ Announcing(w) /\ told' = [told EXCEPT ![wjob[w]] = Append(@, v)]
          /\ UNCHANGED <<queue, active, submit, cancel>>
    BY <1>1, <1>3, <2>1, TellStep
  <2>3. wjob[w] \in Jobs /\ Retired(wjob[w]) /\ told[wjob[w]] = <<>>
    BY <1>1, <2>2, AnnouncingJob DEF Fenced, Fence
  <2>4. \A i \in Jobs : told'[i] = IF i = wjob[w] THEN <<v>> ELSE told[i]
    BY <1>1, <2>2, <2>3 DEF IType, TypeOK
  <2>5. announced' = announced \cup {wjob[w]} /\ wjob[w] \notin announced
    BY <2>3, <2>4 DEF announced
  <2>6. UNCHANGED <<stage, withdrawn>>
    BY <2>2 DEF stage, Retired, Entered, withdrawn
  <2>7. stage[wjob[w]] = "retired"
    BY <1>1, <2>3, StageIs DEF StageMeans
  <2> QED
    BY <2>3, <2>5, <2>6, <2>7 DEF Lifecycle!Next, Lifecycle!Announce
<1>4. CASE ~UNCHANGED withdrawn
  <2>1. Next
    BY <1>4 DEF vars, withdrawn
  <2> QED
    BY <1>1, <1>4, <2>1, WithdrawStep DEF Lifecycle!Next
<1> QED
  BY <1>2, <1>3, <1>4

LEMMA InitLifecycle == Init => Lifecycle!Init
BY DEF Init, Lifecycle!Init, stage, announced, withdrawn, Retired, Entered

\* The Redis queue with its workers implements JobLifecycle: a job is pending,
\* claimed or retired, a retired one never comes back, and the executions announce
\* one outcome for it after that; the JobCancelled of cancel() is an announcement
\* of its own, made at most once and at any stage.
THEOREM ImplementsLifecycle == Spec => RefinesLifecycle
<1>1. Fenced /\ Fenced' /\ [Next]_vars => [Lifecycle!Next]_<<stage, announced, withdrawn>>
  BY LifecycleStep
<1> QED
  BY InitFence, FenceStep, InitLifecycle, <1>1, PTL
     DEF Spec, RefinesLifecycle, Lifecycle!Spec

-----------------------------------------------------------------------------
(* The outcome of a retired job, with any number of worker loops and of      *)
(* cancellations.  A second loop that has the job in hand can write          *)
(* "running" over it after the acknowledgement (see AckFindsTerminalRecord), *)
(* a cancelled job can be purged by a claim before anybody writes its record *)
(* (AckedCancelEnds): the claim is about every other job.                    *)

\* One loop at a time has had the job in hand, and nobody asked to cancel it.
Calm(j) == j \notin overlapped /\ cancel[j] = "idle"

\* A mark of a cancellation comes from a request.
Marked ==
  /\ \A j \in cancelled : cancel[j] # "idle"
  /\ \A w \in Workers : \A j \in heard[w] : cancel[j] # "idle"

\* Two loops with one job in hand are on record.
Apart ==
  \A w, x \in Workers : w # x /\ wjob[w] = wjob[x] /\ wjob[w] \in Jobs
                          => wjob[w] \in overlapped

\* pcs at which the record is known not to say queued or running.
Past == {"invalid", "drop", "ack", "announce"}

\* Where the worker's job is and what its record says, at each step.  A job that a
\* recovery has put back may be purged before the recovery is through with it: its
\* record was terminal then, and the recovery does not write.
Placed(w) ==
  /\ Entered(wjob[w])
  /\ pc[w] \in Holding => wjob[w] \in active
  /\ pc[w] \in Fixing =>
       \/ verdict[w] = "error"
       \/ verdict[w] = "queued" /\ wjob[w] \in queue
       \/ /\ verdict[w] = "queued" /\ record[wjob[w]] \notin Live
          /\ pc[w] = "fixWrite" => seen[w] \notin Live
  /\ pc[w] = "fixWrite" /\ seen[w] \in Live => record[wjob[w]] \notin Terminal
  /\ pc[w] \in Past => record[wjob[w]] \notin Live
  /\ pc[w] \in {"write", "fixWrite"} /\ seen[w] \notin Live => record[wjob[w]] \notin Live

Guarded(w) == pc[w] # "idle" /\ Calm(wjob[w]) => Placed(w)

\* A retired job's record is not live, or is about to be written.
Settled(j) ==
  Retired(j) /\ Calm(j) => \/ record[j] \notin Live
                           \/ \E w \in Workers : wjob[w] = j /\ Evicting(w)

Outcome ==
  /\ Marked /\ Apart /\ \A w \in Workers : Guarded(w)
  /\ budget["lapse"] <= MaxLapses
  /\ budget["lapse"] = MaxLapses => \A j \in Jobs : Settled(j)

\* What a step may do to a job that is in nobody's hand, or in that of a worker
\* that does not move: it stays claimed, it leaves the queue with a terminal record
\* only, its record stays or is deleted.
Left(j) ==
  Entered(j) =>
    /\ Entered(j)' /\ (j \in active => j \in active')
    /\ \/ record'[j] = record[j] /\ (j \in queue => j \in queue' \/ record[j] \in Terminal)
       \/ record'[j] = "none" /\ (j \in queue => j \in queue')

\* A worker that does not move.
Still(x) == /\ pc'[x] = pc[x] /\ wjob'[x] = wjob[x]
            /\ verdict'[x] = verdict[x] /\ seen'[x] = seen[x]

LEMMA PlacedLeft ==
  ASSUME NEW x \in Workers, NEW j, wjob[x] = j, Placed(x), Still(x), Left(j)
  PROVE  Placed(x)'
<1>1. Entered(j) /\ Entered(j)' /\ wjob'[x] = j
  BY DEF Placed, Left, Still, Entered
<1>2. Entered(wjob[x])'
  BY <1>1 DEF Entered
<1>3. /\ record[j] \notin Live => record'[j] \notin Live
      /\ record[j] \notin Terminal => record'[j] \notin Terminal
      /\ j \in active => j \in active'
      /\ j \in queue => j \in queue' \/ (record[j] \in Terminal /\ record'[j] \notin Live)
  BY <1>1 DEF Left, Live, Terminal
<1> QED
  BY <1>1, <1>2, <1>3 DEF Placed, Still, Fixing

\* A step with which worker w moves, or takes a job in hand.
LEMMA OutcomeOwn ==
  ASSUME Hold, Hold', Outcome, NEW w \in Workers, UNCHANGED <<cancelled, cancel, heard>>,
         \A x \in Workers \ {w} : Still(x),
         \/ UNCHANGED <<wjob, overlapped>>
         \/ UNCHANGED overlapped /\ wjob' = [wjob EXCEPT ![w] = None]
         \/ \E j \in Jobs : Take(w, j),
         budget'["lapse"] = budget["lapse"],
         \A j \in Jobs : j # wjob[w] /\ j # wjob'[w] /\ Calm(j) => Left(j),
         Guarded(w)',
         (\A j \in Jobs : Settled(j)) => \A j \in Jobs : Settled(j)'
  PROVE  Outcome'
<1>0. IType /\ IType' /\ OwnersAssumption!1
  BY OwnersAssumption DEF Hold
<1>1. Marked'
  BY DEF Outcome, Marked
<1>2. overlapped \subseteq overlapped' /\ \A j : Calm(j)' => Calm(j)
  BY DEF Calm
<1>3. Apart'
  <2>1. CASE UNCHANGED <<wjob, overlapped>>
    BY <2>1 DEF Outcome, Apart
  <2>2. CASE UNCHANGED overlapped /\ wjob' = [wjob EXCEPT ![w] = None]
    BY <1>0, <2>2 DEF Outcome, Apart, IType, TypeOK
  <2>3. ASSUME NEW j \in Jobs, Take(w, j) PROVE Apart'
    <3>1. \A x \in Workers : wjob'[x] = IF x = w THEN j ELSE wjob[x]
      BY <1>0, <2>3 DEF IType, TypeOK
    <3>2. \A x \in Workers \ {w} : wjob[x] = j => j \in overlapped'
      BY <2>3
    <3> QED
      BY <1>2, <3>1, <3>2 DEF Outcome, Apart
  <2> QED
    BY <2>1, <2>2, <2>3
<1>4. ASSUME NEW x \in Workers PROVE Guarded(x)'
  <2>1. CASE x = w
    BY <2>1
  <2>2. CASE x # w
    <3>1. PICK j \in Jobs \cup {None} : j = wjob[x]
      BY <1>0 DEF IType, TypeOK
    <3>2. wjob'[x] = j /\ Still(x)
      BY <2>2, <3>1 DEF Still
    <3> SUFFICES ASSUME pc'[x] # "idle", Calm(j)' PROVE Placed(x)'
      BY <3>2 DEF Guarded, Calm
    <3>3. pc[x] # "idle" /\ Calm(j) /\ j \in Jobs
      BY <1>0, <1>2, <3>1, <3>2 DEF Still, IType, LocalsOK
    <3>4. Placed(x)
      BY <3>1, <3>3 DEF Outcome, Guarded
    <3>5. j # wjob[w]
      BY <2>2, <3>1, <3>3 DEF Outcome, Apart, Calm
    <3>6. j # wjob'[w]
      BY <1>3, <2>2, <3>2, <3>3 DEF Apart, Calm
    <3> QED
      BY <3>1, <3>2, <3>3, <3>4, <3>5, <3>6, PlacedLeft
  <2> QED
    BY <2>1, <2>2
<1> QED
  BY <1>1, <1>3, <1>4 DEF Outcome

\* Unless it evicts a job or writes a record: what is retired before the step has
\* its record; and what retires by the step must have it.
LEMMA OutcomeCalm ==
  ASSUME Hold, Hold', Outcome, NEW w \in Workers,
         UNCHANGED <<cancelled, cancel, heard, record, submit>>,
         \A x \in Workers \ {w} : Still(x),
         \/ UNCHANGED <<wjob, overlapped>>
         \/ UNCHANGED overlapped /\ wjob' = [wjob EXCEPT ![w] = None]
         \/ \E j \in Jobs : Take(w, j),
         budget'["lapse"] = budget["lapse"], Guarded(w)', ~Evicting(w),
         \A j \in Jobs : j # wjob[w] /\ j # wjob'[w] /\ Calm(j) =>
           /\ j \in active => j \in active'
           /\ j \in queue => j \in queue' \/ record[j] \in Terminal,
         \A j \in queue \cup active :
           Calm(j) => j \in queue' \cup active' \/ record[j] \notin Live
  PROVE  Outcome'
<1>1. \A j \in Jobs : j # wjob[w] /\ j # wjob'[w] /\ Calm(j) => Left(j)
  BY DEF Left, Entered
<1>2. ASSUME NEW j \in Jobs, Settled(j) PROVE Settled(j)'
  <2> SUFFICES ASSUME Retired(j)', Calm(j)', record[j] \in Live
               PROVE  \E x \in Workers : wjob'[x] = j /\ Evicting(x)'
    BY DEF Settled
  <2>1. Calm(j)
    BY DEF Calm
  <2>2. Retired(j)
    BY <2>1 DEF Retired, Entered
  <2>3. PICK x \in Workers : wjob[x] = j /\ Evicting(x)
    BY <1>2, <2>1, <2>2 DEF Settled
  <2>4. x # w
    BY <2>3
  <2> QED
    BY <2>3, <2>4 DEF Still
<1> QED
  BY <1>1, <1>2, OutcomeOwn

\* What is not a worker's: a request or a clock leaves the claims alone, and a
\* record that it changes is that of a new job, is deleted, or is no longer calm.
LEMMA OutcomeAround ==
  ASSUME Hold, Outcome, UNCHANGED <<pc, wjob, verdict, seen, active, overlapped>>, Marked',
         budget'["lapse"] = budget["lapse"],
         \A j \in Jobs : cancel[j] # "idle" => cancel'[j] # "idle",
         \A j \in Jobs : Calm(j)' => Left(j) /\ (Retired(j)' => Retired(j))
  PROVE  Outcome'
<1>1. \A j \in Jobs : Calm(j)' => Calm(j)
  BY DEF Calm
<1>2. Apart'
  BY DEF Outcome, Apart
<1>3. ASSUME NEW x \in Workers PROVE Guarded(x)'
  <2>1. PICK j \in Jobs \cup {None} : j = wjob[x]
    BY DEF Hold, IType, TypeOK
  <2>2. wjob'[x] = j /\ Still(x)
    BY <2>1 DEF Still
  <2> SUFFICES ASSUME pc'[x] # "idle", Calm(j)' PROVE Placed(x)'
    BY <2>2 DEF Guarded, Calm
  <2>3. pc[x] # "idle" /\ j \in Jobs
    BY <2>1, <2>2 DEF Still, Hold, IType, LocalsOK
  <2>4. Placed(x)
    BY <1>1, <2>1, <2>3 DEF Outcome, Guarded
  <2> QED
    BY <2>1, <2>2, <2>3, <2>4, PlacedLeft
<1>4. ASSUME NEW j \in Jobs, Settled(j) PROVE Settled(j)'
  <2> SUFFICES ASSUME Retired(j)', Calm(j)'
               PROVE  \/ record'[j] \notin Live
                      \/ \E x \in Workers : wjob'[x] = j /\ Evicting(x)'
    BY DEF Settled
  <2>1. Retired(j) /\ Left(j) /\ Calm(j)
    BY <1>1
  <2>2. record[j] \notin Live => record'[j] \notin Live
    BY <2>1 DEF Left, Retired, Live
  <2> QED
    BY <1>4, <2>1, <2>2 DEF Settled
<1> QED
  BY <1>2, <1>3, <1>4 DEF Outcome

\* A worker that rests has no job to place.
LEMMA RestPlaced ==
  ASSUME IType, NEW w \in Workers, Rest(w)
  PROVE  /\ Guarded(w)' /\ wjob' = [wjob EXCEPT ![w] = None]
         /\ \A x \in Workers \ {w} : Still(x)
BY DEF Guarded, Still, Rest, Goto, Decide, IType, TypeOK

\* One that goes on with its job: the others are still.
LEMMA GoStill ==
  ASSUME IType, NEW w \in Workers, NEW p, Goto(w, p),
         UNCHANGED verdict \/ \E v : Decide(w, v),
         UNCHANGED wjob \/ \E j \in Jobs : wjob' = [wjob EXCEPT ![w] = j],
         UNCHANGED seen \/ \E v : seen' = [seen EXCEPT ![w] = v]
  PROVE  pc'[w] = p /\ \A x \in Workers \ {w} : Still(x)
BY DEF Still, Goto, Decide, IType, TypeOK

LEMMA HoldPlaced ==
  ASSUME IType, NEW w \in Workers, Placed(w), pc[w] \in Holding,
         NEW p \in Holding \ {"write"}, pc'[w] = p,
         UNCHANGED <<wjob, submit, record, active>>,
         p \in Past => record[wjob[w]] \notin Live
  PROVE  Placed(w)'
<1>1. p \notin Fixing
  BY DEF Fixing, Holding, Claiming, Executing
<1> QED
  BY <1>1 DEF Placed, Entered, Fixing

\* The requests about a job and the clock.
LEMMA OutcomeAPI ==
  ASSUME Hold, Outcome, NEW j \in Jobs, Submit(j) \/ Cancel(j) \/ Clear(j) \/ Expire(j)
  PROVE  Outcome'
<1>0. IType /\ Marked
  BY DEF Hold, Outcome
<1>1. CASE SubmitRecord(j)
  <2>1. ~Entered(j) /\ UNCHANGED <<redisVars, pc, localVars, heard, cancel, budget, history>>
    BY <1>1 DEF SubmitRecord, Entered
  <2>2. \A i \in Jobs : /\ (Entered(i) => Entered(i)') /\ (Retired(i)' => Retired(i))
                        /\ Entered(i) => record'[i] = record[i]
    BY <1>0, <1>1, <2>1 DEF SubmitRecord, Entered, Retired, IType, TypeOK
  <2>3. Marked' /\ \A i \in Jobs : Left(i)
    BY <1>0, <2>1, <2>2 DEF Marked, Left
  <2> QED
    BY <2>1, <2>2, <2>3, OutcomeAround
<1>2. CASE SubmitEnqueue(j)
  <2>1. /\ UNCHANGED <<active, cancelled, record, pc, localVars, heard, cancel, history>>
        /\ queue' = queue \cup {j}
    BY <1>2 DEF SubmitEnqueue
  <2>2. budget'["lapse"] = budget["lapse"]
    BY <1>0, <1>2 DEF SubmitEnqueue, Spend, IType, TypeOK, Bounded
  <2>3. \A i \in Jobs : (Entered(i) => Entered(i)') /\ (Retired(i)' => Retired(i))
    BY <1>0, <1>2, <2>1 DEF SubmitEnqueue, Entered, Retired, IType, TypeOK
  <2>4. Marked' /\ \A i \in Jobs : Left(i)
    BY <1>0, <2>1, <2>3 DEF Marked, Left
  <2> QED
    BY <2>1, <2>2, <2>3, <2>4, OutcomeAround
<1>3. CASE SubmitRefused(j) \/ SubmitUndo(j)
  <2>1. UNCHANGED <<redisVars, pc, localVars, heard, cancel, history>>
    BY <1>3 DEF SubmitRefused, SubmitUndo
  <2>2. budget'["lapse"] = budget["lapse"]
    BY <1>0, <1>3 DEF SubmitRefused, SubmitUndo, Spend, IType, TypeOK, Bounded
  <2>3. \A i \in Jobs : Entered(i) <=> Entered(i)'
    BY <1>0, <1>3 DEF SubmitRefused, SubmitUndo, Entered, IType, TypeOK
  <2>4. \A i \in Jobs : record'[i] = record[i] \/ record'[i] = "none"
    BY <1>0, <1>3 DEF SubmitRefused, SubmitUndo, IType, TypeOK
  <2>5. \A i \in Jobs : Left(i) /\ (Retired(i)' => Retired(i))
    BY <2>1, <2>3, <2>4 DEF Retired, Left
  <2>6. Marked'
    BY <1>0, <2>1 DEF Marked
  <2> QED
    BY <2>1, <2>2, <2>5, <2>6, OutcomeAround
<1>4. CASE Cancel(j)
  <2>1. /\ UNCHANGED <<pc, wjob, verdict, seen, heard, active, submit, overlapped, budget>>
        /\ cancelled' \subseteq cancelled \cup {j} /\ cancel'[j] # "idle"
        /\ \A i \in Jobs \ {j} : /\ cancel'[i] = cancel[i] /\ record'[i] = record[i]
                                 /\ i \in queue <=> i \in queue'
    BY <1>0, <1>4 DEF Cancel, CancelRead, CancelMark, CancelWrite, IType, TypeOK
  <2>2. Marked'
    BY <1>0, <2>1 DEF Marked, IType, TypeOK
  <2>3. ASSUME NEW i \in Jobs, Calm(i)' PROVE Left(i) /\ (Retired(i)' => Retired(i))
    <3>1. i # j
      BY <2>1, <2>3 DEF Calm
    <3> QED
      BY <2>1, <3>1 DEF Left, Retired, Entered
  <2> QED
    BY <2>1, <2>2, <2>3, OutcomeAround
<1>5. CASE Clear(j)
  <2>1. UNCHANGED <<queue, active, pc, localVars, heard, submit, cancel, history>>
    BY <1>5 DEF Clear, ClearList, ClearDelete, ClearKeys
  <2>2. budget'["lapse"] = budget["lapse"] /\ cancelled' \subseteq cancelled
    BY <1>0, <1>5 DEF Clear, ClearList, ClearDelete, ClearKeys, Spend, IType, TypeOK, Bounded
  <2>3. \A i \in Jobs : record'[i] = record[i] \/ record'[i] = "none"
    BY <1>0, <1>5 DEF Clear, ClearList, ClearDelete, ClearKeys, IType, TypeOK
  <2>4. \A i \in Jobs : Left(i) /\ (Retired(i)' => Retired(i))
    BY <2>1, <2>3 DEF Entered, Retired, Left
  <2>5. Marked'
    BY <1>0, <2>1, <2>2 DEF Marked
  <2> QED
    BY <2>1, <2>2, <2>4, <2>5, OutcomeAround
<1>6. CASE Expire(j)
  BY <1>0, <1>6, OutcomeAround DEF Expire, Entered, Retired, Left, Marked
<1> QED
  BY <1>1, <1>2, <1>3, <1>4, <1>5, <1>6 DEF Submit

\* A recovery: the job goes back to the queue, or is evicted.
LEMMA OutcomeRecover ==
  ASSUME Hold, Hold', Outcome, NEW w \in Workers, NEW j \in Jobs, RecoverLease(w, j)
  PROVE  Outcome'
<1>1. /\ UNCHANGED <<cancelled, cancel, heard, record, submit, budget>>
      /\ ~Evicting(w) /\ Take(w, j) /\ Entered(j) /\ Entered(j)' /\ IType
  BY DEF RecoverLease, Hold, OneHolder, Entry, Entered, Fixing
<1>2. /\ pc'[w] = "fixRead" /\ wjob'[w] = j
      /\ \A x \in Workers \ {w} : Still(x)
  <2>1. Goto(w, "fixRead") /\ UNCHANGED seen /\ \E v : Decide(w, v)
    BY DEF RecoverLease
  <2> QED
    BY <1>1, <2>1, GoStill DEF IType, TypeOK
<1>3. CASE EraseClaim(j) /\ Decide(w, "error") /\ UNCHANGED queue
  <2>1. verdict'[w] = "error" /\ active' = active \ {j}
    BY <1>1, <1>3 DEF EraseClaim, Deactivate, Decide, IType, TypeOK
  <2>2. Guarded(w)' /\ Evicting(w)'
    BY <1>1, <1>2, <2>1 DEF Guarded, Placed, Holding, Claiming, Executing, Fixing, Past
  <2>3. ASSUME NEW i \in Jobs, Settled(i) PROVE Settled(i)'
    <3>1. CASE i = j
      BY <1>2, <2>2, <3>1 DEF Settled
    <3>2. CASE i # j
      <4>1. (Retired(i)' => Retired(i)) /\ (Calm(i)' => Calm(i))
        BY <1>1, <1>3, <2>1, <3>2 DEF Retired, Entered, Calm
      <4>2. \A x \in Workers : wjob[x] = i /\ Evicting(x) => wjob'[x] = i /\ Evicting(x)'
        BY <1>1, <1>2 DEF Still
      <4> QED
        BY <1>1, <2>3, <4>1, <4>2 DEF Settled
    <3> QED
      BY <3>1, <3>2
  <2>4. \A i \in Jobs : i # wjob'[w] => Left(i)
    BY <1>1, <1>2, <1>3, <2>1 DEF Left, Entered
  <2> QED
    BY <1>1, <1>2, <2>2, <2>3, <2>4, OutcomeOwn
<1>4. CASE Requeue(j) /\ Decide(w, "queued")
  <2>1. verdict'[w] = "queued" /\ queue' = queue \cup {j} /\ active' = active \ {j}
    BY <1>1, <1>4 DEF Requeue, Deactivate, Decide, IType, TypeOK
  <2>2. Guarded(w)'
    BY <1>1, <1>2, <2>1 DEF Guarded, Placed, Holding, Claiming, Executing, Fixing, Past
  <2> QED
    BY <1>1, <1>2, <2>1, <2>2, OutcomeCalm
<1> QED
  BY <1>3, <1>4 DEF RecoverLease

\* The record update of a recovery.
LEMMA OutcomeFix ==
  ASSUME Hold, Hold', Outcome, NEW w \in Workers, FixRead(w) \/ FixWrite(w)
  PROVE  Outcome'
<1>0. /\ IType /\ wjob[w] \in Jobs /\ pc[w] \in Fixing /\ pc[w] # "idle"
      /\ Calm(wjob[w]) => Placed(w)
  BY DEF Outcome, Guarded, Hold, IType, LocalsOK, FixRead, FixWrite, Fixing
<1>1. CASE FixRead(w)
  <2>1. /\ UNCHANGED <<cancelled, cancel, heard, record, submit, budget, queue, active, wjob,
                       verdict, overlapped>>
        /\ Goto(w, "fixWrite") /\ seen' = [seen EXCEPT ![w] = record[wjob[w]]]
    BY <1>1 DEF FixRead, Look
  <2>2. /\ pc'[w] = "fixWrite" /\ seen'[w] = record[wjob[w]]
        /\ \A x \in Workers \ {w} : Still(x)
    BY <1>0, <2>1, GoStill DEF IType, TypeOK
  <2>3. Guarded(w)'
    <3> SUFFICES ASSUME Calm(wjob[w]) PROVE Placed(w)'
      BY <2>1 DEF Guarded, Calm
    <3> QED
      BY <1>0, <2>1, <2>2 DEF Placed, Entered, Holding, Claiming, Executing, Fixing, Past,
                              Live, Terminal
  <2>4. ASSUME NEW j \in Jobs, Settled(j) PROVE Settled(j)'
    <3>1. \A x \in Workers : wjob[x] = j /\ Evicting(x) => wjob'[x] = j /\ Evicting(x)'
      BY <1>0, <2>1, <2>2 DEF Still, Fixing
    <3> QED
      BY <2>1, <2>4, <3>1 DEF Settled, Retired, Entered, Calm
  <2>5. \A j \in Jobs : Left(j)
    BY <2>1 DEF Left, Entered
  <2> QED
    BY <2>1, <2>2, <2>3, <2>4, <2>5, OutcomeOwn
<1>2. CASE FixWrite(w)
  <2>1. /\ UNCHANGED <<cancelled, cancel, heard, submit, budget, queue, active, overlapped>>
        /\ Rest(w) /\ UpsertIfLive(w, wjob[w], verdict[w]) /\ pc[w] = "fixWrite"
    BY <1>2 DEF FixWrite
  <2>2. \A j \in Jobs : /\ j # wjob[w] => record'[j] = record[j]
                        /\ j = wjob[w] => IF seen[w] \in Live THEN record'[j] = verdict[w]
                                                             ELSE record'[j] = record[j]
    BY <1>0, <2>1 DEF UpsertIfLive, IType, TypeOK
  <2>3. /\ Guarded(w)' /\ wjob' = [wjob EXCEPT ![w] = None]
        /\ \A x \in Workers \ {w} : Still(x)
    BY <1>0, <2>1, RestPlaced
  <2>4. ASSUME NEW j \in Jobs, Settled(j) PROVE Settled(j)'
    <3>0. \A x \in Workers \ {w} : wjob[x] = j /\ Evicting(x) => wjob'[x] = j /\ Evicting(x)'
      BY <2>3 DEF Still
    <3> SUFFICES ASSUME Retired(j)', Calm(j)', record'[j] \in Live
                 PROVE  \E x \in Workers : wjob'[x] = j /\ Evicting(x)'
      BY DEF Settled
    <3>1. Retired(j) /\ Calm(j)
      BY <2>1 DEF Retired, Entered, Calm
    <3>2. CASE j = wjob[w]
      <4>1. Placed(w)
        BY <1>0, <3>1, <3>2
      <4>2. CASE seen[w] \in Live
        <5>1. verdict[w] = "queued" /\ wjob[w] \in queue
          BY <1>0, <2>1, <2>2, <3>2, <4>1, <4>2 DEF Placed, Live
        <5> QED
          BY <3>1, <3>2, <5>1 DEF Retired
      <4>3. CASE seen[w] \notin Live
        BY <2>1, <2>2, <3>2, <4>1, <4>3 DEF Placed
      <4> QED
        BY <4>2, <4>3
    <3>3. CASE j # wjob[w]
      <4>1. record[j] \in Live
        BY <2>2, <3>3
      <4> QED
        BY <2>4, <3>0, <3>1, <3>3, <4>1 DEF Settled
    <3> QED
      BY <3>2, <3>3
  <2>5. \A j \in Jobs : j # wjob[w] => Left(j)
    BY <2>1, <2>2 DEF Left, Entered
  <2> QED
    BY <2>1, <2>3, <2>4, <2>5, OutcomeOwn
<1> QED
  BY <1>1, <1>2

\* A claim takes its job from the queue to the active set and purges jobs with a
\* terminal record or a mark.
LEMMA OutcomeClaim ==
  ASSUME Hold, Hold', Outcome, NEW w \in Workers,
         ClaimNothing(w) \/ \E j \in Jobs : Claim(w, j)
  PROVE  Outcome'
<1>0. /\ \A d \in Jobs : ~Claimable(d) /\ Calm(d) => record[d] \in Terminal
      /\ pc[w] = "idle" /\ ~Evicting(w) /\ queue \cup active \subseteq Jobs /\ IType
  BY DEF Claimable, Outcome, Marked, Calm, Hold, IType, TypeOK, ClaimNothing, Claim, Fixing
<1>1. \A d \in Jobs : record[d] \in Terminal => record[d] \notin Live
  BY DEF Live, Terminal
<1>2. CASE ClaimNothing(w)
  <2>1. /\ UNCHANGED <<cancelled, cancel, heard, record, submit, active, budget, pc, wjob,
                       verdict, seen, overlapped>>
        /\ \A d \in queue : ~Claimable(d)
    BY <1>2 DEF ClaimNothing
  <2>2. Guarded(w)' /\ \A x \in Workers : Still(x)
    BY <1>0, <2>1 DEF Guarded, Still
  <2> QED
    BY <1>0, <1>1, <2>1, <2>2, OutcomeCalm
<1>3. ASSUME NEW j \in Jobs, Claim(w, j) PROVE Outcome'
  <2>1. /\ UNCHANGED <<cancelled, cancel, heard, record, submit, budget>>
        /\ active' = active \cup {j} /\ Entered(j) /\ Take(w, j)
        /\ \A d \in queue : d \in queue' \/ d = j \/ ~Claimable(d)
    BY <1>3 DEF Claim, Hold, Entry
  <2>2. PICK p \in {"claimed", "claimedBare"} : Goto(w, p) /\ UNCHANGED <<verdict, seen>>
    BY <1>3 DEF Claim
  <2>3. wjob'[w] = j /\ pc'[w] = p /\ \A x \in Workers \ {w} : Still(x)
    BY <1>0, <2>1, <2>2, GoStill DEF IType, TypeOK
  <2>4. Guarded(w)'
    BY <2>1, <2>2, <2>3 DEF Guarded, Placed, Entered, Fixing, Past
  <2> QED
    BY <1>0, <1>1, <2>1, <2>3, <2>4, OutcomeCalm
<1> QED
  BY <1>2, <1>3

\* An execution goes on with its job, and no key or record changes.
LEMMA OutcomeMove ==
  ASSUME Hold, Hold', Outcome, NEW w \in Workers, pc[w] \in Holding,
         UNCHANGED <<cancelled, cancel, heard, record, submit, budget, queue, active, wjob,
                     overlapped>>,
         UNCHANGED verdict \/ \E v : Decide(w, v), UNCHANGED seen,
         NEW p \in Holding \ {"write"}, Goto(w, p),
         Calm(wjob[w]) /\ p \in Past => record[wjob[w]] \notin Live
  PROVE  Outcome'
<1>1. pc'[w] = p /\ \A x \in Workers \ {w} : Still(x)
  BY GoStill DEF Hold
<1>2. Guarded(w)'
  <2> SUFFICES ASSUME Calm(wjob[w]) PROVE Placed(w)'
    BY DEF Guarded, Calm
  <2>1. Placed(w)
    BY DEF Outcome, Guarded, Holding, Claiming, Executing
  <2> QED
    BY <1>1, <2>1, HoldPlaced DEF Hold
<1>3. ~Evicting(w)
  BY DEF Fixing, Holding, Claiming, Executing
<1> QED
  BY <1>1, <1>2, <1>3, OutcomeCalm

\* The execution is over, its claim too if the record is not live.
LEMMA OutcomeRest ==
  ASSUME Hold, Hold', Outcome, NEW w \in Workers, ~Evicting(w), Rest(w),
         UNCHANGED <<cancelled, cancel, heard, record, submit, queue, overlapped>>,
         budget'["lapse"] = budget["lapse"],
         \/ active' = active
         \/ active' = active \ {wjob[w]} /\ (Calm(wjob[w]) => record[wjob[w]] \notin Live)
  PROVE  Outcome'
<1>1. /\ Guarded(w)' /\ wjob' = [wjob EXCEPT ![w] = None]
      /\ \A x \in Workers \ {w} : Still(x)
  BY RestPlaced DEF Hold
<1> QED
  BY <1>1, OutcomeCalm

\* Its claim is finished, and the outcome is to be announced.
LEMMA OutcomeFinish ==
  ASSUME Hold, Hold', Outcome, NEW w \in Workers, pc[w] \in Past, pc[w] \in Holding,
         FinishLease(w, wjob[w]),
         UNCHANGED <<cancelled, cancel, heard, record, submit, budget, queue, overlapped>>,
         \/ Rest(w)
         \/ /\ Goto(w, "announce") /\ UNCHANGED <<wjob, seen>>
            /\ UNCHANGED verdict \/ \E v : Decide(w, v)
  PROVE  Outcome'
<1>1. /\ Calm(wjob[w]) => record[wjob[w]] \notin Live /\ Entered(wjob[w])
      /\ ~Evicting(w) /\ (active' = active \/ active' = active \ {wjob[w]})
  BY DEF Outcome, Guarded, Placed, Past, Fixing, Holding, Claiming, Executing, FinishLease,
         EraseClaim, Deactivate
<1>2. CASE Rest(w)
  BY <1>1, <1>2, OutcomeRest
<1>3. CASE ~Rest(w)
  <2>1. pc'[w] = "announce" /\ \A x \in Workers \ {w} : Still(x)
    BY <1>3, GoStill DEF Hold
  <2>2. Guarded(w)'
    BY <1>1, <1>3, <2>1 DEF Guarded, Placed, Entered, Holding, Claiming, Executing, Fixing,
                            Past, Calm
  <2> QED
    BY <1>1, <1>3, <2>1, <2>2, OutcomeCalm
<1> QED
  BY <1>2, <1>3

\* The rest of claim().
LEMMA OutcomeClaimed ==
  ASSUME Hold, Hold', Outcome, NEW w \in Workers,
         ClaimCancelled(w) \/ ClaimPayload(w) \/ ClaimInvalid(w)
  PROVE  Outcome'
<1>1. CASE ClaimCancelled(w)
  <2>1. /\ Rest(w) /\ ~Calm(wjob[w]) /\ ~Evicting(w) /\ FinishLease(w, wjob[w])
        /\ UNCHANGED <<cancelled, cancel, heard, record, submit, queue, overlapped, budget>>
    BY <1>1 DEF ClaimCancelled, Outcome, Marked, Calm, Fixing
  <2>2. active' = active \/ active' = active \ {wjob[w]}
    BY <2>1 DEF FinishLease, EraseClaim, Deactivate
  <2> QED
    BY <2>1, <2>2, OutcomeRest
<1>2. CASE ClaimPayload(w)
  <2>1. PICK p \in {"invalid", "start"} :
          Goto(w, p) /\ (p = "invalid" => record[wjob[w]] = "none")
    BY <1>2 DEF ClaimPayload
  <2>2. /\ pc[w] \in Holding /\ p \in Holding \ {"write"}
        /\ p \in Past => record[wjob[w]] \notin Live
    BY <1>2, <2>1 DEF ClaimPayload, Holding, Claiming, Executing, Past, Live
  <2>3. UNCHANGED <<cancelled, cancel, heard, record, submit, budget, queue, active, wjob,
                    verdict, seen, overlapped>>
    BY <1>2 DEF ClaimPayload
  <2> QED
    BY <2>1, <2>2, <2>3, OutcomeMove
<1>3. CASE ClaimInvalid(w)
  <2>1. pc[w] \in Past /\ pc[w] \in Holding
    BY <1>3 DEF ClaimInvalid, Past, Holding, Claiming
  <2> QED
    BY <1>3, <2>1, OutcomeFinish DEF ClaimInvalid
<1> QED
  BY <1>1, <1>2, <1>3

\* _execute_job up to the outcome.
LEMMA OutcomeRun ==
  ASSUME Hold, Hold', Outcome, NEW w \in Workers,
         \/ StartRead(w) \/ Drop(w) \/ RunnerReturns(w) \/ RunnerRaises(w)
         \/ CheckSettled(w) \/ CheckRaised(w) \/ Store(w)
  PROVE  Outcome'
<1>1. ~Evicting(w) /\ (Calm(wjob[w]) => Placed(w))
  BY DEF Fixing, Outcome, Guarded, StartRead, Drop, RunnerReturns, RunnerRaises,
         CheckSettled, CheckRaised, Store
<1>2. UNCHANGED <<cancelled, cancel, heard, record, submit, budget, queue, overlapped>>
  BY DEF StartRead, Drop, RunnerReturns, RunnerRaises, CheckSettled, CheckRaised, Store
<1>3. CASE Rest(w)
  <2>1. \/ active' = active
        \/ active' = active \ {wjob[w]} /\ (Calm(wjob[w]) => record[wjob[w]] \notin Live)
    BY <1>1 DEF StartRead, Drop, RunnerReturns, RunnerRaises, CheckSettled, CheckRaised, Store,
                EraseClaim, Deactivate, Placed, Past
  <2> QED
    BY <1>1, <1>2, <1>3, <2>1, OutcomeRest
<1>4. CASE ~Rest(w)
  <2>1. /\ pc[w] \in Holding /\ UNCHANGED <<active, wjob, seen>>
        /\ UNCHANGED verdict \/ \E v : Decide(w, v)
    BY <1>4 DEF StartRead, Drop, RunnerReturns, RunnerRaises, CheckSettled, CheckRaised, Store,
                Holding, Executing
  <2>2. PICK p \in {"startWrite", "drop", "settled", "raised", "store", "read"} :
          Goto(w, p) /\ (p = "drop" => record[wjob[w]] \notin Live)
    BY <1>4 DEF StartRead, Drop, RunnerReturns, RunnerRaises, CheckSettled, CheckRaised, Store
  <2>3. p \in Holding \ {"write"} /\ (p \in Past => record[wjob[w]] \notin Live)
    BY <2>2 DEF Holding, Executing, Past
  <2> QED
    BY <1>2, <2>1, <2>2, <2>3, OutcomeMove
<1> QED
  BY <1>3, <1>4

\* The records an execution writes, and what it reads before: a running job is
\* still claimed, and a terminal record comes before the acknowledgement.
LEMMA OutcomePersist ==
  ASSUME Hold, Hold', Outcome, NEW w \in Workers, StartWrite(w) \/ Read(w) \/ Write(w)
  PROVE  Outcome'
<1>0. /\ IType /\ wjob[w] \in Jobs /\ ~Evicting(w)
      /\ Calm(wjob[w]) => Placed(w) /\ wjob[w] \in active
  BY DEF Outcome, Guarded, Placed, Hold, IType, LocalsOK, StartWrite, Read, Write, Fixing,
         Holding, Executing
<1>1. UNCHANGED <<cancelled, cancel, heard, submit, budget, queue, active, wjob, verdict,
                  overlapped>>
  BY DEF StartWrite, Read, Write
<1>2. \A j \in Jobs \ {wjob[w]} : record'[j] = record[j]
  BY <1>0 DEF StartWrite, Read, Write, UpsertIfLive, IType, TypeOK
<1>3. \A x \in Workers \ {w} : Still(x)
  BY <1>0, GoStill DEF StartWrite, Read, Write, Look
<1>4. ASSUME NEW j \in Jobs, Settled(j) PROVE Settled(j)'
  <2>1. CASE j = wjob[w]
    BY <1>0, <1>1, <2>1 DEF Settled, Retired, Calm
  <2>2. CASE j # wjob[w]
    <3>1. \A x \in Workers : wjob[x] = j /\ Evicting(x) => wjob'[x] = j /\ Evicting(x)'
      BY <1>0, <1>1, <1>3 DEF Still
    <3> QED
      BY <1>0, <1>1, <1>2, <1>4, <2>2, <3>1 DEF Settled, Retired, Entered, Calm
  <2> QED
    BY <2>1, <2>2
<1>5. \A j \in Jobs : j # wjob[w] => Left(j)
  BY <1>1, <1>2 DEF Left, Entered
<1>6. Guarded(w)'
  <2> SUFFICES ASSUME Calm(wjob[w]) PROVE Placed(w)'
    BY <1>1 DEF Guarded, Calm
  <2>0. Placed(w) /\ wjob[w] \in active
    BY <1>0
  <2>1. CASE StartWrite(w)
    <3>1. pc'[w] = "running"
      BY <1>0, <2>1 DEF StartWrite, Goto, IType, TypeOK
    <3> QED
      BY <1>1, <2>0, <3>1 DEF Placed, Entered, Fixing, Past
  <2>2. CASE Read(w)
    <3>1. pc'[w] = "write" /\ seen'[w] = record[wjob[w]] /\ record' = record
      BY <1>0, <2>2 DEF Read, Look, Goto, IType, TypeOK
    <3> QED
      BY <1>1, <2>0, <3>1 DEF Placed, Entered, Fixing, Past
  <2>3. CASE Write(w)
    <3>1. pc'[w] = "ack" /\ verdict[w] \in Terminal /\ pc[w] = "write"
      BY <1>0, <2>3 DEF Write, Goto, IType, TypeOK, LocalsOK, Decided
    <3>2. record'[wjob[w]] \notin Live
      <4>1. CASE seen[w] \in Live
        BY <1>0, <2>3, <3>1, <4>1 DEF Write, UpsertIfLive, IType, TypeOK, Live, Terminal
      <4>2. CASE seen[w] \notin Live
        BY <2>0, <2>3, <3>1, <4>2 DEF Write, UpsertIfLive, Placed
      <4> QED
        BY <4>1, <4>2
    <3> QED
      BY <1>1, <2>0, <3>1, <3>2 DEF Placed, Entered, Fixing, Past
  <2> QED
    BY <2>1, <2>2, <2>3
<1> QED
  BY <1>1, <1>3, <1>4, <1>5, <1>6, OutcomeOwn

LEMMA OutcomeWork ==
  ASSUME Hold, Hold', Outcome, NEW w \in Workers, Work(w)
  PROVE  Outcome'
<1>1. CASE Ack(w)
  <2>1. pc[w] \in Past /\ pc[w] \in Holding
    BY <1>1 DEF Ack, Past, Holding, Executing
  <2> QED
    BY <1>1, <2>1, OutcomeFinish DEF Ack
<1>2. CASE Announce(w)
  <2>1. ~Evicting(w)
    BY <1>2 DEF Announce, Fixing
  <2> QED
    BY <1>2, <2>1, OutcomeRest DEF Announce
<1> QED
  BY <1>1, <1>2, OutcomeRecover, OutcomeClaim, OutcomeFix, OutcomeClaimed, OutcomeRun,
     OutcomePersist DEF Work, Execute

\* A lease is renewed, or the execution ends where it stands.
LEMMA OutcomeBreak ==
  ASSUME Hold, Hold', Outcome, NEW w \in Workers, Renew(w) \/ Crash(w) \/ Drain(w)
  PROVE  Outcome'
<1>0. IType /\ Marked /\ OwnersAssumption!1 /\ Guarded(w)
  BY OwnersAssumption DEF Hold, Outcome
<1>1. CASE Renew(w)
  BY <1>0, <1>1, OutcomeAround DEF Renew, Entered, Retired, Left, Marked
<1>2. CASE Crash(w)
  <2>1. /\ Rest(w) /\ UNCHANGED <<queue, active, cancelled, record, submit, cancel, overlapped>>
        /\ Spend(IF Evicting(w) THEN "lapse" ELSE "crash")
    BY <1>2 DEF Crash
  <2>2. Marked'
    <3>1. \A x \in Workers : \A j \in heard'[x] : j \in heard[x] \/ j \in cancelled
      BY <1>0, <1>2 DEF Crash, IType, TypeOK
    <3> QED
      BY <1>0, <2>1, <3>1 DEF Marked
  <2>3. /\ wjob' = [wjob EXCEPT ![w] = None] /\ Guarded(w)'
        /\ \A x \in Workers \ {w} : Still(x)
    BY <1>0, <2>1, RestPlaced
  <2>4. Apart' /\ \A x \in Workers : Guarded(x)'
    <3>1. \A x \in Workers : wjob'[x] = IF x = w THEN None ELSE wjob[x]
      BY <1>0, <2>3 DEF IType, TypeOK
    <3>2. Apart'
      BY <1>0, <2>1, <3>1 DEF Outcome, Apart
    <3>3. ASSUME NEW x \in Workers \ {w} PROVE Guarded(x)'
      <4>1. PICK j \in Jobs \cup {None} : j = wjob[x]
        BY <1>0 DEF IType, TypeOK
      <4>2. wjob'[x] = j /\ Still(x)
        BY <2>3, <4>1 DEF Still
      <4> SUFFICES ASSUME pc'[x] # "idle", Calm(j)' PROVE Placed(x)'
        BY <4>2 DEF Guarded, Calm
      <4>3. Placed(x) /\ Left(j)
        BY <2>1, <4>1, <4>2 DEF Still, Calm, Left, Entered, Outcome, Guarded
      <4> QED
        BY <4>1, <4>2, <4>3, PlacedLeft
    <3> QED
      BY <2>3, <3>2, <3>3
  <2>5. CASE Evicting(w)
    <3>1. /\ budget["lapse"] \in Nat /\ budget["lapse"] > 0
          /\ budget'["lapse"] = budget["lapse"] - 1
      BY <1>0, <2>1, <2>5 DEF Spend, IType, TypeOK, Bounded
    <3>2. MaxLapses \in Nat /\ budget["lapse"] <= MaxLapses
      BY BoundsAssumption DEF Outcome
    <3>3. budget'["lapse"] <= MaxLapses /\ budget'["lapse"] # MaxLapses
      BY <3>1, <3>2
    <3> QED
      BY <2>2, <2>4, <3>3 DEF Outcome
  <2>6. CASE ~Evicting(w)
    <3>1. budget'["lapse"] = budget["lapse"]
      BY <1>0, <2>1, <2>6 DEF Spend, IType, TypeOK, Bounded
    <3>2. ASSUME NEW j \in Jobs, Settled(j) PROVE Settled(j)'
      <4>1. \A x \in Workers : wjob[x] = j /\ Evicting(x) => wjob'[x] = j /\ Evicting(x)'
        BY <2>3, <2>6 DEF Still
      <4> QED
        BY <2>1, <3>2, <4>1 DEF Settled, Retired, Entered, Calm
    <3> QED
      BY <2>2, <2>4, <3>1, <3>2 DEF Outcome
  <2> QED
    BY <2>5, <2>6
<1>3. CASE Drain(w)
  <2>1. /\ UNCHANGED <<cancelled, record, submit, cancel, heard, overlapped>>
        /\ ~Evicting(w) /\ wjob[w] \in Jobs /\ pc[w] # "idle"
    BY <1>0, <1>3 DEF Drain, Executing, Fixing, IType, LocalsOK
  <2>2. budget'["lapse"] = budget["lapse"]
    BY <1>0, <1>3 DEF Drain, Spend, IType, TypeOK, Bounded
  <2>3. CASE /\ Requeue(wjob[w]) /\ Decide(w, "queued") /\ Goto(w, "fixRead") /\ UNCHANGED wjob
             /\ seen' = [seen EXCEPT ![w] = "none"]
    <3>1. /\ pc'[w] = "fixRead" /\ \A x \in Workers \ {w} : Still(x)
      BY <1>0, <2>3, GoStill
    <3>2. /\ verdict'[w] = "queued" /\ wjob'[w] = wjob[w]
          /\ queue' = queue \cup {wjob[w]} /\ active' = active \ {wjob[w]}
      BY <1>0, <2>3 DEF Decide, Requeue, Deactivate, IType, TypeOK
    <3>3. Guarded(w)'
      BY <1>0, <2>1, <3>1, <3>2 DEF Guarded, Placed, Entered, Calm, Holding, Claiming,
                                    Executing, Fixing, Past
    <3> QED
      BY <2>1, <2>2, <2>3, <3>1, <3>2, <3>3, OutcomeCalm
  <2>4. CASE Rest(w) /\ UNCHANGED <<queue, active>>
    BY <2>1, <2>2, <2>4, OutcomeRest
  <2> QED
    BY <1>3, <2>3, <2>4 DEF Drain
<1> QED
  BY <1>1, <1>2, <1>3

LEMMA OutcomeStep == Hold /\ Hold' /\ Outcome /\ [Next]_vars => Outcome'
<1> SUFFICES ASSUME Hold, Hold', Outcome, [Next]_vars PROVE Outcome'
  OBVIOUS
<1>1. CASE UNCHANGED vars
  <2>1. Marked' /\ \A j \in Jobs : Left(j)
    BY <1>1 DEF vars, Outcome, Marked, Left, Entered
  <2> QED
    BY <1>1, <2>1, OutcomeAround DEF vars, Entered, Retired
<1>2. ASSUME NEW w \in Workers, NEW j \in Jobs, Hear(w, j) PROVE Outcome'
  <2>1. Marked'
    BY <1>2 DEF Hear, Outcome, Marked, Hold, IType, TypeOK
  <2>2. \A i \in Jobs : Left(i)
    BY <1>2 DEF Hear, Left, Entered
  <2> QED
    BY <1>2, <2>1, <2>2, OutcomeAround DEF Hear, Entered, Retired
<1> QED
  BY <1>1, <1>2, OutcomeAPI, OutcomeWork, OutcomeBreak DEF Next

LEMMA InitOutcome == Init => Outcome
<1> SUFFICES ASSUME Init PROVE Outcome
  OBVIOUS
<1>1. Marked /\ budget["lapse"] = MaxLapses /\ MaxLapses <= MaxLapses
  BY BoundsAssumption DEF Init, Marked, Bounded
<1>2. Apart /\ \A w \in Workers : Guarded(w)
  BY OwnersAssumption DEF Init, Apart, Guarded
<1>3. \A j \in Jobs : Settled(j)
  BY DEF Init, Settled, Retired, Entered
<1> QED
  BY <1>1, <1>2, <1>3 DEF Outcome

\* With any number of worker loops, however many crash, drain, expire or recover
\* jobs, clears and failed submissions: a job that has left the queue for good has a
\* record that is not live once nobody works on it, unless two loops had it in hand
\* at the same time or a user asked to cancel it.  Only a crash between a
\* recovery's eviction of the job and its record loses the outcome otherwise (a
\* lapse, see EvictedEndsInError).
THEOREM OutcomeKept == Spec => []RetiredHasOutcome
<1>1. Hold /\ Outcome => RetiredHasOutcome
  BY DEF Outcome, Settled, RetiredHasOutcome, Forgotten, Quiet, Calm
<1>2. Hold /\ Hold' /\ Outcome /\ [Next]_vars => Outcome'
  BY OutcomeStep
<1> QED
  BY InitHold, HoldStep, InitOutcome, <1>1, <1>2, PTL DEF Spec
=============================================================================
