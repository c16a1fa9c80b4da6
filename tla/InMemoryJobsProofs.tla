------------------------- MODULE InMemoryJobsProofs -------------------------
(***************************************************************************)
(* Proofs about InMemoryJobs, for any set of jobs, any number of restarts  *)
(* and any number of failing calls.                                        *)
(***************************************************************************)
EXTENDS InMemoryJobs, TLAPS

-----------------------------------------------------------------------------
(* The inductive invariant.                                                *)

\* The worker runs only while the service is up; a write outlives its task only
\* across a shutdown; a booting process has a fresh queue.
Process ==
  /\ phase # "up" => wpc = "idle"
  /\ phase \in {"up", "boot", "bootSweep"} => ghost = Nothing
  /\ phase \notin Sweeping => page = Nothing
  /\ phase \in {"boot", "bootSweep"} => fifo = <<>>

\* The queue, the worker, a sweep or a late write is about the job.
Involved(j) == Pending(j) \/ cur = j \/ page[j] # "none" \/ ghost[j] # "none"

\* A job is in the queue once, and no longer when the worker has it; nothing is
\* known of a job that was not submitted.
Once ==
  /\ \A a, b \in 1..Len(fifo) : fifo[a] = fifo[b] => a = b
  /\ \A a \in 1..Len(fifo) : fifo[a] # cur
  /\ \A j \in Jobs \ submitted : /\ ~Involved(j) /\ record[j] = "none"
                                 /\ told[j] = <<>> /\ cancel[j] = "idle"

\* pcs of an upsert that depends on the record read before.
Upserting == {"complete", "cancelWrite", "failWrite", "handlerWrite"}

\* What a sweep has listed is all there is to close, and a record that the worker
\* found closed stays closed.
Closing ==
  /\ phase = "bootSweep" => \A j \in Jobs : record[j] \in Live => page[j] # "none"
  /\ wpc \in Upserting /\ seen \notin Live => record[cur] \notin Live

\* The worker will complete the job it has, unless a call fails.
Delivering == {"put", "getDone", "complete"}

\* The worker has not yet asked whether the job is cancelled.
Unchecked == {"get", "start", "running"}

\* A job whose cancellation was read as queued is in the cancelled set until the
\* worker has looked, and neither the worker nor a late write completes it.
Stopped(j) ==
  /\ cur = j => wpc \notin Delivering
  /\ record[j] # "complete" /\ ghost[j] # "complete" /\ ~Completed(j)
  /\ phase = "up" /\ (Pending(j) \/ (cur = j /\ wpc \in Unchecked)) => j \in cancelled

\* What holds of a job that was not cleared.
Kept(j) ==
  /\ cancel[j] \in {"toWrite", "acked"} => Stopped(j)
  /\ Completed(j) => record[j] = "complete" /\ Len(told[j]) = 1 /\ ~Involved(j)
  /\ told[j] # <<>> /\ (Pending(j) \/ cur = j) => cancel[j] = "acked"
  /\ record[j] = "queued" => ~(cur = j /\ wpc \in {"running"} \cup Delivering)
  /\ wpc = "complete" /\ cur = j => seen # "none"
  /\ j \in submitted => record[j] # "none"

Outcomes == \A j \in Jobs : clear[j] # "deleted" => Kept(j)

Inv == TypeOK /\ Process /\ Once /\ Closing /\ NoStranded /\ Outcomes
-----------------------------------------------------------------------------
(* Type correctness.                                                       *)

LEMMA InitType == Init => TypeOK
BY BoundsAssumption, JobsAssumption
   DEF Init, TypeOK, Budget, Nothing, Bounded, Status, Live, Listing

USE DEF storeVars, queueVars, workerVars, apiVars, processVars, historyVars

LEMMA SpendType ==
  ASSUME budget \in [Bounded -> Nat], NEW e \in {"restart", "fault"}, Spend(e)
  PROVE  budget' \in [Bounded -> Nat]
BY DEF Spend, Bounded

\* A terminal event is appended to those of job j.
LEMMA TellType ==
  ASSUME told \in [Jobs -> Seq(Terminal)], NEW j \in Jobs, NEW v \in Terminal,
         told' = [told EXCEPT ![j] = Append(@, v)]
  PROVE  told' \in [Jobs -> Seq(Terminal)]
OBVIOUS

LEMMA TypeStep == TypeOK /\ [Next]_vars => TypeOK'
<1> SUFFICES ASSUME TypeOK, [Next]_vars PROVE TypeOK'
  OBVIOUS
<1> USE JobsAssumption DEF TypeOK, Status, Live, Terminal, Processing, Handling
<1>1. ASSUME NEW j \in Jobs, Submit(j) PROVE TypeOK'
  BY <1>1 DEF Submit
<1>2. ASSUME NEW j \in Jobs, CancelRead(j) PROVE TypeOK'
  BY <1>2 DEF CancelRead
<1>3. ASSUME NEW j \in Jobs, CancelWrite(j) PROVE TypeOK'
  <2>1. told' \in [Jobs -> Seq(Terminal)]
    BY <1>3, TellType DEF CancelWrite
  <2> QED
    BY <1>3, <2>1 DEF CancelWrite
<1>4. ASSUME NEW j \in Jobs, CancelFails(j) PROVE TypeOK'
  BY <1>4, SpendType DEF CancelFails
<1>5. ASSUME NEW j \in Jobs, ClearList(j) \/ ClearDelete(j) PROVE TypeOK'
  BY <1>5 DEF ClearList, ClearDelete
<1>6. ASSUME NEW j \in Jobs, GhostLands(j) \/ GhostLost(j) PROVE TypeOK'
  <2>1. CASE GhostLands(j)
    BY <2>1 DEF GhostLands
  <2>2. CASE GhostLost(j)
    BY <2>2 DEF GhostLost
  <2> QED
    BY <1>6, <2>1, <2>2
<1>7. CASE Take
  BY <1>7 DEF Take
<1>8. CASE Get \/ Start \/ Put \/ GetDone \/ MarkRead \/ FailRead
  BY <1>8 DEF Get, Start, Put, GetDone, MarkRead, FailRead, Look, Idle
<1>9. CASE RunnerReturns \/ RunnerRaises
  BY <1>9 DEF RunnerReturns, RunnerRaises, ToCancel
<1>10. CASE Complete
  <2>1. cur \in Jobs
    BY <1>10 DEF Complete
  <2>2. told' \in [Jobs -> Seq(Terminal)]
    BY <1>10, <2>1, TellType DEF Complete
  <2> QED
    BY <1>10, <2>1, <2>2 DEF Complete, Idle
<1>11. CASE MarkWrite
  <2>1. cur \in Jobs
    BY <1>11 DEF MarkWrite
  <2>2. told' \in [Jobs -> Seq(Terminal)]
    BY <1>11, <2>1, TellType DEF MarkWrite
  <2> QED
    BY <1>11, <2>1, <2>2 DEF MarkWrite, UpsertIfLive, Idle
<1>12. CASE FailWrite
  <2>1. cur \in Jobs
    BY <1>12 DEF FailWrite
  <2>2. told' \in [Jobs -> Seq(Terminal)]
    BY <1>12, <2>1, TellType DEF FailWrite
  <2> QED
    BY <1>12, <2>1, <2>2 DEF FailWrite, UpsertIfLive, Idle
<1>13. CASE Raises \/ HandlerRaises
  BY <1>13, SpendType DEF Raises, HandlerRaises, Idle
<1>14. CASE SweepList
  BY <1>14 DEF SweepList, Listing, Sweeping
<1>15. ASSUME NEW j \in Jobs, SweepJob(j) PROVE TypeOK'
  BY <1>15 DEF SweepJob
<1>16. CASE SweepEnd
  BY <1>16 DEF SweepEnd, Listing, Sweeping
<1>17. CASE SweepFails
  BY <1>17, SpendType DEF SweepFails, Nothing
<1>18. CASE Shutdown
  <2>1. Awaited \in Status
    BY DEF Awaited
  <2> QED
    BY <1>18, <2>1, SpendType DEF Shutdown, Idle, Listing
<1>19. CASE Crash
  BY <1>19, SpendType DEF Crash, Idle, Nothing
<1>20. CASE Boot
  BY <1>20 DEF Boot, Listing
<1>21. CASE UNCHANGED vars
  BY <1>21 DEF vars
<1> QED
  BY <1>1, <1>2, <1>3, <1>4, <1>5, <1>6, <1>7, <1>8, <1>9, <1>10, <1>11, <1>12,
     <1>13, <1>14, <1>15, <1>16, <1>17, <1>18, <1>19, <1>20, <1>21
     DEF Next, Work, Sweep

\* Every reachable state of the in-process queue is type-correct.
THEOREM TypeCorrect == Spec => []TypeOK
BY InitType, TypeStep, PTL DEF Spec
-----------------------------------------------------------------------------
(* The queue.                                                              *)

LEMMA SamePending == ASSUME UNCHANGED fifo, NEW j PROVE Pending(j)' <=> Pending(j)
BY DEF Pending

LEMMA AppendPending ==
  ASSUME TypeOK, NEW j \in Jobs, fifo' = Append(fifo, j)
  PROVE  \A i \in Jobs : Pending(i)' <=> (Pending(i) \/ i = j)
<1>1. /\ Len(fifo') = Len(fifo) + 1 /\ fifo'[Len(fifo) + 1] = j
      /\ \A a \in 1..Len(fifo) : fifo'[a] = fifo[a]
      /\ Len(fifo) \in Nat
  BY DEF TypeOK
<1> QED
  BY <1>1 DEF Pending

\* Popping keeps the jobs of the queue distinct.
LEMMA TailOnce ==
  ASSUME TypeOK, Once, fifo # <<>>, fifo' = Tail(fifo)
  PROVE  /\ \A a, b \in 1..Len(fifo') : fifo'[a] = fifo'[b] => a = b
         /\ \A a \in 1..Len(fifo') : fifo'[a] # Head(fifo)
<1>1. /\ Len(fifo) \in Nat /\ Len(fifo) > 0 /\ Head(fifo) = fifo[1]
      /\ Len(fifo') = Len(fifo) - 1
      /\ \A a \in 1..Len(fifo') : fifo'[a] = fifo[a + 1] /\ a + 1 \in 1..Len(fifo)
  BY DEF TypeOK
<1> QED
  BY <1>1 DEF Once

\* The head is no longer in the queue, the others still are.
LEMMA TailPending ==
  ASSUME TypeOK, Once, fifo # <<>>, fifo' = Tail(fifo), NEW h, h = Head(fifo)
  PROVE  /\ h \in Jobs /\ Pending(h) /\ ~Pending(h)'
         /\ \A i \in Jobs \ {h} : Pending(i)' <=> Pending(i)
<1>1. /\ Len(fifo) \in Nat /\ Len(fifo) > 0 /\ h = fifo[1]
      /\ Len(fifo') = Len(fifo) - 1
      /\ \A a \in 1..Len(fifo') : fifo'[a] = fifo[a + 1]
  BY DEF TypeOK
<1>2. h \in Jobs /\ Pending(h)
  BY <1>1 DEF TypeOK, Pending
<1>3. ~Pending(h)'
  BY TailOnce DEF Pending
<1>4. ASSUME NEW i \in Jobs \ {h} PROVE Pending(i)' <=> Pending(i)
  <2>1. Pending(i)' => Pending(i)
    BY <1>1 DEF Pending
  <2>2. ASSUME Pending(i) PROVE Pending(i)'
    <3>1. PICK a \in 1..Len(fifo) : fifo[a] = i
      BY <2>2 DEF Pending
    <3>2. a # 1 /\ a - 1 \in 1..Len(fifo')
      BY <1>1, <3>1
    <3>3. fifo'[a - 1] = i
      BY <1>1, <3>1, <3>2
    <3> QED
      BY <3>2, <3>3 DEF Pending
  <2> QED
    BY <2>1, <2>2
<1> QED
  BY <1>2, <1>3, <1>4

\* A job appended that was neither in the queue nor with the worker.
LEMMA AppendOnce ==
  ASSUME TypeOK, Once, NEW j \in Jobs, ~Pending(j), j # cur, fifo' = Append(fifo, j)
  PROVE  /\ \A a, b \in 1..Len(fifo') : fifo'[a] = fifo'[b] => a = b
         /\ \A a \in 1..Len(fifo') : fifo'[a] # cur
<1>1. /\ Len(fifo') = Len(fifo) + 1 /\ fifo'[Len(fifo) + 1] = j
      /\ \A a \in 1..Len(fifo) : fifo'[a] = fifo[a]
      /\ Len(fifo) \in Nat
  BY DEF TypeOK
<1>2. \A a \in 1..Len(fifo) : fifo[a] # j
  BY DEF Pending
<1> QED
  BY <1>1, <1>2 DEF Once

-----------------------------------------------------------------------------
(* The steps, seen from the process and from the queue.                    *)

LEMMA ProcessStep == TypeOK /\ Process /\ [Next]_vars => Process'
<1> SUFFICES ASSUME TypeOK, Process, [Next]_vars PROVE Process'
  OBVIOUS
<1> USE DEF Process, Listing, Sweeping
<1>1. ASSUME NEW j \in Jobs, Submit(j) \/ CancelRead(j) \/ CancelWrite(j)
               \/ CancelFails(j) \/ ClearList(j) \/ ClearDelete(j)
      PROVE  Process'
  BY <1>1 DEF Submit, CancelRead, CancelWrite, CancelFails, ClearList, ClearDelete
<1>2. ASSUME NEW j \in Jobs, GhostLands(j) \/ GhostLost(j) PROVE Process'
  BY <1>2 DEF GhostLands, GhostLost, Nothing
<1>3. CASE Take
  BY <1>3 DEF Take
<1>4. CASE Get \/ Start \/ Put \/ GetDone \/ MarkRead \/ FailRead
  BY <1>4 DEF Get, Start, Put, GetDone, MarkRead, FailRead, Idle
<1>5. CASE RunnerReturns \/ RunnerRaises
  BY <1>5 DEF RunnerReturns, RunnerRaises, ToCancel
<1>6. CASE Complete \/ MarkWrite \/ FailWrite
  BY <1>6 DEF Complete, MarkWrite, FailWrite, Idle
<1>7. CASE Raises \/ HandlerRaises
  BY <1>7 DEF Raises, HandlerRaises, Processing, Handling, Idle
<1>8. CASE SweepList \/ SweepEnd \/ SweepFails
  BY <1>8 DEF SweepList, SweepEnd, SweepFails
<1>9. ASSUME NEW j \in Jobs, SweepJob(j) PROVE Process'
  BY <1>9 DEF SweepJob
<1>10. CASE Shutdown \/ Crash \/ Boot
  BY <1>10 DEF Shutdown, Crash, Boot, Idle
<1>11. CASE UNCHANGED vars
  BY <1>11 DEF vars
<1> QED
  BY <1>1, <1>2, <1>3, <1>4, <1>5, <1>6, <1>7, <1>8, <1>9, <1>10, <1>11
     DEF Next, Work, Sweep

LEMMA OnceStep == TypeOK /\ Process /\ Once /\ [Next]_vars => Once'
<1> SUFFICES ASSUME TypeOK, Process, Once, [Next]_vars PROVE Once'
  OBVIOUS
<1> DEFINE Unsubmitted(j) == /\ ~Involved(j) /\ record[j] = "none"
                             /\ told[j] = <<>> /\ cancel[j] = "idle"
           Distinct == /\ \A a, b \in 1..Len(fifo) : fifo[a] = fifo[b] => a = b
                       /\ \A a \in 1..Len(fifo) : fifo[a] # cur
<1>0. Distinct /\ (\A j \in Jobs \ submitted : Unsubmitted(j)) /\ cur \notin Jobs \ submitted
  BY DEF Once, Involved
<1>1. ASSUME NEW j \in Jobs, Submit(j) PROVE Once'
  <2>1. ~Pending(j) /\ j # cur /\ fifo' = Append(fifo, j)
    BY <1>0, <1>1 DEF Submit, Involved
  <2>2. Distinct'
    BY <1>1, <2>1, AppendOnce DEF Submit
  <2>3. \A i \in Jobs : Pending(i)' <=> (Pending(i) \/ i = j)
    BY <2>1, AppendPending
  <2>4. ASSUME NEW i \in Jobs \ submitted' PROVE Unsubmitted(i)'
    BY <1>0, <1>1, <2>3 DEF Submit, Involved, TypeOK
  <2> QED
    BY <2>2, <2>4 DEF Once
<1>2. ASSUME UNCHANGED <<fifo, submitted, cur>>,
             \A j \in Jobs \ submitted : /\ UNCHANGED <<record[j], told[j], cancel[j]>>
                                         /\ page'[j] = "none" /\ ghost'[j] = "none"
      PROVE  Once'
  BY <1>0, <1>2, SamePending DEF Once, Involved
<1>3. ASSUME NEW j \in Jobs, CancelRead(j) \/ CancelWrite(j) \/ CancelFails(j)
               \/ ClearList(j) \/ ClearDelete(j)
      PROVE  Once'
  BY <1>0, <1>2, <1>3
     DEF CancelRead, CancelWrite, CancelFails, ClearList, ClearDelete, TypeOK, Involved,
         Terminal
<1>4. ASSUME NEW j \in Jobs, GhostLands(j) \/ GhostLost(j) PROVE Once'
  BY <1>0, <1>2, <1>4 DEF GhostLands, GhostLost, TypeOK, Involved
<1>5. CASE Take
  <2>1. PICK h : h = Head(fifo)
    OBVIOUS
  <2>2. /\ h \in Jobs /\ Pending(h) /\ ~Pending(h)'
        /\ \A i \in Jobs \ {h} : Pending(i)' <=> Pending(i)
    BY <1>5, <2>1, TailPending DEF Take
  <2>3. cur' = h /\ h \in submitted
    BY <1>0, <1>5, <2>1, <2>2 DEF Take, Involved
  <2>4. Distinct'
    BY <1>5, <2>1, <2>3, TailOnce DEF Take
  <2>5. ASSUME NEW i \in Jobs \ submitted' PROVE Unsubmitted(i)'
    BY <1>0, <1>5, <2>2, <2>3 DEF Take, Involved
  <2> QED
    BY <2>4, <2>5 DEF Once
<1>6. ASSUME cur' = cur \/ cur' = None, UNCHANGED <<fifo, submitted, cancel, page>>,
             \A j \in Jobs \ {cur} : UNCHANGED <<record[j], told[j], ghost[j]>>
      PROVE  Once'
  <2>1. Distinct'
    BY <1>0, <1>6, JobsAssumption DEF TypeOK
  <2>2. ASSUME NEW i \in Jobs \ submitted' PROVE Unsubmitted(i)'
    BY <1>0, <1>6, SamePending, JobsAssumption DEF Involved
  <2> QED
    BY <2>1, <2>2 DEF Once
<1>7. CASE Get \/ Start \/ Put \/ GetDone \/ MarkRead \/ FailRead
  BY <1>6, <1>7 DEF Get, Start, Put, GetDone, MarkRead, FailRead, Idle, TypeOK
<1>8. CASE RunnerReturns \/ RunnerRaises
  BY <1>6, <1>8 DEF RunnerReturns, RunnerRaises
<1>9. CASE Complete \/ MarkWrite \/ FailWrite
  BY <1>6, <1>9 DEF Complete, MarkWrite, FailWrite, UpsertIfLive, Idle, TypeOK
<1>10. CASE Raises \/ HandlerRaises
  BY <1>6, <1>10 DEF Raises, HandlerRaises, Idle
<1>11. CASE Shutdown
  BY <1>6, <1>11 DEF Shutdown, Idle, TypeOK
<1>12. CASE SweepList \/ SweepEnd \/ SweepFails
  BY <1>0, <1>2, <1>12 DEF SweepList, SweepEnd, SweepFails, Involved, Nothing, Live
<1>13. ASSUME NEW j \in Jobs, SweepJob(j) PROVE Once'
  BY <1>0, <1>2, <1>13 DEF SweepJob, Involved, TypeOK
<1>14. CASE Crash
  <2>1. Distinct'
    <3>1. fifo' = fifo /\ cur' = None /\ \A a \in 1..Len(fifo) : fifo[a] \in Jobs
      BY <1>14 DEF Crash, Idle, TypeOK
    <3> QED
      BY <1>0, <3>1, JobsAssumption
  <2>2. ASSUME NEW i \in Jobs \ submitted' PROVE Unsubmitted(i)'
    BY <1>0, <1>14, SamePending, JobsAssumption DEF Crash, Idle, Involved, Nothing
  <2> QED
    BY <2>1, <2>2 DEF Once
<1>15. CASE Boot
  <2>1. Distinct' /\ \A j \in Jobs : ~Pending(j)'
    BY <1>15 DEF Boot, Pending
  <2>2. ASSUME NEW i \in Jobs \ submitted' PROVE Unsubmitted(i)'
    BY <1>0, <1>15, <2>1 DEF Boot, Involved
  <2> QED
    BY <2>1, <2>2 DEF Once
<1>16. CASE UNCHANGED vars
  BY <1>2, <1>0, <1>16 DEF vars, Involved
<1> QED
  BY <1>1, <1>3, <1>4, <1>5, <1>7, <1>8, <1>9, <1>10, <1>11, <1>12, <1>13, <1>14,
     <1>15, <1>16
     DEF Next, Work, Sweep

-----------------------------------------------------------------------------
(* No live record without somebody who will settle it.                     *)

LEMMA ClosingStep ==
  TypeOK /\ Process /\ Once /\ Closing /\ [Next]_vars => Closing'
<1> SUFFICES ASSUME TypeOK, Process, Once, Closing, [Next]_vars PROVE Closing'
  OBVIOUS
<1>0. cur \notin Jobs \ submitted
  BY DEF Once, Involved
<1> USE DEF Closing, Upserting, TypeOK, Status, Live, Terminal, Idle
<1>1. ASSUME NEW j \in Jobs, Submit(j) PROVE Closing'
  BY <1>0, <1>1 DEF Submit
<1>2. ASSUME NEW j \in Jobs, CancelRead(j) \/ CancelFails(j) \/ ClearList(j)
      PROVE  Closing'
  BY <1>2 DEF CancelRead, CancelFails, ClearList
<1>3. ASSUME NEW j \in Jobs, CancelWrite(j) \/ ClearDelete(j) PROVE Closing'
  BY <1>3 DEF CancelWrite, ClearDelete
<1>4. ASSUME NEW j \in Jobs, GhostLands(j) \/ GhostLost(j) PROVE Closing'
  BY <1>4 DEF GhostLands, GhostLost, Process, Nothing
<1>5. CASE Take
  BY <1>5 DEF Take
<1>6. CASE Get \/ Start \/ Put
  BY <1>6, JobsAssumption DEF Get, Start, Put, Process
<1>7. CASE GetDone \/ MarkRead \/ FailRead
  BY <1>7 DEF GetDone, MarkRead, FailRead, Look, Process
<1>8. CASE RunnerReturns \/ RunnerRaises
  BY <1>8 DEF RunnerReturns, RunnerRaises, ToCancel, Process
<1>9. CASE Complete \/ MarkWrite \/ FailWrite
  BY <1>9 DEF Complete, MarkWrite, FailWrite, UpsertIfLive, Process
<1>10. CASE Raises \/ HandlerRaises
  BY <1>10 DEF Raises, HandlerRaises, Process
<1>11. CASE SweepList
  BY <1>11 DEF SweepList, Process, Listing
<1>12. ASSUME NEW j \in Jobs, SweepJob(j) PROVE Closing'
  BY <1>12 DEF SweepJob, Process, Sweeping
<1>13. CASE SweepEnd \/ SweepFails
  BY <1>13 DEF SweepEnd, SweepFails, Process, Sweeping, Listing
<1>14. CASE Shutdown \/ Crash \/ Boot
  BY <1>14 DEF Shutdown, Crash, Boot, Process
<1>15. CASE UNCHANGED vars
  BY <1>15 DEF vars
<1> QED
  BY <1>1, <1>2, <1>3, <1>4, <1>5, <1>6, <1>7, <1>8, <1>9, <1>10, <1>11, <1>12,
     <1>13, <1>14, <1>15
     DEF Next, Work, Sweep

LEMMA StrandStep ==
  TypeOK /\ Process /\ Once /\ Closing /\ NoStranded /\ [Next]_vars => NoStranded'
<1> SUFFICES ASSUME TypeOK, Process, Once, Closing, NoStranded, [Next]_vars
             PROVE  NoStranded'
  OBVIOUS
<1> USE DEF NoStranded, Live
<1>1. ASSUME NEW j \in Jobs, Submit(j) PROVE NoStranded'
  <2>1. \A i \in Jobs : Pending(i)' <=> (Pending(i) \/ i = j)
    BY <1>1, AppendPending DEF Submit
  <2> QED
    BY <1>1, <2>1 DEF Submit, TypeOK
<1>2. ASSUME NEW j \in Jobs, CancelRead(j) \/ CancelWrite(j) \/ CancelFails(j)
               \/ ClearList(j) \/ ClearDelete(j)
      PROVE  NoStranded'
  BY <1>2, SamePending
     DEF CancelRead, CancelWrite, CancelFails, ClearList, ClearDelete, TypeOK
<1>3. ASSUME NEW j \in Jobs, GhostLands(j) \/ GhostLost(j) PROVE NoStranded'
  BY <1>3 DEF GhostLands, GhostLost, Process, Nothing
<1>4. CASE Take
  <2>1. PICK h : h = Head(fifo)
    OBVIOUS
  <2>2. \A i \in Jobs \ {h} : Pending(i)' <=> Pending(i)
    BY <1>4, <2>1, TailPending DEF Take
  <2> QED
    BY <1>4, <2>1, <2>2, JobsAssumption DEF Take, TypeOK
<1>5. CASE Get \/ Start \/ Put \/ GetDone \/ MarkRead \/ FailRead
  BY <1>5, SamePending, JobsAssumption
     DEF Get, Start, Put, GetDone, MarkRead, FailRead, Idle, TypeOK, Live
<1>6. CASE RunnerReturns \/ RunnerRaises
  BY <1>6, SamePending DEF RunnerReturns, RunnerRaises
<1>7. CASE Complete \/ MarkWrite \/ FailWrite
  <2>1. record'[cur] \notin Live /\ \A j \in Jobs \ {cur} : record'[j] = record[j]
    BY <1>7 DEF Complete, MarkWrite, FailWrite, UpsertIfLive, Closing, Upserting, TypeOK
  <2> QED
    BY <1>7, <2>1, SamePending DEF Complete, MarkWrite, FailWrite, Idle
<1>8. CASE Raises \/ HandlerRaises
  BY <1>8, SamePending DEF Raises, HandlerRaises, Idle
<1>9. CASE SweepList \/ SweepFails
  BY <1>9 DEF SweepList, SweepFails, Listing
<1>10. ASSUME NEW j \in Jobs, SweepJob(j) PROVE NoStranded'
  BY <1>10 DEF SweepJob, Sweeping
<1>11. CASE SweepEnd
  BY <1>11 DEF SweepEnd, Closing, Nothing, Sweeping
<1>12. CASE Shutdown \/ Crash \/ Boot
  BY <1>12 DEF Shutdown, Crash, Boot
<1>13. CASE UNCHANGED vars
  BY <1>13, SamePending DEF vars
<1> QED
  BY <1>1, <1>2, <1>3, <1>4, <1>5, <1>6, <1>7, <1>8, <1>9, <1>10, <1>11, <1>12, <1>13
     DEF Next, Work, Sweep

-----------------------------------------------------------------------------
(* Completions and cancellations.                                          *)

\* A terminal event more for job j.
LEMMA Tell ==
  ASSUME TypeOK, NEW j \in Jobs, NEW v \in Terminal,
         told' = [told EXCEPT ![j] = Append(@, v)]
  PROVE  /\ Len(told'[j]) = Len(told[j]) + 1 /\ told'[j] # <<>>
         /\ Completed(j)' <=> (Completed(j) \/ v = "complete")
         /\ \A i \in Jobs \ {j} : told'[i] = told[i] /\ (Completed(i)' <=> Completed(i))
<1>1. told[j] \in Seq(Terminal) /\ told'[j] = Append(told[j], v)
  BY DEF TypeOK
<1>2. /\ Len(told[j]) \in Nat /\ Len(told'[j]) = Len(told[j]) + 1
      /\ told'[j][Len(told[j]) + 1] = v
      /\ \A a \in 1..Len(told[j]) : told'[j][a] = told[j][a]
  BY <1>1
<1>3. Completed(j)' <=> (Completed(j) \/ v = "complete")
  BY <1>2 DEF Completed
<1>4. told'[j] # <<>>
  BY <1>2
<1>5. \A i \in Jobs \ {j} : told'[i] = told[i]
  BY DEF TypeOK
<1> QED
  BY <1>2, <1>3, <1>4, <1>5 DEF Completed

LEMMA NothingTold == ASSUME NEW j, told[j] = <<>> PROVE ~Completed(j)
BY DEF Completed

\* A step that leaves job i, and where the worker stands with it, alone.
LEMMA KeptOther ==
  ASSUME NEW i \in Jobs, Kept(i),
         UNCHANGED <<record[i], told[i], cancel[i], phase>>,
         Pending(i)' => Pending(i), i \in cancelled => i \in cancelled',
         page'[i] = page[i], ghost'[i] = ghost[i], i \in submitted' => i \in submitted,
         (cur # i /\ cur' # i) \/ UNCHANGED <<cur, wpc, seen>>
  PROVE  Kept(i)'
<1>1. Completed(i)' <=> Completed(i)
  BY DEF Completed
<1>2. Involved(i)' => Involved(i)
  BY DEF Involved
<1> QED
  BY <1>1, <1>2 DEF Kept, Stopped

LEMMA OutcomesAPI ==
  ASSUME TypeOK, Process, Once, Outcomes, NEW j \in Jobs,
         \/ Submit(j) \/ CancelRead(j) \/ CancelWrite(j) \/ CancelFails(j)
         \/ ClearList(j) \/ ClearDelete(j)
  PROVE  Outcomes'
<1> SUFFICES ASSUME NEW i \in Jobs, clear'[i] # "deleted" PROVE Kept(i)'
  BY DEF Outcomes
<1>0. clear[i] # "deleted" /\ Kept(i)
  BY DEF Outcomes, Submit, CancelRead, CancelWrite, CancelFails, ClearList, ClearDelete,
         TypeOK
<1>p. phase = "up" /\ ghost[i] = "none" /\ page[i] = "none"
  BY DEF Process, Nothing, Sweeping, Submit, CancelRead, CancelWrite, CancelFails,
         ClearList, ClearDelete
<1>1. CASE Submit(j)
  <2>1. \A k \in Jobs : Pending(k)' <=> (Pending(k) \/ k = j)
    BY <1>1, AppendPending DEF Submit
  <2>2. CASE i # j
    BY <1>0, <1>1, <2>1, <2>2, KeptOther DEF Submit, TypeOK
  <2>3. CASE i = j
    <3>1. told'[i] = <<>> /\ cancel'[i] = "idle" /\ cur' # i
      BY <1>1, <2>3 DEF Submit, Once, Involved
    <3>2. ~Completed(i)'
      BY <3>1 DEF Completed
    <3> QED
      BY <1>1, <2>3, <3>1, <3>2 DEF Submit, Kept, TypeOK
  <2> QED
    BY <2>2, <2>3
<1>2. CASE CancelRead(j)
  <2>1. CASE i # j
    BY <1>0, <1>2, <2>1, SamePending, KeptOther DEF CancelRead, TypeOK
  <2>2. CASE i = j /\ record[j] = "queued"
    <3>1. ~Completed(i) /\ (Completed(i)' <=> Completed(i))
      BY <1>0, <1>2, <2>2 DEF CancelRead, Kept, Completed
    <3>2. Stopped(i)'
      BY <1>0, <1>p, <1>2, <2>2, <3>1 DEF CancelRead, Kept, Stopped, Live
    <3>3. ~(told[i] # <<>> /\ (Pending(i) \/ cur = i))
      BY <1>0, <1>2, <2>2 DEF CancelRead, Kept
    <3> QED
      BY <1>0, <1>2, <2>2, <3>1, <3>2, <3>3, SamePending DEF CancelRead, Kept, TypeOK
  <2>3. CASE i = j /\ record[j] # "queued"
    <3>1. Completed(i)' <=> Completed(i)
      BY <1>2 DEF CancelRead, Completed
    <3>2. cancel'[i] \in {"marked", "refused"} /\ cancel[i] = "idle"
      BY <1>2, <2>3 DEF CancelRead, TypeOK
    <3>3. Involved(i)' <=> Involved(i)
      BY <1>2, SamePending DEF CancelRead, Involved
    <3> QED
      BY <1>0, <1>2, <2>3, <3>1, <3>2, <3>3, SamePending DEF CancelRead, Kept
  <2> QED
    BY <2>1, <2>2, <2>3
<1>3. CASE CancelWrite(j)
  <2>1. /\ Completed(j)' <=> Completed(j)
        /\ \A k \in Jobs \ {j} : told'[k] = told[k]
    BY <1>3, Tell DEF CancelWrite, Terminal
  <2>2. CASE i # j
    BY <1>0, <1>3, <2>1, <2>2, SamePending, KeptOther DEF CancelWrite, TypeOK
  <2>3. CASE i = j
    <3>1. Stopped(i)
      BY <1>0, <1>3, <2>3 DEF CancelWrite, Kept
    <3>2. Stopped(i)'
      BY <1>3, <2>1, <2>3, <3>1, SamePending DEF CancelWrite, Stopped, TypeOK
    <3> QED
      BY <1>0, <1>3, <2>1, <2>3, <3>1, <3>2 DEF CancelWrite, Kept, Stopped, TypeOK
  <2> QED
    BY <2>2, <2>3
<1>4. CASE CancelFails(j)
  <2>1. CASE i # j
    BY <1>0, <1>4, <2>1, SamePending, KeptOther DEF CancelFails, TypeOK
  <2>2. CASE i = j
    <3>1. Completed(i)' <=> Completed(i)
      BY <1>4 DEF CancelFails, Completed
    <3>2. cancel'[i] = "refused" /\ cancel[i] = "toWrite"
      BY <1>4, <2>2 DEF CancelFails, TypeOK
    <3>3. Involved(i)' <=> Involved(i)
      BY <1>4, SamePending DEF CancelFails, Involved
    <3> QED
      BY <1>0, <1>4, <3>1, <3>2, <3>3, SamePending DEF CancelFails, Kept
  <2> QED
    BY <2>1, <2>2
<1>5. CASE ClearList(j)
  BY <1>0, <1>5, SamePending, KeptOther DEF ClearList
<1>6. CASE ClearDelete(j)
  <2>1. i # j
    BY <1>6 DEF ClearDelete, TypeOK
  <2> QED
    BY <1>0, <1>6, <2>1, SamePending, KeptOther DEF ClearDelete, TypeOK
<1> QED
  BY <1>1, <1>2, <1>3, <1>4, <1>5, <1>6

LEMMA OutcomesWork ==
  ASSUME TypeOK, Process, Once, Closing, Outcomes, Work \/ Raises \/ HandlerRaises
  PROVE  Outcomes'
<1> SUFFICES ASSUME NEW i \in Jobs, clear[i] # "deleted" PROVE Kept(i)'
  BY DEF Outcomes, Work, Raises, HandlerRaises, Take, Get, Start, RunnerReturns,
         RunnerRaises, Put, GetDone, Complete, MarkRead, MarkWrite, FailRead, FailWrite
<1>0. Kept(i)
  BY DEF Outcomes
<1>p. phase = "up" /\ ghost[i] = "none" /\ page[i] = "none"
  BY DEF Process, Nothing, Sweeping, Work, Raises, HandlerRaises, Take, Get, Start,
         RunnerReturns, RunnerRaises, Put, GetDone, Complete, MarkRead, MarkWrite,
         FailRead, FailWrite, Processing, Handling
<1>q. cur = i => ~Pending(i) /\ i \in submitted
  BY DEF Once, Pending, Involved
<1>1. CASE Take
  <2>1. PICK h : h = Head(fifo)
    OBVIOUS
  <2>2. /\ h \in Jobs /\ Pending(h) /\ ~Pending(h)'
        /\ \A k \in Jobs \ {h} : Pending(k)' <=> Pending(k)
    BY <1>1, <2>1, TailPending DEF Take
  <2>3. cur = None /\ cur' = h
    BY <1>1, <2>1 DEF Take, TypeOK
  <2>4. CASE i # h
    BY <1>0, <1>1, <2>1, <2>2, <2>3, <2>4, KeptOther, JobsAssumption DEF Take
  <2>5. CASE i = h
    <3>1. Completed(i)' <=> Completed(i)
      BY <1>1 DEF Take, Completed
    <3>2. ~Completed(i)
      BY <1>0, <2>2, <2>5 DEF Kept, Involved
    <3>3. Stopped(i) => Stopped(i)'
      BY <1>1, <2>1, <2>2, <2>3, <2>5, <3>1 DEF Take, Stopped, Delivering, Unchecked
    <3> QED
      BY <1>0, <1>1, <2>2, <2>5, <3>1, <3>2, <3>3 DEF Take, Kept, Delivering
  <2> QED
    BY <2>4, <2>5
\* A step of the worker with another job.
<1>2. CASE cur # i /\ UNCHANGED <<fifo, cancel, submitted, phase, page, ghost>>
           /\ (cur' = cur \/ cur' = None)
           /\ (\A k \in Jobs \ {cur} : UNCHANGED <<record[k], told[k]>>)
           /\ cancelled \ {cur} \subseteq cancelled'
  BY <1>0, <1>2, KeptOther, SamePending, JobsAssumption
<1>3. ASSUME UNCHANGED <<fifo, cancel, submitted, phase, page, ghost>>,
             cur' = cur \/ cur' = None,
             \A k \in Jobs \ {cur} : UNCHANGED <<record[k], told[k]>>,
             cancelled \ {cur} \subseteq cancelled',
             cur = i => Kept(i)'
      PROVE  Kept(i)'
  BY <1>2, <1>3
<1> DEFINE Quick == Get \/ Start \/ Put \/ GetDone \/ MarkRead \/ FailRead
<1>4. CASE Quick
  <2>1. ASSUME cur = i PROVE Kept(i)'
    <3>1. (Completed(i)' <=> Completed(i)) /\ (Pending(i)' <=> Pending(i))
      BY <1>4, SamePending
         DEF Get, Start, Put, GetDone, MarkRead, FailRead, Completed
    <3>2. ~Completed(i)
      BY <1>0, <2>1 DEF Kept, Involved
    <3>3. Stopped(i) => Stopped(i)'
      BY <1>4, <1>q, <2>1, <3>1, JobsAssumption
         DEF Get, Start, Put, GetDone, MarkRead, FailRead, Idle, Stopped, Delivering,
             Unchecked, TypeOK
    <3> QED
      BY <1>0, <1>4, <1>q, <2>1, <3>1, <3>2, <3>3, JobsAssumption
         DEF Get, Start, Put, GetDone, MarkRead, FailRead, Look, Idle, Kept,
             Delivering, TypeOK
  <2> QED
    BY <1>3, <1>4, <2>1
       DEF Get, Start, Put, GetDone, MarkRead, FailRead, Idle, TypeOK
<1>5. CASE RunnerReturns \/ RunnerRaises
  <2>1. ASSUME cur = i PROVE Kept(i)'
    <3>1. (Completed(i)' <=> Completed(i)) /\ (Pending(i)' <=> Pending(i))
      BY <1>5, SamePending DEF RunnerReturns, RunnerRaises, Completed
    <3>2. ~Completed(i)
      BY <1>0, <2>1 DEF Kept, Involved
    <3>3. Stopped(i) => Stopped(i)'
      BY <1>5, <1>p, <1>q, <2>1, <3>1
         DEF RunnerReturns, RunnerRaises, ToCancel, Stopped, Delivering, Unchecked
    <3> QED
      BY <1>0, <1>5, <1>q, <2>1, <3>1, <3>2, <3>3
         DEF RunnerReturns, RunnerRaises, ToCancel, Kept, Delivering
  <2> QED
    BY <1>3, <1>5, <2>1 DEF RunnerReturns, RunnerRaises, ToCancel
<1>6. CASE Complete
  <2>0. cur \in Jobs
    BY <1>6 DEF Complete, TypeOK
  <2>t. /\ Len(told'[cur]) = Len(told[cur]) + 1
        /\ \A k \in Jobs \ {cur} : told'[k] = told[k]
    BY <1>6, <2>0, Tell DEF Complete, Terminal
  <2>1. ASSUME cur = i PROVE Kept(i)'
    <3>1. cancel[i] \notin {"toWrite", "acked"}
      BY <1>0, <1>6, <2>1 DEF Complete, Kept, Stopped, Delivering
    <3>2. told[i] = <<>> /\ seen # "none"
      BY <1>0, <1>6, <2>1, <3>1 DEF Complete, Kept
    <3>3. Len(told'[i]) = 1 /\ record'[i] = "complete"
      BY <1>6, <2>t, <2>1, <3>2 DEF Complete, TypeOK
    <3>4. ~Pending(i)' /\ cur' # i
      BY <1>6, <1>q, <2>1, SamePending, JobsAssumption DEF Complete, Idle
    <3>5. ~Involved(i)'
      BY <1>6, <1>p, <3>4 DEF Complete, Involved
    <3> QED
      BY <1>6, <3>1, <3>3, <3>4, <3>5 DEF Complete, Kept
  <2> QED
    BY <1>3, <1>6, <2>t, <2>1 DEF Complete, Idle, TypeOK
<1>7. CASE MarkWrite \/ FailWrite
  <2>0. cur \in Jobs
    BY <1>7 DEF MarkWrite, FailWrite, TypeOK
  <2>t. /\ \A k \in Jobs \ {cur} : told'[k] = told[k]
        /\ Completed(i)' <=> Completed(i)
    BY <1>7, <2>0, Tell DEF MarkWrite, FailWrite, Terminal, Completed
  <2>1. ASSUME cur = i PROVE Kept(i)'
    <3>1. ~Completed(i)
      BY <1>0, <2>1 DEF Kept, Involved
    <3>2. ~Pending(i)' /\ cur' # i
      BY <1>7, <1>q, <2>1, SamePending, JobsAssumption DEF MarkWrite, FailWrite, Idle
    <3>3. \/ record'[i] = record[i]
          \/ record'[i] \in {"cancelled", "error"}
      BY <1>7, <2>1 DEF MarkWrite, FailWrite, UpsertIfLive, TypeOK
    <3>4. Stopped(i) => Stopped(i)'
      BY <1>7, <2>t, <3>2, <3>3 DEF Stopped, MarkWrite, FailWrite
    <3> QED
      BY <1>0, <1>7, <2>t, <3>1, <3>2, <3>3, <3>4 DEF MarkWrite, FailWrite, Kept
  <2> QED
    BY <1>3, <1>7, <2>t, <2>1
       DEF MarkWrite, FailWrite, UpsertIfLive, Idle, TypeOK
<1>8. CASE Raises \/ HandlerRaises
  <2>1. ASSUME cur = i PROVE Kept(i)'
    <3>1. (Completed(i)' <=> Completed(i)) /\ (Pending(i)' <=> Pending(i))
      BY <1>8, SamePending DEF Raises, HandlerRaises, Completed
    <3>2. ~Completed(i)
      BY <1>0, <2>1 DEF Kept, Involved
    <3>3. Stopped(i) => Stopped(i)'
      BY <1>8, <1>q, <2>1, <3>1, JobsAssumption
         DEF Raises, HandlerRaises, Idle, Stopped, Delivering, Unchecked
    <3> QED
      BY <1>0, <1>8, <1>q, <2>1, <3>1, <3>2, <3>3, JobsAssumption
         DEF Raises, HandlerRaises, Idle, Kept, Delivering
  <2> QED
    BY <1>3, <1>8, <2>1 DEF Raises, HandlerRaises, Idle
<1> QED
  BY <1>1, <1>4, <1>5, <1>6, <1>7, <1>8 DEF Work

LEMMA OutcomesProcess ==
  ASSUME TypeOK, Process, Once, Outcomes,
         \/ \E j \in Jobs : GhostLands(j) \/ GhostLost(j)
         \/ Sweep \/ SweepFails \/ Shutdown \/ Crash \/ Boot \/ UNCHANGED vars
  PROVE  Outcomes'
<1> SUFFICES ASSUME NEW i \in Jobs, clear'[i] # "deleted" PROVE Kept(i)'
  BY DEF Outcomes
<1>0. clear[i] # "deleted" /\ Kept(i)
  BY DEF Outcomes, GhostLands, GhostLost, Sweep, SweepList, SweepEnd, SweepJob,
         SweepFails, Shutdown, Crash, Boot, vars, TypeOK
<1>c. Completed(i)' <=> Completed(i)
  BY DEF Completed, GhostLands, GhostLost, Sweep, SweepList, SweepEnd, SweepJob,
         SweepFails, Shutdown, Crash, Boot, vars
<1>1. ASSUME NEW j \in Jobs, GhostLands(j) \/ GhostLost(j) PROVE Kept(i)'
  <2>1. Involved(i)' => Involved(i)
    BY <1>1, SamePending DEF GhostLands, GhostLost, Involved, TypeOK
  <2>2. Completed(i) => i # j
    BY <1>0, <1>1 DEF GhostLands, GhostLost, Kept, Involved
  <2>3. Stopped(i) => Stopped(i)'
    BY <1>1, <1>c, SamePending DEF GhostLands, GhostLost, Stopped, TypeOK
  <2>4. phase # "up" /\ wpc = "idle"
    BY <1>1 DEF GhostLands, GhostLost, Process, Nothing
  <2> QED
    BY <1>0, <1>1, <1>c, <2>1, <2>2, <2>3, <2>4, SamePending
       DEF GhostLands, GhostLost, Kept, TypeOK, Delivering
<1>2. CASE SweepList
  <2>1. Completed(i) => ~Involved(i)'
    BY <1>0, <1>2, SamePending DEF SweepList, Kept, Involved, Live
  <2>2. Stopped(i) => Stopped(i)'
    BY <1>2, <1>c, SamePending DEF SweepList, Stopped, Listing
  <2> QED
    BY <1>0, <1>2, <1>c, <2>1, <2>2, SamePending DEF SweepList, Kept
<1>3. ASSUME NEW j \in Jobs, SweepJob(j) PROVE Kept(i)'
  <2>1. Involved(i)' => Involved(i)
    BY <1>3, SamePending DEF SweepJob, Involved, TypeOK
  <2>2. Completed(i) => i # j
    BY <1>0, <1>3 DEF SweepJob, Kept, Involved
  <2>3. Stopped(i) => Stopped(i)'
    BY <1>3, <1>c, SamePending DEF SweepJob, Stopped, TypeOK
  <2> QED
    BY <1>0, <1>3, <1>c, <2>1, <2>2, <2>3, SamePending DEF SweepJob, Kept, TypeOK
<1>4. CASE SweepEnd
  <2>1. Pending(i)' <=> Pending(i)
    BY <1>4, SamePending DEF SweepEnd
  <2>2. phase' = "up" => ~Pending(i) /\ wpc = "idle"
    BY <1>4 DEF SweepEnd, Process, Sweeping, Pending
  <2>3. Stopped(i) => Stopped(i)'
    BY <1>4, <1>c, <2>1, <2>2 DEF SweepEnd, Stopped, Unchecked
  <2> QED
    BY <1>0, <1>4, <1>c, <2>1, <2>3 DEF SweepEnd, Kept, Involved
<1>5. CASE SweepFails
  <2>1. Involved(i)' => Involved(i)
    BY <1>5, SamePending DEF SweepFails, Involved, Nothing
  <2>2. Stopped(i) => Stopped(i)'
    BY <1>5, <1>c, SamePending DEF SweepFails, Stopped
  <2> QED
    BY <1>0, <1>5, <1>c, <2>1, <2>2, SamePending DEF SweepFails, Kept
<1>6. CASE Shutdown
  <2>1. ghost'[i] = ghost[i] \/ (cur = i /\ ghost'[i] = Awaited)
    BY <1>6 DEF Shutdown, TypeOK
  <2>2. Awaited = "complete" => wpc \in Delivering
    BY DEF Awaited, Delivering
  <2>3. Involved(i)' => Involved(i)
    BY <1>6, <2>1, SamePending, JobsAssumption DEF Shutdown, Idle, Involved
  <2>4. Stopped(i) => Stopped(i)'
    BY <1>6, <1>c, <2>1, <2>2, JobsAssumption DEF Shutdown, Idle, Stopped
  <2> QED
    BY <1>0, <1>6, <1>c, <2>3, <2>4, SamePending, JobsAssumption
       DEF Shutdown, Idle, Kept
<1>7. CASE Crash
  <2>1. Involved(i)' => Involved(i)
    BY <1>7, SamePending, JobsAssumption DEF Crash, Idle, Involved, Nothing
  <2>2. Stopped(i) => Stopped(i)'
    BY <1>7, <1>c, JobsAssumption DEF Crash, Idle, Stopped, Nothing
  <2>3. cancel'[i] = cancel[i] \/ (cancel[i] = "toWrite" /\ cancel'[i] = "refused")
    BY <1>7 DEF Crash
  <2> QED
    BY <1>0, <1>7, <1>c, <2>1, <2>2, <2>3, SamePending, JobsAssumption
       DEF Crash, Idle, Kept
<1>8. CASE Boot
  <2>1. ~Pending(i)'
    BY <1>8 DEF Boot, Pending
  <2>2. Involved(i)' => Involved(i)
    BY <1>8, <2>1 DEF Boot, Involved
  <2>3. Stopped(i) => Stopped(i)'
    BY <1>8, <1>c DEF Boot, Stopped
  <2> QED
    BY <1>0, <1>8, <1>c, <2>1, <2>2, <2>3 DEF Boot, Kept
<1>9. CASE UNCHANGED vars
  BY <1>0, <1>9, SamePending, KeptOther DEF vars
<1> QED
  BY <1>1, <1>2, <1>3, <1>4, <1>5, <1>6, <1>7, <1>8, <1>9 DEF Sweep

-----------------------------------------------------------------------------
(* Without faults and restarts: what the spool holds.                      *)

\* The upload of the job is still to be read: the job is queued, and nobody has
\* cancelled it, or its runner is at work.
Awaiting(j) ==
  /\ cancel[j] # "toWrite" /\ clear[j] = "idle"
  /\ \/ /\ Pending(j) \/ (cur = j /\ wpc \in {"get", "start"})
        /\ record[j] = "queued" /\ j \notin cancelled
     \/ cur = j /\ wpc = "running" /\ record[j] = "running"

\* Nothing has failed or restarted: the service is on its first boot, which finds
\* nothing, or up; nobody cancels or clears what was not submitted.
Quiet ==
  /\ phase \in {"boot", "bootSweep", "up"}
  /\ phase # "up" => submitted = {}
  /\ \A j \in Jobs \ submitted : clear[j] = "idle" /\ j \notin cancelled
  /\ \A j \in input : Awaiting(j)

\* A bound that was spent stays spent.
Spool ==
  /\ \A e \in Bounded : budget[e] <= Budget[e]
  /\ budget = Budget => Quiet

LEMMA SpoolStep == TypeOK /\ Process /\ Once /\ Spool /\ [Next]_vars => Spool'
<1> SUFFICES ASSUME TypeOK, Process, Once, Spool, [Next]_vars PROVE Spool'
  OBVIOUS
<1>b. Budget \in [Bounded -> Nat]
  BY BoundsAssumption DEF Budget
<1>1. ASSUME NEW e \in {"restart", "fault"}, Spend(e) PROVE Spool'
  <2>1. e \in Bounded /\ budget'[e] = budget[e] - 1 /\ budget[e] \in Nat /\ Budget[e] \in Nat
    BY <1>1, <1>b DEF Spend, Bounded, TypeOK
  <2>2. \A f \in Bounded \ {e} : budget'[f] = budget[f]
    BY <1>1 DEF Spend, TypeOK
  <2>3. budget'[e] < Budget[e]
    BY <2>1 DEF Spool
  <2>4. budget' # Budget
    BY <2>1, <2>3
  <2>5. \A f \in Bounded : budget'[f] <= Budget[f]
    BY <2>1, <2>2, <2>3 DEF Spool
  <2> QED
    BY <2>4, <2>5 DEF Spool, Budget
<1>2. ASSUME UNCHANGED budget, Quiet => Quiet' PROVE Spool'
  BY <1>2 DEF Spool, Budget
<1>3. SUFFICES ASSUME UNCHANGED budget, Quiet PROVE Quiet'
  <2>1. CASE \/ \E j \in Jobs : CancelFails(j)
             \/ Raises \/ HandlerRaises \/ SweepFails \/ Shutdown \/ Crash
    BY <1>1, <2>1 DEF CancelFails, Raises, HandlerRaises, SweepFails, Shutdown, Crash
  <2>2. CASE UNCHANGED budget
    BY <1>2, <1>3, <2>2
  <2> QED
    BY <2>1, <2>2
       DEF Next, Work, Sweep, Submit, CancelRead, CancelWrite, ClearList, ClearDelete,
           GhostLands, GhostLost, Take, Get, Start, RunnerReturns, RunnerRaises, Put,
           GetDone, Complete, MarkRead, MarkWrite, FailRead, FailWrite, SweepList,
           SweepEnd, SweepJob, Boot, vars
<1>4. ~(\E j \in Jobs : CancelFails(j)) /\ ~Raises /\ ~HandlerRaises /\ ~SweepFails
      /\ ~Shutdown /\ ~Crash
  <2>1. ~Spend("restart") /\ ~Spend("fault")
    BY <1>3 DEF Spend, TypeOK, Bounded
  <2> QED
    BY <2>1 DEF CancelFails, Raises, HandlerRaises, SweepFails, Shutdown, Crash
<1>5. \A j \in input : Involved(j) /\ j \in submitted /\ j \in Jobs
  BY <1>3 DEF Quiet, Awaiting, Involved, Once, TypeOK
<1>6. input = {} \/ phase = "up"
  BY <1>3, <1>5 DEF Quiet
<1>7. ASSUME NEW j \in Jobs,
             Submit(j) \/ CancelRead(j) \/ CancelWrite(j) \/ ClearList(j) \/ ClearDelete(j)
      PROVE  Quiet'
  <2>1. CASE Submit(j)
    <3>1. \A i \in Jobs : Pending(i)' <=> (Pending(i) \/ i = j)
      BY <2>1, AppendPending DEF Submit
    <3> QED
      BY <1>3, <1>5, <2>1, <3>1 DEF Submit, Quiet, Awaiting, Once, TypeOK
  <2>2. CASE CancelRead(j)
    BY <1>3, <1>5, <2>2, SamePending DEF CancelRead, Quiet, Awaiting, TypeOK
  <2>3. CASE CancelWrite(j)
    BY <1>3, <1>5, <2>3, SamePending DEF CancelWrite, Quiet, Awaiting, TypeOK
  <2>4. CASE ClearList(j)
    BY <1>3, <1>5, <2>4, SamePending DEF ClearList, Quiet, Awaiting, TypeOK, Once, Terminal
  <2>5. CASE ClearDelete(j)
    BY <1>3, <1>5, <2>5, SamePending DEF ClearDelete, Quiet, Awaiting, TypeOK
  <2> QED
    BY <1>7, <2>1, <2>2, <2>3, <2>4, <2>5
<1>8. CASE Take
  <2>1. PICK h : h = Head(fifo)
    OBVIOUS
  <2>2. /\ h \in Jobs /\ Pending(h) /\ ~Pending(h)'
        /\ \A i \in Jobs \ {h} : Pending(i)' <=> Pending(i)
    BY <1>8, <2>1, TailPending DEF Take
  <2> QED
    BY <1>3, <1>5, <1>8, <2>1, <2>2 DEF Take, Quiet, Awaiting, TypeOK
\* A step of the worker with a job whose upload is gone, or that leaves it where it is.
<1>9. CASE Get
  BY <1>3, <1>5, <1>9, SamePending DEF Get, Quiet, Awaiting, Idle, Live
<1>10. CASE Start
  BY <1>3, <1>5, <1>10, SamePending DEF Start, Quiet, Awaiting, TypeOK, Once, Pending
<1>11. CASE RunnerReturns \/ RunnerRaises
  BY <1>3, <1>5, <1>11, SamePending
     DEF RunnerReturns, RunnerRaises, ToCancel, Quiet, Awaiting, TypeOK
<1>12. CASE Put \/ GetDone \/ MarkRead \/ FailRead
  BY <1>3, <1>5, <1>12, SamePending DEF Put, GetDone, MarkRead, FailRead, Quiet, Awaiting
<1>13. CASE Complete \/ MarkWrite \/ FailWrite
  <2>0. cur \in Jobs /\ wpc \notin {"get", "start", "running"}
    BY <1>13 DEF Complete, MarkWrite, FailWrite, TypeOK
  <2>1. cur \notin input
    <3>1. ~Pending(cur)
      BY DEF Once, Pending
    <3> QED
      BY <1>3, <2>0, <3>1 DEF Quiet, Awaiting
  <2>2. \A j \in Jobs \ {cur} : record'[j] = record[j]
    BY <1>13 DEF Complete, MarkWrite, FailWrite, UpsertIfLive, TypeOK
  <2>3. UNCHANGED <<input, queueVars, apiVars, phase>>
    BY <1>13 DEF Complete, MarkWrite, FailWrite
  <2> QED
    BY <1>3, <1>5, <2>0, <2>1, <2>2, <2>3, SamePending DEF Quiet, Awaiting
<1>14. CASE SweepList \/ SweepEnd \/ Boot \/ UNCHANGED vars
  BY <1>3, <1>5, <1>6, <1>14, SamePending
     DEF SweepList, SweepEnd, Boot, vars, Quiet, Awaiting, Listing, Sweeping
<1>15. ASSUME NEW j \in Jobs, SweepJob(j) \/ GhostLands(j) \/ GhostLost(j) PROVE FALSE
  BY <1>3, <1>15 DEF SweepJob, GhostLands, GhostLost, Quiet, Once, Involved, Process,
                     Nothing, Sweeping
<1> QED
  BY <1>4, <1>7, <1>8, <1>9, <1>10, <1>11, <1>12, <1>13, <1>14, <1>15
     DEF Next, Work, Sweep

-----------------------------------------------------------------------------
(* The theorems.                                                           *)

LEMMA InitInv == Init => Inv
<1> SUFFICES ASSUME Init PROVE Inv
  OBVIOUS
<1>1. TypeOK
  BY InitType
<1>2. Process /\ NoStranded
  BY DEF Init, Process, NoStranded, Nothing, Sweeping
<1>3. Once /\ Closing
  BY JobsAssumption
     DEF Init, Once, Closing, Upserting, Nothing, Involved, Pending, Live
<1>4. Outcomes
  BY JobsAssumption
     DEF Init, Outcomes, Kept, Completed, Nothing, Involved, Pending
<1> QED
  BY <1>1, <1>2, <1>3, <1>4 DEF Inv

LEMMA InvStep == Inv /\ [Next]_vars => Inv'
<1> SUFFICES ASSUME Inv, [Next]_vars PROVE Inv'
  OBVIOUS
<1>1. TypeOK' /\ Process' /\ Once' /\ Closing' /\ NoStranded'
  BY TypeStep, ProcessStep, OnceStep, ClosingStep, StrandStep DEF Inv
<1>2. Outcomes'
  BY OutcomesAPI, OutcomesWork, OutcomesProcess DEF Inv, Next
<1> QED
  BY <1>1, <1>2 DEF Inv

LEMMA InvAlways == Spec => []Inv
BY InitInv, InvStep, PTL DEF Spec

\* While the service runs, every job that callers see queued or running is in the
\* queue, with the worker, or one whose failure could not be persisted.
THEOREM NeverStranded == Spec => []NoStranded
BY InvAlways, PTL DEF Inv

\* Once JobCompleted was emitted for a job, its record says complete until it is
\* cleared, and no other terminal event is emitted for it.
THEOREM CompletionKept == Spec => []CompletionStands
<1>1. Inv => CompletionStands
  BY DEF Inv, Outcomes, Kept, CompletionStands
<1> QED
  BY <1>1, InvAlways, PTL

\* A queued job whose cancellation was acknowledged never completes, unless it was
\* cleared.
THEOREM CancellationKept == Spec => []QueuedCancelWins
<1>1. Inv => QueuedCancelWins
  BY DEF Inv, Outcomes, Kept, Stopped, QueuedCancelWins
<1> QED
  BY <1>1, InvAlways, PTL

\* As long as nothing fails or restarts, an upload in the spool belongs to a job that
\* waits in the queue or is with the worker, whatever cancellations and clears race.
THEOREM NoUploadLeft == Spec => []SpoolDrained
<1>1. Init => Spool
  BY BoundsAssumption DEF Init, Spool, Quiet, Budget, Bounded
<1>2. Inv /\ Spool /\ [Next]_vars => Spool'
  BY SpoolStep DEF Inv
<1>3. Spool => SpoolDrained
  BY DEF Spool, Quiet, Awaiting, SpoolDrained
<1> QED
  BY <1>1, <1>2, <1>3, InvAlways, PTL DEF Spec
=============================================================================
