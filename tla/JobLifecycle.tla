---------------------------- MODULE JobLifecycle ----------------------------
(***************************************************************************)
(* What a job queue of OmniScribe promises about a job, whatever the       *)
(* workers, the crashes and the timeouts: it is pending, or claimed by one *)
(* execution, or retired; a claimed job may become pending again, a        *)
(* retired one never does; and the executions announce at most one outcome *)
(* for it, after it retired.                                               *)
(*                                                                         *)
(* The request that cancels a job may announce that as well, once, and the *)
(* queue promises nothing of when: a job can be withdrawn while it is      *)
(* claimed, and have an outcome of its own announced before or after.      *)
(***************************************************************************)
CONSTANT Jobs

VARIABLES
  stage,      \* where each job is
  announced,  \* the jobs whose outcome an execution has announced
  withdrawn   \* the jobs whose cancellation a request has announced

Stage == {"new", "pending", "claimed", "retired"}

Moves == {<<"new", "pending">>, <<"pending", "claimed">>,
          <<"claimed", "pending">>, <<"claimed", "retired">>,
          <<"pending", "retired">>}

Init == stage = [j \in Jobs |-> "new"] /\ announced = {} /\ withdrawn = {}

\* One step of the queue may move several jobs (a claim purges dead ones).
Advance ==
  /\ stage' \in [Jobs -> Stage]
  /\ \A j \in Jobs : stage'[j] = stage[j] \/ <<stage[j], stage'[j]>> \in Moves
  /\ UNCHANGED <<announced, withdrawn>>

Announce(j) ==
  /\ stage[j] = "retired" /\ j \notin announced
  /\ announced' = announced \cup {j}
  /\ UNCHANGED <<stage, withdrawn>>

Withdraw(j) ==
  /\ j \notin withdrawn
  /\ withdrawn' = withdrawn \cup {j}
  /\ UNCHANGED <<stage, announced>>

Next == Advance \/ \E j \in Jobs : Announce(j) \/ Withdraw(j)

Spec == Init /\ [][Next]_<<stage, announced, withdrawn>>
=============================================================================
