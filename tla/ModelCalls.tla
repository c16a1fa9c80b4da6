------------------------------ MODULE ModelCalls ------------------------------
(***************************************************************************)
(* The calls OmniScribe makes to a vision model: the page and crop passes  *)
(* of OCRProcessor (core/ocr/processor.py), the retry loop of ChatClient   *)
(* (core/ocr/chat_client.py), and the CircuitBreaker they share through    *)
(* the process-wide registry (core/ocr/resilience.py).                     *)
(*                                                                         *)
(* A caller is a task that reads one page or crop after another against    *)
(* one (api_base, model): every such task has the same breaker, whichever  *)
(* job, request or worker loop it belongs to.  A step ends at an await.    *)
(*                                                                         *)
(* The clock is abstracted to the one thing that is compared with it:      *)
(* whether the cooldown of the last opening has run out.  An error is the  *)
(* class is_transient_error and the translation at the end of chat() give  *)
(* it; a reply is what the passes tell apart.                              *)
(***************************************************************************)
EXTENDS Naturals, FiniteSets

CONSTANTS
  Callers,
  Threshold,   \* failure_threshold
  MaxRetries,  \* max_retries
  MaxCancels   \* bound: tasks cancelled while they read

ASSUME LimitsAssumption ==
  /\ Threshold \in Nat \ {0}
  /\ {MaxRetries, MaxCancels} \subseteq Nat

VARIABLES
  endpoint,  \* "well": it answers; "ill": it may also fail
  failures,  \* _consecutive_failures, no further than Threshold + 1
  phase,     \* the state property, from _opened_at and the clock
  calls,     \* what each caller is doing
  probing,   \* history: the calls in flight that a half-open breaker let by
  cancels

breakerVars == <<failures, phase>>
vars == <<endpoint, breakerVars, calls, probing, cancels>>

-----------------------------------------------------------------------------
Replies == {"good", "refusal", "blank"}     \* a refusal: _is_fallback_response
Permanent == {"permanent", "context", "balance"}
Errors == {"transient"} \cup Permanent
Results == Replies \cup {"none", "open", "balance", "context", "failed", "cancelled"}

Call == [at : {"idle", "checking", "calling", "backoff"}, kind : {"page", "crop"},
         corrects : BOOLEAN, first : Replies \cup {"none"},
         attempt : 1..(MaxRetries + 1), result : Results]

Idle(result) ==
  [at |-> "idle", kind |-> "page", corrects |-> FALSE, first |-> "none",
   attempt |-> 1, result |-> result]

TypeOK ==
  /\ endpoint \in {"well", "ill"}
  /\ failures \in 0..(Threshold + 1) /\ phase \in {"closed", "open", "half"}
  /\ calls \in [Callers -> Call]
  /\ probing \subseteq {c \in Callers : calls[c].at = "calling"}
  /\ cancels \in 0..MaxCancels

Init ==
  /\ endpoint \in {"well", "ill"} /\ failures = 0 /\ phase = "closed"
  /\ calls = [c \in Callers |-> Idle("none")] /\ probing = {} /\ cancels = 0

-----------------------------------------------------------------------------
(* The circuit breaker                                                     *)

\* check() asks on every attempt of a chat, and lets every caller by once the
\* breaker is half-open.
Refused == phase = "open"

\* A plausible bug: the count is reset and the circuit left open.
RecordSuccess_KeepsOpen == failures' = 0 /\ phase' = phase
\* A success counts whenever its call was made.
RecordSuccess == failures' = 0 /\ phase' = "closed"

\* A failure while _opened_at is set starts a fresh cooldown, whenever the
\* call was made.
RecordFailure ==
  LET n == IF failures > Threshold THEN failures ELSE failures + 1 IN
  /\ failures' = n
  /\ phase' = IF phase # "closed" \/ n >= Threshold THEN "open" ELSE "closed"

Cooldown ==
  /\ phase = "open" /\ phase' = "half"
  /\ UNCHANGED <<endpoint, failures, calls, probing, cancels>>

-----------------------------------------------------------------------------
(* ChatClient.chat: one step per attempt's check, answer and backoff       *)

\* perform_ocr or perform_ocr_on_crop starts its first pass.
Begin(c) ==
  /\ calls[c].at = "idle"
  /\ \E kind \in {"page", "crop"}, corrects \in BOOLEAN :
       calls' = [calls EXCEPT ![c] = [Idle("none") EXCEPT !.at = "checking",
                                        !.kind = kind, !.corrects = corrects]]
  /\ UNCHANGED <<endpoint, breakerVars, probing, cancels>>

\* CircuitOpenError leaves chat() and the pass, whatever failed before.
FailFast(c) ==
  /\ calls[c].at = "checking" /\ Refused
  /\ calls' = [calls EXCEPT ![c] = Idle("open")]
  /\ UNCHANGED <<endpoint, breakerVars, probing, cancels>>

\* The request goes out.
Send(c) ==
  /\ calls[c].at = "checking" /\ ~Refused
  /\ calls' = [calls EXCEPT ![c].at = "calling"]
  /\ probing' = IF phase = "half" THEN probing \cup {c} ELSE probing
  /\ UNCHANGED <<endpoint, breakerVars, cancels>>

\* What a pass makes of the reply to its (last) prompt: a correction counts
\* only when it says something, and a crop's refusal is no text.
Corrected(first, reply) == IF reply = "good" THEN reply ELSE first
Reading(kind, text) ==
  IF kind = "crop" /\ text = "refusal" THEN "blank" ELSE text

\* A first pass that read something is corrected by a second chat, with the
\* attempts of its own.
Answered(call, reply) ==
  IF call.first = "none" /\ reply # "blank" /\ call.corrects
    THEN [call EXCEPT !.at = "checking", !.first = reply, !.attempt = 1]
    ELSE Idle(Reading(call.kind, IF call.first = "none" THEN reply
                                 ELSE Corrected(call.first, reply)))

Succeed(c) ==
  /\ calls[c].at = "calling"
  /\ \E reply \in Replies : calls' = [calls EXCEPT ![c] = Answered(@, reply)]
  /\ RecordSuccess /\ probing' = probing \ {c}
  /\ UNCHANGED <<endpoint, cancels>>

\* An error is retried when it is transient and attempts are left.
Retries(attempt, error) == error = "transient" /\ attempt < MaxRetries + 1
\* What the caller hears of the last error.
Verdict(error) == IF error \in {"balance", "context"} THEN error ELSE "failed"

Fail(c) ==
  /\ calls[c].at = "calling" /\ endpoint = "ill"
  /\ \E error \in Errors :
       calls' = [calls EXCEPT ![c] =
                   IF Retries(@.attempt, error) THEN [@ EXCEPT !.at = "backoff"]
                   ELSE Idle(Verdict(error))]
  /\ RecordFailure /\ probing' = probing \ {c}
  /\ UNCHANGED <<endpoint, cancels>>

\* The back-off is over: a time between 0 and retry_max_delay_s has passed.
Wake(c) ==
  /\ calls[c].at = "backoff"
  /\ calls' = [calls EXCEPT ![c].at = "checking", ![c].attempt = @ + 1]
  /\ UNCHANGED <<endpoint, breakerVars, probing, cancels>>

\* The task is cancelled: CancelledError is no Exception, so a call in flight
\* tells the breaker nothing.
Cancel(c) ==
  /\ calls[c].at \in {"calling", "backoff"} /\ cancels < MaxCancels
  /\ cancels' = cancels + 1
  /\ calls' = [calls EXCEPT ![c] = Idle("cancelled")] /\ probing' = probing \ {c}
  /\ UNCHANGED <<endpoint, breakerVars>>

\* The model server falls ill, and recovers.
Turn ==
  /\ endpoint' = IF endpoint = "well" THEN "ill" ELSE "well"
  /\ UNCHANGED <<breakerVars, calls, probing, cancels>>

-----------------------------------------------------------------------------
Step(c) == FailFast(c) \/ Send(c) \/ Succeed(c) \/ Fail(c) \/ Wake(c)
Next ==
  \/ Cooldown \/ Turn
  \/ \E c \in Callers : Begin(c) \/ Step(c) \/ Cancel(c)
Spec == Init /\ [][Next]_vars

(* Fairness: the clock runs; a call ends, by its answer or by its timeout; *)
(* a sleeping or checking task runs; and there is always another page to   *)
(* read (Begin).                                                           *)
FairSpec ==
  /\ Spec /\ WF_vars(Cooldown)
  /\ \A c \in Callers : WF_vars(Begin(c)) /\ WF_vars(Step(c))

-----------------------------------------------------------------------------
(* Properties                                                              *)

\* When the server is well for good, the circuit closes for good: failures of
\* calls made earlier and fresh cooldowns cannot keep it open.
Recovers == <>[](endpoint = "well") => <>[](phase = "closed")

\* "the first call after cooldown is allowed through; success closes the
\* circuit, failure re-opens it" (CircuitBreaker's docstring): a half-open
\* breaker has one probe in flight.
SingleProbe == Cardinality(probing) <= 1
=============================================================================
