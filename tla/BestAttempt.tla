---------------------------- MODULE BestAttempt ----------------------------
(***************************************************************************)
(* What the three translation loops promise of one piece of text: a        *)
(* bounded number of attempts, then the best of those the judge scored, or *)
(* an unscored one when the judge gave none, and a failure only when there *)
(* was nothing to return (or the loop is fragile).  A loop that takes its  *)
(* best attempt for no translation at all, because it is blank, has the    *)
(* last attempt left, or fails.                                            *)
(***************************************************************************)
EXTENDS Naturals, Sequences

CONSTANTS MaxAttempts, Scores, Unscored, Pending, Failed

VARIABLES tried,       \* the score of each attempt, in order
          blank,       \* the attempts the loop takes for no translation
          answer,      \* the number of the winning attempt
          fragile      \* the loop may fail with an attempt in hand

Init == tried = <<>> /\ blank = {} /\ answer = Pending /\ fragile \in BOOLEAN

Attempt == /\ answer = Pending /\ Len(tried) < MaxAttempts
           /\ \E s \in Scores \union {Unscored} : tried' = Append(tried, s)
           /\ blank' \in {blank, blank \union {Len(tried) + 1}}
           /\ UNCHANGED answer

\* The verdict on an attempt comes after the attempt.
Judge == /\ answer = Pending /\ tried # <<>>
         /\ tried[Len(tried)] = Unscored
         /\ \E s \in Scores : tried' = [tried EXCEPT ![Len(tried)] = s]
         /\ UNCHANGED <<blank, answer>>

Scored == {i \in DOMAIN tried : tried[i] # Unscored}
Best == {i \in Scored : \A j \in Scored : tried[j] <= tried[i]}

\* An unscored attempt wins over scored ones only as the last word.
Wins(i) == IF tried[i] = Unscored
           THEN Scored = {} \/ i = Len(tried)
           ELSE \/ i \in Best \ blank
                \/ i = Len(tried) /\ Best \intersect blank # {}

Settle == /\ answer = Pending
          /\ \E i \in DOMAIN tried : Wins(i) /\ answer' = i
          /\ UNCHANGED <<tried, blank>>

GiveUp == /\ answer = Pending
          /\ fragile \/ Scored = {} \/ Best \intersect blank # {}
          /\ answer' = Failed
          /\ UNCHANGED <<tried, blank>>

\* The next piece of text, with its own attempts.
NextPiece == answer \notin {Pending, Failed} /\ tried' = <<>> /\ blank' = {}
             /\ answer' = Pending

Next == /\ UNCHANGED fragile
        /\ Attempt \/ Judge \/ Settle \/ GiveUp \/ NextPiece

Spec == Init /\ [][Next]_<<tried, blank, answer, fragile>>
=============================================================================
