------------------------------ MODULE Filters ------------------------------
(* What a comprehension with a condition makes of a list.                   *)
EXTENDS Integers, Sequences

\* The elements of s that are in T, in their order.  A recursive function and not
\* SelectSeq: what it computes is proved by induction.
Among(s, T) ==
  LET kept[i \in 0..Len(s)] ==
        IF i = 0 THEN <<>>
        ELSE IF s[i] \in T THEN Append(kept[i - 1], s[i]) ELSE kept[i - 1]
  IN kept[Len(s)]
=============================================================================
