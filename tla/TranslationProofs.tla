--------------------------- MODULE TranslationProofs ---------------------------
(***************************************************************************)
(* Proofs about Translation, for any requests, keys, pieces, attempts and  *)
(* scores: what the loops return, what the cache holds, and that each loop *)
(* implements BestAttempt.                                                 *)
(***************************************************************************)
EXTENDS Translation, SequenceTheorems, TLAPS

-----------------------------------------------------------------------------
(* The inductive invariant.                                                *)

Texts == {"text", "empty", "lossy"}
Working == {"idle", "ask", "second", "judge", "decide"}
Marks == 0 .. Top \cup {Unscored}
Entries == [key : Keys, by : Requests, text : Nat]

TypeOK ==
  /\ kind \in [Requests -> Kinds] /\ key \in [Requests -> Keys]
  /\ evaluate \in BOOLEAN /\ dual \in BOOLEAN
  /\ at \in [Requests -> Working \cup {"next", "done", "failed"}]
  /\ piece \in [Requests -> Nat] /\ attempts \in [Requests -> 0 .. MaxAttempts]
  /\ texts \in [Requests -> Seq(Texts)] /\ scores \in [Requests -> Seq(Marks)]
  /\ said \in [Requests -> Texts \cup {"error", "none"}]
  /\ judged \in [Requests -> {"none", "score", "unparseable", "outage"}]
  /\ best \in [Requests -> Nat] /\ answer \in [Requests -> Nat \cup {Pending, Failed}]
  /\ out \in [Requests -> Seq(Texts)]
  /\ cache \in Seq(Entries)

\* The attempts on a piece, their texts and their scores go together.
Counted(c) ==
  /\ piece[c] \in 1 .. Size(c)
  /\ Len(scores[c]) = Len(texts[c]) /\ Len(texts[c]) <= attempts[c]
  /\ best[c] \in 0 .. Len(texts[c])
  /\ answer[c] \in {Pending, Failed} \cup 1 .. Len(texts[c])

\* What is known at each step of a loop.
Scored(c, j) == scores[c][j] # Unscored
\* To the graph a score of 0 is none.
Real(c, j) == Scored(c, j) /\ (kind[c] = "graph" => scores[c][j] # 0)
Replied(c) == texts[c] # <<>> /\ texts[c][Len(texts[c])] = said[c]
Placed(c) ==
  /\ at[c] \in Working => answer[c] = Pending
  /\ at[c] \in {"idle", "ask"} => attempts[c] < MaxAttempts
  /\ at[c] = "second" =>
       /\ kind[c] = "tree" /\ Len(texts[c]) = 1 /\ ~Scored(c, 1)
       /\ said[c] \in Texts /\ judged[c] = "none"
  /\ at[c] = "judge" =>
       /\ Replied(c) /\ ~Scored(c, Len(texts[c])) /\ evaluate
       /\ kind[c] = "graph" => said[c] = "text"
  /\ at[c] = "decide" =>
       \/ said[c] = "error" /\ judged[c] = "none"
       \/ Replied(c) /\ (judged[c] = "score" <=> Scored(c, Len(texts[c])))
  /\ at[c] = "next" => answer[c] \in 1 .. Len(texts[c])

\* The best attempt has a score that counts, and no other has a better one.
Graded(c) ==
  /\ best[c] # 0 => Real(c, best[c])
  /\ \A j \in 1 .. Len(texts[c]) : Scored(c, j) =>
       /\ evaluate
       /\ Real(c, j) => best[c] # 0 /\ scores[c][j] <= scores[c][best[c]]

\* A graph run judges text only, and goes on from no attempt it could accept.
Screened(c) ==
  kind[c] = "graph" => \A j \in 1 .. Len(texts[c]) : Scored(c, j) =>
    /\ texts[c][j] = "text"
    /\ at[c] \in {"idle", "ask", "judge"} => scores[c][j] < Accept
    /\ at[c] = "decide" /\ scores[c][j] >= Accept =>
         j = Len(texts[c]) /\ judged[c] = "score"

\* What a graph run has written so far.
Written(c) ==
  kind[c] = "graph" =>
    /\ \A i \in 1 .. Len(out[c]) : out[c][i] # "empty"
    /\ at[c] \in Working \cup {"next"} => Len(out[c]) = piece[c] - 1
    /\ at[c] = "done" => Len(out[c]) = Pieces
    /\ at[c] = "next" => texts[c][answer[c]] # "empty"

Local(c) == Counted(c) /\ Placed(c) /\ Graded(c) /\ Screened(c) /\ Written(c)

\* A cached answer is that of a request that asked for it and did not fail.
Kept(e) ==
  /\ key[e.by] = e.key /\ kind[e.by] = "sync"
  /\ at[e.by] \in {"next", "done"} /\ said[e.by] # "error"

TInv ==
  /\ TypeOK /\ (\A c \in Requests : Local(c))
  /\ \A i \in 1 .. Len(cache) : Kept(cache[i])

-----------------------------------------------------------------------------
(* Sequences.                                                              *)

LEMMA Appended ==
  ASSUME NEW S, NEW s \in Seq(S), NEW e \in S
  PROVE  /\ Append(s, e) \in Seq(S) /\ Len(Append(s, e)) = Len(s) + 1
         /\ \A i \in 1 .. Len(s) : Append(s, e)[i] = s[i]
         /\ Append(s, e)[Len(s) + 1] = e /\ Append(s, e) # <<>>
BY AppendProperties

LEMMA Nonempty ==
  ASSUME NEW S, NEW s \in Seq(S)
  PROVE  /\ Len(s) \in Nat /\ (s # <<>> <=> Len(s) > 0)
         /\ \A i \in 1 .. Len(s) : s[i] \in S
BY EmptySeq, LenProperties, ElementOfSeq

-----------------------------------------------------------------------------
(* The initial state.                                                      *)

LEMMA InitTInv == Init => TInv
<1> SUFFICES ASSUME Init PROVE TInv
  OBVIOUS
<1>1. /\ kind \in [Requests -> Kinds] /\ key \in [Requests -> Keys]
      /\ evaluate \in BOOLEAN /\ dual \in BOOLEAN /\ cache = <<>>
  BY LoopsAssumption DEF Init
<1>2. \A S : <<>> \in Seq(S)
  BY EmptySeq
<1>3. TypeOK
  BY <1>1, <1>2, LoopsAssumption DEF Init, TypeOK, All, Working
<1>4. ASSUME NEW c \in Requests PROVE Local(c)
  <2>1. /\ at[c] = "idle" /\ piece[c] = 1 /\ attempts[c] = 0 /\ texts[c] = <<>>
        /\ scores[c] = <<>> /\ best[c] = 0 /\ answer[c] = Pending /\ out[c] = <<>>
    BY DEF Init, All
  <2>2. Len(<<>>) = 0
    OBVIOUS
  <2>3. Size(c) \in Nat \ {0}
    BY LoopsAssumption DEF Size
  <2>4. Counted(c)
    BY <2>1, <2>2, <2>3 DEF Counted
  <2>5. Placed(c)
    BY <2>1, LoopsAssumption DEF Placed
  <2>6. Graded(c) /\ Screened(c)
    BY <2>1, <2>2 DEF Graded, Screened
  <2>7. Written(c)
    BY <2>1, <2>2 DEF Written
  <2> QED
    BY <2>4, <2>5, <2>6, <2>7 DEF Local
<1> QED
  BY <1>1, <1>3, <1>4 DEF TInv

-----------------------------------------------------------------------------
(* A step of one request changes nothing of another.                       *)

Same(d) ==
  /\ at'[d] = at[d] /\ piece'[d] = piece[d] /\ attempts'[d] = attempts[d]
  /\ texts'[d] = texts[d] /\ scores'[d] = scores[d] /\ said'[d] = said[d]
  /\ judged'[d] = judged[d] /\ best'[d] = best[d] /\ answer'[d] = answer[d]
  /\ out'[d] = out[d]

LEMMA OthersSame ==
  ASSUME TypeOK, NEW c \in Requests, Step(c), NEW d \in Requests \ {c}
  PROVE  Same(d) /\ UNCHANGED conf
<1> USE DEF TypeOK, Same, Goto, conf, work
<1>1. CASE Start(c)
  BY <1>1 DEF Start
<1>2. CASE Reply(c)
  BY <1>2 DEF Reply, Attempted
<1>3. CASE Second(c)
  BY <1>3 DEF Second
<1>4. CASE Judge(c)
  BY <1>4 DEF Judge, Score
<1>5. CASE Decide(c)
  <2>1. at'[d] = at[d] /\ answer'[d] = answer[d]
    BY <1>5 DEF Decide, DecideSync, DecideTree, DecideGraph, Settle, Fail, Again, Kinds
  <2> QED
    BY <1>5, <2>1 DEF Decide
<1>6. CASE NextPiece(c)
  BY <1>6 DEF NextPiece
<1> QED
  BY <1>1, <1>2, <1>3, <1>4, <1>5, <1>6 DEF Step

LEMMA LocalSame ==
  ASSUME NEW d \in Requests, Local(d), Same(d), UNCHANGED conf
  PROVE  Local(d)'
BY DEF Local, Counted, Placed, Graded, Real, Screened, Written, Scored, Replied, Size, Same, conf

-----------------------------------------------------------------------------
(* The cache.                                                              *)

\* The entries of the sequence t are entries of s.
From(t, s) == \A j \in 1 .. Len(t) : \E k \in 1 .. Len(s) : t[j] = s[k]

LEMMA Removed ==
  ASSUME NEW S, NEW s \in Seq(S), NEW i \in 1 .. Len(s)
  PROVE  RemoveAt(s, i) \in Seq(S) /\ From(RemoveAt(s, i), s)
<1> DEFINE a == SubSeq(s, 1, i - 1)
           b == SubSeq(s, i + 1, Len(s))
<1>1. Len(s) \in Nat /\ \A j \in 1 .. Len(s) : s[j] \in S
  BY LenProperties, ElementOfSeq
<1>2. /\ a \in Seq(S) /\ Len(a) = i - 1
      /\ \A j \in 1 .. (i - 1) - 1 + 1 : a[j] = s[1 + j - 1]
  BY <1>1, SubSeqProperties
<1>3. /\ b \in Seq(S) /\ Len(b) = Len(s) - i
      /\ \A j \in 1 .. Len(s) - (i + 1) + 1 : b[j] = s[(i + 1) + j - 1]
  BY <1>1, SubSeqProperties
<1> HIDE DEF a, b
<1>4. /\ a \o b \in Seq(S) /\ Len(a \o b) = Len(a) + Len(b)
      /\ \A j \in 1 .. Len(a) + Len(b) :
           (a \o b)[j] = IF j <= Len(a) THEN a[j] ELSE b[j - Len(a)]
  BY <1>2, <1>3, ConcatProperties
<1>5. ASSUME NEW j \in 1 .. Len(a \o b) PROVE \E k \in 1 .. Len(s) : (a \o b)[j] = s[k]
  <2>1. CASE j <= Len(a)
    <3>1. (a \o b)[j] = s[j] /\ j \in 1 .. Len(s)
      BY <1>1, <1>2, <1>3, <1>4, <2>1
    <3> QED
      BY <3>1
  <2>2. CASE j > Len(a)
    <3>1. (a \o b)[j] = s[j + 1] /\ j + 1 \in 1 .. Len(s)
      BY <1>1, <1>2, <1>3, <1>4, <2>2
    <3> QED
      BY <3>1
  <2> QED
    BY <1>2, <1>3, <1>4, <2>1, <2>2
<1> QED
  BY <1>4, <1>5 DEF From, RemoveAt, a, b

LEMMA Dropped ==
  ASSUME NEW S, NEW s \in Seq(S), s # <<>>
  PROVE  Tail(s) \in Seq(S) /\ From(Tail(s), s)
<1>1. /\ Tail(s) \in Seq(S) /\ Len(Tail(s)) = Len(s) - 1 /\ Len(s) \in Nat
      /\ \A j \in 1 .. Len(Tail(s)) : Tail(s)[j] = s[j + 1]
  BY HeadTailProperties, LenProperties
<1>2. ASSUME NEW j \in 1 .. Len(Tail(s)) PROVE \E k \in 1 .. Len(s) : Tail(s)[j] = s[k]
  <2>1. j + 1 \in 1 .. Len(s) /\ Tail(s)[j] = s[j + 1]
    BY <1>1
  <2> QED
    BY <2>1
<1> QED
  BY <1>1, <1>2 DEF From

\* What is left of the cache without the entry of a key.
LEMMA Rest ==
  ASSUME TypeOK, NEW c \in Requests
  PROVE  Without(c) \in Seq(Entries) /\ From(Without(c), cache)
<1>1. cache \in Seq(Entries) /\ DOMAIN cache = 1 .. Len(cache)
  BY LenProperties DEF TypeOK
<1>2. CASE Hit(c) = {}
  BY <1>1, <1>2 DEF Without, From
<1>3. CASE Hit(c) # {}
  <2>1. PICK i \in Hit(c) : i = CHOOSE j \in Hit(c) : TRUE
    BY <1>3
  <2>2. Without(c) = RemoveAt(cache, i) /\ i \in 1 .. Len(cache)
    BY <1>1, <1>3, <2>1 DEF Without, Hit
  <2> QED
    BY <1>1, <2>2, Removed
<1> QED
  BY <1>2, <1>3

\* What a step leaves in the cache, when it puts an entry at its end, and when it
\* drops the first one too.
CacheFrom(t, e) ==
  /\ t \in Seq(Entries)
  /\ \A j \in 1 .. Len(t) : t[j] = e \/ \E k \in 1 .. Len(cache) : t[j] = cache[k]

LEMMA Fuller ==
  ASSUME TypeOK, NEW c \in Requests, NEW e \in Entries
  PROVE  /\ CacheFrom(Append(Without(c), e), e)
         /\ CacheFrom(Tail(Append(Without(c), e)), e)
<1> DEFINE w == Without(c)
           full == Append(w, e)
<1>1. w \in Seq(Entries) /\ From(w, cache) /\ Len(w) \in Nat
  BY Rest, LenProperties
<1> HIDE DEF w
<1>2. /\ full \in Seq(Entries) /\ full # <<>> /\ Len(full) = Len(w) + 1
      /\ \A j \in 1 .. Len(w) : full[j] = w[j]
      /\ full[Len(w) + 1] = e
  BY <1>1, AppendProperties
<1> HIDE DEF full
<1>3. CacheFrom(full, e)
  <2> SUFFICES ASSUME NEW j \in 1 .. Len(full)
               PROVE  full[j] = e \/ \E k \in 1 .. Len(cache) : full[j] = cache[k]
    BY <1>2 DEF CacheFrom
  <2>1. j = Len(w) + 1 \/ j \in 1 .. Len(w)
    BY <1>1, <1>2
  <2> QED
    BY <1>1, <1>2, <2>1 DEF From
<1>4. Tail(full) \in Seq(Entries) /\ From(Tail(full), full)
  BY <1>2, Dropped
<1>5. CacheFrom(Tail(full), e)
  BY <1>3, <1>4 DEF CacheFrom, From
<1> QED
  BY <1>3, <1>5 DEF full, w

LEMMA PutCache ==
  ASSUME TypeOK, NEW c \in Requests, NEW i \in Nat, Put(c, i)
  PROVE  CacheFrom(cache', [key |-> key[c], by |-> c, text |-> i])
<1> DEFINE e == [key |-> key[c], by |-> c, text |-> i]
<1>1. e \in Entries
  BY DEF Entries, TypeOK
<1>2. cache' = Append(Without(c), e) \/ cache' = Tail(Append(Without(c), e))
  BY DEF Put
<1> HIDE DEF e
<1> QED
  BY <1>1, <1>2, Fuller DEF e

LEMMA StartCache ==
  ASSUME TypeOK, NEW c \in Requests, Start(c)
  PROVE  /\ cache' \in Seq(Entries)
         /\ \A j \in 1 .. Len(cache') : \E k \in 1 .. Len(cache) : cache'[j] = cache[k]
<1>1. cache \in Seq(Entries) /\ DOMAIN cache = 1 .. Len(cache)
  BY LenProperties DEF TypeOK
<1>2. CASE UNCHANGED cache
  BY <1>1, <1>2
<1>3. CASE /\ Hit(c) # {}
           /\ cache' = LET e == cache[CHOOSE i \in Hit(c) : TRUE] IN Append(Without(c), e)
  <2>1. PICK i \in Hit(c) : cache' = Append(Without(c), cache[i])
    BY <1>3
  <2>2. i \in 1 .. Len(cache) /\ cache[i] \in Entries
    BY <1>1, ElementOfSeq DEF Hit
  <2>3. CacheFrom(cache', cache[i])
    BY <2>1, <2>2, Fuller
  <2> QED
    BY <2>2, <2>3 DEF CacheFrom
<1> QED
  BY <1>2, <1>3 DEF Start

-----------------------------------------------------------------------------
(* The steps of a request, on its own state.                               *)

\* The shapes of a request's own state.
LEMMA Shapes ==
  ASSUME TInv, NEW c \in Requests
  PROVE  /\ texts[c] \in Seq(Texts) /\ scores[c] \in Seq(Marks) /\ out[c] \in Seq(Texts)
         /\ Len(texts[c]) \in Nat /\ Len(out[c]) \in Nat /\ attempts[c] \in 0 .. MaxAttempts
         /\ Len(scores[c]) = Len(texts[c]) /\ best[c] \in 0 .. Len(texts[c])
         /\ \A j \in 1 .. Len(texts[c]) : texts[c][j] \in Texts /\ scores[c][j] \in Marks
         /\ Local(c) /\ kind[c] \in Kinds /\ Top \in Nat /\ MaxAttempts \in Nat \ {0}
         /\ texts[c] # <<>> <=> Len(texts[c]) > 0
<1>1. /\ texts[c] \in Seq(Texts) /\ scores[c] \in Seq(Marks) /\ out[c] \in Seq(Texts)
      /\ attempts[c] \in 0 .. MaxAttempts /\ Local(c) /\ kind[c] \in Kinds
  BY DEF TInv, TypeOK
<1>2. Top \in Nat /\ MaxAttempts \in Nat \ {0}
  BY LoopsAssumption
<1>3. Len(scores[c]) = Len(texts[c]) /\ best[c] \in 0 .. Len(texts[c])
  BY <1>1 DEF Local, Counted
<1>4. Len(out[c]) \in Nat
  BY <1>1, Nonempty
<1>5. /\ Len(texts[c]) \in Nat /\ (texts[c] # <<>> <=> Len(texts[c]) > 0)
      /\ \A j \in 1 .. Len(texts[c]) : texts[c][j] \in Texts
  BY <1>1, Nonempty
<1>6. \A j \in 1 .. Len(scores[c]) : scores[c][j] \in Marks
  BY <1>1, Nonempty
<1> QED
  BY <1>1, <1>2, <1>3, <1>4, <1>5, <1>6

LEMMA StartKeeps ==
  ASSUME TInv, NEW c \in Requests, Start(c)
  PROVE  TypeOK' /\ Local(c)'
<1>1. UNCHANGED <<conf, work>> /\ at[c] = "idle"
  BY DEF Start
<1>2. PICK w \in {"ask", "done"} : at' = [at EXCEPT ![c] = w] /\ (w = "done" => kind[c] = "sync")
  BY DEF Start, Goto
<1>3. at' \in [Requests -> Working \cup {"next", "done", "failed"}] /\ at'[c] = w
  BY <1>2 DEF TInv, TypeOK, Working
<1>4. TypeOK'
  BY <1>1, <1>3, StartCache DEF TInv, TypeOK, conf, work
<1>5. Local(c)
  BY DEF TInv
<1>6. Counted(c)' /\ Graded(c)'
  BY <1>1, <1>5 DEF Local, Counted, Graded, Real, Scored, Size, conf, work
<1>7. Placed(c)'
  BY <1>1, <1>2, <1>3, <1>5 DEF Local, Placed, Working, work
<1>8. kind'[c] = kind[c] /\ (kind[c] = "graph" => at'[c] = "ask")
  BY <1>1, <1>2, <1>3 DEF conf
<1>9. Screened(c)' /\ Written(c)'
  BY <1>1, <1>5, <1>8 DEF Local, Screened, Written, Scored, Working, work
<1> QED
  BY <1>4, <1>6, <1>7, <1>9 DEF Local

LEMMA ReplyKeeps ==
  ASSUME TInv, NEW c \in Requests, Reply(c)
  PROVE  TypeOK' /\ Local(c)'
<1>1. PICK reply \in Replies(c) :
        /\ at' = [at EXCEPT ![c] = After(c, reply)]
        /\ attempts' = [attempts EXCEPT ![c] = @ + 1]
        /\ said' = [said EXCEPT ![c] = reply]
        /\ IF reply = "error" THEN UNCHANGED <<texts, scores>>
           ELSE /\ texts' = [texts EXCEPT ![c] = Append(@, reply)]
                /\ scores' = [scores EXCEPT ![c] = Append(@, Unscored)]
  BY DEF Reply, Goto, Attempted
<1>2. /\ at[c] = "ask" /\ judged' = [judged EXCEPT ![c] = "none"]
      /\ UNCHANGED <<kind, key, evaluate, dual, piece, best, answer, out, cache>>
  BY DEF Reply, conf
<1>3. /\ reply \in Texts \cup {"error"} /\ (reply = "lossy" => kind[c] = "graph")
      /\ After(c, reply) \in {"second", "judge", "decide"}
  BY DEF Replies, Texts, After
<1>4. /\ Local(c) /\ attempts[c] < MaxAttempts /\ answer[c] = Pending
      /\ Len(texts[c]) <= attempts[c]
  BY <1>2 DEF TInv, Local, Placed, Counted, Working
<1>5. /\ at'[c] = After(c, reply) /\ attempts'[c] = attempts[c] + 1 /\ said'[c] = reply
      /\ judged'[c] = "none"
  BY <1>1, <1>2 DEF TInv, TypeOK
<1>6. /\ at' \in [Requests -> Working \cup {"next", "done", "failed"}]
      /\ attempts' \in [Requests -> 0 .. MaxAttempts]
      /\ said' \in [Requests -> Texts \cup {"error", "none"}]
      /\ judged' \in [Requests -> {"none", "score", "unparseable", "outage"}]
  <2>1. attempts[c] + 1 \in 0 .. MaxAttempts
    BY <1>4, Shapes
  <2> QED
    BY <1>1, <1>2, <1>3, <2>1 DEF TInv, TypeOK, Working
<1>7. CASE reply = "error"
  <2>1. UNCHANGED <<texts, scores>> /\ at'[c] = "decide"
    BY <1>1, <1>5, <1>7 DEF After
  <2>2. TypeOK'
    BY <1>2, <1>6, <2>1 DEF TInv, TypeOK
  <2>3. Counted(c)' /\ Graded(c)'
    BY <1>2, <1>4, <1>5, <2>1, Shapes DEF Local, Counted, Graded, Real, Scored, Size
  <2>4. Placed(c)'
    BY <1>2, <1>4, <1>5, <1>7, <2>1 DEF Placed, Working
  <2>5. Screened(c)'
    <3> SUFFICES ASSUME kind[c] = "graph", NEW j \in 1 .. Len(texts[c]), Scored(c, j)
                 PROVE  texts[c][j] = "text" /\ ~(scores[c][j] >= Accept)
      BY <1>2, <2>1 DEF Screened, Scored
    <3>1. texts[c][j] = "text" /\ scores[c][j] < Accept
      BY <1>2, <1>4 DEF Local, Screened
    <3>2. scores[c][j] \in Int /\ Accept \in Int
      BY Shapes, LoopsAssumption DEF Marks, Scored
    <3> QED
      BY <3>1, <3>2
  <2>6. Written(c)'
    BY <1>2, <1>4, <2>1 DEF Local, Written, Working
  <2> QED
    BY <2>2, <2>3, <2>4, <2>5, <2>6 DEF Local
<1>8. CASE reply # "error"
  <2> DEFINE n == Len(texts[c])
  <2>0. n \in Nat /\ reply \in Texts /\ Unscored \in Marks
    BY <1>3, <1>8, Shapes DEF Marks
  <2>1. /\ texts' = [texts EXCEPT ![c] = Append(@, reply)]
        /\ scores' = [scores EXCEPT ![c] = Append(@, Unscored)]
    BY <1>1, <1>8
  <2>2. texts'[c] = Append(texts[c], reply) /\ scores'[c] = Append(scores[c], Unscored)
    BY <2>1 DEF TInv, TypeOK
  <2>3. /\ texts'[c] \in Seq(Texts) /\ Len(texts'[c]) = n + 1 /\ texts'[c] # <<>>
        /\ \A j \in 1 .. n : texts'[c][j] = texts[c][j]
        /\ texts'[c][n + 1] = reply
    <3>1. texts[c] \in Seq(Texts)
      BY Shapes
    <3> QED
      BY <2>0, <2>2, <3>1, Appended
  <2>4. /\ scores'[c] \in Seq(Marks) /\ Len(scores'[c]) = n + 1
        /\ \A j \in 1 .. n : scores'[c][j] = scores[c][j]
        /\ scores'[c][n + 1] = Unscored
    <3>1. scores[c] \in Seq(Marks) /\ Len(scores[c]) = n
      BY Shapes
    <3> QED
      BY <2>0, <2>2, <3>1, Appended
  <2>5. texts' \in [Requests -> Seq(Texts)] /\ scores' \in [Requests -> Seq(Marks)]
    BY <2>1, <2>2, <2>3, <2>4 DEF TInv, TypeOK
  <2>6. TypeOK'
    BY <1>2, <1>6, <2>5 DEF TInv, TypeOK
  <2>7. Counted(c)'
    BY <1>2, <1>4, <1>5, <2>0, <2>3, <2>4, Shapes DEF Local, Counted, Size
  <2>8. \A j \in 1 .. n + 1 : Scored(c, j)' => j \in 1 .. n /\ Scored(c, j)
    BY <2>0, <2>4 DEF Scored
  <2>9. Graded(c)'
    <3>1. best[c] # 0 => Real(c, best[c])'
      BY <1>2, <1>4, <2>4, Shapes DEF Local, Graded, Real, Scored
    <3>2. ASSUME NEW j \in 1 .. n, Scored(c, j)
          PROVE  /\ evaluate
                 /\ Real(c, j)' => best[c] # 0 /\ scores'[c][j] <= scores'[c][best[c]]
      <4>1. evaluate /\ (Real(c, j)' => Real(c, j))
        BY <1>2, <1>4, <2>4, <3>2 DEF Local, Graded, Real
      <4>2. Real(c, j) => best[c] \in 1 .. n /\ scores[c][j] <= scores[c][best[c]]
        BY <1>4, <3>2, Shapes DEF Local, Graded
      <4>3. scores'[c][j] = scores[c][j]
        BY <2>4
      <4>4. CASE Real(c, j)
        <5>1. scores'[c][best[c]] = scores[c][best[c]]
          BY <2>4, <4>2, <4>4
        <5>2. best[c] # 0
          BY <2>0, <4>2, <4>4
        <5> QED
          BY <4>1, <4>2, <4>3, <4>4, <5>1, <5>2
      <4> QED
        BY <4>1, <4>4
    <3> QED
      BY <1>2, <2>3, <2>8, <3>1, <3>2 DEF Graded
  <2>10. Screened(c)'
    <3> SUFFICES ASSUME kind[c] = "graph", NEW j \in 1 .. n, Scored(c, j)
                 PROVE  /\ texts'[c][j] = "text" /\ scores'[c][j] < Accept
                        /\ ~(scores'[c][j] >= Accept)
      BY <1>2, <2>3, <2>8 DEF Screened
    <3>1. texts[c][j] = "text" /\ scores[c][j] < Accept
      BY <1>2, <1>4 DEF Local, Screened
    <3>2. scores[c][j] \in Int /\ Accept \in Int
      BY Shapes, LoopsAssumption DEF Marks, Scored
    <3> QED
      BY <2>3, <2>4, <3>1, <3>2
  <2>11. Placed(c)'
    <3>1. Replied(c)' /\ ~Scored(c, Len(texts[c]))'
      BY <1>5, <2>3, <2>4 DEF Replied, Scored
    <3>2. at'[c] = "second" => kind[c] = "tree" /\ n = 0
      BY <1>4, <1>5, <2>0 DEF After, ToJudge
    <3>3. at'[c] = "judge" => evaluate /\ (kind[c] = "graph" => reply = "text")
      BY <1>5 DEF After, ToJudge
    <3> QED
      BY <1>2, <1>3, <1>4, <1>5, <2>0, <2>3, <3>1, <3>2, <3>3 DEF Placed, Working
  <2>12. Written(c)'
    BY <1>2, <1>3, <1>4, <1>5 DEF Local, Written, Working
  <2> QED
    BY <2>6, <2>7, <2>9, <2>10, <2>11, <2>12 DEF Local
<1> QED
  BY <1>7, <1>8

LEMMA SecondKeeps ==
  ASSUME TInv, NEW c \in Requests, Second(c)
  PROVE  TypeOK' /\ Local(c)'
<1>1. /\ at[c] = "second" /\ kind[c] = "tree" /\ Len(texts[c]) = 1 /\ ~Scored(c, 1)
      /\ judged[c] = "none" /\ Local(c) /\ answer[c] = Pending
      /\ texts[c][1] \in Texts /\ Len(scores[c]) = 1
  BY Shapes DEF Second, TInv, Local, Placed, Working
<1>2. UNCHANGED <<kind, key, evaluate, dual, piece, attempts, scores, judged, best, answer, out, cache>>
  BY DEF Second, conf
<1>3. PICK w \in {"judge", "decide"}, r \in Texts \cup {"error"} :
        /\ at' = [at EXCEPT ![c] = w] /\ said' = [said EXCEPT ![c] = r]
        /\ IF r = "error" THEN w = "decide" /\ UNCHANGED texts
           ELSE texts' = [texts EXCEPT ![c] = <<r>>] /\ w = IF evaluate THEN "judge" ELSE "decide"
  BY <1>1 DEF Second, Goto, Texts
<1>4. at'[c] = w /\ said'[c] = r
  BY <1>3 DEF TInv, TypeOK
<1>5. /\ texts' \in [Requests -> Seq(Texts)] /\ Len(texts'[c]) = 1
      /\ r # "error" => texts'[c] = <<r>>
  <2>1. CASE r = "error"
    BY <1>1, <1>3, <2>1 DEF TInv, TypeOK
  <2>2. CASE r # "error"
    <3>1. <<r>> \in Seq(Texts) /\ Len(<<r>>) = 1
      BY <2>2
    <3>2. texts' = [texts EXCEPT ![c] = <<r>>]
      BY <1>3, <2>2
    <3> QED
      BY <3>1, <3>2 DEF TInv, TypeOK
  <2> QED
    BY <2>1, <2>2
<1>6. TypeOK'
  BY <1>2, <1>3, <1>5 DEF TInv, TypeOK, Working
<1>7. Counted(c)'
  BY <1>1, <1>2, <1>5 DEF Local, Counted, Size
<1>8. \A j \in 1 .. 1 : ~Scored(c, j)'
  BY <1>1, <1>2 DEF Scored
<1>9. best[c] = 0
  BY <1>1, Shapes DEF Local, Graded, Real
<1>10. Graded(c)' /\ Screened(c)'
  BY <1>2, <1>5, <1>8, <1>9 DEF Graded, Screened
<1>11. Placed(c)'
  <2>0. <<r>> # <<>> /\ <<r>>[1] = r
    OBVIOUS
  <2>1. r # "error" => texts'[c] # <<>> /\ texts'[c][Len(texts'[c])] = r
    BY <1>5, <2>0
  <2>2. ~(scores'[c][Len(texts'[c])] # Unscored)
    BY <1>1, <1>2, <1>5 DEF Scored
  <2> QED
    BY <1>1, <1>2, <1>3, <1>4, <2>1, <2>2 DEF Placed, Replied, Scored, Working
<1>12. Written(c)'
  BY <1>1, <1>2 DEF Written
<1> QED
  BY <1>6, <1>7, <1>10, <1>11, <1>12 DEF Local

\* What is known of a request that waits for its judge.
LEMMA AtJudge ==
  ASSUME TInv, NEW c \in Requests, at[c] = "judge"
  PROVE  /\ Local(c) /\ Len(texts[c]) \in Nat \ {0} /\ answer[c] = Pending
         /\ texts[c][Len(texts[c])] = said[c] /\ ~Scored(c, Len(texts[c])) /\ evaluate
         /\ best[c] # Len(texts[c]) /\ texts[c] # <<>>
         /\ kind[c] = "graph" => said[c] = "text"
BY Shapes DEF TInv, Local, Placed, Replied, Working, Graded, Real

LEMMA JudgeKeeps ==
  ASSUME TInv, NEW c \in Requests, Judge(c)
  PROVE  TypeOK' /\ Local(c)'
<1> DEFINE n == Len(texts[c])
<1>1. /\ at[c] = "judge" /\ at' = [at EXCEPT ![c] = "decide"]
      /\ UNCHANGED <<kind, key, evaluate, dual, piece, attempts, texts, said, answer, out, cache>>
  BY DEF Judge, Goto, conf
<1>2. /\ Local(c) /\ n \in Nat \ {0} /\ texts[c][n] = said[c] /\ ~Scored(c, n)
      /\ answer[c] = Pending /\ texts[c] # <<>>
      /\ evaluate /\ best[c] # n /\ (kind[c] = "graph" => said[c] = "text")
  BY <1>1, AtJudge
<1>3. at'[c] = "decide" /\ at' \in [Requests -> Working \cup {"next", "done", "failed"}]
  BY <1>1 DEF TInv, TypeOK, Working
<1>4. Written(c)'
  BY <1>1, <1>2, <1>3 DEF Local, Written, Working
<1>5. CASE \E v \in {"unparseable", "outage"} :
             judged' = [judged EXCEPT ![c] = v] /\ UNCHANGED <<scores, best>>
  <2>1. /\ judged' \in [Requests -> {"none", "score", "unparseable", "outage"}]
        /\ judged'[c] # "score" /\ UNCHANGED <<scores, best>>
    BY <1>5 DEF TInv, TypeOK
  <2>2. TypeOK'
    BY <1>1, <1>3, <2>1 DEF TInv, TypeOK
  <2>3. Counted(c)' /\ Graded(c)'
    BY <1>1, <1>2, <2>1 DEF Local, Counted, Graded, Real, Scored, Size
  <2>4. Placed(c)'
    BY <1>1, <1>2, <1>3, <2>1 DEF Placed, Replied, Scored, Working
  <2>5. Screened(c)'
    <3> SUFFICES ASSUME kind[c] = "graph", NEW j \in 1 .. n, Scored(c, j)
                 PROVE  texts[c][j] = "text" /\ ~(scores[c][j] >= Accept)
      BY <1>1, <1>3, <2>1 DEF Screened, Scored
    <3>1. texts[c][j] = "text" /\ scores[c][j] < Accept
      BY <1>1, <1>2 DEF Local, Screened
    <3>2. scores[c][j] \in Int /\ Accept \in Int
      BY Shapes, LoopsAssumption DEF Marks, Scored
    <3> QED
      BY <3>1, <3>2
  <2> QED
    BY <1>4, <2>2, <2>3, <2>4, <2>5 DEF Local
<1>6. CASE \E s \in 0 .. Top : Score(c, s)
  <2>1. PICK s \in 0 .. Top : Score(c, s)
    BY <1>6
  <2>2. s \in Nat /\ s \in Marks /\ s # Unscored
    BY <2>1, LoopsAssumption, MarksAssumption DEF Marks
  <2>3. /\ judged' \in [Requests -> {"none", "score", "unparseable", "outage"}]
        /\ judged'[c] = "score"
    BY <2>1 DEF Score, TInv, TypeOK
  <2>4. /\ scores' \in [Requests -> Seq(Marks)] /\ Len(scores'[c]) = n
        /\ scores'[c][n] = s
        /\ \A j \in 1 .. n : j # n => scores'[c][j] = scores[c][j]
    <3>1. scores[c] \in Seq(Marks) /\ Len(scores[c]) = n
      BY Shapes
    <3> DEFINE t == [scores[c] EXCEPT ![n] = s]
    <3>2. t \in Seq(Marks) /\ Len(t) = n /\ \A j \in 1 .. n : t[j] = IF j = n THEN s ELSE scores[c][j]
      BY <1>2, <2>2, <3>1, ExceptSeq
    <3>3. scores' = [scores EXCEPT ![c] = t]
      BY <2>1 DEF Score
    <3> HIDE DEF t
    <3> QED
      BY <1>2, <3>2, <3>3 DEF TInv, TypeOK
  <2>5. /\ best' \in [Requests -> Nat]
        /\ best'[c] = IF Beats(c, s) THEN n ELSE best[c]
    BY <1>2, <2>1 DEF Score, TInv, TypeOK
  <2>6. TypeOK'
    BY <1>1, <1>3, <2>3, <2>4, <2>5 DEF TInv, TypeOK
  <2>7. Counted(c)'
    BY <1>1, <1>2, <2>4, <2>5 DEF Local, Counted, Size
  <2>8. \A j \in 1 .. n : Scored(c, j)' => j = n \/ (j # n /\ Scored(c, j))
    BY <2>4 DEF Scored
  <2>9. best[c] # 0 => best[c] \in 1 .. n /\ scores[c][best[c]] \in 0 .. Top
    <3>1. best[c] # 0 => Scored(c, best[c]) /\ best[c] \in 1 .. n
      BY <1>2, Shapes DEF Local, Graded, Real
    <3> QED
      BY <3>1, Shapes DEF Scored, Marks
  <2>10. Beats(c, s) <=> IF best[c] = 0 THEN kind[c] = "graph" => s # 0
                         ELSE s > scores[c][best[c]]
    BY <1>2, <2>1, <2>2, <2>9 DEF Beats, BestScore
  <2>11. best'[c] # 0 => Real(c, best[c])'
    <3>1. CASE Beats(c, s)
      <4>1. kind[c] = "graph" => s # 0
        BY <2>2, <2>9, <2>10, <3>1, LoopsAssumption
      <4>2. best'[c] = n /\ scores'[c][n] = s
        BY <2>4, <2>5, <3>1
      <4> QED
        BY <1>1, <2>2, <4>1, <4>2 DEF Real, Scored
    <3>2. CASE ~Beats(c, s)
      <4>1. best'[c] = best[c] /\ (best[c] # 0 => Real(c, best[c]))
        BY <1>2, <2>5, <3>2 DEF Local, Graded
      <4>2. best[c] # 0 => scores'[c][best[c]] = scores[c][best[c]]
        BY <1>2, <2>4, <2>9
      <4> QED
        BY <1>1, <4>1, <4>2 DEF Real, Scored
    <3> QED
      BY <3>1, <3>2
  <2>12. ASSUME NEW j \in 1 .. n, Real(c, j)'
         PROVE  best'[c] # 0 /\ scores'[c][j] <= scores'[c][best'[c]]
    <3>1. CASE j = n
      <4>1. scores'[c][j] = s /\ (kind[c] = "graph" => s # 0)
        BY <1>1, <2>4, <2>12, <3>1 DEF Real
      <4>2. CASE Beats(c, s)
        BY <1>2, <2>2, <2>4, <2>5, <3>1, <4>2
      <4>3. CASE ~Beats(c, s)
        <5>1. best[c] # 0 /\ ~(s > scores[c][best[c]]) /\ best'[c] = best[c]
          BY <2>5, <2>10, <4>1, <4>3
        <5>2. scores'[c][best[c]] = scores[c][best[c]] /\ scores[c][best[c]] \in 0 .. Top
          BY <1>2, <2>4, <2>9, <5>1
        <5> QED
          BY <2>2, <4>1, <5>1, <5>2, LoopsAssumption
      <4> QED
        BY <4>2, <4>3
    <3>2. CASE j # n
      <4>0. scores'[c][j] = scores[c][j] /\ Real(c, j) /\ Scored(c, j)
        BY <1>1, <2>4, <2>12, <3>2 DEF Real, Scored
      <4>1. best[c] # 0 /\ scores[c][j] <= scores[c][best[c]]
        BY <1>2, <4>0 DEF Local, Graded
      <4>2. scores[c][j] \in 0 .. Top
        BY <4>0, Shapes DEF Scored, Marks
      <4>3. scores[c][best[c]] \in 0 .. Top /\ Top \in Nat
        BY <2>9, <4>1, LoopsAssumption
      <4>4. CASE Beats(c, s)
        <5>1. s > scores[c][best[c]] /\ best'[c] = n /\ scores'[c][best'[c]] = s
          BY <2>4, <2>5, <2>10, <4>1, <4>4
        <5> QED
          BY <1>2, <2>2, <4>0, <4>1, <4>2, <4>3, <5>1
      <4>5. CASE ~Beats(c, s)
        <5>1. best'[c] = best[c] /\ scores'[c][best'[c]] = scores[c][best[c]]
          BY <1>2, <2>4, <2>5, <2>9, <4>1, <4>5
        <5> QED
          BY <4>0, <4>1, <5>1
      <4> QED
        BY <4>4, <4>5
    <3> QED
      BY <3>1, <3>2
  <2>13. Graded(c)'
    BY <1>1, <1>2, <2>11, <2>12 DEF Graded
  <2>14. Placed(c)'
    BY <1>1, <1>2, <1>3, <2>2, <2>3, <2>4 DEF Placed, Replied, Scored, Working
  <2>15. Screened(c)'
    <3> SUFFICES ASSUME kind[c] = "graph", NEW j \in 1 .. n, Scored(c, j)'
                 PROVE  /\ texts[c][j] = "text"
                        /\ scores'[c][j] >= Accept => j = n
      BY <1>1, <1>3, <2>3 DEF Screened
    <3>1. CASE j = n
      BY <1>2, <3>1
    <3>2. CASE j # n
      <4>1. texts[c][j] = "text" /\ scores[c][j] < Accept
        BY <1>1, <1>2, <2>8, <3>2 DEF Local, Screened
      <4>2. scores[c][j] \in 0 .. Top
        BY <2>8, <3>2, Shapes DEF Scored, Marks
      <4> QED
        BY <2>4, <3>2, <4>1, <4>2, LoopsAssumption
    <3> QED
      BY <3>1, <3>2
  <2> QED
    BY <1>4, <2>6, <2>7, <2>13, <2>14, <2>15 DEF Local
<1> QED
  BY <1>5, <1>6 DEF Judge

-----------------------------------------------------------------------------
(* Decisions.                                                              *)

NoReal(c) == \A j \in 1 .. Len(texts[c]) : ~Real(c, j)
\* The best of the scored attempts, and whether the sync loop takes one for none.
Tops(c, i) ==
  /\ i \in 1 .. Len(texts[c]) /\ Real(c, i)
  /\ \A j \in 1 .. Len(texts[c]) : Real(c, j) => scores[c][j] <= scores[c][i]
Void(c, i) == kind[c] = "sync" /\ texts[c][i] = "empty"
Spoilt(c) == \E i \in 1 .. Len(texts[c]) : Tops(c, i) /\ Void(c, i)

\* What wins: the best of those the judge scored, any if it scored none, or the
\* last one, if it is unscored or the best is no text.
Won(c, i) ==
  /\ i \in 1 .. Len(texts[c])
  /\ IF Real(c, i) THEN \/ Tops(c, i) /\ ~Void(c, i)
                        \/ i = Len(texts[c]) /\ Spoilt(c)
     ELSE NoReal(c) \/ i = Len(texts[c])

LEMMA BestTops ==
  ASSUME TInv, NEW c \in Requests, best[c] # 0
  PROVE  Tops(c, best[c])
<1>1. Local(c) /\ best[c] \in 1 .. Len(texts[c])
  BY Shapes
<1>2. Real(c, best[c])
  BY <1>1 DEF Local, Graded
<1>3. \A j \in 1 .. Len(texts[c]) : Real(c, j) => scores[c][j] <= scores[c][best[c]]
  BY <1>1 DEF Local, Graded, Real
<1> QED
  BY <1>1, <1>2, <1>3 DEF Tops

LEMMA BestWins ==
  ASSUME TInv, NEW c \in Requests, best[c] # 0, ~Void(c, best[c])
  PROVE  Won(c, best[c])
BY BestTops DEF Won, Tops

\* Without a best attempt the loops are free to return the last reply, or to fail.
LEMMA NoBest ==
  ASSUME TInv, NEW c \in Requests, best[c] = 0 \/ Void(c, best[c])
  PROVE  NoReal(c) \/ Spoilt(c)
<1>1. CASE best[c] = 0
  BY <1>1, Shapes DEF Local, Graded, Real, NoReal
<1>2. CASE best[c] # 0
  <2>1. Tops(c, best[c]) /\ Void(c, best[c]) /\ best[c] \in 1 .. Len(texts[c])
    BY <1>2, BestTops DEF Tops
  <2> QED
    BY <2>1 DEF Spoilt
<1> QED
  BY <1>1, <1>2

LEMMA LastWins ==
  ASSUME TInv, NEW c \in Requests, Len(texts[c]) # 0, NoReal(c) \/ Spoilt(c)
  PROVE  Won(c, Len(texts[c]))
BY Shapes DEF Won, NoReal

LEMMA UnscoredWins ==
  ASSUME TInv, NEW c \in Requests, Len(texts[c]) # 0, ~Real(c, Len(texts[c]))
  PROVE  Won(c, Len(texts[c]))
BY Shapes DEF Won

\* How an attempt ends: a winner, a failure, or another attempt.
Settles(c, i) ==
  /\ Settle(c, i) /\ Won(c, i)
  /\ kind[c] = "graph" => texts[c][i] # "empty"
  /\ UNCHANGED cache \/ (kind[c] = "sync" /\ said[c] # "error" /\ Put(c, i))
Fails(c) ==
  Fail(c) /\ UNCHANGED cache /\ (kind[c] = "tree" \/ NoReal(c) \/ Spoilt(c))
Retries(c) ==
  /\ Again(c) /\ UNCHANGED cache /\ ~Spent(c)
  /\ kind[c] = "graph" =>
       \A j \in 1 .. Len(texts[c]) : Scored(c, j) => scores[c][j] < Accept

LEMMA Decisions ==
  ASSUME TInv, NEW c \in Requests, Decide(c)
  PROVE  (\E i \in 1 .. Len(texts[c]) : Settles(c, i)) \/ Fails(c) \/ Retries(c)
<1> DEFINE n == Len(texts[c])
<1>1. /\ at[c] = "decide" /\ Local(c) /\ n \in Nat
      /\ kind[c] = "sync" => DecideSync(c)
      /\ kind[c] = "tree" => DecideTree(c)
      /\ kind[c] = "graph" => DecideGraph(c)
  BY Shapes DEF Decide
<1>2. CASE said[c] = "error" /\ judged[c] = "none"
  <2>1. CASE kind[c] = "sync"
    <3>1. CASE best[c] # 0 /\ texts[c][best[c]] # "empty"
      <4>1. Settle(c, best[c]) /\ UNCHANGED cache
        BY <1>1, <1>2, <2>1, <3>1 DEF DecideSync
      <4>2. Won(c, best[c])
        BY <3>1, BestWins DEF Void
      <4> QED
        BY <2>1, <4>1, <4>2 DEF Settles, Won
    <3>2. CASE ~(best[c] # 0 /\ texts[c][best[c]] # "empty")
      <4>1. Fail(c) /\ UNCHANGED cache
        BY <1>1, <1>2, <2>1, <3>2 DEF DecideSync
      <4>2. NoReal(c) \/ Spoilt(c)
        BY <2>1, <3>2, NoBest DEF Void
      <4> QED
        BY <4>1, <4>2 DEF Fails
    <3> QED
      BY <3>1, <3>2
  <2>2. CASE kind[c] = "tree"
    BY <1>1, <1>2, <2>2 DEF DecideTree, Fails
  <2>3. CASE kind[c] = "graph"
    <3>1. DecideGraph(c) <=>
            /\ IF best[c] # 0 THEN Settle(c, best[c])
               ELSE IF Spent(c) THEN Fail(c) ELSE Again(c)
            /\ UNCHANGED cache
      BY <1>2 DEF DecideGraph
    <3>2. best[c] # 0 => texts[c][best[c]] = "text" /\ Won(c, best[c])
      BY <1>1, <2>3, BestWins, Shapes DEF Local, Graded, Screened, Real, Void
    <3>4. best[c] = 0 => NoReal(c)
      BY <1>1 DEF Local, Graded, Real, NoReal
    <3>3. \A j \in 1 .. n : Scored(c, j) => scores[c][j] < Accept
      <4> SUFFICES ASSUME NEW j \in 1 .. n, Scored(c, j) PROVE scores[c][j] < Accept
        OBVIOUS
      <4>1. ~(scores[c][j] >= Accept)
        BY <1>1, <1>2, <2>3 DEF Local, Screened
      <4>2. scores[c][j] \in Int /\ Accept \in Int
        BY Shapes, LoopsAssumption DEF Scored, Marks
      <4> QED
        BY <4>1, <4>2
    <3> QED
      BY <1>1, <2>3, <3>1, <3>2, <3>3, <3>4 DEF Settles, Fails, Retries, Won
  <2> QED
    BY <2>1, <2>2, <2>3, Shapes DEF Kinds
<1>3. CASE Replied(c) /\ (judged[c] = "score" <=> Scored(c, n))
  <2>1. /\ n \in 1 .. n /\ texts[c][n] = said[c] /\ said[c] \in Texts /\ said[c] # "error"
        /\ 1 \in 1 .. n
    BY <1>3, Shapes DEF Replied, Texts
  <2>2. CASE kind[c] = "sync"
    <3> DEFINE usable == best[c] # 0 /\ texts[c][best[c]] # "empty"
               final == IF usable THEN best[c] ELSE Latest(c)
    <3>2. Won(c, final)
      <4>1. CASE usable
        BY <4>1, BestWins DEF Void
      <4>2. CASE ~usable
        BY <1>1, <2>1, <2>2, <4>2, NoBest, LastWins DEF Latest, Void
      <4> QED
        BY <4>1, <4>2
    <3>3. CASE judged[c] # "score" \/ Accepted(c) \/ Spent(c)
      <4>1. Settle(c, final) /\ Put(c, final)
        BY <1>1, <2>1, <2>2, <3>3 DEF DecideSync
      <4> HIDE DEF final
      <4> QED
        BY <2>1, <2>2, <3>2, <4>1 DEF Settles, Won
    <3>4. CASE ~(judged[c] # "score" \/ Accepted(c) \/ Spent(c))
      BY <1>1, <2>1, <2>2, <3>4 DEF DecideSync, Retries
    <3> QED
      BY <3>3, <3>4
  <2>3. CASE kind[c] = "tree"
    <3>1. CASE judged[c] = "outage"
      BY <1>1, <2>3, <3>1 DEF DecideTree, Fails
    <3>2. CASE /\ judged[c] \in {"none", "unparseable"} \/ Accepted(c) \/ Spent(c)
               /\ judged[c] # "outage"
      <4>1. Settle(c, IF best[c] = 0 THEN 1 ELSE best[c]) /\ UNCHANGED cache
        BY <1>1, <2>1, <2>3, <3>2 DEF DecideTree
      <4>2. Won(c, IF best[c] = 0 THEN 1 ELSE best[c])
        <5>1. CASE best[c] # 0
          BY <2>3, <5>1, BestWins DEF Void
        <5>2. CASE best[c] = 0
          BY <1>1, <2>1, <5>2 DEF Local, Graded, Real, Won, NoReal
        <5> QED
          BY <5>1, <5>2
      <4> QED
        BY <2>3, <4>1, <4>2 DEF Settles, Won
    <3>3. CASE /\ ~(judged[c] \in {"none", "unparseable"} \/ Accepted(c) \/ Spent(c))
               /\ judged[c] # "outage"
      BY <1>1, <2>1, <2>3, <3>3 DEF DecideTree, Retries
    <3> QED
      BY <3>1, <3>2, <3>3
  <2>4. CASE kind[c] = "graph"
    <3>1. best[c] # 0 => Won(c, best[c]) /\ texts[c][best[c]] # "empty"
      BY <1>1, <2>4, BestWins, Shapes DEF Local, Graded, Screened, Real, Void
    <3>2. best[c] = 0 => NoReal(c)
      BY <1>1 DEF Local, Graded, Real, NoReal
    <3>3. NoReal(c) \/ ~Scored(c, n) \/ ~Real(c, n) => Won(c, n)
      BY <2>1, LastWins, UnscoredWins DEF Real
    <3>4. \A j \in 1 .. n : Scored(c, j) => scores[c][j] < Accept \/ (j = n /\ judged[c] = "score")
      <4> SUFFICES ASSUME NEW j \in 1 .. n, Scored(c, j), ~(j = n /\ judged[c] = "score")
                   PROVE  scores[c][j] < Accept
        OBVIOUS
      <4>1. ~(scores[c][j] >= Accept)
        BY <1>1, <2>4 DEF Local, Screened
      <4>2. scores[c][j] \in Int /\ Accept \in Int
        BY Shapes, LoopsAssumption DEF Scored, Marks
      <4> QED
        BY <4>1, <4>2
    <3>5. \A j \in 1 .. n : Scored(c, j) => texts[c][j] = "text" /\ evaluate
      BY <1>1, <2>4 DEF Local, Screened, Graded
    <3>6. CASE said[c] = "empty"
      <4>1. DecideGraph(c) <=>
              /\ IF best[c] # 0 THEN Settle(c, best[c])
                 ELSE IF Spent(c) THEN Fail(c) ELSE Again(c)
              /\ UNCHANGED cache
        BY <3>6 DEF DecideGraph
      <4>2. ~Scored(c, n)
        BY <2>1, <3>5, <3>6
      <4>3. \A j \in 1 .. n : Scored(c, j) => scores[c][j] < Accept
        BY <3>4, <4>2
      <4>4. CASE best[c] # 0
        BY <1>1, <2>4, <3>1, <4>1, <4>4 DEF Settles, Won
      <4>5. CASE best[c] = 0
        BY <1>1, <2>4, <3>2, <4>1, <4>3, <4>5 DEF Fails, Retries
      <4> QED
        BY <4>4, <4>5
    <3>7. CASE said[c] \in {"text", "lossy"} /\ (~evaluate \/ Spent(c))
      <4>1. /\ Settle(c, IF evaluate /\ best[c] # 0 THEN best[c] ELSE Latest(c))
            /\ UNCHANGED cache
        BY <1>1, <2>4, <3>7 DEF DecideGraph
      <4>2. ~evaluate => ~Scored(c, n)
        BY <2>1, <3>5
      <4> QED
        BY <2>1, <2>4, <3>1, <3>2, <3>3, <3>7, <4>1, <4>2 DEF Settles, Latest, Won
    <3>8. CASE said[c] = "lossy" /\ evaluate /\ ~Spent(c)
      <4>1. /\ IF piece[c] \in Trivial THEN Settle(c, Latest(c)) ELSE Again(c)
            /\ UNCHANGED cache
        BY <1>1, <2>4, <3>8 DEF DecideGraph
      <4>2. ~Scored(c, n)
        BY <2>1, <3>5, <3>8
      <4> QED
        BY <1>3, <2>1, <2>4, <3>3, <3>4, <3>8, <4>1, <4>2 DEF Settles, Retries, Latest, Won
    <3>9. CASE said[c] = "text" /\ evaluate /\ ~Spent(c)
      <4>1. /\ IF judged[c] # "score" \/ Accepted(c) THEN Settle(c, Latest(c)) ELSE Again(c)
            /\ UNCHANGED cache
        BY <1>1, <2>4, <3>9 DEF DecideGraph
      <4>2. CASE judged[c] # "score"
        BY <1>3, <2>1, <2>4, <3>3, <3>9, <4>1, <4>2 DEF Settles, Latest, Won
      <4>3. CASE judged[c] = "score" /\ scores[c][n] >= Accept
        <5>1. scores[c][n] \in 0 .. Top
          BY <1>3, <2>1, <3>9, <4>3, Shapes DEF Scored, Marks
        <5>2. ASSUME NEW j \in 1 .. n, Real(c, j) PROVE scores[c][j] <= scores[c][n]
          <6>1. scores[c][j] \in 0 .. Top
            BY <5>2, Shapes DEF Real, Scored, Marks
          <6> QED
            BY <3>4, <4>3, <5>1, <5>2, <6>1, LoopsAssumption DEF Real
        <5>3. Won(c, n)
          <6>1. CASE Real(c, n)
            BY <2>1, <2>4, <5>1, <5>2, <6>1 DEF Won, Tops, Void
          <6> QED
            BY <3>3, <6>1
        <5>4. Settle(c, n) /\ UNCHANGED cache
          BY <4>1, <4>3 DEF Accepted, LastScore, Latest
        <5> QED
          BY <2>1, <3>9, <5>3, <5>4 DEF Settles
      <4>4. CASE judged[c] = "score" /\ ~(scores[c][n] >= Accept)
        <5>1. Again(c) /\ UNCHANGED cache
          BY <4>1, <4>4 DEF Accepted, LastScore, Latest
        <5>2. Scored(c, n) => scores[c][n] < Accept
          <6>1. Scored(c, n) => scores[c][n] \in Int /\ Accept \in Int
            BY <2>1, Shapes, LoopsAssumption DEF Scored, Marks
          <6> QED
            BY <4>4, <6>1
        <5> QED
          BY <3>4, <3>9, <5>1, <5>2 DEF Retries
      <4> QED
        BY <4>2, <4>3, <4>4
    <3> QED
      BY <2>1, <3>6, <3>7, <3>8, <3>9 DEF Texts
  <2> QED
    BY <2>2, <2>3, <2>4, Shapes DEF Kinds
<1> QED
  BY <1>1, <1>2, <1>3 DEF Local, Placed

LEMMA DecideKeeps ==
  ASSUME TInv, NEW c \in Requests, Decide(c)
  PROVE  TypeOK' /\ Local(c)'
<1>1. /\ at[c] = "decide" /\ Local(c) /\ answer[c] = Pending
      /\ UNCHANGED <<kind, key, evaluate, dual, piece, attempts, texts, scores, said, judged, best, out>>
  BY DEF Decide, conf, TInv, Local, Placed, Working
<1>2. /\ at' \in [Requests -> Working \cup {"next", "done", "failed"}]
      /\ answer' \in [Requests -> Nat \cup {Pending, Failed}]
      /\ at'[c] \in {"next", "failed", "ask"}
      /\ answer'[c] \in {Pending, Failed} \cup 1 .. Len(texts[c])
      /\ at'[c] = "ask" => answer'[c] = Pending /\ attempts[c] < MaxAttempts
      /\ at'[c] = "next" => answer'[c] \in 1 .. Len(texts[c])
      /\ at'[c] = "next" /\ kind[c] = "graph" => texts[c][answer'[c]] # "empty"
      /\ at'[c] = "ask" /\ kind[c] = "graph" =>
           \A j \in 1 .. Len(texts[c]) : Scored(c, j) => scores[c][j] < Accept
      /\ cache' \in Seq(Entries)
  <2>1. CASE \E i \in 1 .. Len(texts[c]) : Settles(c, i)
    <3>1. PICK i \in 1 .. Len(texts[c]) : Settles(c, i)
      BY <2>1
    <3>2. cache' \in Seq(Entries)
      <4>1. i \in Nat
        BY <2>1
      <4>2. cache' = cache \/ Put(c, i)
        BY <3>1 DEF Settles
      <4>3. CASE Put(c, i)
        <5>1. CacheFrom(cache', [key |-> key[c], by |-> c, text |-> i])
          BY <4>1, <4>3, PutCache DEF TInv
        <5> QED
          BY <5>1 DEF CacheFrom
      <4> QED
        BY <4>2, <4>3 DEF TInv, TypeOK
    <3>3. at' = [at EXCEPT ![c] = "next"] /\ answer' = [answer EXCEPT ![c] = i]
      BY <3>1 DEF Settles, Settle, Goto
    <3> QED
      BY <3>1, <3>2, <3>3 DEF Settles, TInv, TypeOK
  <2>2. CASE Fails(c)
    <3>1. at' = [at EXCEPT ![c] = "failed"] /\ answer' = [answer EXCEPT ![c] = Failed]
      BY <2>2 DEF Fails, Fail, Goto
    <3> QED
      BY <2>2, <3>1 DEF Fails, TInv, TypeOK
  <2>3. CASE Retries(c)
    <3>1. at' = [at EXCEPT ![c] = "ask"] /\ answer' = answer /\ attempts[c] < MaxAttempts
      BY <2>3, Shapes DEF Retries, Again, Goto, Spent
    <3> QED
      BY <1>1, <2>3, <3>1 DEF Retries, TInv, TypeOK, Working
  <2> QED
    BY <2>1, <2>2, <2>3, Decisions
<1>3. TypeOK'
  BY <1>1, <1>2 DEF TInv, TypeOK
<1>4. Counted(c)' /\ Graded(c)'
  BY <1>1, <1>2 DEF Local, Counted, Graded, Real, Scored, Size
<1>5. Placed(c)'
  BY <1>1, <1>2 DEF Placed, Working
<1>6. Screened(c)'
  BY <1>1, <1>2 DEF Local, Screened, Scored
<1>7. Written(c)'
  BY <1>1, <1>2 DEF Local, Written, Working
<1> QED
  BY <1>3, <1>4, <1>5, <1>6, <1>7 DEF Local

LEMMA NextPieceKeeps ==
  ASSUME TInv, NEW c \in Requests, NextPiece(c)
  PROVE  TypeOK' /\ Local(c)'
<1> DEFINE t == texts[c][answer[c]]
<1>1. /\ at[c] = "next" /\ Local(c) /\ answer[c] \in 1 .. Len(texts[c]) /\ t \in Texts
      /\ out[c] \in Seq(Texts) /\ Len(out[c]) \in Nat
      /\ UNCHANGED <<kind, key, evaluate, dual, said, judged, cache>>
      /\ out' = [out EXCEPT ![c] = Append(@, t)]
  BY Shapes DEF NextPiece, conf, TInv, Local, Placed
<1>2. piece[c] \in 1 .. Size(c) /\ Size(c) \in Nat \ {0}
  BY <1>1, LoopsAssumption DEF Local, Counted, Size
<1> HIDE DEF t
<1>3. /\ out' \in [Requests -> Seq(Texts)] /\ Len(out'[c]) = Len(out[c]) + 1
      /\ \A i \in 1 .. Len(out[c]) : out'[c][i] = out[c][i]
      /\ out'[c][Len(out[c]) + 1] = t
  <2>1. /\ Append(out[c], t) \in Seq(Texts) /\ Len(Append(out[c], t)) = Len(out[c]) + 1
        /\ \A i \in 1 .. Len(out[c]) : Append(out[c], t)[i] = out[c][i]
        /\ Append(out[c], t)[Len(out[c]) + 1] = t
    BY <1>1, Appended
  <2>2. out'[c] = Append(out[c], t)
    BY <1>1 DEF TInv, TypeOK
  <2> QED
    BY <1>1, <2>1, <2>2 DEF TInv, TypeOK
<1>4. kind[c] = "graph" => \A i \in 1 .. Len(out'[c]) : out'[c][i] # "empty"
  <2> SUFFICES ASSUME kind[c] = "graph", NEW i \in 1 .. Len(out'[c]) PROVE out'[c][i] # "empty"
    OBVIOUS
  <2>1. CASE i \in 1 .. Len(out[c])
    BY <1>1, <1>3, <2>1 DEF Local, Written
  <2>2. CASE i = Len(out[c]) + 1
    BY <1>1, <1>3, <2>2 DEF Local, Written, t
  <2> QED
    BY <1>1, <1>3, <2>1, <2>2
<1>5. /\ attempts' = [attempts EXCEPT ![c] = 0]
      /\ texts' = [texts EXCEPT ![c] = <<>>] /\ scores' = [scores EXCEPT ![c] = <<>>]
      /\ best' = [best EXCEPT ![c] = 0] /\ answer' = [answer EXCEPT ![c] = Pending]
  BY DEF NextPiece
<1>6. /\ attempts'[c] = 0 /\ texts'[c] = <<>> /\ scores'[c] = <<>>
      /\ best'[c] = 0 /\ answer'[c] = Pending
  BY <1>5 DEF TInv, TypeOK
<1>7. <<>> \in Seq(Texts) /\ <<>> \in Seq(Marks) /\ Len(<<>>) = 0
  BY EmptySeq
<1>8. /\ at'[c] \in {"ask", "done"} /\ piece'[c] \in 1 .. Size(c)
      /\ at'[c] = "ask" => piece'[c] = piece[c] + 1
      /\ at'[c] = "done" => piece[c] = Size(c)
      /\ at' \in [Requests -> Working \cup {"next", "done", "failed"}]
      /\ piece' \in [Requests -> Nat]
  <2>1. CASE piece[c] = Size(c)
    <3>1. at' = [at EXCEPT ![c] = "done"] /\ UNCHANGED piece
      BY <2>1 DEF NextPiece, Goto
    <3> QED
      BY <1>2, <2>1, <3>1 DEF TInv, TypeOK
  <2>2. CASE piece[c] # Size(c)
    <3>1. at' = [at EXCEPT ![c] = "ask"] /\ piece' = [piece EXCEPT ![c] = @ + 1]
      BY <2>2 DEF NextPiece, Goto
    <3>2. at'[c] = "ask" /\ piece'[c] = piece[c] + 1
      BY <3>1 DEF TInv, TypeOK
    <3>3. piece[c] + 1 \in 1 .. Size(c)
      BY <1>2, <2>2
    <3> QED
      BY <3>1, <3>2, <3>3 DEF TInv, TypeOK, Working
  <2> QED
    BY <2>1, <2>2
<1>9. TypeOK'
  <2>1. attempts' \in [Requests -> 0 .. MaxAttempts] /\ best' \in [Requests -> Nat]
    <3>1. 0 \in 0 .. MaxAttempts
      BY LoopsAssumption
    <3> QED
      BY <1>5, <3>1 DEF TInv, TypeOK
  <2>2. texts' \in [Requests -> Seq(Texts)] /\ scores' \in [Requests -> Seq(Marks)]
    BY <1>5, <1>7 DEF TInv, TypeOK
  <2>3. answer' \in [Requests -> Nat \cup {Pending, Failed}]
    BY <1>5 DEF TInv, TypeOK
  <2> QED
    BY <1>1, <1>3, <1>8, <2>1, <2>2, <2>3 DEF TInv, TypeOK
<1>10. Size(c)' = Size(c)
  BY <1>1 DEF Size
<1>11. Counted(c)'
  BY <1>6, <1>7, <1>8, <1>10 DEF Counted
<1>12. Graded(c)' /\ Screened(c)'
  BY <1>6, <1>7 DEF Graded, Screened
<1>13. Placed(c)'
  BY <1>6, <1>8, LoopsAssumption DEF Placed, Working
<1>14. Written(c)'
  <2>1. kind[c] = "graph" => Len(out[c]) = piece[c] - 1 /\ Size(c) = Pieces
    BY <1>1 DEF Local, Written, Size
  <2>2. kind[c] = "graph" /\ at'[c] = "ask" => Len(out'[c]) = piece'[c] - 1
    BY <1>2, <1>3, <1>8, <2>1
  <2>3. kind[c] = "graph" /\ at'[c] = "done" => Len(out'[c]) = Pieces
    BY <1>2, <1>3, <1>8, <2>1
  <2> QED
    BY <1>1, <1>4, <1>8, <2>2, <2>3 DEF Written, Working
<1> QED
  BY <1>9, <1>11, <1>12, <1>13, <1>14 DEF Local

-----------------------------------------------------------------------------
(* The cache keeps answers of requests that did not fail.                  *)

LEMMA KeptStays ==
  ASSUME TInv, NEW c \in Requests, Step(c), NEW e \in Entries, Kept(e)
  PROVE  Kept(e)'
<1>1. CASE e.by # c
  BY <1>1, OthersSame DEF TInv, Kept, Same, conf, Entries
<1>2. CASE e.by = c
  <2>1. NextPiece(c) /\ kind[c] = "sync"
    BY <1>2 DEF Kept, Step, Start, Reply, Second, Judge, Decide
  <2>2. piece[c] = Size(c)
    BY <2>1, LoopsAssumption DEF TInv, Local, Counted, Size
  <2>3. at'[c] = "done" /\ UNCHANGED <<said, kind, key>>
    BY <2>1, <2>2 DEF NextPiece, Goto, conf, TInv, TypeOK
  <2> QED
    BY <1>2, <2>3 DEF Kept
<1> QED
  BY <1>1, <1>2

LEMMA StepCache ==
  ASSUME TInv, NEW c \in Requests, Step(c)
  PROVE  \A j \in 1 .. Len(cache') : Kept(cache[j])'
<1>0. \A k \in 1 .. Len(cache) : cache[k] \in Entries /\ Kept(cache[k])
  BY ElementOfSeq DEF TInv, TypeOK
<1>1. ASSUME NEW j \in 1 .. Len(cache'), \E k \in 1 .. Len(cache) : cache'[j] = cache[k]
      PROVE  Kept(cache[j])'
  <2>1. PICK k \in 1 .. Len(cache) : cache'[j] = cache[k]
    BY <1>1
  <2>2. PICK e \in Entries : e = cache[k] /\ Kept(e)
    BY <1>0
  <2>3. Kept(e)'
    BY <2>2, KeptStays
  <2> QED
    BY <2>1, <2>2, <2>3 DEF Kept
<1>2. CASE \A j \in 1 .. Len(cache') : \E k \in 1 .. Len(cache) : cache'[j] = cache[k]
  BY <1>1, <1>2
<1>3. CASE UNCHANGED cache
  BY <1>2, <1>3
<1>4. CASE Decide(c) /\ \E i \in 1 .. Len(texts[c]) : Settles(c, i) /\ Put(c, i)
  <2>1. PICK i \in 1 .. Len(texts[c]) : Settles(c, i) /\ Put(c, i)
    BY <1>4
  <2>2. CASE UNCHANGED cache
    BY <1>3, <2>2
  <2>3. CASE kind[c] = "sync" /\ said[c] # "error"
    <3> DEFINE e == [key |-> key[c], by |-> c, text |-> i]
    <3>1. CacheFrom(cache', e)
      BY <2>1, PutCache DEF TInv
    <3>2. UNCHANGED <<key, kind, said>> /\ at'[c] = "next"
      BY <1>4, <2>1 DEF Settles, Settle, Goto, Decide, conf, TInv, TypeOK
    <3>3. ASSUME NEW j \in 1 .. Len(cache'), cache'[j] = e PROVE Kept(cache[j])'
      BY <2>3, <3>2, <3>3 DEF Kept
    <3> HIDE DEF e
    <3> QED
      BY <1>1, <3>1, <3>3 DEF CacheFrom
  <2> QED
    BY <2>1, <2>2, <2>3 DEF Settles
<1>5. CASE Start(c)
  BY <1>2, <1>5, StartCache DEF TInv
<1>6. CASE Decide(c)
  BY <1>3, <1>4, <1>6, Decisions DEF Settles, Fails, Retries
<1>7. CASE Reply(c) \/ Second(c) \/ Judge(c) \/ NextPiece(c)
  BY <1>3, <1>7 DEF Reply, Second, Judge, NextPiece
<1> QED
  BY <1>5, <1>6, <1>7 DEF Step

LEMMA NextTInv == TInv /\ [Next]_vars => TInv'
<1> SUFFICES ASSUME TInv, [Next]_vars PROVE TInv'
  OBVIOUS
<1>1. ASSUME NEW c \in Requests, Step(c) PROVE TInv'
  <2>1. TypeOK' /\ Local(c)'
    BY <1>1, StartKeeps, ReplyKeeps, SecondKeeps, JudgeKeeps, DecideKeeps, NextPieceKeeps
       DEF Step
  <2>2. ASSUME NEW d \in Requests \ {c} PROVE Local(d)'
    BY <1>1, <2>2, OthersSame, LocalSame DEF TInv
  <2>3. \A d \in Requests : Local(d)'
    BY <2>1, <2>2
  <2> QED
    BY <1>1, <2>1, <2>3, StepCache DEF TInv
<1>2. CASE UNCHANGED vars
  BY <1>2 DEF TInv, TypeOK, Local, Counted, Placed, Graded, Screened, Written, Kept, Real, Scored,
     Replied, Size, vars, conf, work
<1> QED
  BY <1>1, <1>2 DEF Next

-----------------------------------------------------------------------------
(* What the loops return.                                                  *)

\* A graph run that returns has text for every chunk: an empty chunk is retried,
\* replaced by an earlier attempt, or fails the run (core/translate/nodes.py).
THEOREM DocumentsWhole == Spec => []DocumentWhole
<1>1. TInv => DocumentWhole
  <2> SUFFICES ASSUME TInv, NEW c \in Requests, kind[c] = "graph", at[c] = "done"
               PROVE  Len(out[c]) = Pieces /\ "empty" \notin Range(out[c])
    BY DEF DocumentWhole
  <2>1. Len(out[c]) = Pieces /\ \A i \in 1 .. Len(out[c]) : out[c][i] # "empty"
    BY DEF TInv, Local, Written
  <2>2. DOMAIN out[c] = 1 .. Len(out[c])
    BY LenProperties DEF TInv, TypeOK
  <2> QED
    BY <2>1, <2>2 DEF Range
<1> QED
  BY <1>1, InitTInv, NextTInv, PTL DEF Spec

\* The cache holds no stopgap of an outage, and answers no request for another
\* text, whatever requests come and go (plugins/translate/service.py).
THEOREM CacheSound == Spec => []CacheHoldsFinished
<1>1. TInv => CacheHoldsFinished
  <2> SUFFICES ASSUME TInv, NEW e \in Range(cache)
               PROVE  key[e.by] = e.key /\ said[e.by] # "error"
    BY DEF CacheHoldsFinished
  <2>1. DOMAIN cache = 1 .. Len(cache)
    BY LenProperties DEF TInv, TypeOK
  <2>2. PICK i \in 1 .. Len(cache) : e = cache[i]
    BY <2>1 DEF Range
  <2> QED
    BY <2>2 DEF TInv, Kept
<1> QED
  BY <1>1, InitTInv, NextTInv, PTL DEF Spec
-----------------------------------------------------------------------------
(* Each loop implements BestAttempt: what its attempts look like there.    *)

View(s, k) == [i \in DOMAIN s |-> IF k = "graph" /\ s[i] = 0 THEN Unscored ELSE s[i]]
Empties(t) == {i \in DOMAIN t : t[i] = "empty"}

LEMMA ViewShape ==
  ASSUME NEW s \in Seq(Marks), NEW k
  PROVE  /\ View(s, k) \in Seq(Marks) /\ Len(View(s, k)) = Len(s)
         /\ DOMAIN View(s, k) = 1 .. Len(s)
         /\ \A i \in 1 .. Len(s) :
              View(s, k)[i] = IF k = "graph" /\ s[i] = 0 THEN Unscored ELSE s[i]
<1>1. DOMAIN s = 1 .. Len(s) /\ Len(s) \in Nat /\ \A i \in 1 .. Len(s) : s[i] \in Marks
  BY Nonempty, LenProperties
<1>2. View(s, k) \in [1 .. Len(s) -> Marks]
  BY <1>1 DEF View, Marks
<1>3. View(s, k) \in Seq(Marks)
  BY <1>1, <1>2, SeqDef
<1>4. DOMAIN View(s, k) = 1 .. Len(s)
  BY <1>2
<1>5. Len(View(s, k)) = Len(s)
  BY <1>1, <1>3, <1>4, LenProperties
<1>6. \A i \in 1 .. Len(s) :
        View(s, k)[i] = IF k = "graph" /\ s[i] = 0 THEN Unscored ELSE s[i]
  BY <1>1 DEF View
<1> QED
  BY <1>3, <1>4, <1>5, <1>6

LEMMA ViewAppend ==
  ASSUME NEW s \in Seq(Marks), NEW k
  PROVE  View(Append(s, Unscored), k) = Append(View(s, k), Unscored)
<1> DEFINE v == Append(s, Unscored)
           w == Append(View(s, k), Unscored)
           n == Len(s)
<1>0. Unscored \in Marks /\ n \in Nat /\ Unscored # 0
  BY Nonempty, LoopsAssumption, MarksAssumption DEF Marks
<1>1. /\ v \in Seq(Marks) /\ Len(v) = n + 1 /\ v[n + 1] = Unscored
      /\ \A i \in 1 .. n : v[i] = s[i]
  BY <1>0, Appended
<1>2. /\ View(s, k) \in Seq(Marks) /\ Len(View(s, k)) = n
      /\ \A i \in 1 .. n : View(s, k)[i] = IF k = "graph" /\ s[i] = 0 THEN Unscored ELSE s[i]
  BY ViewShape
<1>3. /\ w \in Seq(Marks) /\ Len(w) = n + 1 /\ w[n + 1] = Unscored
      /\ \A i \in 1 .. n : w[i] = IF k = "graph" /\ s[i] = 0 THEN Unscored ELSE s[i]
  BY <1>0, <1>2, Appended
<1> HIDE DEF v, w
<1>4. /\ View(v, k) \in Seq(Marks) /\ Len(View(v, k)) = n + 1
      /\ \A i \in 1 .. n + 1 :
           View(v, k)[i] = IF k = "graph" /\ v[i] = 0 THEN Unscored ELSE v[i]
  BY <1>1, ViewShape
<1>5. ASSUME NEW i \in 1 .. n + 1 PROVE View(v, k)[i] = w[i]
  <2>1. i \in 1 .. n \/ i = n + 1
    BY <1>0
  <2> QED
    BY <1>0, <1>1, <1>3, <1>4, <2>1
<1> HIDE DEF n
<1>6. View(v, k) = w
  BY <1>3, <1>4, <1>5, SeqEqual
<1> QED
  BY <1>6 DEF v, w

\* A score for the last attempt shows, unless it is the graph's 0.
Rescored(s, n, m) == [s EXCEPT ![n] = m]

LEMMA ViewScored ==
  ASSUME NEW s \in Seq(Marks), s # <<>>, s[Len(s)] = Unscored, NEW m \in Marks, NEW k
  PROVE  View(Rescored(s, Len(s), m), k) =
           IF k = "graph" /\ m = 0 THEN View(s, k) ELSE Rescored(View(s, k), Len(s), m)
<1> DEFINE n == Len(s)
           v == [s EXCEPT ![n] = m]
           w == IF k = "graph" /\ m = 0 THEN View(s, k) ELSE [View(s, k) EXCEPT ![n] = m]
<1>0. Unscored # 0
  BY LoopsAssumption, MarksAssumption
<1>1. n \in 1 .. n /\ n \in 1 .. Len(s) /\ s[n] = Unscored
  BY Nonempty
<1>2. v \in Seq(Marks) /\ Len(v) = n /\ \A j \in 1 .. n : v[j] = IF j = n THEN m ELSE s[j]
  BY <1>1, ExceptSeq
<1>3. /\ View(s, k) \in Seq(Marks) /\ Len(View(s, k)) = n
      /\ \A i \in 1 .. n : View(s, k)[i] = IF k = "graph" /\ s[i] = 0 THEN Unscored ELSE s[i]
  BY ViewShape
<1>4. /\ w \in Seq(Marks) /\ Len(w) = n
      /\ \A i \in 1 .. n :
           w[i] = IF ~(k = "graph" /\ m = 0) /\ i = n THEN m ELSE View(s, k)[i]
  BY <1>1, <1>3, ExceptSeq
<1> HIDE DEF v, w
<1>5. /\ View(v, k) \in Seq(Marks) /\ Len(View(v, k)) = n
      /\ \A i \in 1 .. n : View(v, k)[i] = IF k = "graph" /\ v[i] = 0 THEN Unscored ELSE v[i]
  BY <1>2, ViewShape
<1> HIDE DEF n
<1>6. ASSUME NEW i \in 1 .. n PROVE View(v, k)[i] = w[i]
  BY <1>0, <1>1, <1>2, <1>3, <1>4, <1>5
<1>7. View(v, k) = w
  BY <1>4, <1>5, <1>6, SeqEqual
<1> QED
  BY <1>7 DEF v, w, n, Rescored

\* A new attempt may be one more empty one.
LEMMA EmptiesAppend ==
  ASSUME NEW t \in Seq(Texts), NEW r \in Texts
  PROVE  Empties(Append(t, r)) \in {Empties(t), Empties(t) \cup {Len(t) + 1}}
<1> DEFINE u == Append(t, r)
           n == Len(t)
<1>1. /\ u \in Seq(Texts) /\ Len(u) = n + 1 /\ u[n + 1] = r
      /\ \A i \in 1 .. n : u[i] = t[i]
  BY Appended
<1>2. DOMAIN t = 1 .. n /\ n \in Nat
  BY LenProperties
<1> HIDE DEF u
<1>3. DOMAIN u = 1 .. n + 1
  BY <1>1, LenProperties
<1> HIDE DEF n
<1>4. ASSUME NEW i
      PROVE  i \in Empties(u) <=> i \in Empties(t) \/ (i = n + 1 /\ r = "empty")
  BY <1>1, <1>2, <1>3 DEF Empties
<1>5. CASE r = "empty"
  <2>1. Empties(u) = Empties(t) \cup {n + 1}
    BY <1>4, <1>5
  <2> QED
    BY <2>1 DEF u, n
<1>6. CASE r # "empty"
  <2>1. Empties(u) = Empties(t)
    BY <1>4, <1>6
  <2> QED
    BY <2>1 DEF u
<1> QED
  BY <1>5, <1>6

-----------------------------------------------------------------------------
(* Each loop implements BestAttempt, one step of the watched request after *)
(* the other.                                                              *)

Fragile == kind[Watched] = "tree"
seen == <<Promised, Blank, answer[Watched], Fragile>>

\* What the watched request's step does there.
Shown == Promise!Next \/ UNCHANGED <<Promised, Blank, answer[Watched]>>

LEMMA Seen ==
  ASSUME TInv
  PROVE  /\ Watched \in Requests /\ Promised = View(scores[Watched], kind[Watched])
         /\ Promised \in Seq(Marks) /\ DOMAIN Promised = 1 .. Len(texts[Watched])
         /\ Len(Promised) = Len(texts[Watched])
         /\ \A i \in 1 .. Len(texts[Watched]) :
              Promised[i] = IF kind[Watched] = "graph" /\ scores[Watched][i] = 0
                            THEN Unscored ELSE scores[Watched][i]
<1>1. Watched \in Requests /\ Promised = View(scores[Watched], kind[Watched])
  BY LoopsAssumption DEF Promised, View
<1>2. scores[Watched] \in Seq(Marks) /\ Len(scores[Watched]) = Len(texts[Watched])
  BY <1>1, Shapes
<1> QED
  BY <1>1, <1>2, ViewShape

LEMMA SeenEmpty ==
  ASSUME TInv
  PROVE  /\ Blank = IF kind[Watched] = "sync" THEN Empties(texts[Watched]) ELSE {}
         /\ \A i \in 1 .. Len(texts[Watched]) : i \in Blank <=> Void(Watched, i)
<1>1. Blank = IF kind[Watched] = "sync" THEN Empties(texts[Watched]) ELSE {}
  BY DEF Blank, Empties
<1>2. DOMAIN texts[Watched] = 1 .. Len(texts[Watched])
  BY LoopsAssumption, Shapes, LenProperties
<1> QED
  BY <1>1, <1>2 DEF Empties, Void

LEMMA ReplySeen ==
  ASSUME TInv, Reply(Watched)
  PROVE  Shown /\ UNCHANGED Fragile
<1> DEFINE c == Watched
<1>0. c \in Requests /\ UNCHANGED <<kind, answer>>
  BY LoopsAssumption DEF Reply, conf
<1>1. PICK reply \in Replies(c) :
        IF reply = "error" THEN UNCHANGED <<texts, scores>>
        ELSE /\ texts' = [texts EXCEPT ![c] = Append(@, reply)]
             /\ scores' = [scores EXCEPT ![c] = Append(@, Unscored)]
  BY DEF Reply
<1>2. CASE reply = "error"
  BY <1>0, <1>1, <1>2 DEF Promised, Blank, Fragile, Shown
<1>3. CASE reply # "error"
  <2>1. reply \in Texts
    BY <1>3 DEF Replies, Texts
  <2>2. texts'[c] = Append(texts[c], reply) /\ scores'[c] = Append(scores[c], Unscored)
    BY <1>0, <1>1, <1>3 DEF TInv, TypeOK
  <2>3. Promised' = View(scores'[c], kind[c])
    BY <1>0 DEF Promised, View
  <2>4. Promised' = Append(Promised, Unscored)
    BY <1>0, <2>2, <2>3, ViewAppend, Shapes, Seen
  <2>5. Len(Promised) = Len(texts[c]) /\ Len(Promised) < MaxAttempts /\ answer[c] = Pending
    <3>1. at[c] = "ask" /\ Local(c)
      BY <1>0 DEF Reply, TInv
    <3>2. attempts[c] < MaxAttempts /\ Len(texts[c]) <= attempts[c] /\ answer[c] = Pending
      BY <3>1 DEF Local, Placed, Counted, Working
    <3> QED
      BY <1>0, <3>2, Seen, Shapes
  <2>6. Blank' \in {Blank, Blank \cup {Len(Promised) + 1}}
    <3>1. Blank' = IF kind[c] = "sync" THEN Empties(texts'[c]) ELSE {}
      BY <1>0 DEF Blank, Empties
    <3>2. texts[c] \in Seq(Texts)
      BY <1>0, Shapes
    <3>3. Empties(texts'[c]) \in {Empties(texts[c]), Empties(texts[c]) \cup {Len(texts[c]) + 1}}
      BY <2>1, <2>2, <3>2, EmptiesAppend
    <3> QED
      BY <2>5, <3>1, <3>3, SeenEmpty
  <2>7. Promise!Attempt
    BY <1>0, <2>4, <2>5, <2>6 DEF Promise!Attempt
  <2> QED
    BY <1>0, <2>7 DEF Promise!Next, Fragile, Shown
<1> QED
  BY <1>2, <1>3

LEMMA SecondSeen ==
  ASSUME TInv, Second(Watched)
  PROVE  UNCHANGED seen
<1>1. UNCHANGED <<kind, answer, scores>> /\ kind[Watched] = "tree"
  BY LoopsAssumption DEF Second, conf, TInv, Local, Placed
<1>2. UNCHANGED Promised
  BY <1>1 DEF Promised
<1>3. UNCHANGED Blank
  BY <1>1 DEF Blank
<1> QED
  BY <1>1, <1>2, <1>3 DEF seen, Fragile

LEMMA JudgeSeen ==
  ASSUME TInv, Judge(Watched)
  PROVE  Shown /\ UNCHANGED Fragile
<1> DEFINE c == Watched
           n == Len(scores[c])
<1>0. /\ c \in Requests /\ UNCHANGED <<kind, answer, texts>> /\ at[c] = "judge"
      /\ UNCHANGED Blank
  BY LoopsAssumption DEF Judge, conf, Blank
<1>1. /\ n = Len(texts[c]) /\ scores[c] # <<>> /\ scores[c][n] = Unscored
      /\ answer[c] = Pending /\ n \in Nat \ {0} /\ scores[c] \in Seq(Marks)
  BY <1>0, AtJudge, Shapes, EmptySeq DEF Scored
<1>2. CASE UNCHANGED scores
  BY <1>0, <1>2 DEF Promised, Fragile, Shown
<1>3. CASE \E m \in 0 .. Top : scores' = [scores EXCEPT ![c][n] = m]
  <2>1. PICK m \in 0 .. Top : scores' = [scores EXCEPT ![c][n] = m]
    BY <1>3
  <2>2. m \in Marks /\ scores'[c] = Rescored(scores[c], n, m)
    BY <1>0, <2>1 DEF Rescored, Marks, TInv, TypeOK
  <2>3. Promised' = View(scores'[c], kind[c])
    BY <1>0 DEF Promised, View
  <2>4. Promised' = IF kind[c] = "graph" /\ m = 0 THEN Promised ELSE Rescored(Promised, n, m)
    BY <1>0, <1>1, <2>2, <2>3, ViewScored, Seen
  <2>5. CASE kind[c] = "graph" /\ m = 0
    BY <1>0, <2>4, <2>5 DEF Fragile, Shown
  <2>6. CASE ~(kind[c] = "graph" /\ m = 0)
    <3>1. Len(Promised) = n /\ Promised[n] = Unscored /\ Promised # <<>>
      BY <1>1, Seen, EmptySeq
    <3>2. Promise!Judge
      BY <1>0, <1>1, <2>1, <2>4, <2>6, <3>1 DEF Promise!Judge, Rescored
    <3> QED
      BY <1>0, <3>2 DEF Promise!Next, Fragile, Shown
  <2> QED
    BY <2>5, <2>6
<1>4. n = Len(texts[c])
  BY <1>1
<1> HIDE DEF n
<1> QED
  BY <1>2, <1>3, <1>4 DEF Judge, Score

\* Which attempts BestAttempt takes for scored, and for the best.
LEMMA SeenBest ==
  ASSUME TInv
  PROVE  /\ \A j \in 1 .. Len(texts[Watched]) : Promised[j] # Unscored <=> Real(Watched, j)
         /\ \A j : j \in Promise!Scored <=> j \in 1 .. Len(texts[Watched]) /\ Real(Watched, j)
         /\ \A j : j \in Promise!Best <=> Tops(Watched, j)
         /\ Spoilt(Watched) <=> Promise!Best \cap Blank # {}
<1> DEFINE c == Watched
<1>1. \A j \in 1 .. Len(texts[c]) :
        IF Real(c, j) THEN Promised[j] = scores[c][j] /\ Promised[j] # Unscored
        ELSE Promised[j] = Unscored
  BY Seen DEF Real, Scored
<1>2. DOMAIN Promised = 1 .. Len(texts[c])
  BY Seen
<1>3. \A j : j \in Promise!Scored <=> j \in 1 .. Len(texts[c]) /\ Real(c, j)
  BY <1>1, <1>2 DEF Promise!Scored
<1>4. \A j : j \in Promise!Best <=> Tops(c, j)
  <2>1. \A j : j \in Promise!Best <=>
           j \in Promise!Scored /\ \A k \in Promise!Scored : Promised[k] <= Promised[j]
    BY DEF Promise!Best
  <2>2. \A j \in Promise!Scored : Promised[j] = scores[c][j]
    BY <1>1, <1>3
  <2> QED
    BY <1>3, <2>1, <2>2 DEF Tops
<1>5. Spoilt(c) <=> Promise!Best \cap Blank # {}
  BY <1>4, SeenEmpty DEF Spoilt, Tops
<1> QED
  BY <1>1, <1>3, <1>4, <1>5

LEMMA WonWins ==
  ASSUME TInv, NEW i, Won(Watched, i)
  PROVE  i \in DOMAIN Promised /\ Promise!Wins(i)
<1> DEFINE c == Watched
<1>1. i \in 1 .. Len(texts[c]) /\ DOMAIN Promised = 1 .. Len(texts[c])
      /\ Len(Promised) = Len(texts[c])
  BY Seen DEF Won
<1>2. CASE Real(c, i)
  <2>1. Promised[i] # Unscored
    BY <1>1, <1>2, SeenBest
  <2>2. \/ i \in Promise!Best \ Blank
        \/ i = Len(Promised) /\ Promise!Best \cap Blank # {}
    BY <1>1, <1>2, SeenBest, SeenEmpty DEF Won
  <2> QED
    BY <1>1, <2>1, <2>2 DEF Promise!Wins
<1>3. CASE ~Real(c, i)
  <2>1. Promised[i] = Unscored
    BY <1>1, <1>3, SeenBest
  <2>2. Promise!Scored = {} \/ i = Len(Promised)
    BY <1>1, <1>3, SeenBest DEF Won, NoReal
  <2> QED
    BY <1>1, <2>1, <2>2 DEF Promise!Wins
<1> QED
  BY <1>2, <1>3

LEMMA DecideSeen ==
  ASSUME TInv, Decide(Watched)
  PROVE  Shown /\ UNCHANGED Fragile
<1> DEFINE c == Watched
<1>0. /\ c \in Requests /\ UNCHANGED <<kind, texts, scores, Promised, Blank>>
      /\ answer[c] = Pending
  BY LoopsAssumption DEF Decide, conf, Promised, Blank, TInv, Local, Placed, Working
<1>1. CASE \E i \in 1 .. Len(texts[c]) : Settles(c, i)
  <2>1. PICK i \in 1 .. Len(texts[c]) : Settles(c, i)
    BY <1>1
  <2>2. answer'[c] = i
    BY <1>0, <2>1 DEF Settles, Settle, TInv, TypeOK
  <2>3. i \in DOMAIN Promised /\ Promise!Wins(i)
    BY <2>1, WonWins DEF Settles
  <2>4. Promise!Settle
    BY <1>0, <2>2, <2>3 DEF Promise!Settle
  <2> QED
    BY <1>0, <2>4 DEF Promise!Next, Fragile, Shown
<1>2. CASE Fails(c)
  <2>1. answer'[c] = Failed
    BY <1>0, <1>2 DEF Fails, Fail, TInv, TypeOK
  <2>2. NoReal(c) => Promise!Scored = {}
    BY SeenBest DEF NoReal
  <2>3. Fragile \/ Promise!Scored = {} \/ Promise!Best \cap Blank # {}
    BY <1>2, <2>2, SeenBest DEF Fails, Fragile
  <2>4. Promise!GiveUp
    BY <1>0, <2>1, <2>3 DEF Promise!GiveUp, Fragile
  <2> QED
    BY <1>0, <2>4 DEF Promise!Next, Fragile, Shown
<1>3. CASE Retries(c)
  BY <1>0, <1>3 DEF Retries, Again, Fragile, Shown
<1> QED
  BY <1>0, <1>1, <1>2, <1>3, Decisions

\* A request that has made no attempt shows none.
LEMMA NoView ==
  ASSUME NEW k
  PROVE  View(<<>>, k) = <<>>
<1>1. <<>> \in Seq(Marks) /\ Len(<<>>) = 0
  BY EmptySeq
<1> QED
  BY <1>1, ViewShape, EmptySeq

LEMMA NoneSeen ==
  ASSUME texts[Watched] = <<>>, scores[Watched] = <<>>
  PROVE  Promised = <<>> /\ Blank = {}
<1>1. Promised = View(<<>>, kind[Watched])
  BY DEF Promised, View
<1>2. DOMAIN texts[Watched] = {}
  OBVIOUS
<1> QED
  BY <1>1, <1>2, NoView DEF Blank

LEMMA NextPieceSeen ==
  ASSUME TInv, NextPiece(Watched)
  PROVE  Shown /\ UNCHANGED Fragile
<1> DEFINE c == Watched
<1>0. c \in Requests /\ UNCHANGED kind
  BY LoopsAssumption DEF NextPiece, conf
<1>1. texts'[c] = <<>> /\ scores'[c] = <<>> /\ answer'[c] = Pending
  BY <1>0 DEF NextPiece, TInv, TypeOK
<1>2. Promised' = <<>> /\ Blank' = {}
  <2>1. Promised' = View(<<>>, kind[c])
    BY <1>0, <1>1 DEF Promised, View
  <2>2. DOMAIN texts'[c] = {}
    BY <1>1
  <2> QED
    BY <2>1, <2>2, NoView DEF Blank
<1>3. answer[c] \notin {Pending, Failed}
  BY <1>0, Shapes, MarksAssumption DEF NextPiece, TInv, Local, Placed
<1>4. Promise!NextPiece
  BY <1>1, <1>2, <1>3 DEF Promise!NextPiece
<1> QED
  BY <1>0, <1>4 DEF Promise!Next, Fragile, Shown

LEMMA StepSeen ==
  ASSUME TInv, NEW c \in Requests, Step(c)
  PROVE  Shown /\ UNCHANGED Fragile
<1>1. CASE c # Watched
  <2>1. TypeOK /\ Watched \in Requests \ {c}
    BY <1>1, LoopsAssumption DEF TInv
  <2>2. Same(Watched) /\ UNCHANGED conf
    BY <2>1, OthersSame
  <2>3. Same(Watched) /\ UNCHANGED kind
    BY <2>2 DEF conf
  <2>4. UNCHANGED <<texts[Watched], scores[Watched], answer[Watched], kind[Watched]>>
    BY <2>3 DEF Same
  <2>5. UNCHANGED <<Promised, Blank>>
    BY <2>4 DEF Promised, Blank
  <2> QED
    BY <2>4, <2>5 DEF Fragile, Shown
<1>2. CASE c = Watched
  <2>1. CASE Start(c)
    BY <2>1 DEF Start, work, conf, Promised, Blank, Fragile, Shown
  <2> QED
    BY <1>2, <2>1, ReplySeen, SecondSeen, JudgeSeen, DecideSeen, NextPieceSeen
       DEF Step, seen, Shown
<1> QED
  BY <1>1, <1>2

\* The sync, graph and tree loops implement BestAttempt, whatever scores the judge
\* gives: at most MaxAttempts attempts, the best-scored one wins over every other
\* the judge scored, and only a tree job may fail while it holds a translation that
\* was scored.  Where the judge liked an empty reply best, a sync request is left
\* with its last reply or its failure; the graph takes a score of 0 for none.
THEOREM LoopsKeepPromise == Spec => KeepsPromise
<1>1. Init => Promise!Init
  <2> SUFFICES ASSUME Init PROVE Promise!Init
    OBVIOUS
  <2>1. texts[Watched] = <<>> /\ scores[Watched] = <<>> /\ answer[Watched] = Pending
    BY LoopsAssumption DEF Init, All
  <2> QED
    BY <2>1, NoneSeen DEF Promise!Init
<1>2. TInv /\ [Next]_vars => [Promise!Next]_seen
  <2> SUFFICES ASSUME TInv, [Next]_vars PROVE [Promise!Next]_seen
    OBVIOUS
  <2>1. CASE Next
    BY <2>1, StepSeen DEF Next, seen, Shown
  <2>2. CASE UNCHANGED vars
    BY <2>2 DEF vars, conf, work, seen, Promised, Blank, Fragile
  <2> QED
    BY <2>1, <2>2
<1> QED
  BY <1>1, <1>2, InitTInv, NextTInv, PTL DEF Spec, KeepsPromise, Promise!Spec, seen, Fragile

=============================================================================
