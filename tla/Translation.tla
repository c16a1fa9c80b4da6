---------------------------- MODULE Translation ----------------------------
(***************************************************************************)
(* The three loops by which text is translated, judged and translated      *)
(* again: translate_text of the sync endpoint ("sync"), the LangGraph      *)
(* nodes of run_translation ("graph"), and the blocks of translate_tree    *)
(* that the queued job walks ("tree"), together with the cache the sync    *)
(* requests share.                                                         *)
(*                                                                         *)
(* A reply is text, empty, lossy (text the graph's length band or          *)
(* adequacy checks reject) or an error.  The judge may give any score to   *)
(* any translation: an empty one a high score, a faithful one 0.           *)
(***************************************************************************)
EXTENDS Integers, SequencesExt

CONSTANTS Requests, Keys,
          Watched,      \* the request whose promise is checked
          Pieces,       \* chunks of a graph run, blocks of a tree
          Trivial,      \* pieces with too little text to be judged
          MaxAttempts, Accept, Top,   \* scores are 0 .. Top
          CacheMax,
          Unscored, Pending, Failed

ASSUME LoopsAssumption ==
  /\ Watched \in Requests /\ {Pieces, MaxAttempts} \subseteq Nat \ {0}
  /\ Top \in Nat /\ Accept \in 0 .. Top /\ CacheMax \in Nat
ASSUME MarksAssumption ==
  /\ Unscored \notin 0 .. Top
  /\ {Pending, Failed} \cap Nat = {} /\ Pending # Failed

VARIABLES kind, key,    \* what each request is, and what it asks for
          evaluate, dual,
          at,           \* idle, ask, second, judge, decide, next, done, failed
          piece, attempts,
          texts,        \* what each attempt on the piece gave
          scores,       \* what the judge said of it
          said, judged, \* the last reply and the last verdict
          best,         \* the best attempt so far, 0 for none
          answer, out,
          cache         \* the sync answers, least recently used first

conf == <<kind, key, evaluate, dual>>
work == <<piece, attempts, texts, scores, said, judged, best, answer, out>>
vars == <<conf, at, work, cache>>

Kinds == {"sync", "graph", "tree"}
All(v) == [c \in Requests |-> v]

\* Requests meet only in the cache, which only the sync path has: next to the
\* watched request, of any kind, the others are sync ones.
Init == /\ kind \in [Requests -> Kinds]
        /\ \A c \in Requests \ {Watched} : kind[c] = "sync"
        /\ key \in [Requests -> Keys]
        /\ evaluate \in BOOLEAN
        /\ dual \in {FALSE, kind[Watched] = "tree"}
        /\ at = All("idle") /\ piece = All(1) /\ attempts = All(0)
        /\ texts = All(<<>>) /\ scores = All(<<>>)
        /\ said = All("none") /\ judged = All("none") /\ best = All(0)
        /\ answer = All(Pending) /\ out = All(<<>>) /\ cache = <<>>

Goto(c, w) == at' = [at EXCEPT ![c] = w]

(***************************************************************************)
(* The cache of the sync path.                                             *)
(***************************************************************************)
Hit(c) == {i \in DOMAIN cache : cache[i].key = key[c]}

\* A key has one entry at most.
Without(c) ==
  IF Hit(c) = {} THEN cache ELSE RemoveAt(cache, CHOOSE i \in Hit(c) : TRUE)

Put(c, i) == LET full == Append(Without(c),
                                [key |-> key[c], by |-> c, text |-> i])
             IN cache' = IF Len(full) > CacheMax THEN Tail(full) ELSE full

Start(c) ==
  /\ at[c] = "idle"
  /\ IF kind[c] = "sync" /\ Hit(c) # {}
     THEN /\ Goto(c, "done")
          /\ cache' = LET e == cache[CHOOSE i \in Hit(c) : TRUE]
                      IN Append(Without(c), e)
     ELSE Goto(c, "ask") /\ UNCHANGED cache
  /\ UNCHANGED <<conf, work>>

(***************************************************************************)
(* One attempt: the translator, the second translator, the judge.          *)
(***************************************************************************)
Replies(c) == {"text", "empty", "error"}
              \union (IF kind[c] = "graph" THEN {"lossy"} ELSE {})

\* The graph judges only what its gates let through, and never the last
\* attempt; the other loops judge whatever came.
ToJudge(c, reply) ==
  /\ evaluate
  /\ kind[c] = "graph" => /\ reply = "text"
                          /\ attempts[c] + 1 < MaxAttempts
                          /\ piece[c] \notin Trivial

After(c, reply) ==
  IF reply = "error" THEN "decide"
  ELSE IF dual /\ kind[c] = "tree" /\ attempts[c] = 0 THEN "second"
  ELSE IF ToJudge(c, reply) THEN "judge" ELSE "decide"

Attempted(c, reply) == attempts' = [attempts EXCEPT ![c] = @ + 1]

Reply(c) ==
  /\ at[c] = "ask"
  /\ \E reply \in Replies(c) :
       /\ Goto(c, After(c, reply))
       /\ Attempted(c, reply)
       /\ said' = [said EXCEPT ![c] = reply]
       /\ IF reply = "error" THEN UNCHANGED <<texts, scores>>
          ELSE /\ texts' = [texts EXCEPT ![c] = Append(@, reply)]
               /\ scores' = [scores EXCEPT ![c] = Append(@, Unscored)]
  /\ judged' = [judged EXCEPT ![c] = "none"]
  /\ UNCHANGED <<conf, piece, best, answer, out, cache>>

\* The candidate whose length fits the script is kept: either may be.
Second(c) ==
  /\ at[c] = "second"
  /\ \/ /\ said' = [said EXCEPT ![c] = "error"] /\ Goto(c, "decide")
        /\ UNCHANGED texts
     \/ /\ \E reply \in {texts[c][1], "text", "empty"} :
             /\ texts' = [texts EXCEPT ![c] = <<reply>>]
             /\ said' = [said EXCEPT ![c] = reply]
        /\ Goto(c, IF evaluate THEN "judge" ELSE "decide")
  /\ UNCHANGED <<conf, piece, attempts, scores, judged, best, answer, out,
                 cache>>

BestScore(c) == IF best[c] = 0 THEN -1 ELSE scores[c][best[c]]
\* Mutant: the latest score wins.
Beats_Latest(c, s) == TRUE

Beats(c, s) == IF kind[c] = "graph" /\ best[c] = 0 THEN s > 0
               ELSE s > BestScore(c)

Score(c, s) ==
  LET n == Len(texts[c]) IN
  /\ judged' = [judged EXCEPT ![c] = "score"]
  /\ scores' = [scores EXCEPT ![c][n] = s]
  /\ best' = IF Beats(c, s) THEN [best EXCEPT ![c] = n] ELSE best

Judge(c) ==
  /\ at[c] = "judge"
  /\ \/ \E s \in 0 .. Top : Score(c, s)
     \/ \E v \in {"unparseable", "outage"} :
          judged' = [judged EXCEPT ![c] = v] /\ UNCHANGED <<scores, best>>
  /\ Goto(c, "decide")
  /\ UNCHANGED <<conf, piece, attempts, texts, said, answer, out, cache>>

(***************************************************************************)
(* What the loops make of it.                                              *)
(***************************************************************************)
Latest(c) == Len(texts[c])
LastScore(c) == scores[c][Latest(c)]
Accepted(c) == judged[c] = "score" /\ LastScore(c) >= Accept
Spent(c) == attempts[c] >= MaxAttempts

Settle(c, i) == Goto(c, "next") /\ answer' = [answer EXCEPT ![c] = i]
Fail(c) == Goto(c, "failed") /\ answer' = [answer EXCEPT ![c] = Failed]
Again(c) == Goto(c, "ask") /\ UNCHANGED answer

\* Mutant: the stopgap of an outage is cached with the rest.
DecideSync_Remembered(c) ==
  LET usable == best[c] # 0 /\ texts[c][best[c]] # "empty"
      final == IF usable THEN best[c] ELSE Latest(c) IN
  CASE said[c] = "error" /\ ~usable -> Fail(c) /\ UNCHANGED cache
    [] judged[c] # "score" \/ Accepted(c) \/ Spent(c) ->
         Settle(c, final) /\ Put(c, final)
    [] OTHER -> Again(c) /\ UNCHANGED cache

DecideSync(c) ==
  LET usable == best[c] # 0 /\ texts[c][best[c]] # "empty"
      final == IF usable THEN best[c] ELSE Latest(c) IN
  CASE said[c] = "error" ->
         /\ IF usable THEN Settle(c, best[c]) ELSE Fail(c)
         /\ UNCHANGED cache
    [] said[c] # "error" /\ (judged[c] # "score" \/ Accepted(c) \/ Spent(c)) ->
         Settle(c, final) /\ Put(c, final)
    [] OTHER -> Again(c) /\ UNCHANGED cache

DecideTree(c) ==
  /\ IF said[c] = "error" \/ judged[c] = "outage" THEN Fail(c)
     ELSE IF judged[c] \in {"none", "unparseable"} \/ Accepted(c) \/ Spent(c)
       THEN Settle(c, IF best[c] = 0 THEN 1 ELSE best[c])
     ELSE Again(c)
  /\ UNCHANGED cache

\* Mutant: an empty reply passes for a translation when nothing better is left.
DecideGraph_Empty(c) ==
  /\ IF said[c] = "error" /\ best[c] = 0
     THEN IF Spent(c) THEN Fail(c) ELSE Again(c)
     ELSE Settle(c, IF best[c] # 0 THEN best[c] ELSE Latest(c))
  /\ UNCHANGED cache

DecideGraph(c) ==
  /\ CASE said[c] \in {"error", "empty"} ->
            IF best[c] # 0 THEN Settle(c, best[c])
            ELSE IF Spent(c) THEN Fail(c) ELSE Again(c)
       [] said[c] \in {"text", "lossy"} /\ (~evaluate \/ Spent(c)) ->
            Settle(c, IF evaluate /\ best[c] # 0 THEN best[c] ELSE Latest(c))
       [] said[c] = "lossy" /\ evaluate /\ ~Spent(c) ->
            IF piece[c] \in Trivial THEN Settle(c, Latest(c)) ELSE Again(c)
       [] OTHER -> IF judged[c] # "score" \/ Accepted(c)
                   THEN Settle(c, Latest(c)) ELSE Again(c)
  /\ UNCHANGED cache

Decide(c) ==
  /\ at[c] = "decide"
  /\ CASE kind[c] = "sync" -> DecideSync(c)
       [] kind[c] = "tree" -> DecideTree(c)
       [] kind[c] = "graph" -> DecideGraph(c)
  /\ UNCHANGED <<conf, piece, attempts, texts, scores, said, judged, best,
                 out>>

Size(c) == IF kind[c] = "sync" THEN 1 ELSE Pieces

NextPiece(c) ==
  /\ at[c] = "next"
  /\ out' = [out EXCEPT ![c] = Append(@, texts[c][answer[c]])]
  /\ IF piece[c] = Size(c)
     THEN Goto(c, "done") /\ UNCHANGED piece
     ELSE Goto(c, "ask") /\ piece' = [piece EXCEPT ![c] = @ + 1]
  /\ attempts' = [attempts EXCEPT ![c] = 0]
  /\ texts' = [texts EXCEPT ![c] = <<>>]
  /\ scores' = [scores EXCEPT ![c] = <<>>]
  /\ best' = [best EXCEPT ![c] = 0]
  /\ answer' = [answer EXCEPT ![c] = Pending]
  /\ UNCHANGED <<conf, said, judged, cache>>

Step(c) == Start(c) \/ Reply(c) \/ Second(c) \/ Judge(c) \/ Decide(c)
           \/ NextPiece(c)

Next == \E c \in Requests : Step(c)

\* Every call returns or raises, and the event loop runs every task.
Spec == Init /\ [][Next]_vars /\ \A c \in Requests : WF_vars(Step(c))

(***************************************************************************)
(* Properties.                                                             *)
(***************************************************************************)
\* To the graph a score of 0 is as good as none (it keeps what beats 0.0).
Promised == [i \in DOMAIN scores[Watched] |->
               IF kind[Watched] = "graph" /\ scores[Watched][i] = 0
               THEN Unscored ELSE scores[Watched][i]]
\* The sync loop looks whether its best attempt has a text, after comparing.
Blank == IF kind[Watched] = "sync"
         THEN {i \in DOMAIN texts[Watched] : texts[Watched][i] = "empty"}
         ELSE {}

Promise == INSTANCE BestAttempt WITH
             Scores <- 0 .. Top,
             tried <- Promised, blank <- Blank, answer <- answer[Watched],
             fragile <- (kind[Watched] = "tree")

\* Each loop implements BestAttempt (seen at one request, the others being its
\* like): boundedly many attempts, the best-scored one wins over every other the
\* judge scored, and only a tree job may fail while it holds a translation that
\* was scored; but where the judge liked an empty reply best, a sync request is
\* left with the last reply or its failure, and a score of 0 is none to the graph.
KeepsPromise == Promise!Spec

\* A graph run that returns has text for every chunk: an empty chunk is
\* retried, replaced by an earlier attempt, or fails the run.
DocumentWhole ==
  \A c \in Requests : kind[c] = "graph" /\ at[c] = "done"
    => Len(out[c]) = Pieces /\ "empty" \notin Range(out[c])

\* The cache never holds the stopgap of an outage, so a later request for the
\* same text asks the model again, and it never answers for another text.
CacheHoldsFinished ==
  \A e \in Range(cache) : key[e.by] = e.key /\ said[e.by] # "error"

=============================================================================
