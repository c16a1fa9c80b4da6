------------------------------ MODULE MCPages ------------------------------
(* The life of a page: a run of the engine, what align_text makes of each    *)
(* small page, and what the chunker makes of each small document.  The two   *)
(* algorithms keep no state: their inputs are initial states beside the      *)
(* engine's, and have no successors.                                         *)
EXTENDS PageWorkflow, Sequences

CONSTANTS Extent, Unit, MaxChars, OverlapChars

VARIABLE input

ASSUME ScaleAssumption == Extent \in Nat \ {0} /\ Unit \in Nat \ {0} /\ Unit % 5 = 0
ASSUME ChunkerAssumption == MaxChars \in Nat \ {0} /\ OverlapChars \in 0 .. MaxChars - 1

A == INSTANCE Aligner
C == INSTANCE Chunker

-----------------------------------------------------------------------------
\* A title, two columns of boxes of different sizes, a page number.
Rect(x0, y0, x1, y1) == [x0 |-> x0, y0 |-> y0, x1 |-> x1, y1 |-> y1]
Detected ==          \* the detector's boxes come from top to bottom
  <<Rect(0, 0, 10, 1), Rect(0, 2, 4, 3), Rect(6, 2, 10, 4), Rect(0, 4, 3, 6),
    Rect(5, 5, 10, 6), Rect(6, 7, 9, 8), Rect(5, 9, 6, 10)>>

Upto(S, n) == UNION {[1 .. k -> S] : k \in 0 .. n}

Sheets ==
  [is : {"sheet"},
   boxes : {A!Among(Detected, s) :
              s \in {d \in SUBSET A!ToSet(Detected) : Cardinality(d) <= 5}},
   lengths : Upto({1, 4, 12}, 3)]

Table == C!TableOf(1, 2, <<2, 2, 2>>)
Parts ==
  {C!Header(1, <<>>), C!Header(2, <<>>), C!Prose(0, <<>>), C!Prose(1, <<>>),
   C!Prose(3, <<>>), C!Prose(9, <<>>), C!Prose(1, <<100>>),
   C!Atom("figure"), Table}
Plain == {C!Header(1, <<>>), C!Prose(1, <<>>), C!Prose(3, <<>>)}
Trees ==
  {[is |-> "tree", children |-> c, tables |-> t] :
     c \in Upto(Parts, 3), t \in {<<>>, <<Table>>}}
  \cup {[is |-> "tree", children |-> c, tables |-> <<>>] : c \in Upto(Plain, 5)}

MCInit ==
  \/ Init /\ input = [is |-> "run"]
  \/ /\ phase = "over" /\ options = {} /\ local = FALSE /\ Fresh
     /\ input \in Sheets \cup Trees

MCNext == Next /\ UNCHANGED input

MCSpec == MCInit /\ [][MCNext]_<<vars, input>>

MCFairSpec ==
  /\ MCSpec
  /\ WF_vars(Convert \/ Layout \/ Finalize \/ Emit) /\ WF_vars(Group)
  /\ \A p \in Pages : WF_vars(Task(p))

-----------------------------------------------------------------------------
(* Properties                                                              *)

\* No text is lost or moved between the model and the page ("no LLM text is
\* lost", core/aligner.py:142), and the placement is a cheapest one among all
\* that keep the order, in rows or in columns.
TextAligned ==
  input.is = "sheet" =>
    /\ A!IsWhole(input.lengths, input.boxes)
    /\ input.lengths # <<>> /\ input.boxes # <<>> => A!IsCheapest(input.lengths, input.boxes)

\* The chunks hold the whole document in its order, each within its bounds and
\* of one section, overlaps included.
ChunksWhole ==
  input.is = "tree" =>
    LET es == C!Elements(input.children, input.tables)
        cs == C!Chunks(input.children, input.tables)
    IN C!Complete(es, cs) /\ C!Bounded(es, cs) /\ C!OneSection(es, cs)

\* What a docstring says and the code does not do ("Always returns one (box,
\* text) tuple per input box", core/aligner.py:307): the full page replaces them.
OneTextPerBox ==
  input.is = "sheet" /\ input.boxes # <<>> =>
    Len(A!AlignText(input.lengths, input.boxes).text) = Len(input.boxes)
=============================================================================
