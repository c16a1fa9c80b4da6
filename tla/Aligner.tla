------------------------------- MODULE Aligner -------------------------------
(***************************************************************************)
(* The text layer of a sparse page: HybridAligner.align_text of            *)
(* core/aligner.py puts the lines a vision model read into the boxes the   *)
(* detector found, by a dynamic programme over (lines, boxes) in each of   *)
(* two reading orders.                                                     *)
(*                                                                         *)
(* A box is a rectangle of whole units on a page of Extent x Extent; a     *)
(* line is its number, and a text the sequence of the lines in it; lengths *)
(* are the lines' character counts.  Costs are whole parts of Unit,        *)
(* rounded down, where the code has floating point.                        *)
(***************************************************************************)
EXTENDS Integers, FiniteSets, SequencesExt, Filters

CONSTANTS Extent, Unit   \* positive; five divides Unit

SkipLine == Unit
SkipBox == (2 * Unit) \div 5

Numbers(n) == [i \in 1 .. n |-> i]

-----------------------------------------------------------------------------
(* Reading orders: sequences of box numbers.                               *)

\* list.sort(key=...): stable.
SortedBy(s, Before(_, _)) ==
  LET at(k) == CHOOSE j \in DOMAIN s :
                 Cardinality({i \in DOMAIN s : \/ Before(s[i], s[j])
                                               \/ ~Before(s[j], s[i]) /\ i < j}) = k - 1
  IN [k \in DOMAIN s |-> s[at(k)]]

RowMajor(boxes, s) ==
  SortedBy(s, LAMBDA i, j : \/ boxes[i].y0 < boxes[j].y0
                            \/ boxes[i].y0 = boxes[j].y0 /\ boxes[i].x0 < boxes[j].x0)

\* Twice the x-centre.
Centre(box) == box.x0 + box.x1

\* The first of the widest gaps between neighbouring centres, if it is a gutter
\* and leaves two boxes on each side.
Gutter(boxes, s) ==
  LET gap(k) == Centre(boxes[s[k + 1]]) - Centre(boxes[s[k]])
      widest == {k \in 1 .. Len(s) - 1 : \A l \in 1 .. Len(s) - 1 : gap(l) <= gap(k)}
  IN {k \in widest : /\ \A l \in widest : k <= l
                     /\ 5 * gap(k) >= 2 * Extent /\ k \in 2 .. Len(s) - 2}

\* Columns from left to right, each in its own order, split at most Depth times.
Depth == 50
Columns(boxes) ==
  LET order[d \in 0 .. Depth] ==
        [s \in Seq(DOMAIN boxes) |->
          LET across == SortedBy(s, LAMBDA i, j : Centre(boxes[i]) < Centre(boxes[j]))
              cut == IF Len(s) < 4 \/ d = 0 THEN {} ELSE Gutter(boxes, across)
          IN IF cut = {} THEN RowMajor(boxes, s)
             ELSE LET k == CHOOSE c \in cut : TRUE
                  IN order[d - 1][SubSeq(across, 1, k)]
                       \o order[d - 1][SubSeq(across, k + 1, Len(s))]]
  IN order[Depth][Numbers(Len(boxes))]

Rows(boxes) == RowMajor(boxes, Numbers(Len(boxes)))

-----------------------------------------------------------------------------
(* The dynamic programme.                                                  *)

Area(box) == (box.x1 - box.x0) * (box.y1 - box.y0)
Total(s) ==
  LET sum[i \in 0 .. Len(s)] == IF i = 0 THEN 0 ELSE sum[i - 1] + s[i]
  IN sum[Len(s)]

\* The characters a box is expected to hold are its share of the area, at least
\* one; too long a line costs more than too short a one.
MatchCost(length, box, chars, area) ==
  LET room == Max({area, Area(box) * chars})     \* expected * area
      need == length * area                      \* actual * area
  IN IF need > room THEN (Unit * (need - room)) \div need
     ELSE (Unit * (room - need)) \div (2 * room)

\* What it costs to put line i into the j-th box of the order.
Costs(lengths, boxes, order) ==
  LET area == Total([j \in DOMAIN boxes |-> Area(boxes[j])]) IN
  [i \in DOMAIN lengths |-> [j \in DOMAIN order |->
     MatchCost(lengths[i], boxes[order[j]], Total(lengths), area)]]

\* dp: a row for each number of lines, a column for each number of boxes, both
\* from 0 on.
NextRow(row, cost) ==
  LET new[j \in 0 .. Len(cost)] ==
        IF j = 0 THEN row[0] + SkipLine
        ELSE Min({row[j - 1] + cost[j], row[j] + SkipLine, new[j - 1] + SkipBox})
  IN [j \in 0 .. Len(cost) |-> new[j]]
Table(cost, m) ==
  LET dp[i \in 0 .. Len(cost)] ==
        IF i = 0 THEN [j \in 0 .. m |-> j * SkipBox] ELSE NextRow(dp[i - 1], cost[i])
  IN [i \in 0 .. Len(cost) |-> dp[i]]

\* One step of the backtracking from a cell of dp, and where the lines behind it
\* go, 0 for a line that is skipped.  Of equal costs a match comes first, a
\* skipped line second.
Back(dp, cost, cell) ==
  LET i == cell.line
      j == cell.box
  IN IF i > 0 /\ j > 0 /\ dp[i][j] = dp[i - 1][j - 1] + cost[i][j]
       THEN [line |-> i - 1, box |-> j - 1, match |-> <<j>> \o cell.match]
     ELSE IF i > 0 /\ (j = 0 \/ dp[i][j] = dp[i - 1][j] + SkipLine)
       THEN [line |-> i - 1, box |-> j, match |-> <<0>> \o cell.match]
     ELSE [line |-> i, box |-> IF j > 0 THEN j - 1 ELSE 0, match |-> cell.match]

\* From the last cell to the first.
Matches(dp, cost, m) ==
  LET n == Len(cost)
      cell[t \in 0 .. n + m] ==
        IF t = 0 THEN [line |-> n, box |-> m, match |-> <<>>]
        ELSE Back(dp, cost, cell[t - 1])
  IN cell[n + m].match

\* A plausible bug: a skipped line joins the box that comes next.
Homes_Next(match) ==
  [i \in DOMAIN match |->
     LET later == {k \in i .. Len(match) : match[k] # 0} IN
     IF later # {} THEN match[Min(later)] ELSE 1]

\* A skipped line joins the last matched box before it, or the first box.
Homes(match) ==
  [i \in DOMAIN match |->
     LET earlier == {k \in 1 .. i : match[k] # 0} IN
     IF earlier # {} THEN match[Max(earlier)] ELSE 1]

-----------------------------------------------------------------------------
(* align_text.                                                             *)

Solved(order, dp, cost) ==
  [order |-> order, match |-> Matches(dp, cost, Len(order)), cost |-> dp[Len(cost)][Len(order)]]
Tried(order, cost) == Solved(order, Table(cost, Len(order)), cost)
Aligned(lengths, boxes, order) == Tried(order, Costs(lengths, boxes, order))

\* The column order must be strictly cheaper.
Cheaper(row, column) == IF column.cost < row.cost THEN column ELSE row
Best(lengths, boxes) ==
  Cheaper(Aligned(lengths, boxes, Rows(boxes)), Aligned(lengths, boxes, Columns(boxes)))

Matched(match) == Cardinality({i \in DOMAIN match : match[i] # 0})
Degenerate(match, boxes) ==
  \/ Matched(match) = 0 /\ Len(match) > 1
  \/ Len(match) = 1 /\ Len(boxes) >= 5

FullPage(n) == [full |-> TRUE, text |-> <<Numbers(n)>>]

\* The lines of each box, in the order of the boxes, or all on the full page.
Texts(order, home) ==
  [b \in DOMAIN order |-> Among(Numbers(Len(home)), {i \in DOMAIN home : order[home[i]] = b})]
Placed(best, boxes) ==
  IF Degenerate(best.match, boxes) THEN FullPage(Len(best.match))
  ELSE [full |-> FALSE, text |-> Texts(best.order, Homes(best.match))]
AlignText(lengths, boxes) ==
  IF boxes = <<>> /\ lengths # <<>> THEN FullPage(Len(lengths))
  ELSE IF lengths = <<>> THEN [full |-> FALSE, text |-> [b \in DOMAIN boxes |-> <<>>]]
  ELSE Placed(Best(lengths, boxes), boxes)

-----------------------------------------------------------------------------
(* Reference: what any placement of the lines would cost.                  *)

\* Some lines go into boxes of their own, in order.
Matchings(n, m) ==
  {f \in [1 .. n -> 0 .. m] :
     \A i, k \in 1 .. n : i < k /\ f[i] # 0 /\ f[k] # 0 => f[i] < f[k]}

CostOf(match, cost, m) ==
  Total([i \in DOMAIN match |-> IF match[i] = 0 THEN SkipLine ELSE cost[i][match[i]]])
    + (m - Matched(match)) * SkipBox

\* The matching found is one of the cheapest there are, in either order.
IsBest(best, lengths, boxes) ==
  \A order \in {Rows(boxes), Columns(boxes)} :
    \A cost \in {Costs(lengths, boxes, order)} :
      /\ \A match \in Matchings(Len(lengths), Len(boxes)) :
           best.cost <= CostOf(match, cost, Len(boxes))
      /\ order = best.order => /\ best.match \in Matchings(Len(lengths), Len(boxes))
                              /\ CostOf(best.match, cost, Len(boxes)) = best.cost
IsCheapest(lengths, boxes) == IsBest(Best(lengths, boxes), lengths, boxes)

\* Read in one of the two orders, the boxes give back every line once, in the
\* order in which the model emitted them.
Reads(text, n, order) ==
  /\ \A i \in 1 .. n : \E k \in DOMAIN order : i \in ToSet(text[order[k]])
  /\ \A k \in DOMAIN order : ToSet(text[order[k]]) \subseteq 1 .. n
  /\ \A k, l \in DOMAIN order :
       \A p \in DOMAIN text[order[k]], q \in DOMAIN text[order[l]] :
         k < l \/ (k = l /\ p < q) => text[order[k]][p] < text[order[l]][q]
IsWhole(lengths, boxes) ==
  LET result == AlignText(lengths, boxes)
      n == Len(lengths) IN
  IF result.full THEN result.text = <<Numbers(n)>>
  ELSE /\ DOMAIN result.text = DOMAIN boxes
       /\ \E order \in {Rows(boxes), Columns(boxes)} : Reads(result.text, n, order)
=============================================================================
