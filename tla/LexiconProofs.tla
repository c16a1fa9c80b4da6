---------------------------- MODULE LexiconProofs ----------------------------
(***************************************************************************)
(* Proofs about Lexicon, for any names, terms, servers and bounds: the     *)
(* table never holds half an import, a name keeps one glossary, and the    *)
(* legacy library stays until it is saved.                                 *)
(***************************************************************************)
EXTENDS Lexicon, FiniteSetTheorems, TLAPS

-----------------------------------------------------------------------------
(* A row is a record; a set of rows is whole if it has, with each row, the *)
(* rows of the other terms that differ from it in nothing else.  A version *)
(* of the table is such a set, whenever it was the latest.                 *)

Fields == {"gid", "name", "term", "enabled", "rank", "copy"}
Others == Fields \ {"term"}

With(r, f, v) == [r EXCEPT ![f] = v]

IsRow(r) == DOMAIN r = Fields /\ r = [f \in Fields |-> r[f]]
Whole(S) ==
  \A r \in S : IsRow(r) /\ r["term"] \in Terms /\ \A t \in Terms : With(r, "term", t) \in S

\* Changing a field of a row gives a row, and leaves the others.
LEMMA Changed ==
  ASSUME NEW r, IsRow(r), NEW f \in Fields, NEW v
  PROVE  /\ IsRow(With(r, f, v)) /\ With(r, f, v)[f] = v
         /\ \A g \in Fields \ {f} : With(r, f, v)[g] = r[g]
BY DEF IsRow, Fields, With

\* Two fields of a row are changed in either order.
LEMMA Commute ==
  ASSUME NEW r, IsRow(r), NEW f \in Others, NEW v, NEW t
  PROVE  With(With(r, f, v), "term", t) = With(With(r, "term", t), f, v)
BY DEF IsRow, Fields, Others, With

-----------------------------------------------------------------------------
(* The calls on the table keep it whole.                                   *)

\* Rows with the same fields are equal.
LEMMA SameRow ==
  ASSUME NEW a, NEW b, IsRow(a), IsRow(b), \A f \in Fields : a[f] = b[f]
  PROVE  a = b
<1>1. [f \in Fields |-> a[f]] = [f \in Fields |-> b[f]]
  OBVIOUS
<1> QED
  BY <1>1 DEF IsRow

\* Of a row and its sibling, a call finds both in a version or neither.
LEMMA Together ==
  ASSUME NEW S, Whole(S), NEW V, Whole(V), NEW g, NEW r \in S, NEW t \in Terms
  PROVE  With(r, "term", t) \in RowsOf(V, g) <=> r \in RowsOf(V, g)
<1>1. IsRow(r) /\ r["term"] \in Terms /\ "term" \in Fields /\ "gid" \in Fields \ {"term"}
  BY DEF Whole, Fields
<1> DEFINE x == With(r, "term", t)
           y == With(x, "term", r["term"])
<1>2. IsRow(x) /\ x["gid"] = r["gid"] /\ \A f \in Fields \ {"term"} : x[f] = r[f]
  BY <1>1, Changed
<1>3. IsRow(y) /\ y["term"] = r["term"] /\ \A f \in Fields \ {"term"} : y[f] = x[f]
  BY <1>1, <1>2, Changed
<1> HIDE DEF y
<1>4. y = r
  BY <1>1, <1>2, <1>3, SameRow
<1>5. ASSUME r \in V PROVE x \in V
  BY <1>5 DEF Whole
<1>6. ASSUME x \in V PROVE r \in V
  BY <1>1, <1>4, <1>6 DEF Whole, y
<1> HIDE DEF x
<1>7. (x \in V /\ x["gid"] = g) <=> (r \in V /\ r["gid"] = g)
  BY <1>2, <1>5, <1>6
<1> QED
  BY <1>7 DEF RowsOf, x

LEMMA WholeWithout ==
  ASSUME NEW S, Whole(S), NEW V, Whole(V), NEW g
  PROVE  Whole(S \ RowsOf(V, g))
<1> DEFINE H == RowsOf(V, g)
<1>1. ASSUME NEW r \in S, r \notin H, NEW t \in Terms
      PROVE  /\ IsRow(r) /\ r["term"] \in Terms
             /\ With(r, "term", t) \in S /\ With(r, "term", t) \notin H
  BY <1>1, Together DEF Whole
<1>2. \A r \in S : IsRow(r) /\ r["term"] \in Terms
  BY DEF Whole
<1> HIDE DEF H
<1>3. Whole(S \ H)
  BY <1>1, <1>2 DEF Whole
<1> QED
  BY <1>3 DEF H

LEMMA WholeUnion ==
  ASSUME NEW S, Whole(S), NEW T, Whole(T)
  PROVE  Whole(S \cup T)
BY DEF Whole

\* An update of one field in the rows of a glossary that a version has.
LEMMA WholeUpdate ==
  ASSUME NEW S, Whole(S), NEW V, Whole(V), NEW T, NEW g, NEW f \in {"enabled", "rank"}, NEW v,
         \A x \in T : \E r \in S : x = IF r \in RowsOf(V, g) THEN With(r, f, v) ELSE r,
         \A r \in S : (IF r \in RowsOf(V, g) THEN With(r, f, v) ELSE r) \in T
  PROVE  Whole(T)
<1> SUFFICES ASSUME NEW x \in T
             PROVE  /\ IsRow(x) /\ x["term"] \in Terms
                    /\ \A t \in Terms : With(x, "term", t) \in T
  BY DEF Whole
<1>1. PICK r \in S : x = IF r \in RowsOf(V, g) THEN With(r, f, v) ELSE r
  OBVIOUS
<1>2. IsRow(r) /\ r["term"] \in Terms /\ \A t \in Terms : With(r, "term", t) \in S
  BY DEF Whole
<1>3. f \in Others /\ f \in Fields /\ "term" \in Fields \ {f}
  BY DEF Others, Fields
<1>4. IsRow(x) /\ x["term"] \in Terms
  BY <1>1, <1>2, <1>3, Changed
<1>5. ASSUME NEW t \in Terms PROVE With(x, "term", t) \in T
  <2>1. With(r, "term", t) \in RowsOf(V, g) <=> r \in RowsOf(V, g)
    BY Together
  <2>2. With(With(r, f, v), "term", t) = With(With(r, "term", t), f, v)
    BY <1>2, <1>3, Commute
  <2> QED
    BY <1>1, <1>2, <2>1, <2>2
<1> QED
  BY <1>4, <1>5

LEMMA WholeFlag ==
  ASSUME NEW S, Whole(S), NEW V, Whole(V), NEW g, NEW k
  PROVE  Whole(WithFlag(S, V, g, k))
<1> DEFINE T == WithFlag(S, V, g, k)
<1>1. /\ \A x \in T : \E r \in S : x = IF r \in RowsOf(V, g) THEN With(r, "enabled", k) ELSE r
      /\ \A r \in S : (IF r \in RowsOf(V, g) THEN With(r, "enabled", k) ELSE r) \in T
  BY DEF WithFlag, With
<1> HIDE DEF T
<1>2. Whole(T)
  BY <1>1, WholeUpdate
<1> QED
  BY <1>2 DEF T

LEMMA WholeRank ==
  ASSUME NEW S, Whole(S), NEW V, Whole(V), NEW g, NEW k
  PROVE  Whole(WithRank(S, V, g, k))
<1> DEFINE T == WithRank(S, V, g, k)
<1>1. /\ \A x \in T : \E r \in S : x = IF r \in RowsOf(V, g) THEN With(r, "rank", k) ELSE r
      /\ \A r \in S : (IF r \in RowsOf(V, g) THEN With(r, "rank", k) ELSE r) \in T
  BY DEF WithRank, With
<1> HIDE DEF T
<1>2. Whole(T)
  BY <1>1, WholeUpdate
<1> QED
  BY <1>2 DEF T

\* A copy of a whole set, told apart from it by its appends.
Copied(S, n) == {[r EXCEPT !.copy = Append(@, n)] : r \in S}

LEMMA WholeCopy ==
  ASSUME NEW S, Whole(S), NEW n
  PROVE  Whole(Copied(S, n))
<1> DEFINE T == Copied(S, n)
<1>1. /\ \A x \in T : \E r \in S : x = With(r, "copy", Append(r["copy"], n))
      /\ \A r \in S : With(r, "copy", Append(r["copy"], n)) \in T
  BY DEF Copied, With
<1> HIDE DEF T
<1>2. ASSUME NEW x \in T
      PROVE  /\ IsRow(x) /\ x["term"] \in Terms
             /\ \A t \in Terms : With(x, "term", t) \in T
  <2>1. PICK r \in S : x = With(r, "copy", Append(r["copy"], n))
    BY <1>1
  <2>2. IsRow(r) /\ r["term"] \in Terms /\ \A t \in Terms : With(r, "term", t) \in S
    BY DEF Whole
  <2>3. /\ "copy" \in Others /\ "copy" \in Fields \ {"term"}
        /\ "copy" \in Fields /\ "term" \in Fields /\ "term" \in Fields \ {"copy"}
    BY DEF Others, Fields
  <2>4. IsRow(x) /\ x["term"] \in Terms
    BY <2>1, <2>2, <2>3, Changed
  <2>5. ASSUME NEW t \in Terms PROVE With(x, "term", t) \in T
    <3>1. With(r, "term", t)["copy"] = r["copy"]
      BY <2>2, <2>3, Changed
    <3>2. With(x, "term", t) = With(With(r, "term", t), "copy", Append(r["copy"], n))
      BY <2>1, <2>2, <2>3, Commute
    <3> QED
      BY <1>1, <2>2, <3>1, <3>2
  <2> QED
    BY <2>4, <2>5
<1>3. Whole(T)
  BY <1>2 DEF Whole
<1> QED
  BY <1>3 DEF T

\* What an import appends: one row for each term.
LEMMA WholeNew ==
  ASSUME NEW o
  PROVE  Whole(NewRows(o))
<1> DEFINE Row(t) == [gid |-> o.gid, name |-> o.name, term |-> t, enabled |-> TRUE,
                      rank |-> 0, copy |-> <<o.n>>]
<1>1. ASSUME NEW s, NEW t
      PROVE  IsRow(Row(s)) /\ With(Row(s), "term", t) = Row(t)
  <2>1. DOMAIN Row(s) = Fields
    BY DEF Fields
  <2>2. Row(s) = [f \in Fields |-> Row(s)[f]]
    BY DEF Fields
  <2>3. IsRow(Row(s)) /\ IsRow(With(Row(s), "term", t))
    BY <2>1, <2>2, Changed DEF IsRow, Fields
  <2>4. IsRow(Row(t))
    BY DEF IsRow, Fields
  <2>5. \A f \in Others : Row(s)[f] = Row(t)[f]
    <3>1. \A f \in Others : f \in {"gid", "name", "enabled", "rank", "copy"}
      BY DEF Others, Fields
    <3>2. /\ Row(s)["gid"] = Row(t)["gid"] /\ Row(s)["name"] = Row(t)["name"]
          /\ Row(s)["enabled"] = Row(t)["enabled"] /\ Row(s)["rank"] = Row(t)["rank"]
          /\ Row(s)["copy"] = Row(t)["copy"]
      OBVIOUS
    <3> HIDE DEF Row
    <3> QED
      BY <3>1, <3>2
  <2>6. With(Row(s), "term", t)["term"] = Row(t)["term"]
    BY <2>3, Changed DEF Fields
  <2>7. \A f \in Others : With(Row(s), "term", t)[f] = Row(s)[f]
    BY <2>3, Changed DEF Others, Fields
  <2>8. \A f \in Fields : With(Row(s), "term", t)[f] = Row(t)[f]
    BY <2>5, <2>6, <2>7 DEF Others
  <2> QED
    BY <2>3, <2>4, <2>8, SameRow
<1>2. /\ \A x \in NewRows(o) : \E s \in Terms : x = Row(s)
      /\ \A t \in Terms : Row(t) \in NewRows(o)
  BY DEF NewRows
<1>3. \A t : Row(t)["term"] = t
  OBVIOUS
<1> HIDE DEF Row
<1>4. ASSUME NEW x \in NewRows(o)
      PROVE  /\ IsRow(x) /\ x["term"] \in Terms
             /\ \A t \in Terms : With(x, "term", t) \in NewRows(o)
  <2>1. PICK s \in Terms : x = Row(s)
    BY <1>2
  <2>2. IsRow(x) /\ x["term"] = s
    BY <1>1, <1>3, <2>1
  <2>3. ASSUME NEW t \in Terms PROVE With(x, "term", t) \in NewRows(o)
    <3>1. With(x, "term", t) = Row(t)
      BY <1>1, <2>1
    <3> QED
      BY <1>2, <3>1
  <2> QED
    BY <2>2, <2>3
<1> QED
  BY <1>4 DEF Whole

-----------------------------------------------------------------------------
(* The inductive invariant: with the table, the versions the processes     *)
(* have open are whole, and what a toggle that fell back has read and is   *)
(* about to append.  An operation is a record.                             *)

OpFields == {"at", "n", "gid", "name", "flag", "rows", "left"}
OpShaped(o) == o = [f \in OpFields |-> o[f]] /\ Whole(o.rows)

Opened == view = [p \in Procs |-> view[p]] /\ \A p \in Procs : Whole(view[p])

WInv ==
  /\ Whole(table) /\ Opened
  /\ op = [p \in Procs |-> op[p]]
  /\ \A p \in Procs : OpShaped(op[p])

\* Init, and the operation of an idle process.
LEMMA WholeNone == Whole({})
BY DEF Whole

LEMMA IdleShaped == OpShaped(Idle)
<1>1. Idle = [f \in OpFields |-> Idle[f]]
  BY DEF Idle, OpFields
<1>2. Idle.rows = {}
  BY DEF Idle
<1> QED
  BY <1>1, <1>2, WholeNone DEF OpShaped

LEMMA InitWInv == Init => WInv
BY IdleShaped, WholeNone DEF Init, WInv, Opened

\* What a call leaves of the table and of the versions that are open.
LEMMA LooksWhole ==
  ASSUME WInv, NEW p \in Procs, NEW v, Looks(p, v)
  PROVE  Whole(v) /\ Whole(table') /\ Opened'
<1>1. Whole(v) /\ UNCHANGED table
  BY DEF Looks, Versions, WInv, Opened
<1>2. view' = [view EXCEPT ![p] = v]
  BY DEF Looks
<1>3. Opened'
  BY <1>1, <1>2 DEF WInv, Opened
<1> QED
  BY <1>1, <1>3 DEF WInv

LEMMA CommitsWhole ==
  ASSUME WInv, NEW p \in Procs, NEW t, Whole(t), Commits(p, t)
  PROVE  Whole(table') /\ Opened'
<1>1. table' = t /\ view' = [view EXCEPT ![p] = t]
  BY DEF Commits
<1>2. Opened'
  BY <1>1 DEF WInv, Opened
<1> QED
  BY <1>1, <1>2

LEMMA UntouchedWhole ==
  ASSUME WInv, Untouched
  PROVE  Whole(table') /\ Opened'
BY DEF WInv, Opened, Untouched

LEMMA FindsWhole ==
  ASSUME WInv, NEW p \in Procs, NEW g, NEW v \in Finds(p, g)
  PROVE  Whole(v)
BY DEF WInv, Opened, Finds, Versions

\* A process goes on to an operation whose rows are whole; the table and the open
\* versions are kept, or become whole ones.
LEMMA GoesOn ==
  ASSUME WInv, NEW p \in Procs, NEW o, OpShaped(o), op' = [op EXCEPT ![p] = o],
         Whole(table'), Opened'
  PROVE  WInv'
<1>1. op' = [q \in Procs |-> op'[q]]
  BY DEF WInv
<1>2. \A q \in Procs : OpShaped(op'[q])
  BY DEF WInv
<1> QED
  BY <1>1, <1>2 DEF WInv

\* What an operation begins as.
LEMMA BeginsShaped ==
  ASSUME WInv, NEW p \in Procs, NEW v, NEW o, OpShaped(o), Begins(p, v, o)
  PROVE  WInv'
<1>1. op' = [op EXCEPT ![p] = [o EXCEPT !.n = begun + 1]] /\ Looks(p, v)
  BY DEF Begins
<1>2. OpShaped([o EXCEPT !.n = begun + 1])
  BY DEF OpShaped, OpFields
<1>3. Whole(table') /\ Opened'
  BY <1>1, LooksWhole
<1> QED
  BY <1>1, <1>2, <1>3, GoesOn

-----------------------------------------------------------------------------
(* Every step keeps the invariant.                                         *)

LEMMA BeginningKeeps ==
  ASSUME WInv, NEW p \in Procs, NEW v,
         \/ \E n \in Names : Import(p, v, n)
         \/ \E g \in Listed(v), flag \in BOOLEAN : Toggle(p, v, g, flag)
         \/ \E g, h \in Listed(v) : Reorder(p, v, IF g = h THEN <<g>> ELSE <<g, h>>)
         \/ \E g \in Listed(v) : Delete(p, v, g)
  PROVE  WInv'
<1>1. CASE \E n \in Names : Import(p, v, n)
  <2>1. PICK n \in Names : Import(p, v, n)
    BY <1>1
  <2>2. \A g : OpShaped([Idle EXCEPT !.at = "add", !.gid = g, !.name = n])
    BY IdleShaped DEF OpShaped, OpFields
  <2>3. \A g : OpShaped([Idle EXCEPT !.at = "clear", !.gid = g, !.name = n])
    BY IdleShaped DEF OpShaped, OpFields
  <2>4. \E o : OpShaped(o) /\ Begins(p, v, o)
    <3>1. CASE Called(v, n) = {}
      <4>1. Begins(p, v, [Idle EXCEPT !.at = "add", !.gid = begun + 1, !.name = n])
        BY <2>1, <3>1 DEF Import
      <4> QED
        BY <2>2, <4>1
    <3>2. CASE Called(v, n) # {}
      <4>1. PICK g \in Called(v, n) : Begins(p, v, [Idle EXCEPT !.at = "clear", !.gid = g, !.name = n])
        BY <2>1, <3>2 DEF Import
      <4> QED
        BY <2>3, <4>1
    <3> QED
      BY <3>1, <3>2
  <2> QED
    BY <2>4, BeginsShaped
<1>2. CASE \E g \in Listed(v), flag \in BOOLEAN : Toggle(p, v, g, flag)
  <2>1. PICK g \in Listed(v), flag \in BOOLEAN :
          Begins(p, v, [Idle EXCEPT !.at = "toggle", !.gid = g, !.flag = flag])
    BY <1>2 DEF Toggle
  <2>2. OpShaped([Idle EXCEPT !.at = "toggle", !.gid = g, !.flag = flag])
    BY IdleShaped DEF OpShaped, OpFields
  <2> QED
    BY <2>1, <2>2, BeginsShaped
<1>3. CASE \E g, h \in Listed(v) : Reorder(p, v, IF g = h THEN <<g>> ELSE <<g, h>>)
  <2>1. PICK ids : Begins(p, v, [Idle EXCEPT !.at = "rank", !.left = ids, !.gid = 0])
    BY <1>3 DEF Reorder
  <2>2. OpShaped([Idle EXCEPT !.at = "rank", !.left = ids, !.gid = 0])
    BY IdleShaped DEF OpShaped, OpFields
  <2> QED
    BY <2>1, <2>2, BeginsShaped
<1>4. CASE \E g \in Listed(v) : Delete(p, v, g)
  <2>1. PICK g \in Listed(v) : Begins(p, v, [Idle EXCEPT !.at = "drop", !.gid = g])
    BY <1>4 DEF Delete
  <2>2. OpShaped([Idle EXCEPT !.at = "drop", !.gid = g])
    BY IdleShaped DEF OpShaped, OpFields
  <2> QED
    BY <2>1, <2>2, BeginsShaped
<1> QED
  BY <1>1, <1>2, <1>3, <1>4

\* The calls of a toggle, a deletion and a reordering.
LEMMA CallKeeps ==
  ASSUME WInv, NEW p \in Procs,
         (\E v : Fallback(p, v)) \/ Update(p) \/ AppendCopy(p) \/ Drop(p) \/ Rank(p)
  PROVE  WInv'
<1>0. Whole(table) /\ OpShaped(op[p]) /\ Whole(op[p].rows)
  BY DEF WInv, OpShaped
<1>1. CASE Update(p)
  <2>1. PICK v \in Finds(p, op[p].gid) : Commits(p, WithFlag(table, v, op[p].gid, op[p].flag))
    BY <1>1 DEF Update
  <2>2. Whole(WithFlag(table, v, op[p].gid, op[p].flag))
    BY <1>0, FindsWhole, WholeFlag
  <2>3. Whole(table') /\ Opened'
    BY <2>1, <2>2, CommitsWhole
  <2> QED
    BY <1>1, <2>3, IdleShaped, GoesOn DEF Update, Ends, Goes
<1>2. CASE \E v : Fallback(p, v)
  <2>1. PICK v : Fallback(p, v)
    BY <1>2
  <2>2. Whole(v) /\ Whole(table') /\ Opened'
    BY <2>1, LooksWhole DEF Fallback
  <2>3. Whole(WithFlag(v, v, op[p].gid, op[p].flag))
    BY <2>2, WholeFlag
  <2>4. OpShaped([op[p] EXCEPT !.at = "append",
                               !.rows = WithFlag(v, v, op[p].gid, op[p].flag)])
    BY <1>0, <2>3 DEF OpShaped, OpFields
  <2>5. \E o : OpShaped(o) /\ op' = [op EXCEPT ![p] = o]
    BY <2>1, <2>4, IdleShaped DEF Fallback, Ends, Goes
  <2> QED
    BY <2>2, <2>5, GoesOn
<1>3. CASE AppendCopy(p)
  <2>1. Commits(p, table \cup Copied(op[p].rows, op[p].n))
    BY <1>3 DEF AppendCopy, Copied
  <2>2. Whole(table \cup Copied(op[p].rows, op[p].n))
    BY <1>0, WholeCopy, WholeUnion
  <2>3. Whole(table') /\ Opened'
    BY <2>1, <2>2, CommitsWhole
  <2>4. OpShaped([op[p] EXCEPT !.at = "drop"])
    BY <1>0 DEF OpShaped, OpFields
  <2> QED
    BY <1>3, <2>3, <2>4, GoesOn DEF AppendCopy, Goes
<1>4. CASE Drop(p)
  <2>1. PICK v \in Finds(p, op[p].gid) : Commits(p, table \ RowsOf(v, op[p].gid))
    BY <1>4 DEF Drop
  <2>2. Whole(table \ RowsOf(v, op[p].gid))
    BY <1>0, FindsWhole, WholeWithout
  <2>3. Whole(table') /\ Opened'
    BY <2>1, <2>2, CommitsWhole
  <2> QED
    BY <1>4, <2>3, IdleShaped, GoesOn DEF Drop, Ends, Goes
<1>5. CASE Rank(p)
  <2>0. PICK g, k : \E v \in Finds(p, g) : Commits(p, WithRank(table, v, g, k))
    BY <1>5 DEF Rank
  <2>1. PICK v \in Finds(p, g) : Commits(p, WithRank(table, v, g, k))
    BY <2>0
  <2>2. Whole(WithRank(table, v, g, k))
    BY <1>0, FindsWhole, WholeRank
  <2>3. Whole(table') /\ Opened'
    BY <2>1, <2>2, CommitsWhole
  <2>4. OpShaped([op[p] EXCEPT !.left = Tail(@)])
    BY <1>0 DEF OpShaped, OpFields
  <2>5. \E o : OpShaped(o) /\ op' = [op EXCEPT ![p] = o]
    BY <1>5, <2>4, IdleShaped DEF Rank, Ends, Goes
  <2> QED
    BY <2>3, <2>5, GoesOn
<1> QED
  BY <1>1, <1>2, <1>3, <1>4, <1>5

\* The calls of an import, and an operation that is left.
LEMMA SaveKeeps ==
  ASSUME WInv, NEW p \in Procs, Clear(p) \/ Add(p) \/ Abandon(p)
  PROVE  WInv'
<1>0. Whole(table) /\ OpShaped(op[p])
  BY DEF WInv
<1>1. CASE Clear(p)
  <2>1. PICK v \in Finds(p, op[p].gid) : Commits(p, table \ RowsOf(v, op[p].gid))
    BY <1>1 DEF Clear
  <2>2. Whole(table \ RowsOf(v, op[p].gid))
    BY <1>0, FindsWhole, WholeWithout
  <2>3. Whole(table') /\ Opened'
    BY <2>1, <2>2, CommitsWhole
  <2>4. OpShaped([op[p] EXCEPT !.at = "add"])
    BY <1>0 DEF OpShaped, OpFields
  <2> QED
    BY <1>1, <2>3, <2>4, GoesOn DEF Clear, Goes
<1>2. CASE Add(p)
  <2>1. Whole(table \cup NewRows(op[p]))
    BY <1>0, WholeNew, WholeUnion
  <2>2. Whole(table') /\ Opened'
    BY <1>2, <2>1, CommitsWhole DEF Add
  <2>3. OpShaped([op[p] EXCEPT !.at = "migrate", !.left = Tail(@)])
    BY <1>0 DEF OpShaped, OpFields
  <2>4. \E o : OpShaped(o) /\ op' = [op EXCEPT ![p] = o]
    BY <1>2, <2>3, IdleShaped DEF Add, Ends, Goes
  <2> QED
    BY <2>2, <2>4, GoesOn
<1>3. CASE Abandon(p)
  <2>1. Whole(table') /\ Opened'
    BY <1>3, UntouchedWhole DEF Abandon
  <2> QED
    BY <1>3, <2>1, IdleShaped, GoesOn DEF Abandon, Ends, Goes
<1> QED
  BY <1>1, <1>2, <1>3

\* The migration, and a server that only opens the store.
LEMMA MigrationKeeps ==
  ASSUME WInv, OpenStore \/ Migrate \/ MigrateNext \/ MoveLegacy
  PROVE  WInv'
<1>0. Cli \in Procs /\ OpShaped(op[Cli])
  BY DEF WInv, Procs
<1>1. CASE OpenStore
  BY <1>1, UntouchedWhole DEF OpenStore, WInv
<1>2. CASE Migrate
  <2>1. PICK plan : Begins(Cli, table, [Idle EXCEPT !.at = "migrate", !.left = plan])
    BY <1>2 DEF Migrate
  <2>2. OpShaped([Idle EXCEPT !.at = "migrate", !.left = plan])
    BY IdleShaped DEF OpShaped, OpFields
  <2> QED
    BY <1>0, <2>1, <2>2, BeginsShaped
<1>3. CASE MigrateNext
  <2>1. PICK g, n : op' = [op EXCEPT ![Cli] = [op[Cli] EXCEPT !.at = "clear", !.gid = g, !.name = n]]
    BY <1>3 DEF MigrateNext, Goes
  <2>2. OpShaped([op[Cli] EXCEPT !.at = "clear", !.gid = g, !.name = n])
    BY <1>0 DEF OpShaped, OpFields
  <2>3. Whole(table') /\ Opened'
    BY <1>3, UntouchedWhole DEF MigrateNext
  <2> QED
    BY <1>0, <2>1, <2>2, <2>3, GoesOn
<1>4. CASE MoveLegacy
  <2>1. Whole(table') /\ Opened'
    BY <1>4, UntouchedWhole DEF MoveLegacy
  <2>2. CASE op' = op
    BY <2>1, <2>2 DEF WInv
  <2>3. CASE Ends(Cli)
    BY <1>0, <2>1, <2>3, IdleShaped, GoesOn DEF Ends, Goes
  <2> QED
    BY <1>4, <2>2, <2>3 DEF MoveLegacy
<1> QED
  BY <1>1, <1>2, <1>3, <1>4

LEMMA NextWInv == WInv /\ [Next]_vars => WInv'
<1> SUFFICES ASSUME WInv, [Next]_vars PROVE WInv'
  OBVIOUS
<1>1. CASE OpenStore \/ Migrate \/ MigrateNext \/ MoveLegacy
  BY <1>1, MigrationKeeps
<1>2. CASE \E p \in Servers : Serve(p)
  <2>1. PICK p \in Servers : Serve(p)
    BY <1>2
  <2>2. p \in Procs
    BY DEF Procs
  <2>3. CASE Update(p) \/ AppendCopy(p) \/ Drop(p) \/ Rank(p)
    BY <2>2, <2>3, CallKeeps
  <2>4. CASE \E v : Fallback(p, v)
    BY <2>2, <2>4, CallKeeps
  <2> QED
    BY <2>1, <2>2, <2>3, <2>4, BeginningKeeps DEF Serve
<1>3. CASE \E p \in Procs : Clear(p) \/ Add(p) \/ Abandon(p)
  BY <1>3, SaveKeeps
<1>4. CASE UNCHANGED vars
  BY <1>4 DEF vars, WInv, Opened
<1> QED
  BY <1>1, <1>2, <1>3, <1>4 DEF Next

-----------------------------------------------------------------------------
(* No half import: whatever processes overlap, at whatever versions of the *)
(* table, and wherever they fail, each copy a save appended is there with  *)
(* all its terms, and they agree on flag and priority                      *)
(* (core/lexicon/lancedb_store.py).                                        *)
THEOREM NoHalfImports == Spec => []WholeImports
<1>1. WInv => WholeImports
  BY DEF WInv, Whole, WholeImports, With
<1> QED
  BY <1>1, InitWInv, NextWInv, PTL DEF Spec

-----------------------------------------------------------------------------
(* One glossary per name, and the migration.                               *)

\* The rows of T are of glossaries, and under names, that S has.
SameNames(T, S) == \A x \in T : \E r \in S : x.gid = r.gid /\ x.name = r.name
OneId(S) ==
  \A r, s \in S : r.name = s.name /\ r.gid # s.gid => {r.gid, s.gid} \subseteq Legacy

\* Nobody but a process that has opened the store is in the middle of anything.
Unopened == ~lance => table = {} /\ \A p \in Procs : op[p] = Idle

\* What an operation saw of the table T is still true of it: whoever saves a
\* glossary replaces all that has its name, or one of several that the legacy
\* library had, who appends a copy copies rows that are there, and a migration of
\* a library found no table.
Saving == {"migrate", "clear", "add"}
Replaces(T, o) ==
  o.at \in {"clear", "add"} =>
    \A r \in T : r.name = o.name /\ r.gid # o.gid => {r.gid, o.gid} \subseteq Legacy
Rereads(T, o) == o.at = "append" => SameNames(o.rows, T)
Sees(T, o) == Replaces(T, o) /\ Rereads(T, o)
FromLegacy(T, o) == o.at \in Saving /\ o.left # <<>> => \A r \in T : r.gid \in Legacy
Replaced ==
  /\ overlapped \in BOOLEAN
  /\ ~overlapped =>
       /\ OneId(table)
       /\ \A p \in Procs : Sees(table, op[p])
       /\ FromLegacy(table, op[Cli])

\* What the migration has read and not saved is left to it.
Current(o) == o.left # <<>> /\ o.gid = Head(o.left)
Migrating(o) ==
  /\ o.at \in Saving \cup {"idle"} /\ o.left \in Seq(Legacy)
  /\ o.at \in Saving => planned \subseteq saved \cup ToSet(o.left)
  /\ o.at \in {"clear", "add"} => Current(o)
Moved == Migrating(op[Cli]) /\ ("library" \notin files => planned \subseteq saved)

OInv == WInv /\ Unopened /\ Replaced /\ Moved

-----------------------------------------------------------------------------
(* Rows and their names.                                                   *)

LEMMA SubsetNames ==
  ASSUME NEW S, NEW T, T \subseteq S
  PROVE  SameNames(T, S)
BY DEF SameNames

LEMMA NamesOneId ==
  ASSUME NEW S, NEW T, SameNames(T, S), OneId(S)
  PROVE  OneId(T)
BY DEF SameNames, OneId

LEMMA NamesTransitive ==
  ASSUME NEW S, NEW T, NEW U, SameNames(U, T), SameNames(T, S)
  PROVE  SameNames(U, S)
BY DEF SameNames

LEMMA NamesUnion ==
  ASSUME NEW S, NEW T, SameNames(T, S)
  PROVE  SameNames(S \cup T, S)
BY DEF SameNames

LEMMA KeptNames ==
  ASSUME NEW r, IsRow(r), NEW f \in {"enabled", "rank", "copy"}, NEW v
  PROVE  With(r, f, v).gid = r.gid /\ With(r, f, v).name = r.name
BY DEF IsRow, Fields, With

LEMMA FlagNames ==
  ASSUME NEW S, Whole(S), NEW V, NEW g, NEW k
  PROVE  SameNames(WithFlag(S, V, g, k), S)
<1>1. \A x \in WithFlag(S, V, g, k) : \E r \in S :
        x = IF r \in RowsOf(V, g) THEN With(r, "enabled", k) ELSE r
  BY DEF WithFlag, With
<1>2. \A r \in S : IsRow(r)
  BY DEF Whole
<1> QED
  BY <1>1, <1>2, KeptNames DEF SameNames

LEMMA RankNames ==
  ASSUME NEW S, Whole(S), NEW V, NEW g, NEW k
  PROVE  SameNames(WithRank(S, V, g, k), S)
<1>1. \A x \in WithRank(S, V, g, k) : \E r \in S :
        x = IF r \in RowsOf(V, g) THEN With(r, "rank", k) ELSE r
  BY DEF WithRank, With
<1>2. \A r \in S : IsRow(r)
  BY DEF Whole
<1> QED
  BY <1>1, <1>2, KeptNames DEF SameNames

LEMMA CopyNames ==
  ASSUME NEW S, Whole(S), NEW n
  PROVE  SameNames(Copied(S, n), S)
<1>1. \A x \in Copied(S, n) : \E r \in S : x = With(r, "copy", Append(r.copy, n))
  BY DEF Copied, With
<1>2. \A r \in S : IsRow(r)
  BY DEF Whole
<1> QED
  BY <1>1, <1>2, KeptNames DEF SameNames

\* What an operation keeps when it goes on.
LEMMA OpKept ==
  ASSUME NEW o, OpShaped(o), NEW f \in OpFields, NEW v
  PROVE  /\ [o EXCEPT ![f] = v][f] = v
         /\ \A g \in OpFields \ {f} : [o EXCEPT ![f] = v][g] = o[g]
BY DEF OpShaped, OpFields

\* The head of a plan, and what is left of it.
LEMMA HeadAndTail ==
  ASSUME NEW s \in Seq(Legacy), s # <<>>
  PROVE  /\ Tail(s) \in Seq(Legacy) /\ Head(s) \in Legacy
         /\ ToSet(s) \subseteq {Head(s)} \cup ToSet(Tail(s))
<1>1. ASSUME NEW i \in DOMAIN s PROVE s[i] \in {Head(s)} \cup ToSet(Tail(s))
  <2>1. i \in 1 .. Len(s)
    BY <1>1
  <2>2. CASE i = 1
    BY <2>2
  <2>3. CASE i # 1
    <3>1. i - 1 \in DOMAIN Tail(s) /\ Tail(s)[i - 1] = s[i]
      BY <2>1, <2>3
    <3> QED
      BY <3>1 DEF ToSet
  <2> QED
    BY <2>2, <2>3
<1> QED
  BY <1>1 DEF ToSet

LEMMA IdleSees == \A T : Sees(T, Idle) /\ FromLegacy(T, Idle)
BY DEF Idle, Sees, Replaces, Rereads, FromLegacy, Saving

-----------------------------------------------------------------------------
(* Steps of one process.  Another process that is in the middle of an      *)
(* operation sees the same table, or the processes overlapped.             *)

Still == UNCHANGED table /\ overlapped' \in BOOLEAN /\ (~overlapped' => ~overlapped)

\* A process that looked at an old version has overlapped with who wrote since.
LEMMA LooksStill ==
  ASSUME OInv, NEW p \in Procs, NEW v, Looks(p, v)
  PROVE  Still /\ (~overlapped' => v = table)
BY DEF Looks, Still, OInv, Replaced

LEMMA UntouchedStill ==
  ASSUME OInv, Untouched
  PROVE  Still
BY DEF Untouched, Still, OInv, Replaced

LEMMA StepReplaced ==
  ASSUME OInv, NEW p \in Procs, NEW o, op' = [op EXCEPT ![p] = o],
         Still \/ Commits(p, table'),
         ~overlapped' => OneId(table') /\ Sees(table', o),
         p = Cli /\ ~overlapped' => FromLegacy(table', o)
  PROVE  Replaced'
<1>1. overlapped' \in BOOLEAN
  BY DEF OInv, Replaced, Still, Commits
<1>2. SUFFICES ASSUME ~overlapped'
               PROVE  /\ OneId(table')
                      /\ \A q \in Procs : Sees(table', op'[q])
                      /\ FromLegacy(table', op'[Cli])
  BY <1>1 DEF Replaced
<1>3. ~overlapped /\ Cli \in Procs
  BY <1>2 DEF Still, Commits, OInv, Replaced, Procs
<1>4. \A q \in Procs \ {p} : op'[q] = op[q] /\ (table' = table \/ op[q] = Idle)
  BY <1>2 DEF Still, Commits, OInv, WInv
<1>5. op'[p] = o
  BY DEF OInv, WInv
<1>6. \A q \in Procs \ {p} : Sees(table', op'[q])
  BY <1>3, <1>4, IdleSees DEF OInv, Replaced
<1>7. p # Cli => FromLegacy(table', op'[Cli])
  BY <1>3, <1>4, IdleSees DEF OInv, Replaced
<1> QED
  BY <1>2, <1>5, <1>6, <1>7

LEMMA BeginReplaced ==
  ASSUME OInv, NEW p \in Procs, NEW v, NEW o, OpShaped(o), Begins(p, v, o),
         ~overlapped /\ v = table => Sees(table, o),
         p = Cli /\ ~overlapped => FromLegacy(table, o)
  PROVE  Unopened' /\ Replaced'
<1> DEFINE b == [o EXCEPT !.n = begun + 1]
<1>1. op' = [op EXCEPT ![p] = b] /\ Looks(p, v) /\ UNCHANGED table /\ lance'
  BY DEF Begins, Looks
<1>2. b.at = o.at /\ b.name = o.name /\ b.gid = o.gid /\ b.rows = o.rows /\ b.left = o.left
  BY OpKept DEF OpFields
<1>3. \A T : (Sees(T, o) => Sees(T, b)) /\ (FromLegacy(T, o) => FromLegacy(T, b))
  BY <1>2 DEF Sees, Replaces, Rereads, FromLegacy
<1>4. ~overlapped => OneId(table)
  BY DEF OInv, Replaced
<1>5. Still /\ (~overlapped' => v = table /\ ~overlapped)
  BY <1>1, LooksStill DEF Still
<1> HIDE DEF b
<1>6. ~overlapped' => OneId(table') /\ Sees(table', b)
  BY <1>1, <1>3, <1>4, <1>5
<1>7. p = Cli /\ ~overlapped' => FromLegacy(table', b)
  BY <1>1, <1>3, <1>5
<1>8. Replaced'
  BY <1>1, <1>5, <1>6, <1>7, StepReplaced
<1> QED
  BY <1>1, <1>8 DEF Unopened

LEMMA BeginningReplaced ==
  ASSUME OInv, NEW p \in Servers, NEW v,
         \/ \E n \in Names : Import(p, v, n)
         \/ \E g \in Listed(v), flag \in BOOLEAN : Toggle(p, v, g, flag)
         \/ \E g, h \in Listed(v) : Reorder(p, v, IF g = h THEN <<g>> ELSE <<g, h>>)
         \/ \E g \in Listed(v) : Delete(p, v, g)
  PROVE  Unopened' /\ Replaced'
<1>0. p \in Procs /\ p # Cli
  BY LexiconAssumption DEF Procs
<1>1. CASE \E n \in Names : Import(p, v, n)
  <2>1. PICK n \in Names : Import(p, v, n)
    BY <1>1
  <2>0. PICK a \in {"clear", "add"} : \E g :
          /\ Begins(p, v, [Idle EXCEPT !.at = a, !.gid = g, !.name = n])
          /\ Called(v, n) = {} \/ g \in Called(v, n)
    BY <2>1 DEF Import
  <2>2. PICK g : /\ Begins(p, v, [Idle EXCEPT !.at = a, !.gid = g, !.name = n])
                 /\ Called(v, n) = {} \/ g \in Called(v, n)
    BY <2>0
  <2> DEFINE o == [Idle EXCEPT !.at = a, !.gid = g, !.name = n]
  <2>3. o.at = a /\ o.gid = g /\ o.name = n /\ OpShaped(o)
    BY IdleShaped DEF Idle, OpShaped, OpFields
  <2>4. OneId(table) /\ v = table =>
          \A r \in table : r.name = n /\ r.gid # g => {r.gid, g} \subseteq Legacy
    BY <2>2 DEF Called, OneId
  <2>5. ~overlapped /\ v = table => Sees(table, o)
    BY <2>3, <2>4 DEF OInv, Replaced, Sees, Replaces, Rereads
  <2> HIDE DEF o
  <2> QED
    BY <1>0, <2>2, <2>3, <2>5, BeginReplaced DEF o
<1>2. CASE \E o : OpShaped(o) /\ o.at \in {"toggle", "rank", "drop"} /\ Begins(p, v, o)
  <2>1. PICK o : OpShaped(o) /\ o.at \in {"toggle", "rank", "drop"} /\ Begins(p, v, o)
    BY <1>2
  <2>2. Sees(table, o)
    BY <2>1 DEF Sees, Replaces, Rereads
  <2> QED
    BY <1>0, <2>1, <2>2, BeginReplaced
<1>3. CASE \E g \in Listed(v), flag \in BOOLEAN : Toggle(p, v, g, flag)
  <2>1. PICK g \in Listed(v), flag \in BOOLEAN :
          Begins(p, v, [Idle EXCEPT !.at = "toggle", !.gid = g, !.flag = flag])
    BY <1>3 DEF Toggle
  <2> DEFINE o == [Idle EXCEPT !.at = "toggle", !.gid = g, !.flag = flag]
  <2>2. o.at = "toggle" /\ OpShaped(o)
    BY IdleShaped DEF Idle, OpShaped, OpFields
  <2> HIDE DEF o
  <2> QED
    BY <1>2, <2>1, <2>2 DEF o
<1>4. CASE \E g, h \in Listed(v) : Reorder(p, v, IF g = h THEN <<g>> ELSE <<g, h>>)
  <2>1. PICK ids : Begins(p, v, [Idle EXCEPT !.at = "rank", !.left = ids, !.gid = 0])
    BY <1>4 DEF Reorder
  <2> DEFINE o == [Idle EXCEPT !.at = "rank", !.left = ids, !.gid = 0]
  <2>2. o.at = "rank" /\ OpShaped(o)
    BY IdleShaped DEF Idle, OpShaped, OpFields
  <2> HIDE DEF o
  <2> QED
    BY <1>2, <2>1, <2>2 DEF o
<1>5. CASE \E g \in Listed(v) : Delete(p, v, g)
  <2>1. PICK g \in Listed(v) : Begins(p, v, [Idle EXCEPT !.at = "drop", !.gid = g])
    BY <1>5 DEF Delete
  <2> DEFINE o == [Idle EXCEPT !.at = "drop", !.gid = g]
  <2>2. o.at = "drop" /\ OpShaped(o)
    BY IdleShaped DEF Idle, OpShaped, OpFields
  <2> HIDE DEF o
  <2> QED
    BY <1>2, <2>1, <2>2 DEF o
<1> QED
  BY <1>1, <1>3, <1>4, <1>5

\* The store is open as soon as an operation is under way.
LEMMA StaysOpen ==
  ASSUME OInv, NEW p \in Procs, op[p] # Idle, UNCHANGED lance
  PROVE  Unopened'
BY DEF OInv, Unopened

LEMMA CallReplaced ==
  ASSUME OInv, NEW p \in Servers,
         (\E v : Fallback(p, v)) \/ Update(p) \/ AppendCopy(p) \/ Drop(p) \/ Rank(p)
  PROVE  Unopened' /\ Replaced'
<1>0. p \in Procs /\ p # Cli /\ OpShaped(op[p]) /\ Whole(table) /\ Whole(op[p].rows)
  BY LexiconAssumption DEF Procs, OInv, WInv, OpShaped
<1>1. op[p] # Idle /\ UNCHANGED lance
  <2>1. CASE \E v : Fallback(p, v)
    <3>1. op[p].at = "toggle" /\ UNCHANGED lance
      BY <2>1 DEF Fallback, Aside
    <3> QED
      BY <3>1 DEF Idle
  <2>2. CASE Update(p) \/ AppendCopy(p) \/ Drop(p) \/ Rank(p)
    BY <2>2 DEF Idle, Update, AppendCopy, Drop, Rank, Aside
  <2> QED
    BY <2>1, <2>2
<1>2. Unopened'
  BY <1>0, <1>1, StaysOpen
<1>3. ASSUME ~overlapped PROVE OneId(table) /\ Sees(table, op[p])
  BY <1>0, <1>3 DEF OInv, Replaced
<1>4. ~overlapped' => ~overlapped
  BY DEF Update, Fallback, AppendCopy, Drop, Rank, Commits, Looks, OInv, Replaced
<1>5. CASE Update(p)
  <2>1. PICK v : table' = WithFlag(table, v, op[p].gid, op[p].flag)
    BY <1>5 DEF Update, Commits
  <2>2. ~overlapped' => OneId(table')
    BY <1>0, <1>3, <1>4, <2>1, FlagNames, NamesOneId
  <2>3. op' = [op EXCEPT ![p] = Idle] /\ Commits(p, table')
    BY <1>5 DEF Update, Commits, Ends, Goes
  <2> QED
    BY <1>0, <1>2, <2>2, <2>3, IdleSees, StepReplaced
<1>6. CASE \E v : Fallback(p, v)
  <2>1. PICK v : Fallback(p, v)
    BY <1>6
  <2>0. Looks(p, v) /\ UNCHANGED table
    BY <2>1 DEF Fallback, Looks
  <2>2. Still /\ (~overlapped' => v = table)
    BY <1>0, <2>0, LooksStill
  <2> DEFINE t == WithFlag(v, v, op[p].gid, op[p].flag)
             o == [op[p] EXCEPT !.at = "append", !.rows = t]
  <2>3. v = table => SameNames(t, table)
    BY <1>0, FlagNames
  <2>4. o.at = "append" /\ o.rows = t
    BY <1>0 DEF OpShaped, OpFields
  <2> HIDE DEF t
  <2>5. v = table => Sees(table, o)
    BY <2>3, <2>4 DEF Sees, Replaces, Rereads
  <2>6. \E x : op' = [op EXCEPT ![p] = x] /\ (v = table => Sees(table, x))
    BY <2>1, <2>5, IdleSees DEF Fallback, Ends, Goes, t
  <2> QED
    BY <1>0, <1>2, <1>3, <1>4, <2>0, <2>2, <2>6, StepReplaced
<1>7. CASE AppendCopy(p)
  <2>1. table' = table \cup Copied(op[p].rows, op[p].n) /\ Commits(p, table')
    BY <1>7 DEF AppendCopy, Commits, Copied
  <2>2. op' = [op EXCEPT ![p] = [op[p] EXCEPT !.at = "drop"]] /\ op[p].at = "append"
    BY <1>7 DEF AppendCopy, Goes
  <2>3. ~overlapped => SameNames(Copied(op[p].rows, op[p].n), table)
    BY <1>0, <1>3, <2>2, CopyNames, NamesTransitive DEF Sees, Rereads
  <2>4. ~overlapped' => OneId(table')
    BY <1>3, <1>4, <2>1, <2>3, NamesUnion, NamesOneId
  <2>5. [op[p] EXCEPT !.at = "drop"].at = "drop"
    BY <1>0, OpKept DEF OpFields
  <2>6. Sees(table', [op[p] EXCEPT !.at = "drop"])
    BY <2>5 DEF Sees, Replaces, Rereads
  <2> QED
    BY <1>0, <1>2, <2>1, <2>2, <2>4, <2>6, StepReplaced
<1>8. CASE Drop(p)
  <2>1. table' \subseteq table /\ Commits(p, table')
    BY <1>8 DEF Drop, Commits
  <2>2. ~overlapped' => OneId(table')
    BY <1>3, <1>4, <2>1 DEF OneId
  <2>3. op' = [op EXCEPT ![p] = Idle]
    BY <1>8 DEF Drop, Ends, Goes
  <2> QED
    BY <1>0, <1>2, <2>1, <2>2, <2>3, IdleSees, StepReplaced
<1>9. CASE Rank(p)
  <2>0. PICK g, k, v : Commits(p, WithRank(table, v, g, k))
    BY <1>9 DEF Rank
  <2>1. table' = WithRank(table, v, g, k) /\ Commits(p, table')
    BY <2>0 DEF Commits
  <2>2. ~overlapped' => OneId(table')
    BY <1>0, <1>3, <1>4, <2>1, RankNames, NamesOneId
  <2> DEFINE o == [op[p] EXCEPT !.left = Tail(@)]
  <2>3. o.at = "rank"
    BY <1>0, <1>9 DEF Rank, OpShaped, OpFields
  <2>4. Sees(table', o)
    BY <2>3 DEF Sees, Replaces, Rereads
  <2>5. \E x : op' = [op EXCEPT ![p] = x] /\ Sees(table', x)
    BY <1>9, <2>4, IdleSees DEF Rank, Ends, Goes
  <2> QED
    BY <1>0, <1>2, <2>1, <2>2, <2>5, StepReplaced
<1> QED
  BY <1>5, <1>6, <1>7, <1>8, <1>9

LEMMA SaveReplaced ==
  ASSUME OInv, NEW p \in Procs, Clear(p) \/ Add(p) \/ Abandon(p)
  PROVE  Unopened' /\ Replaced'
<1>0. OpShaped(op[p]) /\ Cli \in Procs
  BY DEF OInv, WInv, Procs
<1>1. op[p] # Idle /\ UNCHANGED lance
  BY DEF Idle, Clear, Add, Abandon, Aside
<1>2. Unopened'
  BY <1>1, StaysOpen
<1>3. ASSUME ~overlapped
      PROVE  OneId(table) /\ Sees(table, op[p]) /\ (p = Cli => FromLegacy(table, op[p]))
  BY <1>0, <1>3 DEF OInv, Replaced
<1>4. ~overlapped' => ~overlapped
  BY DEF Clear, Add, Abandon, Commits, Untouched, OInv, Replaced
<1>5. CASE Clear(p)
  <2>1. table' \subseteq table /\ Commits(p, table')
    BY <1>5 DEF Clear, Commits
  <2>2. ~overlapped' => OneId(table')
    BY <1>3, <1>4, <2>1 DEF OneId
  <2> DEFINE o == [op[p] EXCEPT !.at = "add"]
  <2>3. /\ op' = [op EXCEPT ![p] = o] /\ op[p].at = "clear"
        /\ o.at = "add" /\ o.gid = op[p].gid /\ o.name = op[p].name /\ o.left = op[p].left
    BY <1>0, <1>5, OpKept DEF Clear, Goes, OpFields
  <2> HIDE DEF o
  <2>4. ~overlapped' => Sees(table', o)
    BY <1>3, <1>4, <2>1, <2>3 DEF Sees, Replaces, Rereads
  <2>5. p = Cli /\ ~overlapped' => FromLegacy(table', o)
    BY <1>3, <1>4, <2>1, <2>3 DEF FromLegacy, Saving
  <2> QED
    BY <1>2, <2>1, <2>2, <2>3, <2>4, <2>5, StepReplaced
<1>6. CASE Add(p)
  <2>1. /\ table' = table \cup NewRows(op[p]) /\ Commits(p, table') /\ op[p].at = "add"
    BY <1>6 DEF Add, Commits
  <2>2. \A r \in NewRows(op[p]) : r.gid = op[p].gid /\ r.name = op[p].name
    BY DEF NewRows
  <2>3. ~overlapped' => OneId(table')
    BY <1>3, <1>4, <2>1, <2>2 DEF OneId, Sees, Replaces
  <2>4. CASE p # Cli
    <3>1. op' = [op EXCEPT ![p] = Idle]
      BY <1>6, <2>4 DEF Add, Ends, Goes
    <3> QED
      BY <1>2, <2>1, <2>3, <2>4, <3>1, IdleSees, StepReplaced
  <2>5. CASE p = Cli
    <3> DEFINE o == [op[p] EXCEPT !.at = "migrate", !.left = Tail(@)]
    <3>1. op' = [op EXCEPT ![p] = o] /\ o.at = "migrate"
      BY <1>0, <1>6, <2>5 DEF Add, Goes, OpShaped, OpFields
    <3> HIDE DEF o
    <3>2. Current(op[p])
      BY <2>1, <2>5 DEF OInv, Moved, Migrating
    <3>3. Sees(table', o)
      BY <3>1 DEF Sees, Replaces, Rereads
    <3>4. op[p].gid \in Legacy
      BY <2>1, <2>5, <3>2, HeadAndTail DEF OInv, Moved, Migrating, Current
    <3>5. ~overlapped' => FromLegacy(table', o)
      BY <1>3, <1>4, <2>1, <2>2, <2>5, <3>2, <3>4 DEF FromLegacy, Saving, Current
    <3> QED
      BY <1>2, <2>1, <2>3, <3>1, <3>3, <3>5, StepReplaced
  <2> QED
    BY <2>4, <2>5
<1>7. CASE Abandon(p)
  <2>1. op' = [op EXCEPT ![p] = Idle] /\ Still /\ UNCHANGED table
    BY <1>7, UntouchedStill DEF Abandon, Ends, Goes, Still
  <2> QED
    BY <1>2, <1>3, <1>4, <2>1, IdleSees, StepReplaced
<1> QED
  BY <1>5, <1>6, <1>7

-----------------------------------------------------------------------------
(* The steps of the migration.                                             *)

\* The plans of a migration are sequences of names, of nothing but what it read.
LEMMA Plans ==
  ASSUME NEW S, S \subseteq Legacy, NEW plan \in SetToSeqs(S) \cup {<<>>}
  PROVE  plan \in Seq(Legacy) /\ (S = {} => plan = <<>>)
<1>1. Cardinality(S) \in Nat
  BY LexiconAssumption, FS_Subset, FS_CardinalityType
<1>2. CASE plan = <<>>
  BY <1>2
<1>3. CASE plan \in SetToSeqs(S)
  <2>1. plan \in [1 .. Cardinality(S) -> S]
    BY <1>3 DEF SetToSeqs
  <2>2. plan \in Seq(S)
    BY <1>1, <2>1
  <2>3. plan \in Seq(Legacy)
    BY <1>1, <2>1
  <2>4. ASSUME S = {} PROVE plan = <<>>
    <3>1. Cardinality(S) = 0
      BY <2>4, FS_EmptySet
    <3>2. Len(plan) = 0
      BY <1>1, <2>1, <2>2, <3>1
    <3> QED
      BY <2>2, <3>2
  <2> QED
    BY <2>3, <2>4
<1> QED
  BY <1>2, <1>3

LEMMA IdleMigrating == Migrating(Idle)
BY DEF Migrating, Idle, Saving

LEMMA MigrateKeeps ==
  ASSUME OInv, Migrate
  PROVE  Unopened' /\ Replaced' /\ Moved'
<1>1. PICK plan \in SetToSeqs(IF "library" \in files THEN Legacy ELSE {}) \cup {<<>>} :
        /\ Begins(Cli, table, [Idle EXCEPT !.at = "migrate", !.left = plan])
        /\ planned' = ToSet(plan) /\ saved' = {}
  BY DEF Migrate
<1>2. plan \in Seq(Legacy) /\ ("library" \notin files => plan = <<>>)
  BY Plans
<1> DEFINE o == [Idle EXCEPT !.at = "migrate", !.left = plan]
           b == [o EXCEPT !.n = begun + 1]
<1>3. o.at = "migrate" /\ o.left = plan /\ OpShaped(o)
  BY IdleShaped DEF Idle, OpShaped, OpFields
<1>4. b.at = "migrate" /\ b.left = plan
  BY <1>3, OpKept DEF OpFields
<1>5. Cli \in Procs /\ op' = [op EXCEPT ![Cli] = b] /\ UNCHANGED files
  BY <1>1 DEF Procs, Begins, Migrate
<1> HIDE DEF o, b
<1>6. plan # <<>> => table = {}
  BY <1>2 DEF Migrate, OInv, Unopened
<1>7. Sees(table, o) /\ FromLegacy(table, o)
  BY <1>3, <1>6 DEF Sees, Replaces, Rereads, FromLegacy
<1>8. Unopened' /\ Replaced'
  BY <1>1, <1>3, <1>5, <1>7, BeginReplaced DEF o
<1>9. op'[Cli] = b
  BY <1>5 DEF OInv, WInv
<1>10. ToSet(<<>>) = {}
  BY DEF ToSet
<1>11. Moved'
  BY <1>1, <1>2, <1>4, <1>5, <1>9, <1>10 DEF Moved, Migrating, Saving
<1> QED
  BY <1>8, <1>11

LEMMA MigrateNextKeeps ==
  ASSUME OInv, MigrateNext
  PROVE  Unopened' /\ Replaced' /\ Moved'
<1> DEFINE g == Head(op[Cli].left)
           o == [op[Cli] EXCEPT !.at = "clear", !.gid = g, !.name = NameOf[g]]
<1>0. Cli \in Procs /\ OpShaped(op[Cli]) /\ op[Cli].at = "migrate" /\ op[Cli].left # <<>>
  BY DEF Procs, MigrateNext, OInv, WInv
<1>1. o.at = "clear" /\ o.gid = g /\ o.left = op[Cli].left
  BY <1>0 DEF OpShaped, OpFields
<1>2. /\ op' = [op EXCEPT ![Cli] = o] /\ Still /\ UNCHANGED <<table, overlapped, lance>>
      /\ UNCHANGED <<files, planned, saved>>
  BY UntouchedStill DEF MigrateNext, Goes, Untouched, Aside, Legacies
<1>3. op'[Cli] = o
  BY <1>0, <1>2 DEF OInv, WInv
<1>8. g \in Legacy
  BY <1>0, HeadAndTail DEF OInv, Moved, Migrating
<1> HIDE DEF g, o
<1>4. ~overlapped =>
        /\ OneId(table)
        /\ Sees(table, o) /\ FromLegacy(table, o)
  BY <1>0, <1>1, <1>8 DEF OInv, Replaced, Sees, Replaces, Rereads, FromLegacy, Saving
<1>5. Replaced'
  BY <1>0, <1>2, <1>4, StepReplaced
<1>6. Unopened'
  BY <1>0, <1>2, StaysOpen DEF Idle
<1>7. Moved'
  BY <1>0, <1>1, <1>2, <1>3 DEF OInv, Moved, Migrating, Saving, Current, g
<1> QED
  BY <1>5, <1>6, <1>7

LEMMA MoveLegacyKeeps ==
  ASSUME OInv, MoveLegacy
  PROVE  Unopened' /\ Replaced' /\ Moved'
<1>0. Cli \in Procs /\ OpShaped(op[Cli]) /\ op[Cli].at = "migrate" /\ op[Cli].left = <<>>
  BY DEF Procs, MoveLegacy, OInv, WInv
<1>1. planned \subseteq saved
  BY <1>0 DEF OInv, Moved, Migrating, Saving, ToSet
<1>2. Still /\ UNCHANGED <<table, overlapped, lance, planned, saved>>
  BY UntouchedStill DEF MoveLegacy, Untouched
<1>3. Unopened'
  BY <1>0, <1>2, StaysOpen DEF Idle
<1>4. CASE op' = op
  BY <1>1, <1>2, <1>3, <1>4 DEF OInv, Replaced, Moved, Migrating
<1>5. CASE op' = [op EXCEPT ![Cli] = Idle]
  <2>1. op'[Cli] = Idle
    BY <1>0, <1>5 DEF OInv, WInv
  <2>2. Replaced'
    BY <1>0, <1>2, <1>5, IdleSees, StepReplaced DEF OInv, Replaced
  <2>3. Migrating(Idle)'
    BY DEF Migrating, Idle, Saving
  <2> QED
    BY <1>1, <1>2, <1>3, <2>1, <2>2, <2>3 DEF Moved
<1> QED
  BY <1>4, <1>5 DEF MoveLegacy, Ends, Goes

\* A server leaves what the migration is at.
LEMMA ServerMoved ==
  ASSUME OInv, NEW p \in Procs, p # Cli, Serve(p) \/ Clear(p) \/ Add(p) \/ Abandon(p)
  PROVE  Moved'
<1>1. UNCHANGED <<files, planned, saved>>
  BY DEF Serve, Import, Toggle, Reorder, Delete, Update, Fallback, AppendCopy, Drop, Rank,
         Clear, Add, Abandon, Legacies, Aside
<1>2. PICK o : op' = [op EXCEPT ![p] = o]
  <2>1. CASE Clear(p) \/ Add(p) \/ Abandon(p)
    BY <2>1 DEF Clear, Add, Abandon, Ends, Goes
  <2>2. CASE (\E v : Fallback(p, v)) \/ Update(p) \/ AppendCopy(p) \/ Drop(p) \/ Rank(p)
    BY <2>2 DEF Update, Fallback, AppendCopy, Drop, Rank, Ends, Goes
  <2>3. CASE \E v, x : Begins(p, v, x)
    BY <2>3 DEF Begins
  <2> QED
    BY <2>1, <2>2, <2>3 DEF Serve, Import, Toggle, Reorder, Delete
<1>3. op'[Cli] = op[Cli]
  BY <1>2 DEF OInv, WInv, Procs
<1> QED
  BY <1>1, <1>3 DEF OInv, Moved, Migrating

LEMMA CliMoved ==
  ASSUME OInv, Clear(Cli) \/ Add(Cli) \/ Abandon(Cli)
  PROVE  Moved'
<1>0. Cli \in Procs /\ OpShaped(op[Cli])
  BY DEF Procs, OInv, WInv
<1>1. CASE Clear(Cli)
  <2> DEFINE o == [op[Cli] EXCEPT !.at = "add"]
  <2>1. /\ o.at = "add" /\ o.gid = op[Cli].gid
        /\ o.left = op[Cli].left /\ op[Cli].at = "clear"
    BY <1>0, <1>1, OpKept DEF OpFields, Clear
  <2>2. op'[Cli] = o /\ UNCHANGED <<files, planned, saved>>
    BY <1>0, <1>1 DEF Clear, Goes, Aside, Legacies, OInv, WInv
  <2> HIDE DEF o
  <2> QED
    BY <2>1, <2>2 DEF OInv, Moved, Migrating, Saving, Current
<1>2. CASE Add(Cli)
  <2> DEFINE o == [op[Cli] EXCEPT !.at = "migrate", !.left = Tail(@)]
  <2>1. o.at = "migrate" /\ o.left = Tail(op[Cli].left) /\ op[Cli].at = "add"
    BY <1>0, <1>2 DEF OpShaped, OpFields, Add
  <2>2. op'[Cli] = o
    BY <1>0, <1>2 DEF Add, Goes, OInv, WInv
  <2>3. saved' = saved \cup {op[Cli].gid} /\ UNCHANGED <<files, planned>>
    BY <1>2 DEF Add
  <2>4. Current(op[Cli]) /\ op[Cli].left \in Seq(Legacy)
    BY <2>1 DEF OInv, Moved, Migrating
  <2> HIDE DEF o
  <2>5. planned \subseteq saved \cup ToSet(op[Cli].left)
    BY <2>1 DEF OInv, Moved, Migrating, Saving
  <2>6. planned \subseteq saved' \cup ToSet(o.left) /\ o.left \in Seq(Legacy)
    BY <2>1, <2>3, <2>4, <2>5, HeadAndTail DEF Current
  <2>7. "library" \notin files => planned \subseteq saved
    BY DEF OInv, Moved
  <2> QED
    BY <2>1, <2>2, <2>3, <2>6, <2>7 DEF Moved, Migrating, Saving
<1>3. CASE Abandon(Cli)
  <2>1. op'[Cli] = Idle /\ UNCHANGED <<files, planned, saved>>
    BY <1>0, <1>3 DEF Abandon, Ends, Goes, Aside, Legacies, OInv, WInv
  <2> QED
    BY <2>1, IdleMigrating DEF OInv, Moved, Migrating
<1> QED
  BY <1>1, <1>2, <1>3

-----------------------------------------------------------------------------
(* The invariant of the names and of the migration is inductive.           *)

LEMMA InitOInv == Init => OInv
<1> SUFFICES ASSUME Init PROVE Unopened /\ Replaced /\ Moved
  BY InitWInv DEF OInv
<1>1. op[Cli] = Idle /\ \A p \in Procs : op[p] = Idle
  BY DEF Init, Procs
<1>2. Unopened /\ Replaced
  BY <1>1, IdleSees DEF Init, Unopened, Replaced, OneId
<1>3. Moved
  BY <1>1, IdleMigrating DEF Init, Moved
<1> QED
  BY <1>2, <1>3

LEMMA NextOInv == OInv /\ [Next]_vars => OInv'
<1> SUFFICES ASSUME OInv, [Next]_vars PROVE Unopened' /\ Replaced' /\ Moved'
  BY NextWInv DEF OInv
<1>1. CASE OpenStore
  BY <1>1 DEF OpenStore, Legacies, Untouched, OInv, Unopened, Replaced, Moved, Migrating
<1>2. CASE Migrate \/ MigrateNext \/ MoveLegacy
  BY <1>2, MigrateKeeps, MigrateNextKeeps, MoveLegacyKeeps
<1>3. ASSUME NEW p \in Servers, Serve(p) PROVE Unopened' /\ Replaced' /\ Moved'
  <2>1. p \in Procs /\ p # Cli
    BY <1>3, LexiconAssumption DEF Procs
  <2>2. CASE Update(p) \/ AppendCopy(p) \/ Drop(p) \/ Rank(p)
    BY <1>3, <2>1, <2>2, CallReplaced, ServerMoved
  <2>3. CASE \E v : Fallback(p, v)
    BY <1>3, <2>1, <2>3, CallReplaced, ServerMoved
  <2> QED
    BY <1>3, <2>1, <2>2, <2>3, BeginningReplaced, ServerMoved DEF Serve
<1>4. ASSUME NEW p \in Procs, Clear(p) \/ Add(p) \/ Abandon(p)
      PROVE  Unopened' /\ Replaced' /\ Moved'
  BY <1>4, SaveReplaced, ServerMoved, CliMoved
<1>5. CASE UNCHANGED vars
  BY <1>5 DEF vars, OInv, Unopened, Replaced, Moved, Migrating
<1> QED
  BY <1>1, <1>2, <1>3, <1>4, <1>5 DEF Next

\* As long as no process wrote between what another looked at and its last write,
\* a name has one glossary: an import replaces it, after an import, a toggle or a
\* migration that failed half way too.  Only the names that the legacy library had
\* twice are there twice (core/lexicon/lancedb_store.py, migration.py).
THEOREM NamesUnique == Spec => []OneIdPerName
<1>1. OInv => OneIdPerName
  BY DEF OInv, Replaced, OneId, OneIdPerName
<1> QED
  BY <1>1, InitOInv, NextOInv, PTL DEF Spec

\* The legacy library leaves its place only when every glossary the migration
\* read from it has been saved, wherever it fails or dies
\* (core/lexicon/migration.py).
THEOREM LibraryKept == Spec => []MovedWhenSaved
<1>1. OInv => MovedWhenSaved
  BY DEF OInv, Moved, MovedWhenSaved
<1> QED
  BY <1>1, InitOInv, NextOInv, PTL DEF Spec
=============================================================================
