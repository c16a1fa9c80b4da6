------------------------------- MODULE Chunker -------------------------------
(***************************************************************************)
(* The export of a document tree as chunks for retrieval:                  *)
(* SectionAwareChunker of core/chunking/chunker.py.                        *)
(*                                                                         *)
(* An element is a block or a table of the tree; a text is its length, and *)
(* a chunk the numbers of the elements (or of the rows of a table) it is   *)
(* made of, with the section path in force.  A header's title is its       *)
(* number.  min_chars is checked by the constructor and used nowhere.      *)
(***************************************************************************)
EXTENDS Integers, FiniteSets, SequencesExt

CONSTANTS MaxChars, OverlapChars   \* an overlap is shorter than a chunk

-----------------------------------------------------------------------------
(* Elements of the tree.                                                   *)

\* hierarchy: the section_hierarchy a processor gave the block, or <<>>.
Header(level, hierarchy) ==
  [kind |-> "header", id |-> 0, size |-> 1, level |-> level, path |-> hierarchy, rows |-> <<>>]
Prose(size, hierarchy) ==
  [kind |-> "prose", id |-> 0, size |-> size, level |-> 0, path |-> hierarchy, rows |-> <<>>]
Atom(kind) ==        \* a figure or a formula
  [kind |-> kind, id |-> 0, size |-> 1, level |-> 0, path |-> <<>>, rows |-> <<>>]
\* size: of the header row with its separator; rows: the lengths of the others.
TableOf(id, size, rows) ==
  [kind |-> "table", id |-> id, size |-> size, level |-> 0, path |-> <<>>, rows |-> rows]

\* The children of the pages, and the tables of the tree that are not among them
\* by identity or by block_id.
Found(es, t) ==
  IF \E i \in DOMAIN es : es[i].kind = "table" /\ es[i].id = t.id THEN es ELSE Append(es, t)
Elements(children, tables) ==
  LET es[i \in 0 .. Len(tables)] ==
        IF i = 0 THEN children ELSE Found(es[i - 1], tables[i])
  IN es[Len(tables)]

-----------------------------------------------------------------------------
(* Texts: joined by a blank line.                                          *)

Length(es, blocks) ==
  FoldLeft(LAMBDA n, b : IF n = 0 THEN es[b].size ELSE n + 2 + es[b].size, 0, blocks)

Chunk(kind, blocks, rows, path) ==
  [kind |-> kind, blocks |-> blocks, rows |-> rows, path |-> path]

-----------------------------------------------------------------------------
(* Section paths.                                                          *)

\* A header's path is the hierarchy it was given; otherwise its title replaces
\* what is at its level and below, or goes to the end if the path is shorter.
HeaderPath(e, n, path) ==
  LET level == IF e.level > 0 THEN e.level ELSE 1 IN
  IF e.path # <<>> THEN e.path
  ELSE IF level <= Len(path) THEN Append(SubSeq(path, 1, level - 1), n)
  ELSE Append(path, n)

NewPath(e, n, path) ==
  IF e.kind = "header" THEN HeaderPath(e, n, path)
  ELSE IF e.path # <<>> THEN e.path ELSE path

-----------------------------------------------------------------------------
(* Tables: whole, or split between rows with the header row repeated.      *)

RowsSize(e, rows) == FoldLeft(LAMBDA n, r : n + 1 + e.rows[r], e.size, rows)

AddRow(e, parts, r) ==
  IF parts # <<>> /\ RowsSize(e, Append(Last(parts), r)) <= MaxChars
    THEN [parts EXCEPT ![Len(parts)] = Append(@, r)]
    ELSE Append(parts, <<r>>)
Parts(e) ==
  LET parts[r \in 0 .. Len(e.rows)] ==
        IF r = 0 THEN <<>> ELSE AddRow(e, parts[r - 1], r)
  IN parts[Len(e.rows)]

TableChunks(es, n, path) ==
  LET e == es[n]
      all == [r \in DOMAIN e.rows |-> r]
  IN IF RowsSize(e, all) <= MaxChars \/ e.rows = <<>>
       THEN <<Chunk("table", <<n>>, all, path)>>
       ELSE [k \in DOMAIN Parts(e) |-> Chunk("table", <<n>>, Parts(e)[k], path)]

-----------------------------------------------------------------------------
(* The loop: chunks made, blocks accumulated, path in force.               *)

Flush(s) ==
  IF s.accum = <<>> THEN s
  ELSE [s EXCEPT !.chunks = Append(@, Chunk("prose", s.accum, <<>>, s.path)), !.accum = <<>>]

Emit(s, chunks) == [s EXCEPT !.chunks = @ \o chunks]

\* A block too long for any chunk is one by itself.
Alone(es, s, n) ==
  IF es[n].size > MaxChars THEN Emit(s, <<Chunk("prose", <<n>>, <<>>, s.path)>>)
  ELSE [s EXCEPT !.accum = <<n>>]

\* The longest proper suffix of the flushed blocks that fits the overlap, if the
\* new block fits behind it.
Overlap(es, blocks, n) ==
  LET suffix(k) == SubSeq(blocks, k, Len(blocks))
      fits == {k \in 2 .. Len(blocks) : Length(es, suffix(k)) <= OverlapChars} IN
  IF OverlapChars = 0 \/ fits = {} THEN <<>>
  ELSE IF Length(es, Append(suffix(Min(fits)), n)) <= MaxChars THEN suffix(Min(fits)) ELSE <<>>

\* A plausible bug: the flushed blocks stay in the accumulator as the overlap.
AddProse_Stays(es, s, n) ==
  IF es[n].size = 0 THEN s
  ELSE IF s.accum = <<>> THEN Alone(es, s, n)
  ELSE IF Length(es, Append(s.accum, n)) <= MaxChars THEN [s EXCEPT !.accum = Append(@, n)]
  ELSE [Flush(s) EXCEPT !.accum = Append(s.accum, n)]

AddProse(es, s, n) ==
  IF es[n].size = 0 THEN s
  ELSE IF s.accum = <<>> THEN Alone(es, s, n)
  ELSE IF Length(es, Append(s.accum, n)) <= MaxChars THEN [s EXCEPT !.accum = Append(@, n)]
  ELSE LET seed == Overlap(es, s.accum, n) IN
       IF seed # <<>> THEN [Flush(s) EXCEPT !.accum = Append(seed, n)]
       ELSE Alone(es, Flush(s), n)

AddElement(es, s, n) ==
  LET e == es[n]
      new == NewPath(e, n, s.path)
      at == IF e.kind = "header" \/ new # s.path THEN [Flush(s) EXCEPT !.path = new] ELSE s
  IN CASE e.kind = "prose" -> AddProse(es, at, n)
       [] e.kind = "table" -> Emit(Flush(at), TableChunks(es, n, new))
       [] OTHER -> Emit(Flush(at), <<Chunk(e.kind, <<n>>, <<>>, new)>>)

Chunks(children, tables) ==
  LET es == Elements(children, tables)
      after[n \in 0 .. Len(es)] ==
        IF n = 0 THEN [chunks |-> <<>>, accum |-> <<>>, path |-> <<>>]
        ELSE AddElement(es, after[n - 1], n)
  IN Flush(after[Len(es)]).chunks

-----------------------------------------------------------------------------
(* What a chunking must be.                                                *)

Content(e) == e.kind # "prose" \/ e.size > 0

\* The elements that the first k chunks are made of.
Covered(cs, k) == UNION {ToSet(cs[l].blocks) : l \in 1 .. k}

\* The parts of the table n are its rows, each once and in order.
RowsWhole(es, cs, n) ==
  LET part == {k \in DOMAIN cs : cs[k].blocks = <<n>>} IN
  /\ UNION {ToSet(cs[k].rows) : k \in part} = DOMAIN es[n].rows
  /\ \A k, l \in part : \A p \in DOMAIN cs[k].rows, q \in DOMAIN cs[l].rows :
       k < l \/ (k = l /\ p < q) => cs[k].rows[p] < cs[l].rows[q]

\* Nothing lost, nothing moved: the chunks are made of all that has a content;
\* within a chunk the elements rise, and those that no chunk before it has come
\* after all that those have.
Complete(es, cs) ==
  /\ Covered(cs, Len(cs)) = {n \in DOMAIN es : Content(es[n])}
  /\ \A k \in DOMAIN cs :
       LET bs == cs[k].blocks IN
       /\ \A i, j \in DOMAIN bs : i < j => bs[i] < bs[j]
       /\ \A i \in DOMAIN bs :
            bs[i] \in Covered(cs, k - 1) \/ \A b \in Covered(cs, k - 1) : b < bs[i]
  /\ \A n \in DOMAIN es : es[n].kind = "table" => RowsWhole(es, cs, n)

\* The elements of a chunk that earlier ones have are its first, no longer than an
\* overlap may be, and never all of it.
Seeded(es, bs, before) ==
  \E m \in 0 .. Len(bs) - 1 :
    /\ m > 0 => Length(es, SubSeq(bs, 1, m)) <= OverlapChars
    /\ \A i \in DOMAIN bs : i <= m <=> bs[i] \in before

\* Only what cannot be divided is longer than MaxChars.
Bounded(es, cs) ==
  \A k \in DOMAIN cs :
    /\ Len(cs[k].blocks) > 1 => Length(es, cs[k].blocks) <= MaxChars
    /\ Len(cs[k].rows) > 1 => RowsSize(es[cs[k].blocks[1]], cs[k].rows) <= MaxChars
    /\ cs[k].kind # "table" => Seeded(es, cs[k].blocks, Covered(cs, k - 1))

\* The path in force at each element, by the elements up to it alone.
Paths(es) ==
  LET at[n \in 0 .. Len(es)] == IF n = 0 THEN <<>> ELSE NewPath(es[n], n, at[n - 1])
  IN at

\* A chunk, its overlap included, is of one section.
OneSection(es, cs) ==
  \A k \in DOMAIN cs : \A b \in ToSet(cs[k].blocks) : cs[k].path = Paths(es)[b]
=============================================================================
