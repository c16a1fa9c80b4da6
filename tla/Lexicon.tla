------------------------------ MODULE Lexicon ------------------------------
(***************************************************************************)
(* The glossary library: one LanceDB table of term rows, each carrying its *)
(* glossary's name, flag and priority (core/lexicon/lancedb_store.py,      *)
(* schema.py), the operations of plugins/glossary/service.py on it, and    *)
(* the one-shot migration of the legacy library (migration.py).            *)
(*                                                                         *)
(* An operation is a few calls on the table; each call is atomic, nothing  *)
(* holds them together.  A server is an API process or a worker that runs  *)
(* a queued import; inside one process operations do not interleave, since *)
(* they never await.                                                       *)
(*                                                                         *)
(* Each process keeps the table open, at the version it opened or last     *)
(* wrote: the connection asks for no read consistency, so a call may look  *)
(* at that version, and not at what another process has written since.  A  *)
(* commit still goes on top of the latest version.                         *)
(*                                                                         *)
(* A name stands for what an import is matched by: folded name and source. *)
(* Two legacy glossaries may share one.  Other ids than the legacy ones    *)
(* are numbers, as fresh as the uuid4 they stand for.                      *)
(***************************************************************************)
EXTENDS Naturals, Sequences, FiniteSets, SequencesExt

CONSTANTS
  Names,
  Terms,        \* what every glossary translates
  Legacy,       \* the ids of the glossaries of library.json, in whatever order
  NameOf,       \* and their names
  Servers,      \* API and worker processes
  Cli,          \* the process of omniscribe-migrate-lexicon
  MaxOps,       \* bound: operations begun
  MaxFaults     \* bound: calls that raise, processes that die

ASSUME LexiconAssumption ==
  /\ IsFiniteSet(Legacy) /\ NameOf \in [Legacy -> Names] /\ Cli \notin Servers \cup Names
  /\ MaxOps \in Nat /\ MaxFaults \in Nat

VARIABLES
  table,        \* the rows of "terms", in the latest version
  view,         \* the version each process has open
  op,           \* what each process is in the middle of
  files,        \* the legacy files still in place
  lance,        \* whether the directory lexicon.lance exists
  \* ---- history ----
  planned,      \* the legacy glossaries the last migration read
  saved,        \* those of them it appended
  overlapped,   \* a process wrote between what another looked at and its last write
  begun, faults

vars == <<table, view, op, files, lance, planned, saved, overlapped, begun, faults>>

Procs == Servers \cup {Cli}
Ids == Legacy \cup 1 .. MaxOps
Steps == {"idle", "clear", "add", "toggle", "append", "drop", "rank", "migrate"}

\* copy names the appends the row went through: two copies are two rows.
Rows == [gid : Ids, name : Names, term : Terms, enabled : BOOLEAN,
         rank : 0 .. MaxOps + 1, copy : Seq(1 .. MaxOps)]

Idle == [at |-> "idle", n |-> 0, gid |-> 0, name |-> Cli, flag |-> TRUE,
         rows |-> {}, left |-> <<>>]

TypeOK ==
  /\ table \subseteq Rows /\ view \in [Procs -> SUBSET Rows]
  /\ \A p \in Procs :
       /\ op[p].at \in Steps /\ op[p].n \in 0 .. MaxOps /\ op[p].rows \subseteq Rows
       /\ op[p].gid \in Ids \cup {0} /\ op[p].name \in Names \cup {Cli}
       /\ op[p].flag \in BOOLEAN /\ op[p].left \in Seq(Ids)
  /\ files \subseteq {"library", "chroma"} /\ {lance, overlapped} \subseteq BOOLEAN
  /\ {planned, saved} \subseteq SUBSET Legacy
  /\ begun \in 0 .. MaxOps /\ faults \in 0 .. MaxFaults

Init ==
  /\ table = {} /\ view = [p \in Procs |-> {}] /\ op = [p \in Procs |-> Idle]
  /\ files \in SUBSET {"library", "chroma"} /\ lance = FALSE
  /\ planned = {} /\ saved = {} /\ overlapped = FALSE /\ begun = 0 /\ faults = 0

-----------------------------------------------------------------------------
(* Calls on the table.                                                     *)

RowsOf(v, g) == {r \in v : r.gid = g}
Listed(v) == {r.gid : r \in v}

\* A plausible bug: a disabled glossary is not matched.
Called_Enabled(v, n) == {r.gid : r \in {s \in v : s.name = n /\ s.enabled}}

Called(v, n) == {r.gid : r \in {s \in v : s.name = n}}

\* A plausible bug: only the row the listing reads the flag from.
WithFlag_First(t, v, g, flag) ==
  {IF r \in RowsOf(v, g) /\ r = (CHOOSE s \in RowsOf(v, g) : TRUE)
     THEN [r EXCEPT !.enabled = flag] ELSE r : r \in t}

\* UPDATE ... WHERE glossary_id = g: every row of the glossary that is in the
\* version v, in one commit.
WithFlag(t, v, g, flag) ==
  {IF r \in RowsOf(v, g) THEN [r EXCEPT !.enabled = flag] ELSE r : r \in t}
WithRank(t, v, g, k) ==
  {IF r \in RowsOf(v, g) THEN [r EXCEPT !.rank = k] ELSE r : r \in t}

\* A call of p looks at the version p has open, or at the latest.
Versions(p) == {view[p], table}

\* A write finds its rows in such a version.  One whose rows another commit has
\* changed or deleted in the meantime conflicts with it, and is made again.
Finds(p, g) == {v \in Versions(p) : RowsOf(v, g) \subseteq table}

Commits(p, t) ==
  /\ table' = t /\ view' = [view EXCEPT ![p] = t]
  /\ overlapped' = (overlapped \/ (t # table /\ \E q \in Procs \ {p} : op[q] # Idle))
Looks(p, v) ==
  /\ v \in Versions(p) /\ view' = [view EXCEPT ![p] = v] /\ UNCHANGED table
  /\ overlapped' = (overlapped \/ v # table)
Untouched == UNCHANGED <<table, view, overlapped>>

Goes(p, o) == op' = [op EXCEPT ![p] = o] /\ UNCHANGED begun
Ends(p) == Goes(p, Idle)

\* An operation begins with a look at the version v.
Begins(p, v, o) ==
  /\ op[p] = Idle /\ begun < MaxOps /\ begun' = begun + 1
  /\ op' = [op EXCEPT ![p] = [o EXCEPT !.n = begun + 1]]
  /\ Looks(p, v) /\ lance' = TRUE /\ UNCHANGED faults

Fault == faults < MaxFaults /\ faults' = faults + 1
Smooth == UNCHANGED faults

Legacies == UNCHANGED <<files, planned, saved>>
Aside == Legacies /\ UNCHANGED lance

-----------------------------------------------------------------------------
(* The operations begin.                                                   *)

\* A retrieval for a translation, or a listing, opens the store and reads.
OpenStore ==
  /\ ~lance /\ lance' = TRUE /\ Legacies /\ Untouched /\ UNCHANGED <<op, begun, faults>>

\* An import, at once or as a queued job, replaces the glossary it matches.
Import(p, v, n) ==
  /\ IF Called(v, n) = {}
       THEN Begins(p, v, [Idle EXCEPT !.at = "add", !.gid = begun + 1, !.name = n])
       ELSE \E g \in Called(v, n) :
              Begins(p, v, [Idle EXCEPT !.at = "clear", !.gid = g, !.name = n])
  /\ Legacies

Toggle(p, v, g, flag) ==
  Begins(p, v, [Idle EXCEPT !.at = "toggle", !.gid = g, !.flag = flag]) /\ Legacies

\* The ids are all known; that none is missing is not asked.
Reorder(p, v, ids) ==
  Begins(p, v, [Idle EXCEPT !.at = "rank", !.left = ids, !.gid = 0]) /\ Legacies

Delete(p, v, g) == Begins(p, v, [Idle EXCEPT !.at = "drop", !.gid = g]) /\ Legacies

\* Refused when the legacy library and the new directory are both there.  A
\* library that cannot be read counts as an empty one, and so does a record of it
\* without a list of entries.  The process is a new one, and opens the table.
Migrate ==
  /\ files # {} /\ ("library" \in files => ~lance)
  /\ \E plan \in SetToSeqs(IF "library" \in files THEN Legacy ELSE {}) \cup {<<>>} :
       /\ Begins(Cli, table, [Idle EXCEPT !.at = "migrate", !.left = plan])
       /\ planned' = ToSet(plan) /\ saved' = {}
  /\ UNCHANGED files

-----------------------------------------------------------------------------
(* save_glossary: old rows out, entries embedded, new rows in.             *)

Clear(p) ==
  /\ op[p].at = "clear"
  /\ \E v \in Finds(p, op[p].gid) : Commits(p, table \ RowsOf(v, op[p].gid))
  /\ Goes(p, [op[p] EXCEPT !.at = "add"]) /\ Aside /\ Smooth

NewRows(o) == {[gid |-> o.gid, name |-> o.name, term |-> t, enabled |-> TRUE,
                rank |-> 0, copy |-> <<o.n>>] : t \in Terms}

Add(p) ==
  /\ op[p].at = "add" /\ Commits(p, table \cup NewRows(op[p]))
  /\ IF p = Cli
       THEN /\ Goes(p, [op[p] EXCEPT !.at = "migrate", !.left = Tail(@)])
            /\ saved' = saved \cup {op[p].gid}
       ELSE Ends(p) /\ UNCHANGED saved
  /\ UNCHANGED <<files, planned, lance>> /\ Smooth

-----------------------------------------------------------------------------
(* toggle_glossary.                                                        *)

Update(p) ==
  /\ op[p].at = "toggle"
  /\ \E v \in Finds(p, op[p].gid) :
       Commits(p, WithFlag(table, v, op[p].gid, op[p].flag))
  /\ Ends(p) /\ Aside /\ Smooth

\* The update raised: the whole table is read, an unknown id is given up.
Fallback(p, v) ==
  /\ op[p].at = "toggle" /\ Fault /\ Looks(p, v)
  /\ IF RowsOf(v, op[p].gid) = {}
       THEN Ends(p)
       ELSE Goes(p, [op[p] EXCEPT !.at = "append",
                                  !.rows = WithFlag(v, v, op[p].gid, op[p].flag)])
  /\ Aside

\* ... appended as it was read, with the flag changed ...
AppendCopy(p) ==
  /\ op[p].at = "append"
  /\ Commits(p, table \cup {[r EXCEPT !.copy = Append(@, op[p].n)] : r \in op[p].rows})
  /\ Goes(p, [op[p] EXCEPT !.at = "drop"]) /\ Aside /\ Smooth

\* ... and the rows of the glossary deleted: also the end of delete_glossary.
Drop(p) ==
  /\ op[p].at = "drop"
  /\ \E v \in Finds(p, op[p].gid) : Commits(p, table \ RowsOf(v, op[p].gid))
  /\ Ends(p) /\ Aside /\ Smooth

-----------------------------------------------------------------------------
(* reorder_glossaries: an update per id, the first id above the others.    *)

Rank(p) ==
  /\ op[p].at = "rank"
  /\ LET g == Head(op[p].left) IN
       \E v \in Finds(p, g) : Commits(p, WithRank(table, v, g, Len(op[p].left)))
  /\ IF Len(op[p].left) = 1 THEN Ends(p) ELSE Goes(p, [op[p] EXCEPT !.left = Tail(@)])
  /\ Aside /\ Smooth

-----------------------------------------------------------------------------
(* run_migration.                                                          *)

\* The next glossary of the library, under the id it had.
MigrateNext ==
  /\ op[Cli].at = "migrate" /\ op[Cli].left # <<>>
  /\ LET g == Head(op[Cli].left) IN
       Goes(Cli, [op[Cli] EXCEPT !.at = "clear", !.gid = g, !.name = NameOf[g]])
  /\ Untouched /\ Aside /\ Smooth

\* All saved: the legacy files are moved into the backup, one after the other.
MoveLegacy ==
  /\ op[Cli].at = "migrate" /\ op[Cli].left = <<>>
  /\ files' = IF "library" \in files THEN files \ {"library"} ELSE {}
  /\ IF files' = {} THEN Ends(Cli) ELSE UNCHANGED <<op, begun>>
  /\ Untouched /\ UNCHANGED <<lance, planned, saved>> /\ Smooth

-----------------------------------------------------------------------------
(* A call raises, or the process dies: the rest of the operation is left.  *)

\* A plausible bug: the migration skips a glossary it cannot save.
Abandon_Continues(p) ==
  /\ op[p] # Idle /\ Fault /\ Untouched /\ Aside
  /\ IF p = Cli /\ op[p].left # <<>>
       THEN Goes(p, [op[p] EXCEPT !.at = "migrate", !.left = Tail(@)])
       ELSE Ends(p)

Abandon(p) ==
  /\ op[p] # Idle /\ Fault /\ Ends(p) /\ Untouched /\ Aside

\* A client gives ids that it has seen listed.
Serve(p) ==
  \/ \E v \in Versions(p) :
       \/ \E n \in Names : Import(p, v, n)
       \/ \E g \in Listed(v), flag \in BOOLEAN : Toggle(p, v, g, flag)
       \/ \E g, h \in Listed(v) : Reorder(p, v, IF g = h THEN <<g>> ELSE <<g, h>>)
       \/ \E g \in Listed(v) : Delete(p, v, g)
       \/ Fallback(p, v)
  \/ Update(p) \/ AppendCopy(p) \/ Drop(p) \/ Rank(p)

Next ==
  \/ OpenStore \/ Migrate \/ MigrateNext \/ MoveLegacy
  \/ \E p \in Servers : Serve(p)
  \/ \E p \in Procs : Clear(p) \/ Add(p) \/ Abandon(p)

Spec == Init /\ [][Next]_vars

-----------------------------------------------------------------------------
(* Properties.                                                             *)

\* A translation never meets half an import: whatever processes overlap, at
\* whatever versions of the table, and wherever they fail, each copy of a save is
\* there with all its terms, and they agree on flag and priority ("keeping them in
\* sync on toggle/reorder", lancedb_store.py:84).
WholeImports ==
  \A r \in table : \A t \in Terms : [r EXCEPT !.term = t] \in table

\* As long as no process wrote between what another looked at and its last write,
\* a name has one glossary: an import replaces it instead of duplicating it, after
\* a failed import, a failed toggle or half a migration too (lancedb_store.py:399).
\* Only the names the legacy library had twice are there twice.
OneIdPerName ==
  ~overlapped =>
    \A r, s \in table : r.name = s.name /\ r.gid # s.gid => {r.gid, s.gid} \subseteq Legacy

\* The legacy library leaves its place only when every glossary that was read
\* from it has been saved: a migration that fails or dies leaves it there.
MovedWhenSaved ==
  "library" \notin files => planned \subseteq saved

-----------------------------------------------------------------------------
(* What a comment says and the code does not do: TLC finds a               *)
(* counterexample under the configuration the README names.                *)

\* A toggle that went through its fallback still has its glossary ("Only delete
\* the original partition after the new rows are durably appended",
\* lancedb_store.py:516): the copy has the same id, and goes with the original.
ToggleKeepsRows ==
  [][\A p \in Procs : op[p].at = "drop" /\ op[p].rows # {} /\ ~overlapped' /\ faults' = faults
       => op[p].gid \in Listed(table)']_vars
=============================================================================
