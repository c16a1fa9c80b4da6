------------------------------ MODULE Harness ------------------------------
(***************************************************************************)
(* The plugin harness: one Context on which the lifespan of the server     *)
(* mounts the rows of the plugin tree, the rollback of a plugin whose      *)
(* apply fails, the disposal at shutdown, and the prune loop that the      *)
(* runtime plugin runs against the state backend meanwhile.                *)
(*                                                                         *)
(* A registration is the pair <<plugin, position in its apply>>; it stands *)
(* for the EffectRef the registration returns.  What each plugin registers *)
(* is the constant Program.  A cleanup is an effect: it may suspend and it *)
(* may raise.                                                              *)
(***************************************************************************)
EXTENDS Naturals, FiniteSets, SequencesExt

CONSTANTS Plugins,    \* plugin ids
          Base,       \* the rows of cordis.yml: a sequence of plugin ids
          Patches,    \* the patch files the boot may find: sequences of ids
          Program,    \* plugin id -> what its apply registers, in order
          Backend,    \* the service key the prune loop injects
          Pruner,     \* the registration whose cleanup stops the prune loop
          Closer,     \* the registration whose cleanup closes the backend
          None,
          MaxFaults   \* bound: steps that raise by themselves

Ref(p) == {<<p, i>> : i \in 1 .. Len(Program[p])}
Refs == UNION {Ref(p) : p \in Plugins}
Entry(r) == Program[r[1]][r[2]]

Effects == {r \in Refs : Entry(r).kind = "effect"}
Keys == {Entry(r).key : r \in {s \in Refs : Entry(s).kind = "service"}}

\* Base order is kept, a patch replaces the row of the same id in place, and
\* ids only the patch has are appended.  A recursive function and not a fold:
\* what it computes is proved by induction.
With(list, p) == IF Contains(list, p) THEN list ELSE Append(list, p)
Merged(patch) ==
  LET list[i \in 0 .. Len(patch)] ==
        IF i = 0 THEN Base ELSE With(list[i - 1], patch[i])
  IN list[Len(patch)]

\* The rollback or the unload of a plugin, and what it has still to reverse.
Reversals == [plugin : Plugins, todo : Seq(Refs), rollback : BOOLEAN]

ASSUME NoneAssumption == None \notin Plugins \cup Refs /\ None \notin Reversals
ASSUME ProgramAssumption == \A p \in Plugins : Len(Program[p]) \in Nat
ASSUME EffectsAssumption == Pruner \in Effects /\ Closer \in Effects
ASSUME RowsAssumption ==
         Base \in Seq(Plugins) /\ \A patch \in Patches : patch \in Seq(Plugins)

VARIABLES rows,       \* the merged tree
          boot,       \* loading, serving, failed, stopping, stopped, broken
          at,         \* how many rows are mounted
          applying,   \* the plugin whose apply runs, or None
          mounted,    \* _plugin_order
          bucket,     \* _plugin_effects: the registrations of each plugin
          services,   \* _services: key -> the registration that owns it
          handlers,   \* _listeners and _routers: what is attached, in order
          cleanups,   \* _effect_cleanups: effects not yet cleaned
          reversing,  \* the rollback or unload under way, or None
          prune,      \* the prune loop
          open,       \* whether the backend has been opened and not closed
          lost,       \* ghost: registrations a raising cleanup left behind
          faults

vars == <<rows, boot, at, applying, mounted, bucket, services, handlers,
          cleanups, reversing, prune, open, lost, faults>>

tables == <<services, handlers, cleanups>>

Init == /\ rows \in {Merged(patch) : patch \in Patches}
        /\ boot = "loading" /\ at = 0 /\ applying = None
        /\ mounted = <<>> /\ bucket = [p \in Plugins |-> <<>>]
        /\ services = [k \in Keys |-> None] /\ handlers = <<>>
        /\ cleanups = {} /\ reversing = None
        /\ prune = "off" /\ open = FALSE /\ lost = {} /\ faults = 0

Fault == faults < MaxFaults /\ faults' = faults + 1

(***************************************************************************)
(* Boot: the rows in order, each apply one registration at a time.         *)
(***************************************************************************)
\* A row that cannot be resolved, expanded or validated, or whose id is
\* mounted already, ends the load; the Context is dropped as it is.
RejectRow == /\ boot = "loading" /\ applying = None /\ reversing = None
             /\ at < Len(rows)
             /\ \/ Contains(mounted, rows[at + 1]) /\ UNCHANGED faults
                \/ Fault
             /\ boot' = "failed"
             /\ UNCHANGED <<rows, at, applying, mounted, bucket, tables,
                            reversing, prune, open, lost>>

MountRow == LET p == rows[at + 1] IN
            /\ boot = "loading" /\ applying = None /\ reversing = None
            /\ at < Len(rows) /\ ~Contains(mounted, p)
            /\ applying' = p /\ mounted' = Append(mounted, p)
            /\ bucket' = [bucket EXCEPT ![p] = <<>>]
            /\ UNCHANGED <<rows, boot, at, tables, reversing, prune, open,
                           lost, faults>>

Coming == <<applying, Len(bucket[applying]) + 1>>

\* Every registration is tracked in the bucket of the plugin being applied.
Track(r) == bucket' = [bucket EXCEPT ![r[1]] = Append(@, r)]

ServicesWith(r) == IF Entry(r).kind = "service"
                   THEN [services EXCEPT ![Entry(r).key] = r] ELSE services
HandlersWith(r) == IF Entry(r).kind \in {"listener", "router"}
                   THEN Append(handlers, Entry(r)) ELSE handlers
CleanupsWith(r) == IF Entry(r).kind = "effect"
                   THEN cleanups \union {r} ELSE cleanups

Register == LET r == Coming IN
            /\ boot = "loading" /\ applying # None
            /\ r \in Ref(applying)
            /\ Entry(r).kind = "service" => services[Entry(r).key] = None
            /\ Track(r)
            /\ services' = ServicesWith(r)
            /\ handlers' = HandlersWith(r)
            /\ cleanups' = CleanupsWith(r)
            /\ prune' = IF r = Pruner THEN "sleeping" ELSE prune
            /\ open' = (open \/ r = Closer)
            /\ UNCHANGED <<rows, boot, at, applying, mounted, reversing,
                           lost, faults>>

Applied == /\ boot = "loading" /\ applying # None
           /\ Coming \notin Ref(applying)
           /\ at' = at + 1 /\ applying' = None
           /\ UNCHANGED <<rows, boot, mounted, bucket, tables, reversing,
                          prune, open, lost, faults>>

\* apply raises: of itself, or because the service key is taken.
ApplyFails == LET r == Coming IN
              /\ boot = "loading" /\ applying # None
              /\ \/ /\ r \in Ref(applying) /\ Entry(r).kind = "service"
                    /\ services[Entry(r).key] # None
                    /\ UNCHANGED faults
                 \/ Fault
              /\ reversing' = [plugin |-> applying, todo |-> bucket[applying],
                               rollback |-> TRUE]
              /\ mounted' = RemoveFirst(mounted, applying)
              /\ bucket' = [bucket EXCEPT ![applying] = <<>>]
              /\ applying' = None
              /\ UNCHANGED <<rows, boot, at, tables, prune, open, lost>>

\* A cancellation is no Exception: the half-applied plugin stays mounted.
Interrupted == /\ boot = "loading" /\ applying # None /\ Fault
               /\ boot' = "failed" /\ applying' = None
               /\ UNCHANGED <<rows, at, mounted, bucket, tables, reversing,
                              prune, open, lost>>

Ready == /\ boot = "loading" /\ applying = None /\ reversing = None
         /\ at = Len(rows)
         /\ boot' = "serving"
         /\ UNCHANGED <<rows, at, applying, mounted, bucket, tables,
                        reversing, prune, open, lost, faults>>

(***************************************************************************)
(* Reversal, last registration first.                                      *)
(***************************************************************************)
Newest == Last(reversing.todo)

\* The stop of the prune loop waits for its task, which hands over the
\* exception it died of.
Raises(r) == r = Pruner /\ prune = "dead"

\* Mutant: listeners and routers stay where they are.
Undo_Tables(r) ==
  /\ services' = IF Entry(r).kind = "service"
                 THEN [services EXCEPT ![Entry(r).key] = None] ELSE services
  /\ cleanups' = cleanups \ {r}
  /\ prune' = IF r = Pruner /\ prune # "dead" THEN "stopped" ELSE prune
  /\ open' = (open /\ r # Closer)
  /\ UNCHANGED handlers

Undo(r) ==
  /\ services' = IF Entry(r).kind = "service"
                 THEN [services EXCEPT ![Entry(r).key] = None] ELSE services
  /\ handlers' = IF Entry(r).kind \in {"listener", "router"}
                 THEN RemoveFirst(handlers, Entry(r)) ELSE handlers
  /\ cleanups' = cleanups \ {r}
  /\ prune' = IF r = Pruner /\ prune # "dead" THEN "stopped" ELSE prune
  /\ open' = (open /\ r # Closer)

Left == Front(reversing.todo)
Advance == reversing' = [reversing EXCEPT !.todo = Left]

ReverseOne == /\ reversing # None /\ reversing.todo # <<>>
              /\ ~Raises(Newest)
              /\ Undo(Newest) /\ Advance
              /\ UNCHANGED <<rows, boot, at, applying, mounted, bucket, lost,
                             faults>>

\* A cleanup that raises is logged in a rollback; in an unload it ends the
\* unload and the disposal with it, and the rest of the popped list is gone.
CleanupRaises ==
  /\ reversing # None /\ reversing.todo # <<>> /\ Newest \in Effects
  /\ IF Raises(Newest) THEN UNCHANGED faults ELSE Fault
  /\ Undo(Newest)
  /\ IF reversing.rollback
     THEN Advance /\ UNCHANGED <<boot, lost>>
     ELSE /\ lost' = lost \union Range(Left)
          /\ reversing' = None /\ boot' = "broken"
  /\ UNCHANGED <<rows, at, applying, mounted, bucket>>

RolledBack == /\ reversing # None /\ reversing.todo = <<>>
              /\ reversing.rollback
              /\ reversing' = None /\ boot' = "failed"
              /\ UNCHANGED <<rows, at, applying, mounted, bucket, tables,
                             prune, open, lost, faults>>

(***************************************************************************)
(* Shutdown.                                                               *)
(***************************************************************************)
Dispose == /\ boot = "serving" /\ boot' = "stopping"
           /\ UNCHANGED <<rows, at, applying, mounted, bucket, tables,
                          reversing, prune, open, lost, faults>>

\* Mutant: plugins are unloaded in mount order.
Nearest_Farthest == Head(mounted)

Nearest == Last(mounted)

Unload == /\ boot = "stopping" /\ reversing = None /\ mounted # <<>>
          /\ reversing' = [plugin |-> Nearest, todo |-> bucket[Nearest],
                           rollback |-> FALSE]
          /\ bucket' = [bucket EXCEPT ![Nearest] = <<>>]
          /\ UNCHANGED <<rows, boot, at, applying, mounted, tables, prune,
                         open, lost, faults>>

Unloaded == /\ reversing # None /\ reversing.todo = <<>>
            /\ ~reversing.rollback
            /\ mounted' = RemoveFirst(mounted, reversing.plugin)
            /\ reversing' = None
            /\ UNCHANGED <<rows, boot, at, applying, bucket, tables, prune,
                           open, lost, faults>>

Disposed == /\ boot = "stopping" /\ reversing = None /\ mounted = <<>>
            /\ boot' = "stopped"
            /\ services' = [k \in Keys |-> None] /\ handlers' = <<>>
            /\ UNCHANGED <<rows, at, applying, mounted, bucket, cleanups,
                           reversing, prune, open, lost, faults>>

(***************************************************************************)
(* The prune loop of the runtime plugin.                                   *)
(***************************************************************************)
PruneStart == /\ prune = "sleeping" /\ services[Backend] # None
              /\ prune' = IF open THEN "pruning" ELSE "dead"
              /\ UNCHANGED <<rows, boot, at, applying, mounted, bucket,
                             tables, reversing, open, lost, faults>>

\* A pass whose second call finds the backend closed raises, and nothing in
\* the loop catches what a pass raises.
PruneEnd == /\ prune = "pruning"
            /\ \/ open /\ prune' = "sleeping" /\ UNCHANGED faults
               \/ ~open /\ prune' = "dead" /\ UNCHANGED faults
               \/ Fault /\ prune' = "dead"
            /\ UNCHANGED <<rows, boot, at, applying, mounted, bucket, tables,
                           reversing, open, lost>>

Next == \/ RejectRow \/ MountRow \/ Register \/ Applied \/ ApplyFails
        \/ Interrupted \/ Ready
        \/ ReverseOne \/ CleanupRaises \/ RolledBack
        \/ Dispose \/ Unload \/ Unloaded \/ Disposed
        \/ PruneStart \/ PruneEnd

Spec == Init /\ [][Next]_vars

(***************************************************************************)
(* Properties.                                                             *)
(***************************************************************************)
Live == (UNION {Range(bucket[p]) : p \in Plugins})
          \union (IF reversing = None THEN {} ELSE Range(reversing.todo))
          \union lost

TypeOK == /\ boot \in {"loading", "serving", "failed", "stopping", "stopped",
                       "broken"}
          /\ applying \in Plugins \union {None}
          /\ cleanups \subseteq Effects /\ Live \subseteq Refs
          /\ services \in [Keys -> Refs \union {None}]
          /\ prune \in {"off", "sleeping", "pruning", "dead", "stopped"}
          /\ open \in BOOLEAN

\* The tables of the Context hold exactly what some list still has to
\* reverse (or what a raising cleanup has dropped from its list): no service,
\* listener, router or effect outlives the reversal of its plugin, whether by
\* rollback or by unload, and none is taken from a plugin that stays.
Accounted ==
  /\ \A k \in Keys : LET owners == {r \in Live : Entry(r).kind = "service"
                                                  /\ Entry(r).key = k}
                     IN owners = (IF services[k] = None THEN {}
                                  ELSE {services[k]})
  /\ cleanups = Live \cap Effects
  /\ \A e \in Range(handlers) :
       Cardinality({i \in DOMAIN handlers : handlers[i] = e})
         = Cardinality({r \in Live : Entry(r) = e})
  /\ \A r \in Live : Entry(r).kind \in {"listener", "router"}
                       => Contains(handlers, Entry(r))

\* Where the plugin is mounted: its first row (a second one is rejected).
Position(p) == CHOOSE i \in DOMAIN rows :
                 rows[i] = p /\ \A k \in 1 .. i - 1 : rows[k] # p

\* As long as a plugin has an effect outstanding (a worker, a subscriber, a
\* loop that its cleanup will stop), every service that was there when the
\* plugin was mounted is still registered, and the backend still open.
DependenciesOutlive ==
  \A r \in cleanups :
    /\ \A p \in Plugins :
         /\ Contains(rows, p) /\ Position(p) < Position(r[1])
         => \A s \in Ref(p) : Entry(s).kind = "service"
                                => services[Entry(s).key] = s
    /\ Contains(rows, Closer[1]) /\ Position(Closer[1]) < Position(r[1]) => open

\* What unload promises: "Reverse every registration the plugin made, in LIFO
\* order".  Refuted: a cleanup that raises drops the rest of the list, and the
\* stop of a prune loop that met the closed backend is such a cleanup.
EveryRegistrationReversed == lost = {}

=============================================================================
