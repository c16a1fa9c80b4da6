--------------------------- MODULE HarnessProofs ---------------------------
(***************************************************************************)
(* Proofs about Harness, for any plugin tree, any patches, whatever each   *)
(* plugin registers, and any number of steps that raise.                   *)
(***************************************************************************)
EXTENDS Harness, FiniteSetTheorems, WellFoundedInduction, TLAPS

-----------------------------------------------------------------------------
(* The inductive invariant.                                                *)

\* What is mounted is a prefix of the rows, without repetitions.
Order ==
  /\ rows \in Seq(Plugins) /\ mounted \in Seq(Plugins)
  /\ Len(mounted) <= Len(rows)
  /\ \A i \in 1 .. Len(mounted) : mounted[i] = rows[i]
  /\ \A i, j \in 1 .. Len(mounted) : mounted[i] = mounted[j] => i = j

\* The list holds the first registrations of the plugin, in order.
Registered(list, p) ==
  /\ list \in Seq(Refs) /\ Len(list) <= Len(Program[p])
  /\ \A i \in 1 .. Len(list) : list[i] = <<p, i>>

\* A rollback is about the row after those mounted, an unload about the last one.
Reversal ==
  /\ reversing.plugin \in Plugins /\ reversing.rollback \in BOOLEAN
  /\ reversing = [plugin |-> reversing.plugin, todo |-> reversing.todo,
                  rollback |-> reversing.rollback]
  /\ Registered(reversing.todo, reversing.plugin)
  /\ bucket[reversing.plugin] = <<>>
  /\ reversing.rollback =>
       /\ boot = "loading" /\ at < Len(rows) /\ reversing.plugin = rows[at + 1]
       /\ \A i \in 1 .. Len(mounted) : mounted[i] # reversing.plugin
  /\ ~reversing.rollback =>
       boot = "stopping" /\ mounted # <<>> /\ reversing.plugin = Last(mounted)

Stages ==
  /\ boot \in {"loading", "serving", "failed", "stopping", "stopped", "broken"}
  /\ applying \in Plugins \cup {None} /\ at \in Nat
  /\ boot = "loading" => Len(mounted) = IF applying = None THEN at ELSE at + 1
  /\ applying # None =>
       boot = "loading" /\ reversing = None /\ applying = mounted[at + 1]
  /\ reversing # None => Reversal
  /\ lost # {} => boot = "broken" /\ reversing = None /\ mounted # <<>>

\* The last plugin mounted has all its registrations.
Settled == /\ applying = None /\ boot \in {"loading", "serving", "stopping"}
           /\ reversing = None \/ reversing.rollback

Lists ==
  /\ bucket \in [Plugins -> Seq(Refs)]
  /\ \A p \in Plugins : Registered(bucket[p], p)
  /\ \A p \in Plugins :
       bucket[p] # <<>> => \E i \in 1 .. Len(mounted) : mounted[i] = p
  /\ \A r \in lost : r \in Refs /\ bucket[r[1]] = <<>> /\ r[1] = Last(mounted)
  /\ \A i \in 1 .. Len(mounted) :
       i < Len(mounted) \/ Settled
         => Len(bucket[mounted[i]]) = Len(Program[mounted[i]])

\* What a listener or router registration puts into the tables.
Attached == {Entry(r) : r \in {s \in Refs : Entry(s).kind \in {"listener", "router"}}}

Places(list, e) == {i \in DOMAIN list : list[i] = e}
Users(e) == {r \in Live : Entry(r) = e}
Owners(k) == {r \in Live : Entry(r).kind = "service" /\ Entry(r).key = k}

Tables ==
  /\ Live \subseteq Refs /\ IsFiniteSet(Live)
  /\ services \in [Keys -> Refs \cup {None}]
  /\ \A k \in Keys : Owners(k) = IF services[k] = None THEN {} ELSE {services[k]}
  /\ cleanups = Live \cap Effects
  /\ handlers \in Seq(Attached)
  /\ \A e \in Attached : Cardinality(Places(handlers, e)) = Cardinality(Users(e))
  /\ Closer \in Live => open

HInv == Order /\ Stages /\ Lists /\ Tables

-----------------------------------------------------------------------------
(* Sequences.                                                              *)

\* Among the places of a sequence there is a first one.
LEMMA LeastPlace ==
  ASSUME NEW n \in Nat, NEW I \in SUBSET (1 .. n), I # {}
  PROVE  \E m \in I : \A k \in I : m <= k
<1> DEFINE T == {1 .. m : m \in I}
<1>1. T \subseteq FiniteSubsetsOf(Nat) /\ T # {}
  <2>1. \A m \in I : IsFiniteSet(1 .. m) /\ 1 .. m \in SUBSET Nat
    BY FS_Interval
  <2> QED
    BY <2>1 DEF FiniteSubsetsOf
<1>2. IsWellFoundedOn(StrictSubsetOrdering(Nat), FiniteSubsetsOf(Nat))
  BY FS_StrictSubsetOrderingWellFounded
<1>3. PICK x \in T : \A y \in T : ~(<<y, x>> \in StrictSubsetOrdering(Nat))
  <2> HIDE DEF T
  <2> QED
    BY <1>1, <1>2, WFMin
<1>4. PICK m \in I : x = 1 .. m
  OBVIOUS
<1>5. ASSUME NEW k \in I, k < m PROVE FALSE
  <2>1. 1 .. k \in T /\ 1 .. k \in SUBSET Nat /\ 1 .. m \in SUBSET Nat
    OBVIOUS
  <2>2. 1 .. k \subseteq 1 .. m /\ m \in 1 .. m /\ m \notin 1 .. k
    BY <1>5
  <2>3. <<1 .. k, 1 .. m>> \in StrictSubsetOrdering(Nat)
    BY <2>1, <2>2 DEF StrictSubsetOrdering
  <2> QED
    BY <1>3, <1>4, <2>1, <2>3
<1> QED
  BY <1>5

LEMMA PlacesFinite ==
  ASSUME NEW S, NEW list \in Seq(S), NEW e
  PROVE  IsFiniteSet(Places(list, e)) /\ Cardinality(Places(list, e)) \in Nat
<1>1. IsFiniteSet(1 .. Len(list)) /\ Places(list, e) \in SUBSET (1 .. Len(list))
  BY FS_Interval DEF Places
<1> QED
  BY <1>1, FS_Subset, FS_CardinalityType

\* One more occurrence of the element appended.
LEMMA PlacesAppend ==
  ASSUME NEW S, NEW list \in Seq(S), NEW x \in S, NEW e
  PROVE  Cardinality(Places(Append(list, x), e))
           = IF x = e THEN Cardinality(Places(list, e)) + 1
                      ELSE Cardinality(Places(list, e))
<1>1. PICK more : more = Append(list, x)
  OBVIOUS
<1>2. /\ Len(more) = Len(list) + 1 /\ more[Len(list) + 1] = x
      /\ \A i \in 1 .. Len(list) : more[i] = list[i]
      /\ DOMAIN more = 1 .. Len(list) + 1 /\ DOMAIN list = 1 .. Len(list)
      /\ Len(list) \in Nat
  BY <1>1
<1>3. CASE x = e
  <2>1. Places(more, e) = Places(list, e) \cup {Len(list) + 1}
    BY <1>2, <1>3 DEF Places
  <2>2. Len(list) + 1 \notin Places(list, e)
    BY <1>2 DEF Places
  <2> QED
    BY <1>1, <1>3, <2>1, <2>2, PlacesFinite, FS_AddElement
<1>4. CASE x # e
  <2>1. Places(more, e) = Places(list, e)
    BY <1>2, <1>4 DEF Places
  <2> QED
    BY <1>1, <1>4, <2>1
<1> QED
  BY <1>3, <1>4

\* RemoveFirst takes one place out of the sequence.
LEMMA RemovedPlace ==
  ASSUME NEW S, NEW list \in Seq(S), NEW x, \E i \in 1 .. Len(list) : list[i] = x
  PROVE  \E k \in 1 .. Len(list) :
           /\ list[k] = x /\ RemoveFirst(list, x) = RemoveAt(list, k)
           /\ \A j \in 1 .. Len(list) : list[j] = x => k <= j
<1> DEFINE I == {i \in 1 .. Len(list) : list[i] = x}
<1>1. I # {} /\ I \in SUBSET (1 .. Len(list)) /\ Len(list) \in Nat
  OBVIOUS
<1>2. \E m \in I : \A k \in I : m <= k
  <2> HIDE DEF I
  <2> QED
    BY <1>1, LeastPlace
<1>3. Min(I) \in I /\ \A k \in I : Min(I) <= k
  BY <1>2 DEF Min
<1>4. RemoveFirst(list, x) = RemoveAt(list, Min(I))
  BY <1>1 DEF RemoveFirst, SelectInSeq
<1> QED
  BY <1>3, <1>4

LEMMA RemoveAtPlaces ==
  ASSUME NEW S, NEW list \in Seq(S), NEW k \in 1 .. Len(list)
  PROVE  /\ RemoveAt(list, k) \in Seq(S)
         /\ Len(RemoveAt(list, k)) = Len(list) - 1
         /\ \A j \in 1 .. Len(list) - 1 :
              RemoveAt(list, k)[j] = IF j < k THEN list[j] ELSE list[j + 1]
<1>1. PICK a : a = SubSeq(list, 1, k - 1)
  OBVIOUS
<1>2. PICK b : b = SubSeq(list, k + 1, Len(list))
  OBVIOUS
<1>3. a \in Seq(S) /\ Len(a) = k - 1 /\ \A j \in 1 .. k - 1 : a[j] = list[j]
  BY <1>1
<1>4. b \in Seq(S) /\ Len(b) = Len(list) - k
      /\ \A j \in 1 .. Len(list) - k : b[j] = list[k + j]
  BY <1>2
<1>5. RemoveAt(list, k) = a \o b
  BY <1>1, <1>2 DEF RemoveAt
<1>6. /\ a \o b \in Seq(S) /\ Len(a \o b) = Len(list) - 1
      /\ \A j \in 1 .. Len(list) - 1 :
           (a \o b)[j] = IF j < k THEN a[j] ELSE b[j - (k - 1)]
  BY <1>3, <1>4
<1>7. ASSUME NEW j \in 1 .. Len(list) - 1
      PROVE  (a \o b)[j] = IF j < k THEN list[j] ELSE list[j + 1]
  <2>1. CASE j < k
    BY <1>3, <1>6, <2>1
  <2>2. CASE ~(j < k)
    <3>1. j - (k - 1) \in 1 .. Len(list) - k /\ k + (j - (k - 1)) = j + 1
      BY <2>2
    <3> QED
      BY <1>4, <1>6, <2>2, <3>1
  <2> QED
    BY <2>1, <2>2
<1> QED
  BY <1>5, <1>6, <1>7

\* The places that stay are in bijection with those the list had, less the one
\* that was removed.
LEMMA PlacesRemoveAt ==
  ASSUME NEW S, NEW list \in Seq(S), NEW k \in 1 .. Len(list), NEW e
  PROVE  Cardinality(Places(RemoveAt(list, k), e))
           = IF list[k] = e THEN Cardinality(Places(list, e)) - 1
                            ELSE Cardinality(Places(list, e))
<1>1. PICK less : less = RemoveAt(list, k)
  OBVIOUS
<1>2. /\ less \in Seq(S) /\ Len(less) = Len(list) - 1 /\ Len(list) \in Nat
      /\ \A j \in 1 .. Len(list) - 1 : less[j] = IF j < k THEN list[j] ELSE list[j + 1]
  <2>1. Len(list) \in Nat
    OBVIOUS
  <2>2. /\ RemoveAt(list, k) \in Seq(S)
        /\ Len(RemoveAt(list, k)) = Len(list) - 1
        /\ \A j \in 1 .. Len(list) - 1 :
             RemoveAt(list, k)[j] = IF j < k THEN list[j] ELSE list[j + 1]
    BY RemoveAtPlaces, Zenon
  <2> QED
    BY <1>1, <2>1, <2>2
<1>d. DOMAIN less = 1 .. Len(list) - 1 /\ DOMAIN list = 1 .. Len(list)
  BY <1>2
<1>3. PICK P : P = Places(less, e)
  OBVIOUS
<1>4. PICK Q : Q = Places(list, e) \ {k}
  OBVIOUS
<1>5. P \subseteq 1 .. Len(list) - 1 /\ \A j \in 1 .. Len(list) - 1 : j \in P <=> less[j] = e
  BY <1>d, <1>3 DEF Places
<1>6. Q \subseteq 1 .. Len(list)
      /\ \A j \in 1 .. Len(list) : j \in Q <=> list[j] = e /\ j # k
  BY <1>d, <1>4 DEF Places
<1>7. PICK f : f = [j \in P |-> IF j < k THEN j ELSE j + 1]
  OBVIOUS
<1>8. f \in [P -> Q]
  <2>1. ASSUME NEW j \in P PROVE (IF j < k THEN j ELSE j + 1) \in Q
    BY <1>2, <1>5, <1>6
  <2> QED
    BY <1>7, <2>1
<1>9. \A i, j \in P : f[i] = f[j] => i = j
  BY <1>5, <1>7
<1>10. ASSUME NEW q \in Q PROVE \E j \in P : f[j] = q
  <2>1. CASE q < k
    <3>1. q \in P
      BY <1>2, <1>5, <1>6, <2>1
    <3> QED
      BY <1>7, <2>1, <3>1
  <2>2. CASE q > k
    <3>0. q - 1 \in 1 .. Len(list) - 1 /\ q - 1 >= k /\ (q - 1) + 1 = q
      BY <1>6, <2>2
    <3>1. q - 1 \in P
      <4>1. less[q - 1] = list[q] /\ list[q] = e
        BY <1>2, <1>6, <3>0
      <4> QED
        BY <1>5, <3>0, <4>1
    <3>2. f[q - 1] = q
      BY <1>7, <3>0, <3>1
    <3> QED
      BY <3>1, <3>2
  <2> QED
    BY <1>6, <2>1, <2>2
<1>11. f \in Bijection(P, Q)
  BY <1>8, <1>9, <1>10 DEF Bijection, Injection, IsInjective, Surjection
<1>12. IsFiniteSet(P) /\ Cardinality(Q) = Cardinality(P)
  <2>1. IsFiniteSet(P)
    BY <1>2, <1>3, PlacesFinite
  <2>2. ExistsBijection(P, Q)
    BY <1>11 DEF ExistsBijection
  <2> QED
    BY <2>1, <2>2, FS_Bijection
<1>13. k \in Places(list, e) <=> list[k] = e
  BY <1>d DEF Places
<1> QED
  BY <1>1, <1>3, <1>4, <1>12, <1>13, PlacesFinite, FS_RemoveElement

\* The last of a sequence without repetitions is removed from its end.
LEMMA RemoveLast ==
  ASSUME NEW S, NEW list \in Seq(S), list # <<>>, NEW x, x = Last(list),
         \A i, j \in 1 .. Len(list) : list[i] = list[j] => i = j
  PROVE  /\ RemoveFirst(list, x) \in Seq(S)
         /\ Len(RemoveFirst(list, x)) = Len(list) - 1
         /\ \A j \in 1 .. Len(list) - 1 : RemoveFirst(list, x)[j] = list[j]
<1>1. Len(list) \in 1 .. Len(list) /\ list[Len(list)] = x
  BY DEF Last
<1>2. PICK k \in 1 .. Len(list) : list[k] = x /\ RemoveFirst(list, x) = RemoveAt(list, k)
  <2>1. \E i \in 1 .. Len(list) : list[i] = x
    BY <1>1
  <2> QED
    BY <2>1, RemovedPlace
<1>3. k = Len(list)
  BY <1>1, <1>2
<1>4. /\ RemoveAt(list, k) \in Seq(S)
      /\ Len(RemoveAt(list, k)) = Len(list) - 1
      /\ \A j \in 1 .. Len(list) - 1 :
           RemoveAt(list, k)[j] = IF j < k THEN list[j] ELSE list[j + 1]
  BY RemoveAtPlaces, Zenon
<1> QED
  BY <1>2, <1>3, <1>4

LEMMA RangeAppend ==
  ASSUME NEW S, NEW list \in Seq(S), NEW x \in S
  PROVE  Range(Append(list, x)) = Range(list) \cup {x}
<1>1. PICK more : more = Append(list, x)
  OBVIOUS
<1>2. /\ DOMAIN more = 1 .. Len(list) + 1 /\ more[Len(list) + 1] = x
      /\ \A i \in 1 .. Len(list) : more[i] = list[i]
      /\ DOMAIN list = 1 .. Len(list) /\ Len(list) \in Nat
  BY <1>1
<1>3. \A y : y \in Range(more) <=> \E i \in 1 .. Len(list) + 1 : more[i] = y
  BY <1>2 DEF Range
<1>4. \A y : y \in Range(list) <=> \E i \in 1 .. Len(list) : list[i] = y
  BY <1>2 DEF Range
<1>5. ASSUME NEW y PROVE y \in Range(more) <=> y \in Range(list) \/ y = x
  <2>1. ASSUME y \in Range(more) PROVE y \in Range(list) \/ y = x
    <3>1. PICK i \in 1 .. Len(list) + 1 : more[i] = y
      BY <1>3, <2>1
    <3>2. i = Len(list) + 1 \/ i \in 1 .. Len(list)
      BY <1>2
    <3> QED
      BY <1>2, <1>4, <3>1, <3>2
  <2>2. ASSUME y \in Range(list) \/ y = x PROVE y \in Range(more)
    <3>1. Len(list) + 1 \in 1 .. Len(list) + 1 /\ 1 .. Len(list) \subseteq 1 .. Len(list) + 1
      BY <1>2
    <3> QED
      BY <1>2, <1>3, <1>4, <2>2, <3>1
  <2> QED
    BY <2>1, <2>2
<1> QED
  BY <1>1, <1>5

\* Reversing one registration of a list shortens it by its last.
LEMMA FrontRegistered ==
  ASSUME NEW p \in Plugins, NEW list, Registered(list, p), list # <<>>
  PROVE  /\ Registered(Front(list), p)
         /\ Last(list) \in Range(list) /\ Last(list) = <<p, Len(list)>>
         /\ Range(Front(list)) = Range(list) \ {Last(list)}
<1>1. /\ list \in Seq(Refs) /\ Len(list) <= Len(Program[p]) /\ Len(list) \in Nat
      /\ \A i \in 1 .. Len(list) : list[i] = <<p, i>>
  BY DEF Registered
<1>2. Len(list) \in 1 .. Len(list) /\ DOMAIN list = 1 .. Len(list)
  BY <1>1
<1>3. Last(list) = <<p, Len(list)>> /\ Last(list) \in Range(list)
  BY <1>1, <1>2 DEF Last, Range
<1>4. PICK less : less = Front(list)
  OBVIOUS
<1>5. /\ less \in Seq(Refs) /\ Len(less) = Len(list) - 1
      /\ \A i \in 1 .. Len(list) - 1 : less[i] = list[i]
  BY <1>1, <1>2, <1>4 DEF Front
<1>6. \A y : y \in Range(less) <=> \E i \in 1 .. Len(list) - 1 : list[i] = y
  BY <1>5 DEF Range
<1>7. \A y : y \in Range(list) <=> \E i \in 1 .. Len(list) : list[i] = y
  BY <1>2 DEF Range
<1>8. \A y : y \in Range(less) <=> y \in Range(list) /\ y # Last(list)
  <2>1. ASSUME NEW y \in Range(less) PROVE y \in Range(list) /\ y # Last(list)
    <3>1. PICK i \in 1 .. Len(list) - 1 : list[i] = y
      BY <1>6
    <3>2. i \in 1 .. Len(list) /\ i # Len(list)
      BY <1>1
    <3> QED
      BY <1>1, <1>3, <1>7, <3>1, <3>2
  <2>2. ASSUME NEW y \in Range(list), y # Last(list) PROVE y \in Range(less)
    <3>1. PICK i \in 1 .. Len(list) : list[i] = y
      BY <1>7
    <3>2. i # Len(list)
      BY <2>2, <3>1 DEF Last
    <3>3. i \in 1 .. Len(list) - 1
      BY <1>1, <3>2
    <3> QED
      BY <1>6, <3>1, <3>3
  <2> QED
    BY <2>1, <2>2
<1>9. Registered(less, p)
  <2>1. \A i \in 1 .. Len(less) : i \in 1 .. Len(list) - 1 /\ i \in 1 .. Len(list)
    BY <1>1, <1>5
  <2>2. Len(less) <= Len(Program[p])
    BY <1>1, <1>5, ProgramAssumption
  <2> QED
    BY <1>1, <1>5, <2>1, <2>2 DEF Registered
<1> QED
  BY <1>3, <1>4, <1>8, <1>9

-----------------------------------------------------------------------------
(* The order of mounting, and what the lists hold.                         *)

USE DEF tables

LEMMA OrderStep == Order /\ Stages /\ [Next]_vars => Order'
<1> SUFFICES ASSUME Order, Stages, [Next]_vars PROVE Order'
  OBVIOUS
<1>1. CASE MountRow
  <2>1. PICK p : p = rows[at + 1]
    OBVIOUS
  <2>2. /\ p \in Plugins /\ mounted' = Append(mounted, p) /\ Len(mounted) = at
        /\ at < Len(rows) /\ UNCHANGED rows /\ ~Contains(mounted, p)
    BY <1>1, <2>1 DEF MountRow, Stages, Order
  <2>3. /\ mounted' \in Seq(Plugins) /\ Len(mounted') = at + 1 /\ mounted'[at + 1] = p
        /\ \A i \in 1 .. at : mounted'[i] = mounted[i]
    BY <2>2 DEF Order
  <2>4. \A i \in 1 .. at : mounted[i] # p
    BY <2>2 DEF Contains
  <2> QED
    BY <2>1, <2>2, <2>3, <2>4 DEF Order, Stages
<1>2. CASE ApplyFails \/ Unloaded
  <2>1. PICK x : mounted' = RemoveFirst(mounted, x) /\ mounted # <<>> /\ x = Last(mounted)
    BY <1>2 DEF ApplyFails, Unloaded, Stages, Reversal, Order, Last
  <2>2. /\ mounted' \in Seq(Plugins) /\ Len(mounted') = Len(mounted) - 1
        /\ \A j \in 1 .. Len(mounted) - 1 : mounted'[j] = mounted[j]
    BY <2>1, RemoveLast DEF Order
  <2>3. UNCHANGED rows
    BY <1>2 DEF ApplyFails, Unloaded
  <2> QED
    BY <2>2, <2>3 DEF Order
<1>3. CASE UNCHANGED <<rows, mounted>>
  BY <1>3 DEF Order
<1> QED
  BY <1>1, <1>2, <1>3
     DEF Next, RejectRow, Register, Applied, Interrupted, Ready, ReverseOne,
         CleanupRaises, RolledBack, Dispose, Unload, Disposed, PruneStart, PruneEnd, vars

\* The plugin being applied is the last mounted.
LEMMA ApplyingLast ==
  ASSUME Order, Stages, applying # None
  PROVE  /\ applying \in Plugins /\ Len(mounted) = at + 1 /\ at + 1 \in 1 .. Len(mounted)
         /\ applying = Last(mounted) /\ applying = rows[at + 1] /\ at < Len(rows)
         /\ lost = {} /\ reversing = None /\ mounted # <<>>
BY DEF Order, Stages, Last

\* One entry of the bucket.
LEMMA RegisterStep ==
  ASSUME Order, Stages, Lists, Register
  PROVE  Stages' /\ Lists' /\ Coming \in Refs /\ Coming \notin Live
         /\ Live' = Live \cup {Coming}
<1>0. applying # None /\ boot = "loading"
  BY DEF Register
<1>1. PICK p : p = applying
  OBVIOUS
<1>2. PICK n : n = Len(bucket[p]) + 1
  OBVIOUS
<1>3. /\ p \in Plugins /\ bucket[p] \in Seq(Refs) /\ n \in Nat \ {0}
      /\ Coming = <<p, n>> /\ n \in 1 .. Len(Program[p]) /\ <<p, n>> \in Refs
  <2>1. p \in Plugins /\ bucket[p] \in Seq(Refs)
    BY <1>0, <1>1, ApplyingLast DEF Lists
  <2>2. n \in Nat \ {0} /\ Coming = <<p, n>> /\ <<p, n>> \in Ref(p)
    BY <1>1, <1>2, <2>1 DEF Register, Coming
  <2>3. n \in 1 .. Len(Program[p])
    BY <2>2 DEF Ref
  <2> QED
    BY <2>1, <2>2, <2>3 DEF Refs
<1>4. /\ bucket'[p] = Append(bucket[p], <<p, n>>)
      /\ \A q \in Plugins \ {p} : bucket'[q] = bucket[q]
      /\ bucket' \in [Plugins -> Seq(Refs)]
  BY <1>3 DEF Register, Track, Lists
<1>5. Registered(bucket'[p], p)
  <2>1. Registered(bucket[p], p)
    BY <1>3 DEF Lists
  <2>2. /\ bucket'[p] \in Seq(Refs) /\ Len(bucket'[p]) = n
        /\ bucket'[p][n] = <<p, n>>
        /\ \A i \in 1 .. n - 1 : bucket'[p][i] = bucket[p][i]
    BY <1>2, <1>3, <1>4
  <2>3. \A i \in 1 .. n - 1 : bucket[p][i] = <<p, i>>
    BY <1>2, <2>1 DEF Registered
  <2>4. \A i \in 1 .. n : i = n \/ i \in 1 .. n - 1
    BY <1>3
  <2>5. n <= Len(Program[p])
    BY <1>3
  <2> QED
    BY <2>2, <2>3, <2>4, <2>5 DEF Registered
<1>6. Stages'
  BY <1>0, ApplyingLast DEF Register, Stages
<1>7. Lists'
  <2>1. \A q \in Plugins : Registered(bucket'[q], q)
    BY <1>4, <1>5 DEF Lists
  <2>2. ASSUME NEW q \in Plugins, bucket'[q] # <<>>
        PROVE  \E i \in 1 .. Len(mounted) : mounted[i] = q
    <3>1. CASE q = p
      BY <1>0, <1>1, <3>1, ApplyingLast DEF Last
    <3>2. CASE q # p
      BY <1>4, <2>2, <3>2 DEF Lists
    <3> QED
      BY <3>1, <3>2
  <2>3. UNCHANGED <<mounted, lost, applying>> /\ lost = {}
    BY <1>0, ApplyingLast DEF Register
  <2>4. ASSUME NEW i \in 1 .. Len(mounted), i < Len(mounted)
        PROVE  Len(bucket'[mounted[i]]) = Len(Program[mounted[i]])
    <3>1. mounted[i] # p /\ mounted[i] \in Plugins
      BY <1>0, <1>1, <2>4, ApplyingLast DEF Order, Last
    <3> QED
      BY <1>4, <2>4, <3>1 DEF Lists
  <2> QED
    BY <1>0, <1>4, <2>1, <2>2, <2>3, <2>4 DEF Lists, Settled
<1>8. <<p, n>> \notin Live
  <2>1. ASSUME NEW q \in Plugins PROVE <<p, n>> \notin Range(bucket[q])
    <3>1. \A i \in 1 .. Len(bucket[q]) : bucket[q][i] = <<q, i>>
      BY DEF Lists, Registered
    <3>2. DOMAIN bucket[q] = 1 .. Len(bucket[q]) /\ Len(bucket[q]) \in Nat
      BY DEF Lists
    <3>3. \A i \in 1 .. Len(bucket[q]) : bucket[q][i] # <<p, n>>
      BY <1>2, <1>3, <3>1, <3>2
    <3> QED
      BY <3>2, <3>3 DEF Range
  <2> QED
    BY <1>0, <2>1, ApplyingLast DEF Live
<1>9. Live' = Live \cup {<<p, n>>}
  <2>1. Range(bucket'[p]) = Range(bucket[p]) \cup {<<p, n>>}
    BY <1>3, <1>4, RangeAppend
  <2>2. UNCHANGED <<reversing, lost>>
    BY DEF Register
  <2>3. \A x : x \in Live' <=> \/ \E q \in Plugins : x \in Range(bucket'[q])
                               \/ reversing # None /\ x \in Range(reversing.todo)
                               \/ x \in lost
    BY <2>2 DEF Live
  <2>4. \A x : x \in Live <=> \/ \E q \in Plugins : x \in Range(bucket[q])
                              \/ reversing # None /\ x \in Range(reversing.todo)
                              \/ x \in lost
    BY DEF Live
  <2> QED
    BY <1>3, <1>4, <2>1, <2>3, <2>4
<1> QED
  BY <1>3, <1>6, <1>7, <1>8, <1>9

\* What is live, element by element.
LEMMA InLive ==
  /\ \A x : x \in Live <=> \/ \E q \in Plugins : x \in Range(bucket[q])
                           \/ reversing # None /\ x \in Range(reversing.todo)
                           \/ x \in lost
  /\ \A x : x \in Live' <=> \/ \E q \in Plugins : x \in Range(bucket'[q])
                            \/ reversing' # None /\ x \in Range(reversing'.todo)
                            \/ x \in lost'
BY DEF Live

\* A list of registrations moves as a whole.
LEMMA SameLive ==
  ASSUME NEW p \in Plugins, UNCHANGED lost,
         \A q \in Plugins \ {p} : bucket'[q] = bucket[q],
         LET old == IF reversing = None THEN {} ELSE Range(reversing.todo)
             new == IF reversing' = None THEN {} ELSE Range(reversing'.todo)
         IN  old \cup Range(bucket[p]) = new \cup Range(bucket'[p])
  PROVE  Live' = Live
BY InLive

LEMMA RangeEmpty == Range(<<>>) = {}
BY DEF Range

\* Nothing is known of a plugin that is not mounted.
LEMMA NotMounted ==
  ASSUME Lists, NEW p \in Plugins, \A i \in 1 .. Len(mounted) : mounted[i] # p
  PROVE  bucket[p] = <<>>
BY DEF Lists

LEMMA RegisteredNothing == ASSUME NEW p \in Plugins PROVE Registered(<<>>, p)
BY ProgramAssumption DEF Registered

LEMMA MountStep ==
  ASSUME Order, Stages, Lists, MountRow
  PROVE  Stages' /\ Lists' /\ Live' = Live
<1>1. PICK p : p = rows[at + 1]
  OBVIOUS
<1>2. /\ boot = "loading" /\ applying = None /\ reversing = None /\ at < Len(rows)
      /\ ~Contains(mounted, p) /\ applying' = p /\ mounted' = Append(mounted, p)
      /\ UNCHANGED <<rows, boot, at, reversing, lost>> /\ lost = {}
  BY <1>1 DEF MountRow, Stages
<1>3. /\ p \in Plugins /\ p # None /\ Len(mounted) = at /\ at \in Nat
      /\ Len(mounted') = at + 1 /\ mounted'[at + 1] = p
      /\ \A i \in 1 .. at : mounted'[i] = mounted[i] /\ mounted[i] \in Plugins
  <2>1. at + 1 \in 1 .. Len(rows) /\ Len(mounted) = at
    BY <1>2 DEF Stages, Order
  <2>2. p \in Plugins
    BY <1>1, <2>1 DEF Order
  <2> QED
    BY <1>2, <2>1, <2>2, NoneAssumption DEF Order, Stages
<1>4. \A i \in 1 .. at : mounted[i] # p
  BY <1>2, <1>3 DEF Contains
<1>5. bucket[p] = <<>> /\ UNCHANGED bucket
  <2>1. bucket[p] = <<>>
    BY <1>3, <1>4, NotMounted
  <2> QED
    BY <1>1, <1>3, <2>1 DEF MountRow, Lists
<1>6. Stages'
  BY <1>2, <1>3 DEF Stages
<1>7. Lists'
  <2>1. ASSUME NEW q \in Plugins, bucket[q] # <<>>
        PROVE  \E i \in 1 .. Len(mounted') : mounted'[i] = q
    <3>1. PICK i \in 1 .. at : mounted[i] = q
      BY <1>3, <2>1 DEF Lists
    <3> QED
      BY <1>3, <3>1
  <2>2. ASSUME NEW i \in 1 .. Len(mounted'), i < Len(mounted')
        PROVE  Len(bucket[mounted'[i]]) = Len(Program[mounted'[i]])
    <3>1. i \in 1 .. at /\ mounted'[i] = mounted[i]
      BY <1>3, <2>2
    <3> QED
      BY <1>2, <1>3, <3>1 DEF Lists, Settled
  <2> QED
    BY <1>2, <1>3, <1>5, <2>1, <2>2 DEF Lists, Settled
<1>8. Live' = Live
  BY <1>2, <1>5, InLive
<1> QED
  BY <1>6, <1>7, <1>8

LEMMA ApplyFailsStep ==
  ASSUME Order, Stages, Lists, ApplyFails
  PROVE  Stages' /\ Lists' /\ Live' = Live
<1>1. PICK p : p = applying
  OBVIOUS
<1>2. /\ p \in Plugins /\ p # None /\ boot = "loading" /\ reversing = None /\ lost = {}
      /\ Len(mounted) = at + 1 /\ p = Last(mounted) /\ p = rows[at + 1]
      /\ at < Len(rows) /\ mounted # <<>> /\ at \in Nat
  BY <1>1, ApplyingLast DEF ApplyFails, Stages
<1>3. /\ reversing' = [plugin |-> p, todo |-> bucket[p], rollback |-> TRUE]
      /\ mounted' = RemoveFirst(mounted, p) /\ applying' = None
      /\ UNCHANGED <<rows, boot, at, lost>>
      /\ bucket' = [bucket EXCEPT ![p] = <<>>]
  BY <1>1 DEF ApplyFails
<1>4. /\ Len(mounted') = at /\ mounted' \in Seq(Plugins)
      /\ \A i \in 1 .. at : mounted'[i] = mounted[i] /\ i \in 1 .. Len(mounted)
  <2>1. /\ mounted' \in Seq(Plugins) /\ Len(mounted') = Len(mounted) - 1
        /\ \A j \in 1 .. Len(mounted) - 1 : mounted'[j] = mounted[j]
    BY <1>2, <1>3, RemoveLast DEF Order
  <2> QED
    BY <1>2, <2>1
<1>5. \A i \in 1 .. at : mounted[i] # p /\ mounted[i] \in Plugins
  <2>1. /\ Len(mounted) \in 1 .. Len(mounted) /\ p = mounted[Len(mounted)]
        /\ \A i \in 1 .. at : i \in 1 .. Len(mounted) /\ i # Len(mounted)
    BY <1>2 DEF Last
  <2> QED
    BY <2>1 DEF Order
<1>6. /\ bucket' \in [Plugins -> Seq(Refs)] /\ bucket'[p] = <<>>
      /\ \A q \in Plugins \ {p} : bucket'[q] = bucket[q]
  BY <1>2, <1>3 DEF Lists
<1>7. reversing' # None
  <2>1. reversing' \in Reversals
    BY <1>2, <1>3 DEF Reversals, Lists
  <2> QED
    BY <2>1, NoneAssumption
<1>8. Reversal'
  BY <1>2, <1>3, <1>4, <1>5, <1>6 DEF Reversal, Lists
<1>9. Stages'
  BY <1>2, <1>3, <1>4, <1>8 DEF Stages
<1>10. Lists'
  <2>1. \A q \in Plugins : Registered(bucket'[q], q)
    BY <1>6, RegisteredNothing DEF Lists
  <2>2. ASSUME NEW q \in Plugins, bucket'[q] # <<>>
        PROVE  \E i \in 1 .. Len(mounted') : mounted'[i] = q
    <3>1. q # p /\ bucket[q] # <<>>
      BY <1>6, <2>2
    <3>2. PICK i \in 1 .. Len(mounted) : mounted[i] = q
      BY <3>1 DEF Lists
    <3>3. i # Len(mounted)
      BY <1>2, <3>1, <3>2 DEF Last
    <3>4. i \in 1 .. at
      BY <1>2, <3>3
    <3> QED
      BY <1>4, <3>2, <3>4
  <2>3. ASSUME NEW i \in 1 .. Len(mounted')
        PROVE  Len(bucket'[mounted'[i]]) = Len(Program[mounted'[i]])
    <3>1. i \in 1 .. at /\ i \in 1 .. Len(mounted) /\ i < Len(mounted)
      BY <1>2, <1>4
    <3>2. mounted'[i] = mounted[i] /\ bucket'[mounted[i]] = bucket[mounted[i]]
      BY <1>4, <1>5, <1>6, <3>1
    <3> QED
      BY <3>1, <3>2 DEF Lists
  <2> QED
    BY <1>2, <1>3, <1>6, <2>1, <2>2, <2>3 DEF Lists
<1>11. Live' = Live
  <2>1. Range(reversing'.todo) = Range(bucket[p]) /\ Range(bucket'[p]) = {}
    BY <1>3, <1>6, RangeEmpty
  <2> QED
    BY <1>2, <1>3, <1>6, <1>7, <2>1, SameLive
<1> QED
  BY <1>9, <1>10, <1>11

LEMMA UnloadStep ==
  ASSUME Order, Stages, Lists, Unload
  PROVE  Stages' /\ Lists' /\ Live' = Live
<1>1. PICK p : p = Last(mounted)
  OBVIOUS
<1>2. /\ boot = "stopping" /\ reversing = None /\ mounted # <<>> /\ lost = {}
      /\ applying = None
      /\ Len(mounted) \in 1 .. Len(mounted) /\ p = mounted[Len(mounted)] /\ p \in Plugins
  BY <1>1 DEF Unload, Stages, Order, Last
<1>3. /\ reversing' = [plugin |-> p, todo |-> bucket[p], rollback |-> FALSE]
      /\ bucket' = [bucket EXCEPT ![p] = <<>>]
      /\ UNCHANGED <<rows, mounted, boot, at, applying, lost>>
  BY <1>1 DEF Unload, Nearest
<1>4. /\ bucket' \in [Plugins -> Seq(Refs)] /\ bucket'[p] = <<>>
      /\ \A q \in Plugins \ {p} : bucket'[q] = bucket[q]
  BY <1>2, <1>3 DEF Lists
<1>5. reversing' # None
  <2>1. reversing' \in Reversals
    BY <1>2, <1>3 DEF Reversals, Lists
  <2> QED
    BY <2>1, NoneAssumption
<1>6. Reversal'
  BY <1>1, <1>2, <1>3, <1>4 DEF Reversal, Lists
<1>7. Stages'
  BY <1>2, <1>3, <1>6 DEF Stages
<1>8. Lists'
  <2>1. \A q \in Plugins : Registered(bucket'[q], q)
    BY <1>4, RegisteredNothing DEF Lists
  <2>2. \A q \in Plugins : bucket'[q] # <<>> => q # p /\ bucket[q] # <<>>
    BY <1>4
  <2>3. ASSUME NEW i \in 1 .. Len(mounted), i < Len(mounted)
        PROVE  Len(bucket'[mounted[i]]) = Len(Program[mounted[i]])
    <3>1. mounted[i] # p /\ mounted[i] \in Plugins
      BY <1>2, <2>3 DEF Order
    <3> QED
      BY <1>4, <2>3, <3>1 DEF Lists
  <2>4. ~Settled'
    BY <1>3, <1>5 DEF Settled
  <2> QED
    BY <1>2, <1>3, <1>4, <2>1, <2>2, <2>3, <2>4 DEF Lists
<1>9. Live' = Live
  <2>1. Range(reversing'.todo) = Range(bucket[p]) /\ Range(bucket'[p]) = {}
    BY <1>3, <1>4, RangeEmpty
  <2> QED
    BY <1>2, <1>3, <1>4, <1>5, <2>1, SameLive
<1> QED
  BY <1>7, <1>8, <1>9

LEMMA UnloadedStep ==
  ASSUME Order, Stages, Lists, Unloaded
  PROVE  Stages' /\ Lists' /\ Live' = Live
<1>1. PICK p : p = reversing.plugin
  OBVIOUS
<1>2. /\ reversing # None /\ reversing.todo = <<>> /\ boot = "stopping" /\ lost = {}
      /\ p \in Plugins /\ bucket[p] = <<>> /\ mounted # <<>> /\ p = Last(mounted)
      /\ applying = None
  BY <1>1 DEF Unloaded, Stages, Reversal
<1>3. /\ mounted' = RemoveFirst(mounted, p) /\ reversing' = None
      /\ UNCHANGED <<rows, boot, at, applying, bucket, lost>>
  BY <1>1 DEF Unloaded
<1>4. /\ mounted' \in Seq(Plugins) /\ Len(mounted') = Len(mounted) - 1
      /\ Len(mounted) \in Nat
      /\ \A j \in 1 .. Len(mounted) - 1 : mounted'[j] = mounted[j]
  BY <1>2, <1>3, RemoveLast DEF Order
<1>5. Stages'
  BY <1>2, <1>3 DEF Stages
<1>6. Lists'
  <2>1. ASSUME NEW q \in Plugins, bucket[q] # <<>>
        PROVE  \E i \in 1 .. Len(mounted') : mounted'[i] = q
    <3>1. PICK i \in 1 .. Len(mounted) : mounted[i] = q
      BY <2>1 DEF Lists
    <3>2. i # Len(mounted)
      BY <1>2, <2>1, <3>1 DEF Last
    <3>3. i \in 1 .. Len(mounted) - 1
      BY <1>4, <3>2
    <3> QED
      BY <1>4, <3>1, <3>3
  <2>2. ASSUME NEW i \in 1 .. Len(mounted')
        PROVE  Len(bucket[mounted'[i]]) = Len(Program[mounted'[i]])
    <3>1. /\ i \in 1 .. Len(mounted) - 1 /\ i \in 1 .. Len(mounted)
          /\ i < Len(mounted) /\ mounted'[i] = mounted[i]
      BY <1>4
    <3> QED
      BY <3>1 DEF Lists
  <2> QED
    BY <1>2, <1>3, <2>1, <2>2 DEF Lists
<1>7. Live' = Live
  BY <1>2, <1>3, RangeEmpty, InLive
<1> QED
  BY <1>5, <1>6, <1>7

\* The steps of the boot and the shutdown that touch no list.
LEMMA StageStep ==
  ASSUME Order, Stages, Lists,
         RejectRow \/ Applied \/ Interrupted \/ Ready \/ RolledBack \/ Dispose
           \/ Disposed \/ PruneStart \/ PruneEnd \/ UNCHANGED vars
  PROVE  Stages' /\ Lists' /\ Live' = Live
<1>1. UNCHANGED <<rows, mounted, bucket, lost>>
  BY DEF RejectRow, Applied, Interrupted, Ready, RolledBack, Dispose, Disposed,
         PruneStart, PruneEnd, vars
<1>2. CASE UNCHANGED <<boot, at, applying, reversing>>
  <2>1. Stages' /\ Lists'
    BY <1>1, <1>2 DEF Stages, Reversal, Lists, Settled
  <2> QED
    BY <1>1, <1>2, <2>1, InLive
<1>3. CASE RejectRow \/ Ready \/ Dispose \/ Disposed
  <2>1. reversing = None /\ UNCHANGED <<at, applying, reversing>>
    BY <1>3 DEF RejectRow, Ready, Dispose, Disposed, Stages, Reversal
  <2>2. applying = None /\ lost = {}
    BY <1>3 DEF RejectRow, Ready, Dispose, Disposed, Stages
  <2>3. boot' \in {"failed", "serving", "stopping", "stopped"}
    BY <1>3 DEF RejectRow, Ready, Dispose, Disposed
  <2>4. Stages'
    BY <1>1, <2>1, <2>2, <2>3 DEF Stages
  <2>5. Settled' => Settled \/ mounted = <<>>
    BY <1>3, <2>1, <2>2 DEF Settled, RejectRow, Ready, Dispose, Disposed
  <2>6. Lists'
    BY <1>1, <2>2, <2>5 DEF Lists
  <2> QED
    BY <1>1, <2>1, <2>4, <2>6, InLive
<1>4. CASE Interrupted
  <2>1. /\ reversing = None /\ UNCHANGED <<at, reversing>> /\ applying' = None
        /\ boot' = "failed" /\ lost = {}
    BY <1>4, ApplyingLast DEF Interrupted
  <2>2. Stages' /\ Lists'
    BY <1>1, <2>1 DEF Stages, Lists, Settled
  <2> QED
    BY <1>1, <2>1, <2>2, InLive
<1>5. CASE Applied
  <2>1. /\ reversing = None /\ UNCHANGED <<boot, reversing>> /\ boot = "loading"
        /\ applying' = None /\ at' = at + 1 /\ lost = {} /\ at \in Nat
        /\ Len(mounted) = at + 1 /\ applying = Last(mounted) /\ applying \in Plugins
    BY <1>5, ApplyingLast DEF Applied, Stages
  <2>2. Stages'
    BY <1>1, <2>1 DEF Stages
  <2>3. Len(bucket[applying]) = Len(Program[applying])
    <3>1. /\ Len(bucket[applying]) \in Nat /\ Len(Program[applying]) \in Nat
          /\ Len(bucket[applying]) <= Len(Program[applying])
      BY <2>1, ProgramAssumption DEF Lists, Registered
    <3>2. Len(bucket[applying]) + 1 \notin 1 .. Len(Program[applying])
      BY <1>5 DEF Applied, Coming, Ref
    <3> QED
      BY <3>1, <3>2
  <2>4. ASSUME NEW i \in 1 .. Len(mounted)
        PROVE  Len(bucket[mounted[i]]) = Len(Program[mounted[i]])
    <3>1. CASE i = Len(mounted)
      BY <2>1, <2>3, <3>1 DEF Last
    <3>2. CASE i < Len(mounted)
      BY <3>2 DEF Lists
    <3> QED
      BY <2>1, <3>1, <3>2
  <2>5. Lists'
    BY <1>1, <2>1, <2>4 DEF Lists
  <2> QED
    BY <1>1, <2>1, <2>2, <2>5, InLive
<1>6. CASE RolledBack
  <2>1. /\ reversing # None /\ reversing.todo = <<>> /\ reversing' = None
        /\ boot' = "failed" /\ UNCHANGED <<at, applying>> /\ applying = None /\ lost = {}
    BY <1>6 DEF RolledBack, Stages
  <2>2. Stages' /\ Lists'
    BY <1>1, <2>1 DEF Stages, Lists, Settled
  <2> QED
    BY <1>1, <2>1, <2>2, RangeEmpty, InLive
<1> QED
  BY <1>2, <1>3, <1>4, <1>5, <1>6 DEF PruneStart, PruneEnd, vars

\* One registration is reversed.
LEMMA ReverseStep ==
  ASSUME Order, Stages, Lists, ReverseOne \/ CleanupRaises
  PROVE  /\ Stages' /\ Lists' /\ Newest \in Live /\ Newest \in Refs
         /\ Live' = Live \ {Newest} /\ Undo(Newest)
<1>1. PICK p, todo : p = reversing.plugin /\ todo = reversing.todo
  OBVIOUS
<1>2. /\ reversing # None /\ todo # <<>> /\ Reversal /\ lost = {} /\ applying = None
      /\ p \in Plugins /\ Registered(todo, p) /\ bucket[p] = <<>>
      /\ Newest = Last(todo) /\ Left = Front(todo)
  BY <1>1 DEF ReverseOne, CleanupRaises, Stages, Reversal, Newest, Left
<1>3. /\ Registered(Front(todo), p) /\ Newest \in Range(todo)
      /\ Newest = <<p, Len(todo)>> /\ Range(Left) = Range(todo) \ {Newest}
  BY <1>2, FrontRegistered
<1>4. Undo(Newest) /\ UNCHANGED <<rows, at, applying, mounted, bucket>>
  BY DEF ReverseOne, CleanupRaises
<1>5. Newest \in Live /\ Newest \in Refs
  <2>1. Newest \in Live
    BY <1>1, <1>2, <1>3, InLive
  <2>2. Len(todo) \in 1 .. Len(todo) /\ todo \in Seq(Refs)
    BY <1>2 DEF Registered
  <2> QED
    BY <1>2, <2>1, <2>2 DEF Last
<1>6. \A q \in Plugins : Newest \notin Range(bucket[q])
  <2>1. ASSUME NEW q \in Plugins, NEW i \in DOMAIN bucket[q], bucket[q][i] = Newest
        PROVE  FALSE
    <3>1. Registered(bucket[q], q) /\ i \in 1 .. Len(bucket[q])
      BY <2>1 DEF Lists
    <3>2. bucket[q][i] = <<q, i>>
      BY <3>1 DEF Registered
    <3>3. q = p
      BY <1>3, <2>1, <3>2
    <3> QED
      BY <1>2, <3>1, <3>3
  <2> QED
    BY <2>1 DEF Range
<1>7. CASE Advance /\ UNCHANGED <<boot, lost>>
  <2>1. reversing' = [plugin |-> p, todo |-> Front(todo), rollback |-> reversing.rollback]
    BY <1>1, <1>2, <1>7 DEF Advance, Reversal
  <2>2. reversing' # None
    <3>1. reversing' \in Reversals
      BY <1>2, <1>3, <2>1 DEF Reversals, Reversal, Registered
    <3> QED
      BY <3>1, NoneAssumption
  <2>3. Reversal'
    BY <1>1, <1>2, <1>3, <1>4, <1>7, <2>1 DEF Reversal
  <2>4. Stages'
    BY <1>2, <1>4, <1>7, <2>3 DEF Stages
  <2>5. Lists'
    BY <1>2, <1>4, <1>7, <2>1, <2>2 DEF Lists, Settled
  <2>6. Live' = Live \ {Newest}
    <3>1. Range(reversing'.todo) = Range(todo) \ {Newest}
      BY <1>2, <1>3, <2>1
    <3> QED
      BY <1>1, <1>2, <1>4, <1>6, <1>7, <2>2, <3>1, InLive
  <2> QED
    BY <1>4, <1>5, <2>4, <2>5, <2>6
<1>8. CASE /\ ~reversing.rollback /\ lost' = lost \cup Range(Left)
           /\ reversing' = None /\ boot' = "broken"
  <2>1. mounted # <<>> /\ p = Last(mounted)
    BY <1>1, <1>2, <1>8 DEF Reversal
  <2>2. Stages'
    BY <1>2, <1>4, <1>8, <2>1 DEF Stages
  <2>3. ASSUME NEW r \in Range(Left) PROVE r \in Refs /\ r[1] = p
    <3>1. PICK i \in DOMAIN todo : todo[i] = r
      BY <1>3, <2>3 DEF Range
    <3>2. i \in 1 .. Len(todo)
      BY <1>2, <3>1 DEF Registered
    <3> QED
      BY <1>2, <3>1, <3>2 DEF Registered
  <2>4. Lists'
    BY <1>2, <1>4, <1>8, <2>1, <2>3 DEF Lists, Settled
  <2>5. Live' = Live \ {Newest}
    BY <1>1, <1>2, <1>3, <1>4, <1>6, <1>8, InLive
  <2> QED
    BY <1>4, <1>5, <2>2, <2>4, <2>5
<1> QED
  BY <1>7, <1>8 DEF ReverseOne, CleanupRaises

-----------------------------------------------------------------------------
(* The tables.                                                             *)

LEMMA UsersFinite ==
  ASSUME Tables, NEW e
  PROVE  IsFiniteSet(Users(e)) /\ Cardinality(Users(e)) \in Nat
<1>1. Users(e) \in SUBSET Live
  BY DEF Users
<1> QED
  BY <1>1, FS_Subset, FS_CardinalityType DEF Tables

LEMMA KeyOf ==
  ASSUME NEW r \in Refs, Entry(r).kind = "service" PROVE Entry(r).key \in Keys
BY DEF Keys

\* A registration enters the lists and the tables at once.
LEMMA TablesAdd ==
  ASSUME Tables, NEW r \in Refs, r \notin Live, Live' = Live \cup {r},
         Entry(r).kind = "service" => services[Entry(r).key] = None,
         services' = ServicesWith(r), handlers' = HandlersWith(r),
         cleanups' = CleanupsWith(r), open' = (open \/ r = Closer)
  PROVE  Tables'
<1>1. Live' \subseteq Refs /\ IsFiniteSet(Live')
  BY FS_AddElement DEF Tables
<1>2. ASSUME NEW k \in Keys
      PROVE  Owners(k)' = IF services'[k] = None THEN {} ELSE {services'[k]}
  <2>1. CASE Entry(r).kind = "service" /\ Entry(r).key = k
    <3>1. services'[k] = r /\ r # None
      BY <2>1, NoneAssumption DEF ServicesWith, Tables
    <3>2. Owners(k) = {}
      BY <2>1 DEF Tables
    <3>3. Owners(k)' = {r}
      BY <2>1, <3>2 DEF Owners
    <3> QED
      BY <3>1, <3>3
  <2>2. CASE ~(Entry(r).kind = "service" /\ Entry(r).key = k)
    <3>1. services'[k] = services[k]
      BY <2>2, KeyOf DEF ServicesWith, Tables
    <3>2. Owners(k)' = Owners(k)
      BY <2>2 DEF Owners
    <3> QED
      BY <3>1, <3>2 DEF Tables
  <2> QED
    BY <2>1, <2>2
<1>3. services' \in [Keys -> Refs \cup {None}]
  BY DEF ServicesWith, Tables
<1>4. cleanups' = Live' \cap Effects
  BY DEF CleanupsWith, Tables, Effects
<1>5. handlers' \in Seq(Attached)
  BY DEF HandlersWith, Tables, Attached
<1>6. ASSUME NEW e \in Attached
      PROVE  Cardinality(Places(handlers', e)) = Cardinality(Users(e)')
  <2>0. e.kind \in {"listener", "router"}
    BY DEF Attached
  <2>1. CASE Entry(r) = e
    <3>1. handlers' = Append(handlers, e) /\ handlers \in Seq(Attached)
      BY <2>0, <2>1 DEF HandlersWith, Tables
    <3>2. Cardinality(Places(handlers', e)) = Cardinality(Places(handlers, e)) + 1
      BY <3>1, PlacesAppend
    <3>3. Users(e)' = Users(e) \cup {r} /\ r \notin Users(e)
      BY <2>1 DEF Users
    <3>4. Cardinality(Users(e)') = Cardinality(Users(e)) + 1
      BY <3>3, UsersFinite, FS_AddElement
    <3> QED
      BY <3>2, <3>4 DEF Tables
  <2>2. CASE Entry(r) # e
    <3>1. Users(e)' = Users(e)
      BY <2>2 DEF Users
    <3>2. Cardinality(Places(handlers', e)) = Cardinality(Places(handlers, e))
      <4>1. CASE handlers' = handlers
        BY <4>1
      <4>2. CASE Entry(r).kind \in {"listener", "router"}
        <5>1. /\ handlers' = Append(handlers, Entry(r)) /\ handlers \in Seq(Attached)
              /\ Entry(r) \in Attached
          BY <4>2 DEF HandlersWith, Tables, Attached
        <5> QED
          BY <2>2, <5>1, PlacesAppend
      <4> QED
        BY <4>1, <4>2 DEF HandlersWith
    <3> QED
      BY <3>1, <3>2 DEF Tables
  <2> QED
    BY <2>1, <2>2
<1>7. Closer \in Live' => open'
  BY DEF Tables
<1> QED
  BY <1>1, <1>2, <1>3, <1>4, <1>5, <1>6, <1>7 DEF Tables

\* A registration leaves the lists and the tables at once.
LEMMA TablesDrop ==
  ASSUME Tables, NEW r \in Refs, r \in Live, Live' = Live \ {r}, Undo(r)
  PROVE  Tables'
<1>1. Live' \subseteq Refs /\ IsFiniteSet(Live')
  BY FS_RemoveElement DEF Tables
<1>2. ASSUME NEW k \in Keys
      PROVE  Owners(k)' = IF services'[k] = None THEN {} ELSE {services'[k]}
  <2>1. CASE Entry(r).kind = "service" /\ Entry(r).key = k
    <3>1. services'[k] = None
      BY <2>1 DEF Undo, Tables
    <3>2. r \in Owners(k)
      BY <2>1 DEF Owners
    <3>3. Owners(k) = {r}
      BY <3>2 DEF Tables
    <3>4. Owners(k)' = {}
      BY <3>3 DEF Owners
    <3> QED
      BY <3>1, <3>4
  <2>2. CASE ~(Entry(r).kind = "service" /\ Entry(r).key = k)
    <3>1. services'[k] = services[k]
      BY <2>2, KeyOf DEF Undo, Tables
    <3>2. Owners(k)' = Owners(k)
      BY <2>2 DEF Owners
    <3> QED
      BY <3>1, <3>2 DEF Tables
  <2> QED
    BY <2>1, <2>2
<1>3. services' \in [Keys -> Refs \cup {None}]
  BY DEF Undo, Tables
<1>4. cleanups' = Live' \cap Effects
  BY DEF Undo, Tables
<1>5. /\ handlers' \in Seq(Attached)
      /\ \A e \in Attached : Cardinality(Places(handlers', e)) = Cardinality(Users(e)')
  <2>1. CASE Entry(r).kind \in {"listener", "router"}
    <3>1. PICK x : x = Entry(r)
      OBVIOUS
    <3>2. x \in Attached /\ handlers \in Seq(Attached) /\ handlers' = RemoveFirst(handlers, x)
      BY <2>1, <3>1 DEF Attached, Undo, Tables
    <3>3. \E i \in 1 .. Len(handlers) : handlers[i] = x
      <4>1. r \in Users(x)
        BY <3>1 DEF Users
      <4>2. Cardinality(Users(x)) # 0
        BY <4>1, UsersFinite, FS_EmptySet
      <4>3. Cardinality(Places(handlers, x)) # 0
        BY <3>2, <4>2 DEF Tables
      <4>4. Places(handlers, x) # {}
        BY <4>3, FS_EmptySet
      <4> QED
        BY <3>2, <4>4 DEF Places
    <3>4. PICK k \in 1 .. Len(handlers) :
            handlers[k] = x /\ handlers' = RemoveAt(handlers, k)
      BY <3>2, <3>3, RemovedPlace
    <3>5. handlers' \in Seq(Attached)
      BY <3>2, <3>4, RemoveAtPlaces
    <3>6. ASSUME NEW e \in Attached
          PROVE  Cardinality(Places(handlers', e)) = Cardinality(Users(e)')
      <4>1. Cardinality(Places(handlers', e))
              = IF x = e THEN Cardinality(Places(handlers, e)) - 1
                         ELSE Cardinality(Places(handlers, e))
        BY <3>2, <3>4, PlacesRemoveAt
      <4>2. CASE x = e
        <5>1. Users(e)' = Users(e) \ {r} /\ r \in Users(e)
          BY <3>1, <4>2 DEF Users
        <5>2. Cardinality(Users(e)') = Cardinality(Users(e)) - 1
          BY <5>1, UsersFinite, FS_RemoveElement
        <5> QED
          BY <4>1, <4>2, <5>2 DEF Tables
      <4>3. CASE x # e
        <5>1. Users(e)' = Users(e)
          BY <3>1, <4>3 DEF Users
        <5> QED
          BY <4>1, <4>3, <5>1 DEF Tables
      <4> QED
        BY <4>2, <4>3
    <3> QED
      BY <3>5, <3>6
  <2>2. CASE Entry(r).kind \notin {"listener", "router"}
    <3>1. handlers' = handlers
      BY <2>2 DEF Undo
    <3>2. ASSUME NEW e \in Attached PROVE Users(e)' = Users(e)
      BY <2>2 DEF Users, Attached
    <3> QED
      BY <3>1, <3>2 DEF Tables
  <2> QED
    BY <2>1, <2>2
<1>6. Closer \in Live' => open'
  BY DEF Undo, Tables
<1> QED
  BY <1>1, <1>2, <1>3, <1>4, <1>5, <1>6 DEF Tables

LEMMA TablesKept ==
  ASSUME Tables, Live' = Live, UNCHANGED <<services, handlers, cleanups, open>>
  PROVE  Tables'
BY DEF Tables, Owners, Users

\* The disposal ends with nothing live and clears the tables.
LEMMA TablesCleared ==
  ASSUME Stages, Lists, Tables, Disposed, Live' = Live
  PROVE  Tables'
<1>1. Live = {}
  <2>1. mounted = <<>> /\ reversing = None /\ lost = {}
    BY DEF Disposed, Stages
  <2>2. \A q \in Plugins : bucket[q] = <<>>
    BY <2>1 DEF Lists
  <2> QED
    BY <2>1, <2>2, RangeEmpty, InLive
<1>2. /\ services' = [k \in Keys |-> None] /\ handlers' = <<>>
      /\ UNCHANGED <<cleanups, open>>
  BY DEF Disposed
<1>3. ASSUME NEW e PROVE Cardinality(Places(handlers', e)) = Cardinality(Users(e)')
  <2>1. Places(handlers', e) = {} /\ Users(e)' = {}
    BY <1>1, <1>2 DEF Places, Users
  <2> QED
    BY <2>1
<1>4. \A k \in Keys : Owners(k)' = {}
  BY <1>1 DEF Owners
<1> QED
  BY <1>1, <1>2, <1>3, <1>4 DEF Tables

-----------------------------------------------------------------------------
(* The merged tree is a list of plugins: induction over the rows of a      *)
(* patch.                                                                  *)

\* A set of numbers with 0 and the successors of its elements has them all.
LEMMA AllNumbers ==
  ASSUME NEW S, S \subseteq Nat, 0 \in S, \A n \in S : n + 1 \in S
  PROVE  S = Nat
<1> DEFINE Less == {ss \in Nat \X Nat : ss[1] < ss[2]}
           R == Nat \ S
<1> SUFFICES ASSUME R # {} PROVE FALSE
  OBVIOUS
<1>1. IsWellFoundedOn(Less, Nat)
  BY NatLessThanWellFounded, Zenon DEF OpToRel
<1>2. PICK m \in R : \A k \in R : ~(<<k, m>> \in Less)
  <2> R \subseteq Nat
    OBVIOUS
  <2> HIDE DEF R, Less
  <2> QED
    BY <1>1, WFMin, Zenon
<1>3. m \in Nat /\ m # 0 /\ m \notin S
  OBVIOUS
<1>4. m - 1 \in S
  <2>1. m - 1 \in Nat /\ m - 1 < m
    BY <1>3
  <2>2. <<m - 1, m>> \in Less
    BY <1>3, <2>1
  <2> QED
    BY <1>2, <2>1, <2>2
<1>5. (m - 1) + 1 = m
  BY <1>3
<1> QED
  BY <1>3, <1>4, <1>5

\* The merges of the first m rows.
Merging(patch, f, m) ==
  f = [i \in 0 .. m |-> IF i = 0 THEN Base ELSE With(f[i - 1], patch[i])]

LEMMA MergingExists ==
  ASSUME NEW patch
  PROVE  \A m \in Nat : \E f : Merging(patch, f, m)
<1> DEFINE S == {m \in Nat : \E f : Merging(patch, f, m)}
<1>1. 0 \in S
  <2>1. Merging(patch, [i \in 0 .. 0 |-> Base], 0)
    BY DEF Merging
  <2> QED
    BY <2>1
<1>2. ASSUME NEW m \in S PROVE m + 1 \in S
  <2>1. PICK f : Merging(patch, f, m)
    OBVIOUS
  <2> DEFINE g == [i \in 0 .. m + 1 |-> IF i <= m THEN f[i] ELSE With(f[m], patch[m + 1])]
  <2>2. \A i \in 0 .. m : f[i] = IF i = 0 THEN Base ELSE With(f[i - 1], patch[i])
    BY <2>1 DEF Merging
  <2>3. \A i \in 0 .. m + 1 : g[i] = IF i = 0 THEN Base ELSE With(g[i - 1], patch[i])
    BY <2>2
  <2>4. Merging(patch, g, m + 1)
    BY <2>3 DEF Merging
  <2> QED
    BY <2>4
<1>3. S = Nat
  <2>1. S \subseteq Nat
    OBVIOUS
  <2> HIDE DEF S
  <2> QED
    BY <1>1, <1>2, <2>1, AllNumbers
<1> QED
  BY <1>3

LEMMA MergedType ==
  ASSUME NEW patch \in Patches
  PROVE  Merged(patch) \in Seq(Plugins)
<1> DEFINE n == Len(patch)
           F == CHOOSE f : Merging(patch, f, n)
           S == {m \in Nat : m <= n => F[m] \in Seq(Plugins)}
<1>1. n \in Nat /\ patch \in Seq(Plugins) /\ Base \in Seq(Plugins)
  BY RowsAssumption
<1>2. Merged(patch) = F[n]
  BY DEF Merged, Merging
<1>3. Merging(patch, F, n)
  BY <1>1, MergingExists
<1> HIDE DEF F
<1>4. \A i \in 0 .. n : F[i] = IF i = 0 THEN Base ELSE With(F[i - 1], patch[i])
  BY <1>3 DEF Merging
<1>5. 0 \in S
  BY <1>1, <1>4
<1>6. ASSUME NEW m \in S PROVE m + 1 \in S
  <2> SUFFICES ASSUME m + 1 <= n PROVE F[m + 1] \in Seq(Plugins)
    OBVIOUS
  <2>1. m + 1 \in 0 .. n /\ m + 1 # 0 /\ (m + 1) - 1 = m /\ m <= n /\ m + 1 \in 1 .. n
    BY <1>1
  <2>2. F[m + 1] = With(F[m], patch[m + 1])
    BY <1>4, <2>1
  <2>3. F[m] \in Seq(Plugins) /\ patch[m + 1] \in Plugins
    BY <1>1, <2>1
  <2> QED
    BY <2>2, <2>3 DEF With
<1>7. S = Nat
  <2>1. S \subseteq Nat
    OBVIOUS
  <2> HIDE DEF S
  <2> QED
    BY <1>5, <1>6, <2>1, AllNumbers
<1> QED
  BY <1>1, <1>2, <1>7

-----------------------------------------------------------------------------
(* The theorems.                                                           *)

LEMMA InitInv == Init => HInv
<1> SUFFICES ASSUME Init PROVE HInv
  OBVIOUS
<1>1. Order /\ Stages /\ Lists
  BY MergedType, RegisteredNothing DEF Init, Order, Stages, Lists, Settled
<1>2. Live = {}
  BY RangeEmpty, InLive DEF Init
<1>3. \A e : Places(handlers, e) = {} /\ Users(e) = {}
  BY <1>2 DEF Init, Places, Users
<1>4. \A k \in Keys : Owners(k) = {} /\ services[k] = None
  BY <1>2 DEF Init, Owners
<1>5. \A e : Cardinality(Places(handlers, e)) = Cardinality(Users(e))
  BY <1>3
<1>6. Tables
  BY <1>2, <1>4, <1>5, FS_EmptySet DEF Init, Tables
<1> QED
  BY <1>1, <1>6 DEF HInv

LEMMA NextInv == HInv /\ [Next]_vars => HInv'
<1> SUFFICES ASSUME HInv, [Next]_vars PROVE HInv'
  OBVIOUS
<1> USE DEF HInv
<1>0. Order'
  BY OrderStep
<1>1. CASE Register
  BY <1>0, <1>1, RegisterStep, TablesAdd DEF Register
<1>2. CASE ReverseOne \/ CleanupRaises
  BY <1>0, <1>2, ReverseStep, TablesDrop
<1>3. CASE MountRow \/ ApplyFails \/ Unload \/ Unloaded
  <2>1. UNCHANGED <<services, handlers, cleanups, open>>
    BY <1>3 DEF MountRow, ApplyFails, Unload, Unloaded
  <2> QED
    BY <1>0, <1>3, <2>1, MountStep, ApplyFailsStep, UnloadStep, UnloadedStep, TablesKept
<1>4. CASE Disposed
  BY <1>0, <1>4, StageStep, TablesCleared
<1>5. CASE RejectRow \/ Applied \/ Interrupted \/ Ready \/ RolledBack \/ Dispose
             \/ PruneStart \/ PruneEnd \/ UNCHANGED vars
  <2>1. UNCHANGED <<services, handlers, cleanups, open>>
    BY <1>5 DEF RejectRow, Applied, Interrupted, Ready, RolledBack, Dispose, PruneStart,
                PruneEnd, vars
  <2> QED
    BY <1>0, <1>5, <2>1, StageStep, TablesKept
<1> QED
  BY <1>1, <1>2, <1>3, <1>4, <1>5 DEF Next

LEMMA InvAlways == Spec => []HInv
BY InitInv, NextInv, PTL DEF Spec

\* The tables of the Context hold exactly what some list has still to reverse, or what
\* a raising cleanup dropped: no registration outlives the reversal of its plugin, and
\* none is taken from a plugin that stays.
THEOREM TablesAccounted == Spec => []Accounted
<1>1. ASSUME HInv PROVE Accounted
  <2>1. \A k \in Keys : Owners(k) = (IF services[k] = None THEN {} ELSE {services[k]})
    BY <1>1 DEF HInv, Tables
  <2>2. handlers \in Seq(Attached) /\ Live \subseteq Refs
    BY <1>1 DEF HInv, Tables
  <2>3. ASSUME NEW e \in Range(handlers)
        PROVE  Cardinality(Places(handlers, e)) = Cardinality(Users(e))
    <3>1. e \in Attached
      BY <2>2 DEF Range
    <3> QED
      BY <1>1, <3>1 DEF HInv, Tables
  <2>4. ASSUME NEW r \in Live, Entry(r).kind \in {"listener", "router"}
        PROVE  Contains(handlers, Entry(r))
    <3>1. PICK x : x = Entry(r)
      OBVIOUS
    <3>2. x \in Attached /\ r \in Users(x)
      BY <2>2, <2>4, <3>1 DEF Attached, Users
    <3>3. Cardinality(Users(x)) # 0
      BY <1>1, <3>2, UsersFinite, FS_EmptySet DEF HInv
    <3>4. Cardinality(Places(handlers, x)) # 0
      BY <1>1, <3>2, <3>3 DEF HInv, Tables
    <3>5. Places(handlers, x) # {}
      BY <3>4, FS_EmptySet
    <3> QED
      BY <2>2, <3>1, <3>5 DEF Places, Contains
  <2>5. cleanups = Live \cap Effects
    BY <1>1 DEF HInv, Tables
  <2> QED
    BY <2>1, <2>3, <2>4, <2>5 DEF Accounted, Owners, Places, Users
<1> QED
  BY <1>1, InvAlways, PTL

\* A plugin of the rows has a first row.
LEMMA FirstRow ==
  ASSUME Order, NEW p, Contains(rows, p)
  PROVE  /\ Position(p) \in 1 .. Len(rows) /\ rows[Position(p)] = p
         /\ \A k \in 1 .. Position(p) - 1 : rows[k] # p
<1> DEFINE I == {i \in 1 .. Len(rows) : rows[i] = p}
<1>1. Len(rows) \in Nat /\ DOMAIN rows = 1 .. Len(rows)
  BY DEF Order
<1>2. I \in SUBSET (1 .. Len(rows)) /\ I # {}
  BY DEF Contains
<1>3. \E m \in I : \A k \in I : m <= k
  <2> HIDE DEF I
  <2> QED
    BY <1>1, <1>2, LeastPlace
<1>4. PICK m \in I : \A k \in I : m <= k
  BY <1>3
<1>5. \A k \in 1 .. m - 1 : rows[k] # p
  <2>1. ASSUME NEW k \in 1 .. m - 1, rows[k] = p PROVE FALSE
    <3>1. k \in 1 .. Len(rows) /\ k < m
      BY <1>1
    <3> QED
      BY <1>4, <2>1, <3>1
  <2> QED
    BY <2>1
<1>6. \E i \in DOMAIN rows : rows[i] = p /\ \A k \in 1 .. i - 1 : rows[k] # p
  BY <1>1, <1>4, <1>5
<1> QED
  BY <1>1, <1>6 DEF Position

\* A row that differs from all those before it is the first of its plugin.
LEMMA PositionIs ==
  ASSUME Order, NEW n \in 1 .. Len(rows), \A k \in 1 .. n - 1 : rows[k] # rows[n]
  PROVE  Position(rows[n]) = n
<1>1. PICK p : p = rows[n]
  OBVIOUS
<1>2. /\ Position(p) \in 1 .. Len(rows) /\ rows[Position(p)] = p
      /\ \A k \in 1 .. Position(p) - 1 : rows[k] # p
  <2>1. Contains(rows, p)
    BY <1>1 DEF Contains
  <2> QED
    BY <2>1, FirstRow
<1>3. ~(Position(p) < n) /\ ~(n < Position(p))
  BY <1>1, <1>2
<1> QED
  BY <1>1, <1>2, <1>3

\* A plugin with a registration left is a row below which all plugins are mounted and
\* have everything they registered.
LEMMA BelowIsWhole ==
  ASSUME Order, Stages, Lists, NEW r \in Live
  PROVE  /\ Position(r[1]) \in Nat
         /\ \A k \in 1 .. Position(r[1]) - 1 :
              /\ k \in 1 .. Len(mounted)
              /\ Len(bucket[mounted[k]]) = Len(Program[mounted[k]])
<1> DEFINE Whole == /\ Position(r[1]) \in Nat
                    /\ \A k \in 1 .. Position(r[1]) - 1 :
                         /\ k \in 1 .. Len(mounted)
                         /\ Len(bucket[mounted[k]]) = Len(Program[mounted[k]])
<1>1. ASSUME NEW i \in 1 .. Len(mounted), r[1] = mounted[i]
      PROVE  Whole
  <2>1. Position(r[1]) = i
    <3>1. i \in 1 .. Len(rows) /\ r[1] = rows[i]
      BY <1>1 DEF Order
    <3>2. ASSUME NEW k \in 1 .. i - 1 PROVE rows[k] # rows[i]
      <4>1. k \in 1 .. Len(mounted) /\ k # i
        BY DEF Order
      <4> QED
        BY <4>1 DEF Order
    <3> QED
      BY <3>1, <3>2, PositionIs
  <2>2. \A k \in 1 .. i - 1 : k \in 1 .. Len(mounted) /\ k < Len(mounted)
    BY DEF Order
  <2> QED
    BY <2>1, <2>2 DEF Lists
<1>2. CASE \E p \in Plugins : r \in Range(bucket[p])
  <2>1. PICK p \in Plugins : r \in Range(bucket[p])
    BY <1>2
  <2>2. PICK j \in DOMAIN bucket[p] : bucket[p][j] = r
    BY <2>1 DEF Range
  <2>3. j \in 1 .. Len(bucket[p]) /\ r = <<p, j>> /\ bucket[p] # <<>>
    <3>1. Registered(bucket[p], p)
      BY DEF Lists
    <3>2. DOMAIN bucket[p] = 1 .. Len(bucket[p])
      BY <3>1 DEF Registered
    <3>3. j \in 1 .. Len(bucket[p]) /\ r = <<p, j>>
      BY <2>2, <3>1, <3>2 DEF Registered
    <3>4. DOMAIN <<>> = {}
      OBVIOUS
    <3> QED
      BY <3>2, <3>3, <3>4
  <2>4. PICK i \in 1 .. Len(mounted) : mounted[i] = p
    BY <2>3 DEF Lists
  <2> QED
    BY <1>1, <2>3, <2>4
<1>3. CASE lost # {} /\ r \in lost
  <2>1. r[1] = mounted[Len(mounted)] /\ Len(mounted) \in 1 .. Len(mounted)
    BY <1>3 DEF Stages, Lists, Last, Order
  <2> QED
    BY <1>1, <2>1
<1>4. CASE reversing # None /\ r \in Range(reversing.todo)
  <2>1. Reversal /\ r[1] = reversing.plugin /\ applying = None
    <3>1. Reversal /\ applying = None
      BY <1>4 DEF Stages
    <3>2. PICK j \in DOMAIN reversing.todo : reversing.todo[j] = r
      BY <1>4 DEF Range
    <3> QED
      BY <3>1, <3>2 DEF Reversal, Registered
  <2>2. CASE ~reversing.rollback
    <3>1. r[1] = mounted[Len(mounted)] /\ Len(mounted) \in 1 .. Len(mounted)
      BY <2>1, <2>2 DEF Reversal, Last, Order
    <3> QED
      BY <1>1, <3>1
  <2>3. CASE reversing.rollback
    <3>1. /\ Settled /\ Len(mounted) = at /\ at \in Nat /\ at + 1 \in 1 .. Len(rows)
          /\ r[1] = rows[at + 1] /\ \A i \in 1 .. at : mounted[i] # r[1]
      BY <2>1, <2>3 DEF Reversal, Settled, Stages, Order
    <3>2. Position(r[1]) = at + 1
      <4>1. \A k \in 1 .. (at + 1) - 1 : rows[k] # rows[at + 1]
        BY <3>1 DEF Order
      <4> QED
        BY <3>1, <4>1, PositionIs
    <3> QED
      BY <3>1, <3>2 DEF Lists
  <2> QED
    BY <2>1, <2>2, <2>3 DEF Reversal
<1> QED
  BY <1>2, <1>3, <1>4, InLive

\* A plugin that has everything it registered has it live.
LEMMA WholeIsLive ==
  ASSUME Lists, NEW p \in Plugins, Len(bucket[p]) = Len(Program[p])
  PROVE  Ref(p) \subseteq Live
<1>1. ASSUME NEW i \in 1 .. Len(Program[p]) PROVE <<p, i>> \in Range(bucket[p])
  <2>1. i \in DOMAIN bucket[p] /\ bucket[p][i] = <<p, i>>
    BY DEF Lists, Registered
  <2> QED
    BY <2>1 DEF Range
<1> QED
  BY <1>1, InLive DEF Ref

\* As long as a plugin has an effect outstanding, the services that were there when it
\* was mounted are registered and the backend is open, through rollbacks, unloads and
\* cleanups that raise.
THEOREM DependenciesKept == Spec => []DependenciesOutlive
<1>1. ASSUME HInv PROVE DependenciesOutlive
  <2> SUFFICES ASSUME NEW r \in cleanups
               PROVE  /\ \A p \in Plugins :
                           /\ Contains(rows, p) /\ Position(p) < Position(r[1])
                           => \A s \in Ref(p) : Entry(s).kind = "service"
                                                  => services[Entry(s).key] = s
                      /\ Contains(rows, Closer[1]) /\ Position(Closer[1]) < Position(r[1])
                           => open
    BY DEF DependenciesOutlive
  <2>1. r \in Live /\ Order /\ Stages /\ Lists /\ Tables
    BY <1>1 DEF HInv, Tables
  <2>2. Position(r[1]) \in Nat
    BY <2>1, BelowIsWhole
  <2>3. ASSUME NEW p \in Plugins, Contains(rows, p), Position(p) < Position(r[1])
        PROVE  Ref(p) \subseteq Live
    <3>1. Position(p) \in 1 .. Len(rows) /\ rows[Position(p)] = p
      BY <2>1, <2>3, FirstRow
    <3>2. Position(p) \in 1 .. Position(r[1]) - 1
      BY <2>2, <2>3, <3>1
    <3>3. /\ Position(p) \in 1 .. Len(mounted)
          /\ Len(bucket[mounted[Position(p)]]) = Len(Program[mounted[Position(p)]])
      BY <2>1, <3>2, BelowIsWhole
    <3>4. mounted[Position(p)] = p
      BY <2>1, <3>1, <3>3 DEF Order
    <3> QED
      BY <2>1, <3>3, <3>4, WholeIsLive
  <2>4. ASSUME NEW s \in Live, Entry(s).kind = "service" PROVE services[Entry(s).key] = s
    <3>1. PICK k : k = Entry(s).key
      OBVIOUS
    <3>2. s \in Owners(k) /\ k \in Keys
      BY <2>1, <2>4, <3>1, KeyOf DEF Owners, Tables
    <3> QED
      BY <2>1, <3>1, <3>2 DEF Tables
  <2>5. ASSUME Contains(rows, Closer[1]), Position(Closer[1]) < Position(r[1]) PROVE open
    <3>1. PICK q \in Plugins : Closer \in Ref(q)
      BY EffectsAssumption DEF Effects, Refs
    <3>2. Closer[1] = q
      BY <3>1 DEF Ref
    <3> QED
      BY <2>1, <2>3, <2>5, <3>1, <3>2 DEF Tables
  <2> QED
    BY <2>3, <2>4, <2>5
<1> QED
  BY <1>1, InvAlways, PTL

=============================================================================
