--------------------------- MODULE DeltaMergeProofs ---------------------------
(* Proofs about DeltaMerge: for any loaders, staging paths, staged copies and    *)
(* interleaving of loads, the table keeps its keys unique and keeps the promise  *)
(* of MergedTable.                                                               *)
EXTENDS DeltaMerge, FiniteSetTheorems, TLAPS

Unique(T) == \A t, u \in T : t.key = u.key => t = u

\* What the proofs need to know of a state: offers are staged copies.
OffersInv ==
    /\ staged \in [Paths -> SUBSET Copies]
    /\ path \in [Loaders -> Paths]
    /\ offer \in [Loaders -> SUBSET Copies]

MergeInv == OffersInv /\ Unique(table)

(***************************************************************************)
(* The two statements, as operators on sets of rows.                       *)
(***************************************************************************)

LEMMA DedupeKeeps ==
    ASSUME NEW S, NEW W \in Dedupe(S)
    PROVE  \E f \in [KeysOf(S) -> S] :
              /\ \A k \in KeysOf(S) : f[k].key = k /\ \A d \in S : d.key = k => Ranked(f[k], d)
              /\ W = {Row(f[k]) : k \in KeysOf(S)}
BY DEF Dedupe

LEMMA DedupeUnique ==
    ASSUME NEW S, NEW W \in Dedupe(S)
    PROVE  Unique(W)
<1>1. PICK f \in [KeysOf(S) -> S] :
         /\ \A k \in KeysOf(S) : f[k].key = k
         /\ W = {Row(f[k]) : k \in KeysOf(S)}
  BY DedupeKeeps
<1>2. QED  BY <1>1 DEF Unique, Row

LEMMA MergeUnique ==
    ASSUME NEW T, NEW W, Unique(T), Unique(W)
    PROVE  Unique(MergeInto(T, W))
BY DEF Unique, MergeInto

LEMMA MappingAt ==
    ASSUME NEW T, Unique(T), NEW t \in T
    PROVE  t.key \in DOMAIN Mapping(T) /\ Mapping(T)[t.key] = t
<1>1. \A u \in T : u.key = t.key => u = t
  BY DEF Unique
<1>2. (CHOOSE u \in T : u.key = t.key) = t
  BY <1>1
<1>3. QED  BY <1>2 DEF Mapping

(***************************************************************************)
(* The invariant.                                                          *)
(***************************************************************************)

LEMMA MergeInit == Init => MergeInv
BY StagingsAssumption DEF Init, MergeInv, OffersInv, Unique

\* Every action but CommitMerge leaves the table, and what was loaded last, as it is.
LEMMA OnlyCommits ==
    ASSUME [Next]_vars, \A l \in Loaders : ~CommitMerge(l)
    PROVE  table' = table /\ last' = last
BY DEF Next, vars, Restage, ListStaging, CountStaged, CountMerged, CountBefore, StartMerge,
       LoseFile, FailMerge, CountAfter, EndLoad, Drop

LEMMA MergeNext == MergeInv /\ [Next]_vars => MergeInv'
<1> SUFFICES ASSUME MergeInv, [Next]_vars  PROVE MergeInv'
  OBVIOUS
<1>1. OffersInv'
  <2>1. CASE \E p \in Paths : Restage(p)
    BY <2>1, StagingsAssumption DEF Restage, MergeInv, OffersInv, loads
  <2>2. CASE \E l \in Loaders : ListStaging(l)
    BY <2>2 DEF ListStaging, MergeInv, OffersInv
  <2>3. CASE \E l \in Loaders : CountStaged(l) \/ CountMerged(l) \/ CountBefore(l)
    BY <2>3 DEF CountStaged, CountMerged, CountBefore, MergeInv, OffersInv
  <2>4. CASE \E l \in Loaders : StartMerge(l)
    <3>1. PICK l \in Loaders : StartMerge(l)
      BY <2>4
    <3>2. Listed(l) \subseteq Copies
      BY DEF Listed, MergeInv, OffersInv
    <3>3. QED  BY <3>1, <3>2 DEF StartMerge, MergeInv, OffersInv
  <2>5. CASE \E l \in Loaders : LoseFile(l)
    BY <2>5 DEF LoseFile, End, MergeInv, OffersInv
  <2>6. CASE \E l \in Loaders : CommitMerge(l)
    BY <2>6 DEF CommitMerge, End, MergeInv, OffersInv
  <2>7. CASE \E l \in Loaders : FailMerge(l)
    BY <2>7 DEF FailMerge, End, MergeInv, OffersInv
  <2>8. CASE \E l \in Loaders : CountAfter(l) \/ EndLoad(l)
    BY <2>8 DEF CountAfter, EndLoad, End, MergeInv, OffersInv
  <2>9. CASE \E l \in Loaders : Drop(l)
    BY <2>9 DEF Drop, End, MergeInv, OffersInv
  <2>10. CASE UNCHANGED vars
    BY <2>10 DEF vars, loads, MergeInv, OffersInv
  <2>11. QED
    BY <2>1, <2>2, <2>3, <2>4, <2>5, <2>6, <2>7, <2>8, <2>9, <2>10 DEF Next
<1>2. Unique(table')
  <2>1. CASE \A l \in Loaders : ~CommitMerge(l)
    BY <2>1, OnlyCommits DEF MergeInv
  <2>2. CASE \E l \in Loaders : CommitMerge(l)
    <3>1. PICK l \in Loaders : CommitMerge(l)
      BY <2>2
    <3>2. PICK W \in Dedupe(offer[l]) : table' = MergeInto(table, W)
      BY <3>1 DEF CommitMerge
    <3>3. Unique(W)
      BY DedupeUnique
    <3>4. Unique(table)
      BY DEF MergeInv
    <3>5. QED  BY <3>2, <3>3, <3>4, MergeUnique
  <2>3. QED  BY <2>1, <2>2
<1>3. QED  BY <1>1, <1>2 DEF MergeInv

\* However loads interleave, are overtaken or lose their client, the table has one
\* row for each merge key.
THEOREM KeysStayUnique == Spec => []UniqueKeys
<1>1. MergeInv => UniqueKeys
  BY DEF MergeInv, Unique, UniqueKeys
<1>2. QED  BY <1>1, MergeInit, MergeNext, PTL DEF Spec

(***************************************************************************)
(* The promise.                                                            *)
(***************************************************************************)

LEMMA PromiseInit == Init => Promise!Init
BY DEF Init, Promise!Init, Content, Mapping

\* Promise!Load as a relation between two mappings
Loaded(M, S, N) ==
    \E kept \in [KeysOf(S) -> S] :
        /\ \A k \in KeysOf(S) : kept[k] \in Promise!Best(S, k)
        /\ N = [k \in DOMAIN M \cup KeysOf(S) |->
                   IF k \in KeysOf(S)
                   THEN [key |-> k, stamp |-> kept[k].stamp, attr |-> kept[k].attr]
                   ELSE M[k]]

\* A MERGE of deduplicated copies is a load of those copies.
LEMMA MergeIsLoad ==
    ASSUME NEW T, Unique(T), NEW S, S \subseteq Copies, NEW W \in Dedupe(S)
    PROVE  Loaded(Mapping(T), S, Mapping(MergeInto(T, W)))
<1>1. PICK f \in [KeysOf(S) -> S] :
         /\ \A k \in KeysOf(S) : f[k].key = k /\ \A d \in S : d.key = k => Ranked(f[k], d)
         /\ W = {Row(f[k]) : k \in KeysOf(S)}
  BY DedupeKeeps
<1> DEFINE U == MergeInto(T, W)
<1>2. Unique(U)
  BY DedupeUnique, MergeUnique
<1>3. ASSUME NEW k \in KeysOf(S)  PROVE f[k] \in Promise!Best(S, k)
  <2>1. f[k] \in S /\ f[k].key = k /\ \A d \in S : d.key = k => Ranked(f[k], d)
    BY <1>1
  <2>2. \A d \in S : d.stamp \in Nat /\ d.attr \in Int
    BY CopiesAssumption
  <2>3. QED  BY <2>1, <2>2 DEF Promise!Best, Ranked
<1>4. {u.key : u \in U} = {t.key : t \in T} \cup KeysOf(S)
  <2>1. \A w \in W : w.key \in KeysOf(S)
    BY <1>1 DEF Row
  <2>2. ASSUME NEW k \in KeysOf(S)  PROVE \E w \in W : w.key = k
    <3>1. Row(f[k]) \in W /\ Row(f[k]).key = f[k].key
      BY <1>1 DEF Row
    <3>2. QED  BY <1>1, <3>1
  <2>3. QED  BY <2>1, <2>2 DEF MergeInto
<1>5. ASSUME NEW k \in KeysOf(S)
      PROVE  Mapping(U)[k] = [key |-> k, stamp |-> f[k].stamp, attr |-> f[k].attr]
  <2>1. Row(f[k]) \in U /\ Row(f[k]).key = k
    BY <1>1 DEF MergeInto, Row
  <2>2. Mapping(U)[k] = Row(f[k])
    BY <1>2, <2>1, MappingAt
  <2>3. QED  BY <1>1, <2>2 DEF Row
<1>6. ASSUME NEW t \in T, t.key \notin KeysOf(S)
      PROVE  Mapping(U)[t.key] = Mapping(T)[t.key]
  <2>1. t \in U
    BY <1>1, <1>6 DEF MergeInto, Row
  <2>2. Mapping(U)[t.key] = t /\ Mapping(T)[t.key] = t
    BY <1>2, <2>1, MappingAt
  <2>3. QED  BY <2>2
<1>7. Mapping(U) = [k \in DOMAIN Mapping(T) \cup KeysOf(S) |->
                       IF k \in KeysOf(S)
                       THEN [key |-> k, stamp |-> f[k].stamp, attr |-> f[k].attr]
                       ELSE Mapping(T)[k]]
  <2>1. DOMAIN Mapping(U) = DOMAIN Mapping(T) \cup KeysOf(S)
    BY <1>4 DEF Mapping
  <2>2. Mapping(U) = [k \in DOMAIN Mapping(U) |-> Mapping(U)[k]]
    BY DEF Mapping
  <2>3. ASSUME NEW k \in DOMAIN Mapping(T) \cup KeysOf(S)
        PROVE  Mapping(U)[k] = IF k \in KeysOf(S)
                               THEN [key |-> k, stamp |-> f[k].stamp, attr |-> f[k].attr]
                               ELSE Mapping(T)[k]
    <3>1. CASE k \in KeysOf(S)
      BY <1>5, <3>1
    <3>2. CASE k \notin KeysOf(S)
      <4>1. PICK t \in T : t.key = k
        BY <3>2 DEF Mapping
      <4>2. QED  BY <1>6, <3>2, <4>1
    <3>3. QED  BY <3>1, <3>2
  <2>4. QED  BY <2>1, <2>2, <2>3
<1>8. QED  BY <1>1, <1>3, <1>7 DEF Loaded

\* The detailed loads implement the promise: a commit is one whole load, every other
\* step leaves the mapped table as it is.
THEOREM PromiseKept == Spec => KeepsPromise
<1>1. MergeInv /\ [Next]_vars => [Promise!Next]_<<Content, last>>
  <2> SUFFICES ASSUME MergeInv, [Next]_vars  PROVE [Promise!Next]_<<Content, last>>
    OBVIOUS
  <2>1. CASE \A l \in Loaders : ~CommitMerge(l)
    BY <2>1, OnlyCommits DEF Content
  <2>2. CASE \E l \in Loaders : CommitMerge(l)
    <3>1. PICK l \in Loaders : CommitMerge(l)
      BY <2>2
    <3>2. PICK W \in Dedupe(offer[l]) : table' = MergeInto(table, W)
      BY <3>1 DEF CommitMerge
    <3>3. offer[l] \subseteq Copies /\ Unique(table)
      BY DEF MergeInv, OffersInv
    <3>4. Content' = Mapping(MergeInto(table, W)) /\ Content = Mapping(table)
      BY <3>2 DEF Content
    <3>5. Promise!Load(offer[l])
      <4>1. Loaded(Content, offer[l], Content')
        BY <3>3, <3>4, MergeIsLoad
      <4>2. Promise!KeysOf(offer[l]) = KeysOf(offer[l])
        BY DEF Promise!KeysOf, KeysOf
      <4>3. last' = offer[l]
        BY <3>1 DEF CommitMerge
      <4>4. QED  BY <4>1, <4>2, <4>3 DEF Promise!Load, Loaded
    <3>6. QED  BY <3>3, <3>5 DEF Promise!Next
  <2>3. QED  BY <2>1, <2>2
<1>2. QED
  BY <1>1, PromiseInit, MergeInit, MergeNext, PTL DEF Spec, KeepsPromise, Promise!Spec

(***************************************************************************)
(* Loading the same again.                                                 *)
(***************************************************************************)

\* No two copies of a key rank alike and yet make different rows.
Decided == \A c, d \in Copies : c.key = d.key /\ Ranked(c, d) /\ Ranked(d, c) => Row(c) = Row(d)

\* Then there is one way to reduce copies to a row of each key.
LEMMA DedupeDecided ==
    ASSUME Decided, NEW S, S \subseteq Copies, NEW V \in Dedupe(S), NEW W \in Dedupe(S)
    PROVE  V = W
<1>1. PICK f \in [KeysOf(S) -> S] :
         /\ \A k \in KeysOf(S) : f[k].key = k /\ \A d \in S : d.key = k => Ranked(f[k], d)
         /\ V = {Row(f[k]) : k \in KeysOf(S)}
  BY DedupeKeeps
<1>2. PICK g \in [KeysOf(S) -> S] :
         /\ \A k \in KeysOf(S) : g[k].key = k /\ \A d \in S : d.key = k => Ranked(g[k], d)
         /\ W = {Row(g[k]) : k \in KeysOf(S)}
  BY DedupeKeeps
<1>3. ASSUME NEW k \in KeysOf(S)  PROVE Row(f[k]) = Row(g[k])
  <2>1. f[k] \in S /\ g[k] \in S /\ f[k].key = k /\ g[k].key = k
    BY <1>1, <1>2
  <2>2. Ranked(f[k], g[k]) /\ Ranked(g[k], f[k])
    BY <1>1, <1>2, <2>1
  <2>3. QED  BY <2>1, <2>2 DEF Decided
<1>4. QED  BY <1>1, <1>2, <1>3

\* The rows the last MERGE wrote are in the table.
LastInv == last \subseteq Copies /\ \E W \in Dedupe(last) : W \subseteq table

LEMMA LastInit == Init => LastInv
<1> SUFFICES ASSUME Init  PROVE LastInv
  OBVIOUS
<1>1. last = {} /\ KeysOf({}) = {}
  BY DEF Init, KeysOf
<1> DEFINE f == [k \in {} |-> k]
<1>2. f \in [KeysOf({}) -> {}]
  BY <1>1
<1>3. {Row(f[k]) : k \in KeysOf({})} \in Dedupe({})
  BY <1>1, <1>2 DEF Dedupe
<1>4. QED  BY <1>1, <1>3 DEF LastInv

LEMMA LastNext == MergeInv /\ LastInv /\ [Next]_vars => LastInv'
<1> SUFFICES ASSUME MergeInv, LastInv, [Next]_vars  PROVE LastInv'
  OBVIOUS
<1>1. CASE \A l \in Loaders : ~CommitMerge(l)
  BY <1>1, OnlyCommits DEF LastInv
<1>2. CASE \E l \in Loaders : CommitMerge(l)
  <2>1. PICK l \in Loaders : CommitMerge(l)
    BY <1>2
  <2>2. PICK W \in Dedupe(offer[l]) : table' = MergeInto(table, W)
    BY <2>1 DEF CommitMerge
  <2>3. last' = offer[l] /\ offer[l] \subseteq Copies
    BY <2>1 DEF CommitMerge, MergeInv, OffersInv
  <2>4. W \subseteq table'
    BY <2>2 DEF MergeInto
  <2>5. QED  BY <2>2, <2>3, <2>4 DEF LastInv
<1>3. QED  BY <1>1, <1>2

LEMMA MergeAgain ==
    ASSUME NEW T, Unique(T), NEW W, W \subseteq T
    PROVE  MergeInto(T, W) = T
BY DEF Unique, MergeInto

\* "re-running the same load is idempotent", whichever rows a MERGE is free to keep,
\* as soon as no two copies of a key that rank alike make different rows: the
\* duplicates of run MergeDuplicates are the only way it can fail.
THEOREM RerunsAreIdle == Decided => (Spec => RerunChangesNothing)
<1> SUFFICES ASSUME Decided  PROVE Spec => RerunChangesNothing
  OBVIOUS
<1>1. MergeInv /\ LastInv /\ [Next]_vars =>
         [\A l \in Loaders : CommitMerge(l) /\ offer[l] = last => table' = table]_vars
  <2> SUFFICES ASSUME MergeInv, LastInv, NEW l \in Loaders, CommitMerge(l), offer[l] = last
               PROVE  table' = table
    OBVIOUS
  <2>1. PICK W \in Dedupe(offer[l]) : table' = MergeInto(table, W)
    BY DEF CommitMerge
  <2>2. PICK V \in Dedupe(last) : V \subseteq table
    BY DEF LastInv
  <2>3. V = W
    BY <2>1, <2>2, DedupeDecided DEF LastInv
  <2>4. QED  BY <2>1, <2>2, <2>3, MergeAgain DEF MergeInv
<1>2. QED
  BY <1>1, MergeInit, MergeNext, LastInit, LastNext, PTL DEF Spec, RerunChangesNothing

(***************************************************************************)
(* The reports.                                                            *)
(***************************************************************************)

LEMMA KeysFinite ==
    ASSUME NEW S, IsFiniteSet(S)
    PROVE  IsFiniteSet(KeysOf(S)) /\ Cardinality(KeysOf(S)) \in Nat
<1> DEFINE f == [c \in S |-> c.key]
<1>1. f \in Surjection(S, KeysOf(S))
  BY DEF Surjection, KeysOf
<1>2. IsFiniteSet(KeysOf(S))
  BY <1>1, FS_Surjection
<1>3. QED  BY <1>2, FS_CardinalityType

\* A MERGE replaces rows and adds rows, at most one for each key it offers.
LEMMA MergeGrows ==
    ASSUME NEW T, IsFiniteSet(T), Unique(T), NEW S, IsFiniteSet(S), NEW W \in Dedupe(S)
    PROVE  /\ IsFiniteSet(MergeInto(T, W))
           /\ Cardinality(T) <= Cardinality(MergeInto(T, W))
           /\ Cardinality(MergeInto(T, W)) <= Cardinality(T) + Cardinality(KeysOf(S))
<1> DEFINE U == MergeInto(T, W)
           old == {t \in T : \A w \in W : w.key # t.key}
<1>1. PICK f \in [KeysOf(S) -> S] :
         /\ \A k \in KeysOf(S) : f[k].key = k
         /\ W = {Row(f[k]) : k \in KeysOf(S)}
  BY DedupeKeeps
<1>2. IsFiniteSet(W) /\ Cardinality(W) <= Cardinality(KeysOf(S)) /\ Cardinality(KeysOf(S)) \in Nat
  <2> DEFINE g == [k \in KeysOf(S) |-> Row(f[k])]
  <2>1. g \in Surjection(KeysOf(S), W)
    BY <1>1 DEF Surjection
  <2>2. QED  BY <2>1, KeysFinite, FS_Surjection
<1>3. IsFiniteSet(old) /\ Cardinality(old) <= Cardinality(T)
  BY FS_Subset
<1>4. U = old \cup W
  BY DEF MergeInto
<1> HIDE DEF U, old
<1>5. /\ IsFiniteSet(U)
      /\ Cardinality(U) = Cardinality(old) + Cardinality(W) - Cardinality(old \cap W)
  BY <1>2, <1>3, <1>4, FS_Union
<1>6. /\ Cardinality(old) \in Nat /\ Cardinality(W) \in Nat /\ Cardinality(T) \in Nat
      /\ Cardinality(U) \in Nat /\ Cardinality(old \cap W) \in Nat
  BY <1>2, <1>3, <1>5, FS_CardinalityType, FS_Intersection
<1>7. Cardinality(T) <= Cardinality(U)
  <2>1. \A t \in T : \E u \in U : u.key = t.key
    BY <1>4 DEF old
  <2> DEFINE heir == [t \in T |-> CHOOSE u \in U : u.key = t.key]
  <2>2. \A t \in T : heir[t] \in U /\ heir[t].key = t.key
    BY <2>1
  <2>3. heir \in [T -> U]
    BY <2>2
  <2> HIDE DEF heir
  <2>4. \A t, u \in T : heir[t] = heir[u] => t = u
    BY <2>2 DEF Unique
  <2>5. heir \in Injection(T, U)
    BY <2>3, <2>4 DEF Injection, IsInjective
  <2>6. QED  BY <1>5, <2>5, FS_Injection
<1>8. Cardinality(U) <= Cardinality(T) + Cardinality(KeysOf(S))
  BY <1>2, <1>3, <1>5, <1>6
<1>9. QED  BY <1>5, <1>7, <1>8 DEF U

Report == [staged : Nat, merged : Nat, before : Nat, after : Nat]

\* A MERGE leaves no key out, neither of the table nor of the copies it has read.
LEMMA MergeKeys ==
    ASSUME NEW T, NEW S, NEW W \in Dedupe(S)
    PROVE  KeysOf(MergeInto(T, W)) = KeysOf(T) \cup KeysOf(S)
<1>1. PICK f \in [KeysOf(S) -> S] :
         /\ \A k \in KeysOf(S) : f[k].key = k
         /\ W = {Row(f[k]) : k \in KeysOf(S)}
  BY DedupeKeeps
<1>2. \A w \in W : w.key \in KeysOf(S)
  BY <1>1 DEF Row
<1>3. ASSUME NEW k \in KeysOf(S)  PROVE \E w \in W : w.key = k
  <2>1. Row(f[k]) \in W /\ Row(f[k]).key = f[k].key
    BY <1>1 DEF Row
  <2>2. QED  BY <1>1, <2>1
<1> DEFINE U == MergeInto(T, W)
<1>4. \A u \in U : u \in T \/ u \in W
  BY DEF MergeInto
<1>5. \A t \in T : \E u \in U : u.key = t.key
  BY DEF MergeInto
<1>6. \A w \in W : w \in U
  BY DEF MergeInto
<1> HIDE DEF U
<1>7. KeysOf(U) = KeysOf(T) \cup KeysOf(S)
  <2>1. KeysOf(U) = {u.key : u \in U} /\ KeysOf(T) = {t.key : t \in T}
    BY DEF KeysOf
  <2>2. QED  BY <1>2, <1>3, <1>4, <1>5, <1>6, <2>1
<1>8. QED  BY <1>7 DEF U

(***************************************************************************)
(* What a load has counted of its staging path: what it lists, until its   *)
(* MERGE has read it; from then on what it has read.  The step, the        *)
(* report, what is listed and the offer are parameters, so that an action  *)
(* that leaves them alone visibly leaves the statement alone.              *)
(***************************************************************************)
Staged(where, rep, listed, off) ==
    /\ where \in {"staged", "projected", "counted"} => rep.staged = Cardinality(listed)
    /\ where \in {"projected", "counted"} => rep.merged = Cardinality(KeysOf(listed))
    /\ where \in {"merging", "merged", "reported"} =>
          rep.staged = Cardinality(off) /\ rep.merged = Cardinality(KeysOf(off))

\* What the report of a load says of the table T, while no other load has committed
\* since its first count
Told(where, else, rep, off, T) ==
    /\ where \in {"merged", "reported"} => KeysOf(off) \subseteq KeysOf(T)
    /\ else = "no" =>
        /\ where \in {"counted", "merging"} => rep.before = Cardinality(T)
        /\ where \in {"merged", "reported"} =>
              /\ rep.before <= Cardinality(T)
              /\ Cardinality(T) <= rep.before + Cardinality(KeysOf(off))
        /\ where = "reported" => rep.after = Cardinality(T)

StagedInv ==
    /\ rewritten \in [Loaders -> BOOLEAN]
    /\ files \in [Loaders -> SUBSET {c.file : c \in Copies}]
    /\ \A l \in Loaders : ~rewritten[l] => Staged(pc[l], report[l], Listed(l), offer[l])

CountInv ==
    /\ pc \in [Loaders -> Steps]
    /\ others \in [Loaders -> {"no", "aside", "during"}]
    /\ report \in [Loaders -> Report]
    /\ IsFiniteSet(table)
    /\ \A p \in Paths : IsFiniteSet(staged[p])
    /\ \A l \in Loaders : IsFiniteSet(offer[l])
    /\ \A l \in Loaders : Told(pc[l], others[l], report[l], offer[l], table)

LEMMA CountInit == Init => CountInv
<1> SUFFICES ASSUME Init  PROVE CountInv
  OBVIOUS
<1>1. IsFiniteSet({})
  BY FS_EmptySet
<1>2. QED  BY <1>1, StagingsAssumption DEF Init, CountInv, NoReport, Report, Told, Steps

\* A step of one load that leaves the table alone says nothing of the others.
LEMMA ToldOf ==
    ASSUME CountInv, NEW l \in Loaders, table' = table,
           \A m \in Loaders \ {l} : /\ pc'[m] = pc[m] /\ others'[m] = others[m]
                                    /\ report'[m] = report[m] /\ offer'[m] = offer[m],
           Told(pc'[l], others'[l], report'[l], offer'[l], table)
    PROVE  \A m \in Loaders : Told(pc'[m], others'[m], report'[m], offer'[m], table')
<1> SUFFICES ASSUME NEW m \in Loaders
             PROVE  Told(pc'[m], others'[m], report'[m], offer'[m], table)
  OBVIOUS
<1>1. CASE m = l
  BY <1>1
<1>2. CASE m # l
  BY <1>2 DEF CountInv
<1>3. QED  BY <1>1, <1>2

\* A load that has ended has told nothing yet.
LEMMA EndTells ==
    ASSUME MergeInv, CountInv, NEW l \in Loaders, End(l, others), UNCHANGED <<staged, table, path>>
    PROVE  CountInv'
<1>1. /\ pc'[l] = "idle" /\ report' \in [Loaders -> Report] /\ IsFiniteSet(offer'[l])
      /\ \A m \in Loaders \ {l} : /\ pc'[m] = pc[m] /\ report'[m] = report[m]
                                  /\ offer'[m] = offer[m] /\ others'[m] = others[m]
      /\ pc' \in [Loaders -> Steps]
      /\ others' \in [Loaders -> {"no", "aside", "during"}]
  <2>1. IsFiniteSet({}) /\ NoReport \in Report
    BY FS_EmptySet DEF NoReport, Report
  <2>2. QED  BY <2>1 DEF End, Forget, CountInv, MergeInv, OffersInv, Steps
<1>2. Told(pc'[l], others'[l], report'[l], offer'[l], table)
  BY <1>1 DEF Told
<1>3. \A m \in Loaders : Told(pc'[m], others'[m], report'[m], offer'[m], table')
  BY <1>1, <1>2, ToldOf
<1>4. \A m \in Loaders : IsFiniteSet(offer'[m])
  BY <1>1 DEF CountInv
<1>5. QED  BY <1>1, <1>3, <1>4 DEF CountInv

\* What a load lists is finite.
LEMMA ListedFinite ==
    ASSUME MergeInv, CountInv, NEW l \in Loaders
    PROVE  /\ IsFiniteSet(Listed(l)) /\ Cardinality(Listed(l)) \in Nat
           /\ Cardinality(KeysOf(Listed(l))) \in Nat
<1>1. Listed(l) \in SUBSET staged[path[l]] /\ IsFiniteSet(staged[path[l]])
  BY DEF Listed, MergeInv, OffersInv, CountInv
<1>2. IsFiniteSet(Listed(l))
  BY <1>1, FS_Subset
<1>3. QED  BY <1>2, KeysFinite, FS_CardinalityType

\* Every action keeps the reports true: a commit of another load silences them.
LEMMA CountNext == ASSUME MergeInv, CountInv, [Next]_vars  PROVE CountInv'
<1>1. /\ pc \in [Loaders -> Steps]
      /\ others \in [Loaders -> {"no", "aside", "during"}]
      /\ report \in [Loaders -> Report]
      /\ IsFiniteSet(table) /\ Cardinality(table) \in Nat
      /\ (\A p \in Paths : IsFiniteSet(staged[p]))
      /\ (\A l \in Loaders : IsFiniteSet(offer[l]))
      /\ (\A l \in Loaders : Told(pc[l], others[l], report[l], offer[l], table))
  BY FS_CardinalityType DEF CountInv
<1>2. /\ staged \in [Paths -> SUBSET Copies] /\ path \in [Loaders -> Paths]
      /\ offer \in [Loaders -> SUBSET Copies] /\ Unique(table)
  BY DEF MergeInv, OffersInv
<1>3. CASE \E p \in Paths : Restage(p)
  <2>1. PICK p \in Paths, S \in Stagings : staged' = [staged EXCEPT ![p] = S]
    BY <1>3 DEF Restage
  <2>2. \A q \in Paths : IsFiniteSet(staged'[q])
    BY <1>1, <1>2, <2>1, StagingsAssumption
  <2>3. UNCHANGED <<table, pc, offer, others, report>>
    BY <1>3 DEF Restage, loads
  <2>4. QED  BY <1>1, <2>2, <2>3 DEF CountInv
<1>4. CASE \E l \in Loaders : ListStaging(l)
  <2>1. PICK l \in Loaders : ListStaging(l)
    BY <1>4
  <2>2. /\ pc' = [pc EXCEPT ![l] = "listed"]
        /\ UNCHANGED <<staged, table, offer, report, others>>
    BY <2>1 DEF ListStaging
  <2>3. pc' \in [Loaders -> Steps]
    BY <1>1, <2>2 DEF Steps
  <2>4. Told(pc'[l], others'[l], report'[l], offer'[l], table)
    BY <1>1, <2>2 DEF Told
  <2>5. \A m \in Loaders : Told(pc'[m], others'[m], report'[m], offer'[m], table')
    BY <1>1, <2>2, <2>4, ToldOf
  <2>6. QED  BY <1>1, <2>2, <2>3, <2>5 DEF CountInv
<1>5. CASE \E l \in Loaders : CountStaged(l) \/ CountMerged(l) \/ CountBefore(l)
  <2>1. PICK l \in Loaders : CountStaged(l) \/ CountMerged(l) \/ CountBefore(l)
    BY <1>5
  <2>2. /\ UNCHANGED <<staged, table, offer, others>>
        /\ \E step \in {"staged", "projected", "counted"} :
              pc' = [pc EXCEPT ![l] = step] /\ (step = "counted" => CountBefore(l))
        /\ \E rep \in Report :
              report' = [report EXCEPT ![l] = rep] /\ (CountBefore(l) => rep.before = Cardinality(table))
    <3>1. Cardinality(Listed(l)) \in Nat /\ Cardinality(KeysOf(Listed(l))) \in Nat
      BY ListedFinite
    <3>2. report[l] \in Report
      BY <1>1
    <3>3. CASE CountStaged(l)
      <4>1. [report[l] EXCEPT !.staged = Cardinality(Listed(l))] \in Report
        BY <3>1, <3>2 DEF Report
      <4>2. ~CountBefore(l)
        BY <3>3 DEF CountStaged, CountBefore
      <4>3. QED  BY <3>3, <4>1, <4>2, <1>1 DEF CountStaged
    <3>4. CASE CountMerged(l)
      <4>1. [report[l] EXCEPT !.merged = Cardinality(KeysOf(Listed(l)))] \in Report
        BY <3>1, <3>2 DEF Report
      <4>2. ~CountBefore(l)
        BY <3>4 DEF CountMerged, CountBefore
      <4>3. QED  BY <3>4, <4>1, <4>2, <1>1 DEF CountMerged
    <3>5. CASE CountBefore(l)
      <4>1. /\ [report[l] EXCEPT !.before = Cardinality(table)] \in Report
            /\ [report[l] EXCEPT !.before = Cardinality(table)].before = Cardinality(table)
        BY <1>1, <3>2 DEF Report
      <4>2. QED  BY <3>5, <4>1, <1>1 DEF CountBefore
    <3>6. QED  BY <2>1, <3>3, <3>4, <3>5
  <2>3. pc' \in [Loaders -> Steps] /\ report' \in [Loaders -> Report]
    BY <1>1, <2>2 DEF Steps
  <2>4. Told(pc'[l], others'[l], report'[l], offer'[l], table)
    BY <1>1, <2>2 DEF Told
  <2>5. \A m \in Loaders : Told(pc'[m], others'[m], report'[m], offer'[m], table')
    BY <1>1, <2>2, <2>4, ToldOf
  <2>6. QED  BY <1>1, <2>2, <2>3, <2>5 DEF CountInv
<1>6. CASE \E l \in Loaders : StartMerge(l)
  <2>1. PICK l \in Loaders : StartMerge(l)
    BY <1>6
  <2>2. /\ pc[l] = "counted" /\ pc' = [pc EXCEPT ![l] = "merging"]
        /\ offer' = [offer EXCEPT ![l] = Listed(l)]
        /\ UNCHANGED <<staged, table, others, report>>
    BY <2>1 DEF StartMerge
  <2>3. IsFiniteSet(Listed(l))
    <3>1. Listed(l) \in SUBSET staged[path[l]] /\ IsFiniteSet(staged[path[l]])
      BY <1>1, <1>2 DEF Listed
    <3>2. QED  BY <3>1, FS_Subset
  <2>4. (\A m \in Loaders : IsFiniteSet(offer'[m])) /\ pc' \in [Loaders -> Steps]
    BY <1>1, <1>2, <2>2, <2>3 DEF Steps
  <2>5. Told(pc'[l], others'[l], report'[l], offer'[l], table)
    BY <1>1, <2>2 DEF Told
  <2>6. \A m \in Loaders : Told(pc'[m], others'[m], report'[m], offer'[m], table')
    BY <1>1, <1>2, <2>2, <2>5, ToldOf
  <2>7. QED  BY <1>1, <2>2, <2>4, <2>6 DEF CountInv
<1>7. CASE \E l \in Loaders : LoseFile(l) \/ FailMerge(l) \/ EndLoad(l)
  BY <1>7, EndTells DEF LoseFile, FailMerge, EndLoad
<1>8. CASE \E l \in Loaders : CommitMerge(l)
  <2>1. PICK l \in Loaders : CommitMerge(l)
    BY <1>8
  <2>2. PICK W \in Dedupe(offer[l]) : table' = MergeInto(table, W)
    BY <2>1 DEF CommitMerge
  <2>3. /\ IsFiniteSet(table') /\ Cardinality(table) <= Cardinality(table')
        /\ Cardinality(table') <= Cardinality(table) + Cardinality(KeysOf(offer[l]))
    BY <1>1, <1>2, <2>2, MergeGrows
  <2>4. KeysOf(table) \subseteq KeysOf(table') /\ KeysOf(offer[l]) \subseteq KeysOf(table')
    BY <2>2, MergeKeys
  <2>5. /\ pc[l] \in {"merging", "orphan"} /\ staged' = staged
        /\ \A m \in Loaders \ {l} : others'[m] = Overtaken(l)[m]
        /\ others' \in [Loaders -> {"no", "aside", "during"}]
    <3>1. Overtaken(l) \in [Loaders -> {"no", "aside", "during"}]
      BY <1>1 DEF Overtaken
    <3>2. QED  BY <1>1, <2>1, <3>1 DEF CommitMerge, End
  <2>6. ASSUME NEW m \in Loaders \ {l}, pc'[m] = pc[m], report'[m] = report[m], offer'[m] = offer[m]
        PROVE  Told(pc'[m], others'[m], report'[m], offer'[m], table')
    <3>1. CASE pc[m] \in {"counted", "merging", "merged", "reported", "orphan"}
      <4>1. others'[m] # "no"
        BY <2>5, <3>1 DEF Overtaken
      <4>2. QED  BY <1>1, <2>4, <2>6, <4>1 DEF Told
    <3>2. CASE pc[m] \notin {"counted", "merging", "merged", "reported", "orphan"}
      BY <2>6, <3>2 DEF Told
    <3>3. QED  BY <3>1, <3>2
  <2>7. CASE pc[l] = "merging"
    <3>1. /\ pc' = [pc EXCEPT ![l] = "merged"] /\ others'[l] = others[l]
          /\ UNCHANGED <<offer, report>>
      BY <2>1, <2>7 DEF CommitMerge, Overtaken
    <3>2. pc' \in [Loaders -> Steps]
      BY <1>1, <3>1 DEF Steps
    <3>3. Told(pc'[l], others'[l], report'[l], offer'[l], table')
      BY <1>1, <2>3, <2>4, <2>7, <3>1 DEF Told
    <3>4. \A m \in Loaders : Told(pc'[m], others'[m], report'[m], offer'[m], table')
      BY <1>1, <2>6, <3>1, <3>3
    <3>5. QED  BY <1>1, <2>3, <2>5, <3>1, <3>2, <3>4 DEF CountInv
  <2>8. CASE pc[l] = "orphan"
    <3>1. /\ pc' = [pc EXCEPT ![l] = "idle"] /\ offer' = [offer EXCEPT ![l] = {}]
          /\ report' = [report EXCEPT ![l] = NoReport]
      BY <2>1, <2>8 DEF CommitMerge, End, Forget
    <3>2. IsFiniteSet({}) /\ NoReport \in Report
      BY FS_EmptySet DEF NoReport, Report
    <3>3. /\ pc' \in [Loaders -> Steps] /\ report' \in [Loaders -> Report]
          /\ \A m \in Loaders : IsFiniteSet(offer'[m])
      BY <1>1, <1>2, <3>1, <3>2 DEF Steps
    <3>4. Told(pc'[l], others'[l], report'[l], offer'[l], table')
      BY <1>1, <3>1 DEF Told
    <3>5. \A m \in Loaders : Told(pc'[m], others'[m], report'[m], offer'[m], table')
      BY <1>1, <1>2, <2>6, <3>1, <3>4
    <3>6. QED  BY <1>1, <2>3, <2>5, <3>3, <3>5 DEF CountInv
  <2>9. QED  BY <2>5, <2>7, <2>8
<1>9. CASE \E l \in Loaders : CountAfter(l)
  <2>1. PICK l \in Loaders : CountAfter(l)
    BY <1>9
  <2>2. /\ pc[l] = "merged" /\ pc' = [pc EXCEPT ![l] = "reported"]
        /\ report' = [report EXCEPT ![l].after = Cardinality(table)]
        /\ UNCHANGED <<staged, table, offer, others>>
    BY <2>1 DEF CountAfter
  <2>3. report'[l] = [report[l] EXCEPT !.after = Cardinality(table)] /\ report[l] \in Report
    BY <1>1, <2>2
  <2>4. /\ report'[l] \in Report /\ report'[l].after = Cardinality(table)
        /\ report'[l].before = report[l].before
    BY <1>1, <2>3 DEF Report
  <2>5. report' \in [Loaders -> Report] /\ pc' \in [Loaders -> Steps]
    BY <1>1, <2>2, <2>4 DEF Steps
  <2>6. Told(pc'[l], others'[l], report'[l], offer'[l], table)
    BY <1>1, <2>2, <2>4 DEF Told
  <2>7. \A m \in Loaders : Told(pc'[m], others'[m], report'[m], offer'[m], table')
    BY <1>1, <2>2, <2>6, ToldOf
  <2>8. QED  BY <1>1, <2>2, <2>5, <2>7 DEF CountInv
<1>10. CASE \E l \in Loaders : Drop(l)
  <2>1. PICK l \in Loaders : Drop(l)
    BY <1>10
  <2>2. UNCHANGED <<staged, table, path>>
    BY <2>1 DEF Drop
  <2>3. CASE pc[l] = "merging"
    <3>1. /\ pc' = [pc EXCEPT ![l] = "orphan"] /\ report' = [report EXCEPT ![l] = NoReport]
          /\ UNCHANGED <<offer, others>>
      BY <2>1, <2>3 DEF Drop, Forget
    <3>2. NoReport \in Report
      BY DEF NoReport, Report
    <3>3. pc' \in [Loaders -> Steps] /\ report' \in [Loaders -> Report]
      BY <1>1, <3>1, <3>2 DEF Steps
    <3>4. Told(pc'[l], others'[l], report'[l], offer'[l], table)
      BY <1>1, <3>1 DEF Told
    <3>5. \A m \in Loaders : Told(pc'[m], others'[m], report'[m], offer'[m], table')
      BY <1>1, <2>2, <3>1, <3>4, ToldOf
    <3>6. QED  BY <1>1, <2>2, <3>1, <3>3, <3>5 DEF CountInv
  <2>4. CASE pc[l] # "merging"
    BY <2>1, <2>2, <2>4, EndTells DEF Drop
  <2>5. QED  BY <2>3, <2>4
<1>11. CASE UNCHANGED vars
  BY <1>1, <1>11 DEF vars, loads, CountInv
<1>12. QED
  BY <1>3, <1>4, <1>5, <1>6, <1>7, <1>8, <1>9, <1>10, <1>11 DEF Next

LEMMA StagedInit == Init => StagedInv
BY DEF Init, StagedInv, Staged

\* A step of one load that leaves the staging paths alone says nothing of the others.
LEMMA StagedOf ==
    ASSUME MergeInv, StagedInv, NEW l \in Loaders, staged' = staged,
           files' \in [Loaders -> SUBSET {c.file : c \in Copies}],
           rewritten' \in [Loaders -> BOOLEAN],
           \A m \in Loaders \ {l} : /\ pc'[m] = pc[m] /\ report'[m] = report[m]
                                    /\ offer'[m] = offer[m] /\ path'[m] = path[m]
                                    /\ files'[m] = files[m] /\ rewritten'[m] = rewritten[m],
           ~rewritten'[l] => Staged(pc'[l], report'[l], Listed(l)', offer'[l])
    PROVE  StagedInv'
<1>1. \A m \in Loaders \ {l} : Listed(m)' = Listed(m)
  BY DEF Listed
<1>2. \A m \in Loaders \ {l} :
         ~rewritten'[m] => Staged(pc'[m], report'[m], Listed(m)', offer'[m])
  BY <1>1 DEF StagedInv
<1>3. QED  BY <1>2 DEF StagedInv

\* A load that ends, and a client that goes, have no report.
LEMMA EndStaged ==
    ASSUME MergeInv, CountInv, StagedInv, NEW l \in Loaders, NEW seen, End(l, seen),
           UNCHANGED <<staged, path>>
    PROVE  StagedInv'
<1>1. pc' = [pc EXCEPT ![l] = "idle"] /\ files' = [files EXCEPT ![l] = {}]
      /\ offer' = [offer EXCEPT ![l] = {}] /\ report' = [report EXCEPT ![l] = NoReport]
      /\ rewritten' = [rewritten EXCEPT ![l] = FALSE]
  BY DEF End, Forget
<1>2. /\ pc \in [Loaders -> Steps] /\ report \in [Loaders -> Report]
      /\ offer \in [Loaders -> SUBSET Copies] /\ rewritten \in [Loaders -> BOOLEAN]
      /\ files \in [Loaders -> SUBSET {c.file : c \in Copies}]
  BY DEF CountInv, MergeInv, OffersInv, StagedInv
<1>3. pc'[l] = "idle"
  BY <1>1, <1>2
<1>4. Staged(pc'[l], report'[l], Listed(l)', offer'[l])
  BY <1>3 DEF Staged
<1>5. QED  BY <1>1, <1>2, <1>4, StagedOf

\* Every action keeps the two counts of the staging path true, of a path nobody rewrites.
LEMMA StagedNext == ASSUME MergeInv, CountInv, StagedInv, [Next]_vars  PROVE StagedInv'
<1>1. /\ pc \in [Loaders -> Steps] /\ report \in [Loaders -> Report]
      /\ offer \in [Loaders -> SUBSET Copies] /\ path \in [Loaders -> Paths]
      /\ staged \in [Paths -> SUBSET Copies] /\ rewritten \in [Loaders -> BOOLEAN]
      /\ files \in [Loaders -> SUBSET {c.file : c \in Copies}]
      /\ \A l \in Loaders : ~rewritten[l] => Staged(pc[l], report[l], Listed(l), offer[l])
  BY DEF CountInv, MergeInv, OffersInv, StagedInv
<1>2. CASE \E p \in Paths : Restage(p)
  <2>1. PICK p \in Paths : Restage(p)
    BY <1>2
  <2>2. /\ \E S \in Stagings : staged' = [staged EXCEPT ![p] = S]
        /\ rewritten' = [l \in Loaders |->
              \/ rewritten[l]
              \/ path[l] = p /\ pc[l] \in {"listed", "staged", "projected", "counted"}]
        /\ UNCHANGED <<table, pc, path, files, offer, report, others, last>>
    BY <2>1 DEF Restage
  <2>3. ASSUME NEW l \in Loaders, ~rewritten'[l]
        PROVE  Staged(pc'[l], report'[l], Listed(l)', offer'[l])
    <3>1. ~rewritten[l] /\ ~(path[l] = p /\ pc[l] \in {"listed", "staged", "projected", "counted"})
      BY <2>2, <2>3
    <3>2. Staged(pc[l], report[l], Listed(l), offer[l])
      BY <1>1, <3>1
    <3>3. CASE path[l] = p
      BY <2>2, <3>1, <3>2, <3>3 DEF Staged
    <3>4. CASE path[l] # p
      <4>1. staged'[path'[l]] = staged[path[l]] /\ files'[l] = files[l]
        BY <1>1, <2>2, <3>4
      <4>2. Listed(l)' = Listed(l)
        BY <4>1 DEF Listed
      <4>3. QED  BY <2>2, <3>2, <4>2
    <3>5. QED  BY <3>3, <3>4
  <2>4. rewritten' \in [Loaders -> BOOLEAN]
    BY <1>1, <2>2
  <2>5. QED  BY <1>1, <2>2, <2>3, <2>4 DEF StagedInv
<1>3. CASE \E l \in Loaders : ListStaging(l)
  <2>1. PICK l \in Loaders : ListStaging(l)
    BY <1>3
  <2>2. PICK p \in Paths : /\ path' = [path EXCEPT ![l] = p]
                           /\ files' = [files EXCEPT ![l] = FilesOf(staged[p])]
    BY <2>1 DEF ListStaging
  <2>3. pc' = [pc EXCEPT ![l] = "listed"] /\ UNCHANGED <<staged, offer, report, rewritten>>
    BY <2>1 DEF ListStaging
  <2>4. FilesOf(staged[p]) \in SUBSET {c.file : c \in Copies}
    BY <1>1 DEF FilesOf
  <2>5. files' \in [Loaders -> SUBSET {c.file : c \in Copies}] /\ pc'[l] = "listed"
    BY <1>1, <2>2, <2>3, <2>4
  <2>6. Staged(pc'[l], report'[l], Listed(l)', offer'[l])
    BY <2>5 DEF Staged
  <2>7. QED  BY <1>1, <2>2, <2>3, <2>5, <2>6, StagedOf
<1>4. CASE \E l \in Loaders : CountStaged(l)
  <2>1. PICK l \in Loaders : CountStaged(l)
    BY <1>4
  <2>2. /\ pc[l] = "listed" /\ pc' = [pc EXCEPT ![l] = "staged"]
        /\ report' = [report EXCEPT ![l].staged = Cardinality(Listed(l))]
        /\ UNCHANGED <<staged, path, files, offer, rewritten>>
    BY <2>1 DEF CountStaged
  <2>3. Listed(l)' = Listed(l)
    BY <2>2 DEF Listed
  <2>4. pc'[l] = "staged" /\ report'[l].staged = Cardinality(Listed(l))
    <3>1. report'[l] = [report[l] EXCEPT !.staged = Cardinality(Listed(l))]
      BY <1>1, <2>2
    <3>2. QED  BY <1>1, <2>2, <3>1 DEF Report
  <2>5. Staged(pc'[l], report'[l], Listed(l)', offer'[l])
    BY <2>3, <2>4 DEF Staged
  <2>6. QED  BY <1>1, <2>2, <2>5, StagedOf
<1>5. CASE \E l \in Loaders : CountMerged(l)
  <2>1. PICK l \in Loaders : CountMerged(l)
    BY <1>5
  <2>2. /\ pc[l] = "staged" /\ pc' = [pc EXCEPT ![l] = "projected"]
        /\ report' = [report EXCEPT ![l].merged = Cardinality(KeysOf(Listed(l)))]
        /\ UNCHANGED <<staged, path, files, offer, rewritten>>
    BY <2>1 DEF CountMerged
  <2>3. Listed(l)' = Listed(l)
    BY <2>2 DEF Listed
  <2>4. /\ pc'[l] = "projected" /\ report'[l].staged = report[l].staged
        /\ report'[l].merged = Cardinality(KeysOf(Listed(l)))
    <3>1. report'[l] = [report[l] EXCEPT !.merged = Cardinality(KeysOf(Listed(l)))]
      BY <1>1, <2>2
    <3>2. QED  BY <1>1, <2>2, <3>1 DEF Report
  <2>5. ~rewritten[l] => report[l].staged = Cardinality(Listed(l))
    BY <1>1, <2>2 DEF Staged
  <2>6. ~rewritten'[l] => Staged(pc'[l], report'[l], Listed(l)', offer'[l])
    BY <2>2, <2>3, <2>4, <2>5 DEF Staged
  <2>7. QED  BY <1>1, <2>2, <2>6, StagedOf
<1>6. CASE \E l \in Loaders : CountBefore(l)
  <2>1. PICK l \in Loaders : CountBefore(l)
    BY <1>6
  <2>2. /\ pc[l] = "projected" /\ pc' = [pc EXCEPT ![l] = "counted"]
        /\ report' = [report EXCEPT ![l].before = Cardinality(table)]
        /\ UNCHANGED <<staged, path, files, offer, rewritten>>
    BY <2>1 DEF CountBefore
  <2>3. Listed(l)' = Listed(l)
    BY <2>2 DEF Listed
  <2>4. /\ pc'[l] = "counted" /\ report'[l].staged = report[l].staged
        /\ report'[l].merged = report[l].merged
    <3>1. report'[l] = [report[l] EXCEPT !.before = Cardinality(table)]
      BY <1>1, <2>2
    <3>2. QED  BY <1>1, <2>2, <3>1 DEF Report
  <2>5. ~rewritten'[l] => Staged(pc'[l], report'[l], Listed(l)', offer'[l])
    BY <1>1, <2>2, <2>3, <2>4 DEF Staged
  <2>6. QED  BY <1>1, <2>2, <2>5, StagedOf
<1>7. CASE \E l \in Loaders : StartMerge(l)
  <2>1. PICK l \in Loaders : StartMerge(l)
    BY <1>7
  <2>2. /\ pc[l] = "counted" /\ pc' = [pc EXCEPT ![l] = "merging"]
        /\ offer' = [offer EXCEPT ![l] = Listed(l)]
        /\ UNCHANGED <<staged, path, files, report, rewritten>>
    BY <2>1 DEF StartMerge
  <2>3. pc'[l] = "merging" /\ offer'[l] = Listed(l)
    BY <1>1, <2>2
  <2>4. ~rewritten'[l] => Staged(pc'[l], report'[l], Listed(l)', offer'[l])
    BY <1>1, <2>2, <2>3 DEF Staged
  <2>5. QED  BY <1>1, <2>2, <2>4, StagedOf
<1>8. CASE \E l \in Loaders : LoseFile(l) \/ FailMerge(l) \/ EndLoad(l)
  BY <1>8, EndStaged DEF LoseFile, FailMerge, EndLoad
<1>9. CASE \E l \in Loaders : CommitMerge(l)
  <2>1. PICK l \in Loaders : CommitMerge(l)
    BY <1>9
  <2>2. pc[l] \in {"merging", "orphan"} /\ UNCHANGED <<staged, path>>
    BY <2>1 DEF CommitMerge
  <2>3. CASE pc[l] = "merging"
    <3>1. /\ pc' = [pc EXCEPT ![l] = "merged"]
          /\ UNCHANGED <<files, offer, report, rewritten>>
      BY <2>1, <2>3 DEF CommitMerge
    <3>2. ~rewritten'[l] => Staged(pc'[l], report'[l], Listed(l)', offer'[l])
      BY <1>1, <2>3, <3>1 DEF Staged
    <3>3. QED  BY <1>1, <2>2, <3>1, <3>2, StagedOf
  <2>4. CASE pc[l] = "orphan"
    BY <2>1, <2>2, <2>4, EndStaged DEF CommitMerge
  <2>5. QED  BY <2>2, <2>3, <2>4
<1>10. CASE \E l \in Loaders : CountAfter(l)
  <2>1. PICK l \in Loaders : CountAfter(l)
    BY <1>10
  <2>2. /\ pc[l] = "merged" /\ pc' = [pc EXCEPT ![l] = "reported"]
        /\ report' = [report EXCEPT ![l].after = Cardinality(table)]
        /\ UNCHANGED <<staged, path, files, offer, rewritten>>
    BY <2>1 DEF CountAfter
  <2>3. /\ pc'[l] = "reported" /\ report'[l].staged = report[l].staged
        /\ report'[l].merged = report[l].merged
    <3>1. report'[l] = [report[l] EXCEPT !.after = Cardinality(table)]
      BY <1>1, <2>2
    <3>2. QED  BY <1>1, <2>2, <3>1 DEF Report
  <2>4. ~rewritten'[l] => Staged(pc'[l], report'[l], Listed(l)', offer'[l])
    BY <1>1, <2>2, <2>3 DEF Staged
  <2>5. QED  BY <1>1, <2>2, <2>4, StagedOf
<1>11. CASE \E l \in Loaders : Drop(l)
  <2>1. PICK l \in Loaders : Drop(l)
    BY <1>11
  <2>2. UNCHANGED <<staged, path>>
    BY <2>1 DEF Drop
  <2>3. CASE pc[l] = "merging"
    <3>1. /\ pc' = [pc EXCEPT ![l] = "orphan"] /\ report' = [report EXCEPT ![l] = NoReport]
          /\ rewritten' = [rewritten EXCEPT ![l] = FALSE] /\ UNCHANGED <<files, offer>>
      BY <2>1, <2>3 DEF Drop, Forget
    <3>2. pc'[l] = "orphan"
      BY <1>1, <3>1
    <3>3. Staged(pc'[l], report'[l], Listed(l)', offer'[l])
      BY <3>2 DEF Staged
    <3>4. QED  BY <1>1, <2>2, <3>1, <3>3, StagedOf
  <2>4. CASE pc[l] # "merging"
    BY <2>1, <2>2, <2>4, EndStaged DEF Drop
  <2>5. QED  BY <2>3, <2>4
<1>12. CASE UNCHANGED vars
  <2>1. UNCHANGED <<staged, pc, path, files, offer, report, rewritten>>
    BY <1>12 DEF vars, loads
  <2>2. \A l \in Loaders : Listed(l)' = Listed(l)
    BY <2>1 DEF Listed
  <2>3. QED  BY <1>1, <2>1, <2>2 DEF StagedInv
<1>13. QED
  BY <1>2, <1>3, <1>4, <1>5, <1>6, <1>7, <1>8, <1>9, <1>10, <1>11, <1>12 DEF Next

\* What a load reports is true of what its MERGE has done: the keys it has read are in
\* the table, its two counts of the staging path are of the copies it has read unless the
\* path was rewritten, and its two counts of the table add up unless another load
\* committed in between.
THEOREM ReportsTrue == Spec => []ReportsAddUp
<1>1. CountInv /\ StagedInv => ReportsAddUp
  <2> SUFFICES ASSUME CountInv, StagedInv, NEW l \in Loaders, pc[l] = "reported"
               PROVE  /\ KeysOf(offer[l]) \subseteq KeysOf(table)
                      /\ ~rewritten[l] =>
                            /\ report[l].staged = Cardinality(offer[l])
                            /\ report[l].merged = Cardinality(KeysOf(offer[l]))
                      /\ others[l] = "no" =>
                            /\ report[l].after = Cardinality(table)
                            /\ report[l].before <= report[l].after
                            /\ report[l].after <= report[l].before + Cardinality(KeysOf(offer[l]))
    BY DEF ReportsAddUp
  <2>1. Told(pc[l], others[l], report[l], offer[l], table)
    BY DEF CountInv
  <2>2. ~rewritten[l] => Staged(pc[l], report[l], Listed(l), offer[l])
    BY DEF StagedInv
  <2>3. QED  BY <2>1, <2>2 DEF Told, Staged
<1>2. MergeInv /\ CountInv /\ StagedInv /\ [Next]_vars => CountInv' /\ StagedInv'
  BY CountNext, StagedNext
<1>3. QED
  BY <1>1, <1>2, MergeInit, MergeNext, CountInit, StagedInit, PTL DEF Spec
=============================================================================
