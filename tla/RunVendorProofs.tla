--------------------------- MODULE RunVendorProofs ---------------------------
(* Proofs about RunVendor, for any partitions, snapshots, batch sizes and any   *)
(* number of commands and crashes, and about LandingReader, which is how a      *)
(* command gets the snapshots it runs on, for any partitions and fetches.       *)
EXTENDS RunVendor, LandingReader, WellFoundedInduction, TLAPS

(***************************************************************************)
(* Type correctness.                                                       *)
(***************************************************************************)

LEMMA RowsOnType ==
    ASSUME NEW p \in Parts, NEW s \in Seq(Record), NEW z, NEW b, NEW d
    PROVE  RowsOn(p, s, z, b, d) \subseteq Written
<1> SUFFICES ASSUME NEW j \in Batch(s, z, b)  PROVE Item(p, s, j) \in Written
  BY DEF RowsOn
<1>1. j \in 1 .. Len(s) /\ s[j] \in Record
  BY DEF Batch
<1>2. QED  BY <1>1 DEF Item, Written

LEMMA DaysOfType ==
    ASSUME NEW s \in Seq(Record), NEW z, NEW b
    PROVE  DaysOf(s, z, b) \subseteq Days
<1> SUFFICES ASSUME NEW j \in Batch(s, z, b)  PROVE s[j].day \in Days
  BY DEF DaysOf
<1>1. j \in 1 .. Len(s) /\ s[j] \in Record
  BY DEF Batch
<1>2. QED  BY <1>1 DEF Record

LEMMA NewSessionsType ==
    ASSUME TypeOK
    PROVE  /\ {snap[i].session : i \in NewSessions} \subseteq SessionIds
           /\ {Item(part, snap, i) : i \in NewSessions} \subseteq Written
<1> SUFFICES ASSUME NEW i \in NewSessions
             PROVE  snap[i].session \in SessionIds /\ Item(part, snap, i) \in Written
  OBVIOUS
<1>1. i \in DOMAIN snap /\ snap[i].session # NoSession
  BY DEF NewSessions, BatchSessions, Batch
<1>2. i \in 1 .. Len(snap) /\ snap[i] \in Record
  BY <1>1 DEF TypeOK
<1>3. QED  BY <1>1, <1>2 DEF TypeOK, Item, Written, Record

\* Init establishes the types.
LEMMA InitType == Init => TypeOK
<1> SUFFICES ASSUME Init PROVE TypeOK
  OBVIOUS
<1>1. landed \in [Parts -> Seq(Record)]
  <2>1. \A p \in Parts : landed[p] \in Seq(Record)
    BY PayloadsAssumption DEF Init
  <2>2. QED  BY <2>1 DEF Init
<1>2. QED  BY <1>1 DEF Init, TypeOK

RowPaths == {Tag[p] : p \in Parts} \X Nat \X Days
SessionPaths == {Tag[p] : p \in Parts} \X Nat

\* A well-typed dataset: its paths, and what its files hold
Dataset(ds, paths) ==
    \A k \in DOMAIN ds : k \in paths /\ (ds[k] = Torn \/ ds[k] \subseteq Written)

LEMMA PutType ==
    ASSUME NEW ds, NEW paths, Dataset(ds, paths), NEW path \in paths,
           NEW c, c = Torn \/ c \subseteq Written
    PROVE  Dataset(Put(ds, path, c), paths)
<1> DEFINE new == Put(ds, path, c)
<1>1. /\ DOMAIN new = DOMAIN ds \cup {path}
      /\ new[path] = c
      /\ \A k \in DOMAIN ds : k # path => new[k] = ds[k]
  BY DEF Put
<1> HIDE DEF new
<1> SUFFICES ASSUME NEW k \in DOMAIN new
             PROVE  k \in paths /\ (new[k] = Torn \/ new[k] \subseteq Written)
  BY DEF Dataset, new
<1>2. CASE k = path
  BY <1>1, <1>2
<1>3. CASE k # path
  BY <1>1, <1>3 DEF Dataset
<1>4. QED  BY <1>2, <1>3

LEMMA TypeIs ==
    TypeOK <=> /\ landed \in [Parts -> Seq(Record)]
               /\ pc \in {"idle", "open", "batch", "write"}
               /\ queue \subseteq Parts /\ part \in Parts
               /\ snap \in Seq(Record) /\ size \in Sizes /\ batch \in Nat
               /\ toWrite \subseteq Days /\ seen \subseteq SessionIds
               /\ Dataset(rowFiles, RowPaths) /\ Dataset(sessionFiles, SessionPaths)
               /\ done \in [Parts -> Pass \cup {None}]
               /\ attempts \in [Parts -> SUBSET Pass]
BY DEF TypeOK, Dataset, RowPaths, SessionPaths

\* Every action keeps the types.
LEMMA NextType == TypeOK /\ [Next]_vars => TypeOK'
<1> SUFFICES ASSUME TypeOK, [Next]_vars  PROVE TypeOK'
  OBVIOUS
<1>1. CASE \E p \in Parts : Land(p)
  <2>1. PICK p \in Parts : Land(p)
    BY <1>1
  <2>2. PICK s \in Payloads[p] : landed' = [landed EXCEPT ![p] = s]
    BY <2>1 DEF Land
  <2>3. s \in Seq(Record)
    BY PayloadsAssumption
  <2>4. landed' \in [Parts -> Seq(Record)]
    BY <2>2, <2>3 DEF TypeOK
  <2>5. QED  BY <2>1, <2>4 DEF Land, TypeOK, command, files, history
<1>2. CASE StartCommand
  BY <1>2 DEF StartCommand, TypeOK, files, history
<1>3. CASE OpenPartition
  <2>1. PICK p \in queue :
          /\ part' = p /\ snap' = landed[p] /\ queue' = queue \ {p}
          /\ done' = [done EXCEPT ![p] = None]
          /\ attempts' = [attempts EXCEPT ![p] = @ \cup {[snap |-> landed[p], size |-> size]}]
    BY <1>3 DEF OpenPartition
  <2>2. p \in Parts /\ landed[p] \in Seq(Record) /\ [snap |-> landed[p], size |-> size] \in Pass
    BY DEF TypeOK, Pass
  <2>3. done' \in [Parts -> Pass \cup {None}] /\ attempts' \in [Parts -> SUBSET Pass]
    BY <2>1, <2>2 DEF TypeOK
  <2>4. QED  BY <1>3, <2>1, <2>2, <2>3 DEF OpenPartition, TypeOK, files, SeenPerPartition
<1>4. CASE TransformBatch
  BY <1>4, DaysOfType DEF TransformBatch, TypeOK, files, history
<1>5. CASE AbortCommand
  BY <1>5 DEF AbortCommand, Exit, TypeOK, files, history
<1>6. CASE \E d \in Days : WriteDay(d)
  <2>1. PICK d \in Days : WriteDay(d)
    BY <1>6
  <2>2. <<Tag[part], batch, d>> \in RowPaths
    BY DEF TypeOK, RowPaths
  <2>3. RowsOn(part, snap, size, batch, d) \subseteq Written
    BY RowsOnType DEF TypeOK
  <2>4. Dataset(rowFiles', RowPaths)
    BY <2>1, <2>2, <2>3, TypeIs, PutType DEF WriteDay
  <2>5. Dataset(sessionFiles', SessionPaths)
    BY <2>1, TypeIs DEF WriteDay
  <2>6. QED  BY <2>1, <2>4, <2>5, TypeIs DEF WriteDay, history, TypeOK, Dataset, RowPaths, SessionPaths
<1>7. CASE WriteSessions
  <2>1. <<Tag[part], batch>> \in SessionPaths
    BY DEF TypeOK, SessionPaths
  <2>2. Dataset(sessionFiles', SessionPaths)
    <3>1. CASE NewSessions = {}
      BY <1>7, <3>1, TypeIs DEF WriteSessions
    <3>2. CASE NewSessions # {}
      BY <1>7, <2>1, <3>2, TypeIs, PutType, NewSessionsType DEF WriteSessions
    <3>3. QED  BY <3>1, <3>2
  <2>3. seen' \subseteq SessionIds /\ batch' \in Nat
    BY <1>7, NewSessionsType DEF WriteSessions, TypeOK
  <2>4. QED  BY <1>7, <2>2, <2>3 DEF WriteSessions, history, TypeOK, Dataset, SessionPaths
<1>8. CASE ClosePartition
  <2>1. [snap |-> snap, size |-> size] \in Pass
    BY DEF TypeOK, Pass
  <2>2. done' \in [Parts -> Pass \cup {None}]
    BY <1>8, <2>1 DEF ClosePartition, TypeOK
  <2>3. QED  BY <1>8, <2>2 DEF ClosePartition, TypeOK, files
<1>9. CASE EndCommand
  BY <1>9 DEF EndCommand, Exit, TypeOK, files, history
<1>10. CASE Crash
  <2>1. Exit
    BY <1>10 DEF Crash
  <2>2. Dataset(rowFiles', RowPaths)
    <3>1. PICK days \in SUBSET toWrite :
             rowFiles' = [k \in DOMAIN rowFiles \cup {<<Tag[part], batch, d>> : d \in days} |->
                             IF k \in {<<Tag[part], batch, d>> : d \in days}
                             THEN Torn ELSE rowFiles[k]]
      BY <1>10 DEF Crash
    <3>2. {<<Tag[part], batch, d>> : d \in days} \subseteq RowPaths
      BY DEF TypeOK, RowPaths
    <3>3. QED  BY <3>1, <3>2, TypeIs DEF Dataset
  <2>3. Dataset(sessionFiles', SessionPaths)
    <3>1. <<Tag[part], batch>> \in SessionPaths
      BY DEF TypeOK, SessionPaths
    <3>2. \/ sessionFiles' = sessionFiles
          \/ sessionFiles' = Put(sessionFiles, <<Tag[part], batch>>, Torn)
      BY <1>10 DEF Crash
    <3>3. QED  BY <3>1, <3>2, TypeIs, PutType
  <2>4. QED  BY <2>1, <2>2, <2>3
             DEF Exit, history, TypeOK, Dataset, RowPaths, SessionPaths
<1>11. CASE UNCHANGED vars
  BY <1>11 DEF vars, command, files, history, TypeOK
<1>12. QED
  BY <1>1, <1>2, <1>3, <1>4, <1>5, <1>6, <1>7, <1>8, <1>9, <1>10, <1>11 DEF Next

\* TypeOK holds of every reachable state, however many commands are run and killed.
THEOREM TypeCorrect == Spec => []TypeOK
<1> QED  BY InitType, NextType, PTL DEF Spec

(***************************************************************************)
(* Batches: they cover the partition, and the sessions a pass writes do    *)
(* not depend on where they are cut.                                       *)
(***************************************************************************)

LEMMA Least ==
    ASSUME NEW S, S \subseteq Nat, S # {}
    PROVE  \E n \in S : \A m \in S : n <= m
<1> DEFINE R == OpToRel(<, Nat)
<1>1. IsWellFoundedOn(R, Nat)
  BY NatLessThanWellFounded
<1>2. \A x, y \in Nat : <<x, y>> \in R <=> x < y
  BY DEF OpToRel
<1> HIDE DEF R
<1>3. PICK x \in S : \A y \in S : ~(<<y, x>> \in R)
  BY <1>1, WFMin
<1>4. ASSUME NEW y \in S  PROVE x <= y
  <2>1. x \in Nat /\ y \in Nat
    OBVIOUS
  <2>2. ~(y < x)
    BY <1>2, <1>3, <2>1, Zenon
  <2>3. QED  BY <2>1, <2>2
<1>5. QED  BY <1>4

LEMMA Products ==
    ASSUME NEW z \in Nat \ {0}, NEW b \in Nat
    PROVE  b * z \in Nat /\ (b + 1) * z = b * z + z /\ b <= b * z
OBVIOUS

LEMMA ProductsGrow ==
    ASSUME NEW z \in Nat \ {0}, NEW b \in Nat, NEW c \in Nat, b <= c
    PROVE  b * z <= c * z
OBVIOUS

\* The sessions opened by the first n records
Opened(s, n) ==
    {s[i].session : i \in {j \in DOMAIN s : j <= n /\ Survives(s, j) /\ s[j].session # NoSession}}

\* Filtering a batch's sessions by those already opened leaves the records that are
\* the first of the whole partition to open theirs ...
LEMMA NewAreFirst ==
    ASSUME NEW s \in Seq(Record), NEW z \in Nat \ {0}, NEW b \in Nat
    PROVE  {i \in BatchSessions(s, z, b) : s[i].session \notin Opened(s, b * z)}
              = {j \in Batch(s, z, b) : FirstOf(s, j)}
<1> DEFINE n == b * z
<1>1. n \in Nat /\ n = b * z
  BY Products
<1>2. Batch(s, z, b) = {i \in DOMAIN s : n < i /\ i <= n + z}
  BY DEF Batch
<1> HIDE DEF n
<1>3. ASSUME NEW i \in BatchSessions(s, z, b), s[i].session \notin Opened(s, n)
      PROVE  i \in Batch(s, z, b) /\ FirstOf(s, i)
  <2>1. i \in Batch(s, z, b) /\ Survives(s, i) /\ s[i].session # NoSession
    BY DEF BatchSessions
  <2>2. ASSUME NEW j \in DOMAIN s, Survives(s, j), s[j].session = s[i].session  PROVE i <= j
    <3>1. ~(j <= n)
      BY <1>3, <2>1, <2>2 DEF Opened
    <3>2. CASE j <= n + z
      BY <1>1, <1>2, <2>2, <3>1, <3>2 DEF BatchSessions
    <3>3. CASE ~(j <= n + z)
      BY <1>1, <1>2, <2>1, <3>3
    <3>4. QED  BY <3>2, <3>3
  <2>3. QED  BY <2>1, <2>2 DEF FirstOf
<1>4. ASSUME NEW j \in Batch(s, z, b), FirstOf(s, j)
      PROVE  j \in BatchSessions(s, z, b) /\ s[j].session \notin Opened(s, n)
  <2>1. Batch(s, z, b) \subseteq DOMAIN s
    BY DEF Batch
  <2>2. j \in BatchSessions(s, z, b)
    BY <1>4, <2>1 DEF FirstOf, BatchSessions
  <2>3. ASSUME NEW k \in DOMAIN s, k <= n, Survives(s, k), s[k].session = s[j].session
        PROVE  FALSE
    BY <1>1, <1>2, <1>4, <2>3 DEF FirstOf
  <2>4. QED  BY <2>2, <2>3 DEF Opened
<1>5. QED  BY <1>1, <1>3, <1>4

\* ... and adding them gives the sessions opened up to the end of the batch.
LEMMA OpenedGrows ==
    ASSUME NEW s \in Seq(Record), NEW z \in Nat \ {0}, NEW b \in Nat
    PROVE  Opened(s, b * z) \cup {s[i].session : i \in {j \in Batch(s, z, b) : FirstOf(s, j)}}
              = Opened(s, (b + 1) * z)
<1> DEFINE n == b * z
           new == {s[i].session : i \in {j \in Batch(s, z, b) : FirstOf(s, j)}}
<1>1. n \in Nat /\ n = b * z /\ (b + 1) * z = n + z
  BY Products
<1>2. Batch(s, z, b) = {i \in DOMAIN s : n < i /\ i <= n + z}
  BY DEF Batch
<1> HIDE DEF n
<1>3. Opened(s, n) \subseteq Opened(s, n + z)
  BY <1>1 DEF Opened
<1>4. new \subseteq Opened(s, n + z)
  BY <1>1, <1>2 DEF Opened, FirstOf
<1>5. ASSUME NEW k \in DOMAIN s, k <= n + z, Survives(s, k), s[k].session # NoSession
      PROVE  s[k].session \in Opened(s, n) \cup new
  <2> DEFINE same == {j \in DOMAIN s : Survives(s, j) /\ s[j].session = s[k].session}
  <2>1. same \subseteq Nat /\ same # {}
    BY <1>5
  <2>2. PICK i \in same : \A j \in same : i <= j
    <3> HIDE DEF same
    <3> QED  BY <2>1, Least
  <2>3. FirstOf(s, i) /\ i <= k /\ i \in DOMAIN s /\ s[i].session = s[k].session
    BY <1>5, <2>2 DEF FirstOf
  <2>4. CASE i <= n
    BY <1>5, <2>3, <2>4 DEF Opened, FirstOf
  <2>5. CASE ~(i <= n)
    <3>1. i \in Batch(s, z, b)
      BY <1>1, <1>2, <1>5, <2>3, <2>5
    <3>2. QED  BY <2>3, <3>1
  <2>6. QED  BY <2>4, <2>5
<1>6. Opened(s, n + z) \subseteq Opened(s, n) \cup new
  BY <1>5 DEF Opened
<1>7. QED  BY <1>1, <1>3, <1>4, <1>6

(***************************************************************************)
(* A completed pass stands.                                                *)
(***************************************************************************)

\* OutputOfBatch, of two datasets given as arguments
RowsStand(rf, p, s, z, b, d) ==
    <<Tag[p], b, d>> \in DOMAIN rf /\ rf[<<Tag[p], b, d>>] = RowsOn(p, s, z, b, d)
SessionsStand(sf, p, s, z, b) ==
    SessionsIn(p, s, z, b) # {} =>
        <<Tag[p], b>> \in DOMAIN sf /\ sf[<<Tag[p], b>>] = SessionsIn(p, s, z, b)
Stands(rf, sf, p, s, z, b) ==
    (\A d \in DaysOf(s, z, b) : RowsStand(rf, p, s, z, b, d)) /\ SessionsStand(sf, p, s, z, b)

\* The files of one batch keep what the others are overwritten with
Kept(ds, new, tag, b) ==
    \A k \in DOMAIN ds : ~(k[1] = tag /\ k[2] = b) => k \in DOMAIN new /\ new[k] = ds[k]

LEMMA StandsKept ==
    ASSUME NEW rf, NEW rf2, NEW sf, NEW sf2, NEW p, NEW s, NEW z, NEW b, NEW tag, NEW c,
           Kept(rf, rf2, tag, c), Kept(sf, sf2, tag, c),
           Tag[p] # tag \/ b # c,
           Stands(rf, sf, p, s, z, b)
    PROVE  Stands(rf2, sf2, p, s, z, b)
<1>1. ASSUME NEW d \in DaysOf(s, z, b)  PROVE RowsStand(rf2, p, s, z, b, d)
  BY DEF Stands, RowsStand, Kept
<1>2. SessionsStand(sf2, p, s, z, b)
  BY DEF Stands, SessionsStand, Kept
<1>3. QED  BY <1>1, <1>2 DEF Stands

\* A pass over partition p whose first n batches are on disk
Progress(rf, sf, p, s, z, n) ==
    /\ \A b \in Nat : b < n => Stands(rf, sf, p, s, z, b)
    /\ \A i \in DOMAIN s : i <= n * z => \E b \in Nat : b < n /\ i \in Batch(s, z, b)

\* Where the pass in hand is
InHand ==
    /\ done[part] = None
    /\ batch <= Len(snap)
    /\ seen = Opened(snap, batch * size)
    /\ Progress(rowFiles, sessionFiles, part, snap, size, batch)

Writing ==
    /\ Batch(snap, size, batch) # {}
    /\ toWrite \subseteq DaysOf(snap, size, batch)
    /\ \A d \in DaysOf(snap, size, batch) \ toWrite :
          RowsStand(rowFiles, part, snap, size, batch, d)

PassStands(rf, sf, p, pass) ==
    /\ \A i \in DOMAIN pass.snap :
          \E b \in 0 .. Len(pass.snap) : i \in Batch(pass.snap, pass.size, b)
    /\ \A b \in 0 .. Len(pass.snap) : Stands(rf, sf, p, pass.snap, pass.size, b)

RunInv ==
    /\ TypeOK
    /\ pc \in {"batch", "write"} => InHand
    /\ pc = "write" => Writing
    /\ pc # "write" => toWrite = {}
    /\ \A p \in Parts : done[p] # None => PassStands(rowFiles, sessionFiles, p, done[p])

LEMMA PassStandsKept ==
    ASSUME NEW rf, NEW rf2, NEW sf, NEW sf2, NEW p, NEW pass, NEW tag, NEW c,
           Kept(rf, rf2, tag, c), Kept(sf, sf2, tag, c), Tag[p] # tag,
           PassStands(rf, sf, p, pass)
    PROVE  PassStands(rf2, sf2, p, pass)
<1>1. \A b : Stands(rf, sf, p, pass.snap, pass.size, b) => Stands(rf2, sf2, p, pass.snap, pass.size, b)
  BY StandsKept
<1>2. QED  BY <1>1 DEF PassStands

LEMMA ProgressKept ==
    ASSUME NEW rf, NEW rf2, NEW sf, NEW sf2, NEW p, NEW s, NEW z, NEW n \in Nat,
           Kept(rf, rf2, Tag[p], n), Kept(sf, sf2, Tag[p], n),
           Progress(rf, sf, p, s, z, n)
    PROVE  Progress(rf2, sf2, p, s, z, n)
<1>1. \A b \in Nat : b < n /\ Stands(rf, sf, p, s, z, b) => Stands(rf2, sf2, p, s, z, b)
  BY StandsKept
<1>2. QED  BY <1>1 DEF Progress

LEMMA PutIsKept ==
    ASSUME NEW ds, NEW path, NEW c
    PROVE  Kept(ds, Put(ds, path, c), path[1], path[2])
BY DEF Put, Kept

\* A batch is not empty, so there are no more batches than records.
LEMMA BatchBound ==
    ASSUME NEW s \in Seq(Record), NEW z \in Nat \ {0}, NEW b \in Nat, Batch(s, z, b) # {}
    PROVE  b < Len(s)
<1>1. PICK i \in DOMAIN s : b * z < i
  BY DEF Batch
<1>2. i \in Nat /\ i <= Len(s) /\ b <= b * z /\ b * z \in Nat
  BY Products
<1>3. QED  BY <1>1, <1>2

\* The batches that are done, and the batch just written, are the batches that are done.
LEMMA ProgressGrows ==
    ASSUME NEW rf, NEW sf, NEW p, NEW s \in Seq(Record), NEW z \in Nat \ {0}, NEW n \in Nat,
           Progress(rf, sf, p, s, z, n), Stands(rf, sf, p, s, z, n)
    PROVE  Progress(rf, sf, p, s, z, n + 1)
<1>1. n * z \in Nat /\ (n + 1) * z = n * z + z
  BY Products
<1>2. \A b \in Nat : b < n + 1 => b < n \/ b = n
  OBVIOUS
<1>3. \A b \in Nat : b < n + 1 => Stands(rf, sf, p, s, z, b)
  BY <1>2 DEF Progress
<1>4. ASSUME NEW i \in DOMAIN s, i <= (n + 1) * z
      PROVE  \E b \in Nat : b < n + 1 /\ i \in Batch(s, z, b)
  <2>1. CASE i <= n * z
    <3>1. PICK b \in Nat : b < n /\ i \in Batch(s, z, b)
      BY <2>1 DEF Progress
    <3>2. QED  BY <3>1
  <2>2. CASE ~(i <= n * z)
    <3>1. i \in Batch(s, z, n)
      BY <1>1, <1>4, <2>2 DEF Batch
    <3>2. QED  BY <3>1
  <2>3. QED  BY <2>1, <2>2
<1>5. QED  BY <1>3, <1>4 DEF Progress

\* When there is no batch left, the pass is whole.
LEMMA ProgressEnds ==
    ASSUME NEW rf, NEW sf, NEW p, NEW s \in Seq(Record), NEW z \in Nat \ {0}, NEW n \in Nat,
           n <= Len(s), Progress(rf, sf, p, s, z, n), Batch(s, z, n) = {}
    PROVE  PassStands(rf, sf, p, [snap |-> s, size |-> z])
<1>1. n * z \in Nat
  BY Products
<1>2. \A i \in DOMAIN s : i <= n * z
  <2> SUFFICES ASSUME NEW i \in DOMAIN s, ~(i <= n * z)  PROVE FALSE
    OBVIOUS
  <2>1. n * z + 1 \in 1 .. Len(s)
    BY <1>1
  <2>2. n * z + 1 \in Batch(s, z, n)
    BY <1>1, <2>1 DEF Batch
  <2>3. QED  BY <2>2
<1>3. ASSUME NEW b \in 0 .. Len(s)  PROVE Stands(rf, sf, p, s, z, b)
  <2>1. CASE b < n
    BY <2>1 DEF Progress
  <2>2. CASE ~(b < n)
    <3>1. n * z <= b * z /\ b * z \in Nat
      BY <2>2, ProductsGrow, Products
    <3>2. Batch(s, z, b) = {}
      BY <1>1, <1>2, <3>1 DEF Batch
    <3>3. DaysOf(s, z, b) = {} /\ SessionsIn(p, s, z, b) = {}
      BY <3>2 DEF DaysOf, SessionsIn
    <3>4. QED  BY <3>3 DEF Stands, SessionsStand
  <2>3. QED  BY <2>1, <2>2
<1>4. ASSUME NEW i \in DOMAIN s  PROVE \E b \in 0 .. Len(s) : i \in Batch(s, z, b)
  <2>1. PICK b \in Nat : b < n /\ i \in Batch(s, z, b)
    BY <1>2 DEF Progress
  <2>2. QED  BY <2>1
<1>5. QED  BY <1>3, <1>4 DEF PassStands

LEMMA RunInit == Init => RunInv
<1>1. Init => TypeOK
  BY InitType
<1>2. QED  BY <1>1 DEF Init, RunInv

\* A step that writes nothing but files of the batch in hand, while the pass in hand
\* is not a completed one, leaves the completed passes standing.
LEMMA OthersStand ==
    ASSUME TagsDiffer, RunInv, pc \in {"batch", "write"}, done' = done,
           Kept(rowFiles, rowFiles', Tag[part], batch),
           Kept(sessionFiles, sessionFiles', Tag[part], batch)
    PROVE  \A p \in Parts : done'[p] # None => PassStands(rowFiles', sessionFiles', p, done'[p])
<1> SUFFICES ASSUME NEW p \in Parts, done[p] # None
             PROVE  PassStands(rowFiles', sessionFiles', p, done[p])
  OBVIOUS
<1>1. p # part /\ part \in Parts
  BY DEF RunInv, InHand, TypeOK
<1>2. Tag[p] # Tag[part]
  BY <1>1 DEF TagsDiffer
<1>3. PassStands(rowFiles, sessionFiles, p, done[p])
  BY DEF RunInv
<1>4. QED  BY <1>2, <1>3, PassStandsKept

LEMMA SameIsKept == ASSUME NEW ds, NEW tag, NEW b  PROVE Kept(ds, ds, tag, b)
BY DEF Kept

\* Once it is idle a command holds no pass: its completed passes are all there is.
LEMMA RunNext == ASSUME TagsDiffer, RunInv, [Next]_vars  PROVE RunInv'
<1>1. TypeOK /\ TypeOK' /\ size \in Nat \ {0} /\ snap \in Seq(Record) /\ batch \in Nat
  BY NextType, SizesAssumption DEF RunInv, TypeOK
<1> DEFINE Completed == \A p \in Parts : done[p] # None => PassStands(rowFiles, sessionFiles, p, done[p])
<1>2. Completed
  BY DEF RunInv
<1>3. CASE \E p \in Parts : Land(p)
  <2>1. UNCHANGED <<pc, queue, part, snap, size, batch, toWrite, seen, rowFiles, sessionFiles,
                    done, attempts>>
    BY <1>3 DEF Land, command, files, history
  <2>2. QED  BY <1>1, <2>1 DEF RunInv, InHand, Writing
<1>4. CASE StartCommand
  BY <1>1, <1>2, <1>4 DEF StartCommand, RunInv, files, history
<1>5. CASE OpenPartition
  <2>1. /\ pc' = "batch" /\ batch' = 0 /\ seen' = {} /\ size' = size /\ toWrite' = {}
        /\ UNCHANGED <<rowFiles, sessionFiles>>
    BY <1>5 DEF OpenPartition, files, SeenPerPartition
  <2>2. PICK p \in queue : part' = p /\ snap' = landed[p] /\ done' = [done EXCEPT ![p] = None]
    BY <1>5 DEF OpenPartition
  <2>3. p \in Parts /\ done \in [Parts -> Pass \cup {None}] /\ snap' \in Seq(Record)
    BY <1>1, <2>2 DEF TypeOK
  <2>4. done'[part'] = None /\ (\A q \in Parts : done'[q] # None => done'[q] = done[q])
    BY <2>2, <2>3
  <2>5. 0 * size = 0
    BY <1>1
  <2>6. Opened(snap', 0) = {} /\ Progress(rowFiles', sessionFiles', part', snap', size, 0)
    <3>1. \A i \in DOMAIN snap' : ~(i <= 0)
      BY <2>3
    <3>2. QED  BY <2>5, <3>1 DEF Opened, Progress
  <2>7. InHand'
    BY <2>1, <2>3, <2>4, <2>5, <2>6 DEF InHand
  <2>8. \A q \in Parts : done'[q] # None => PassStands(rowFiles', sessionFiles', q, done'[q])
    BY <1>2, <2>1, <2>4
  <2>9. QED  BY <1>1, <2>1, <2>7, <2>8 DEF RunInv
<1>6. CASE TransformBatch
  <2>1. /\ pc = "batch" /\ pc' = "write" /\ Batch(snap, size, batch) # {}
        /\ toWrite' = DaysOf(snap, size, batch)
        /\ UNCHANGED <<part, snap, size, batch, seen, rowFiles, sessionFiles, done>>
    BY <1>6 DEF TransformBatch, files, history
  <2>2. InHand'
    BY <2>1 DEF RunInv, InHand
  <2>3. Writing'
    BY <2>1 DEF Writing
  <2>4. QED  BY <1>1, <1>2, <2>1, <2>2, <2>3 DEF RunInv
<1>7. CASE AbortCommand
  BY <1>1, <1>2, <1>7 DEF AbortCommand, Exit, RunInv, files, history
<1>8. CASE \E d \in Days : WriteDay(d)
  <2>1. PICK d \in toWrite :
           rowFiles' = Put(rowFiles, <<Tag[part], batch, d>>, RowsOn(part, snap, size, batch, d))
           /\ toWrite' = toWrite \ {d}
    BY <1>8 DEF WriteDay
  <2>2. /\ pc = "write" /\ pc' = "write"
        /\ UNCHANGED <<part, snap, size, batch, seen, sessionFiles, done>>
    BY <1>8 DEF WriteDay, history
  <2>3. Kept(rowFiles, rowFiles', Tag[part], batch) /\ Kept(sessionFiles, sessionFiles', Tag[part], batch)
    <3>1. <<Tag[part], batch, d>>[1] = Tag[part] /\ <<Tag[part], batch, d>>[2] = batch
      OBVIOUS
    <3>2. QED  BY <2>1, <2>2, <3>1, PutIsKept, SameIsKept
  <2>4. InHand'
    <3>1. Progress(rowFiles', sessionFiles', part, snap, size, batch)
      BY <1>1, <2>2, <2>3, ProgressKept DEF RunInv, InHand
    <3>2. QED  BY <2>2, <3>1 DEF RunInv, InHand
  <2>5. ASSUME NEW e \in DaysOf(snap, size, batch) \ toWrite'
        PROVE  RowsStand(rowFiles', part, snap, size, batch, e)
    <3>1. CASE e = d
      BY <2>1, <3>1 DEF RowsStand, Put
    <3>2. CASE e # d
      <4>1. RowsStand(rowFiles, part, snap, size, batch, e)
        BY <2>1, <2>2, <2>5, <3>2 DEF RunInv, Writing
      <4>2. <<Tag[part], batch, e>> # <<Tag[part], batch, d>>
        BY <3>2
      <4>3. QED  BY <2>1, <4>1, <4>2 DEF RowsStand, Put
    <3>3. QED  BY <3>1, <3>2
  <2>6. Writing'
    BY <2>1, <2>2, <2>5 DEF RunInv, Writing
  <2>7. \A p \in Parts : done'[p] # None => PassStands(rowFiles', sessionFiles', p, done'[p])
    BY <2>2, <2>3, OthersStand
  <2>8. QED  BY <1>1, <2>2, <2>4, <2>6, <2>7 DEF RunInv
<1>9. CASE WriteSessions
  <2>1. /\ pc = "write" /\ pc' = "batch" /\ toWrite = {} /\ batch' = batch + 1
        /\ seen' = seen \cup {snap[i].session : i \in NewSessions}
        /\ sessionFiles' = IF NewSessions = {} THEN sessionFiles
                           ELSE Put(sessionFiles, <<Tag[part], batch>>, {Item(part, snap, i) : i \in NewSessions})
        /\ UNCHANGED <<part, snap, size, rowFiles, done, toWrite>>
    BY <1>9 DEF WriteSessions, history
  <2>2. NewSessions = {j \in Batch(snap, size, batch) : FirstOf(snap, j)}
    <3>1. seen = Opened(snap, batch * size)
      BY <2>1 DEF RunInv, InHand
    <3>2. QED  BY <1>1, <3>1, NewAreFirst DEF NewSessions
  <2>3. SessionsIn(part, snap, size, batch) = {Item(part, snap, i) : i \in NewSessions}
    BY <2>2 DEF SessionsIn
  <2>4. Kept(rowFiles, rowFiles', Tag[part], batch) /\ Kept(sessionFiles, sessionFiles', Tag[part], batch)
    <3>1. <<Tag[part], batch>>[1] = Tag[part] /\ <<Tag[part], batch>>[2] = batch
      OBVIOUS
    <3>2. QED  BY <2>1, <3>1, PutIsKept, SameIsKept
  <2>5. Progress(rowFiles', sessionFiles', part, snap, size, batch)
    BY <1>1, <2>1, <2>4, ProgressKept DEF RunInv, InHand
  <2>6. Stands(rowFiles', sessionFiles', part, snap, size, batch)
    <3>1. \A d \in DaysOf(snap, size, batch) : RowsStand(rowFiles', part, snap, size, batch, d)
      BY <2>1 DEF RunInv, Writing
    <3>2. SessionsStand(sessionFiles', part, snap, size, batch)
      BY <2>1, <2>3 DEF SessionsStand, Put
    <3>3. QED  BY <3>1, <3>2 DEF Stands
  <2>7. Progress(rowFiles', sessionFiles', part, snap, size, batch + 1)
    BY <1>1, <2>5, <2>6, ProgressGrows
  <2>8. seen' = Opened(snap, (batch + 1) * size)
    <3>1. seen = Opened(snap, batch * size)
      BY <2>1 DEF RunInv, InHand
    <3>2. QED  BY <1>1, <2>1, <2>2, <3>1, OpenedGrows
  <2>9. batch + 1 <= Len(snap)
    BY <1>1, <2>1, BatchBound DEF RunInv, Writing
  <2>10. InHand'
    BY <2>1, <2>7, <2>8, <2>9 DEF RunInv, InHand
  <2>11. \A p \in Parts : done'[p] # None => PassStands(rowFiles', sessionFiles', p, done'[p])
    BY <2>1, <2>4, OthersStand
  <2>12. QED  BY <1>1, <2>1, <2>10, <2>11 DEF RunInv
<1>10. CASE ClosePartition
  <2>1. /\ pc = "batch" /\ pc' = "open" /\ Batch(snap, size, batch) = {}
        /\ done' = [done EXCEPT ![part] = [snap |-> snap, size |-> size]]
        /\ UNCHANGED <<rowFiles, sessionFiles, toWrite>>
    BY <1>10 DEF ClosePartition, files
  <2>2. PassStands(rowFiles, sessionFiles, part, [snap |-> snap, size |-> size])
    BY <1>1, <2>1, ProgressEnds DEF RunInv, InHand
  <2>3. part \in Parts /\ done \in [Parts -> Pass \cup {None}]
    BY <1>1 DEF TypeOK
  <2>4. ASSUME NEW p \in Parts, done'[p] # None
        PROVE  PassStands(rowFiles', sessionFiles', p, done'[p])
    <3>1. CASE p = part
      BY <2>1, <2>2, <2>3, <3>1
    <3>2. CASE p # part
      BY <1>2, <2>1, <2>3, <2>4, <3>2
    <3>3. QED  BY <3>1, <3>2
  <2>5. QED  BY <1>1, <2>1, <2>4 DEF RunInv
<1>11. CASE EndCommand
  BY <1>1, <1>2, <1>11 DEF EndCommand, Exit, RunInv, files, history
<1>12. CASE Crash
  <2>1. pc # "idle" /\ pc' = "idle" /\ done' = done /\ toWrite' = {}
    BY <1>12 DEF Crash, Exit, history
  <2>2. CASE pc \in {"batch", "write"}
    <3>1. Kept(rowFiles, rowFiles', Tag[part], batch)
      <4>1. PICK days \in SUBSET toWrite :
               rowFiles' = [k \in DOMAIN rowFiles \cup {<<Tag[part], batch, d>> : d \in days} |->
                               IF k \in {<<Tag[part], batch, d>> : d \in days}
                               THEN Torn ELSE rowFiles[k]]
        BY <1>12 DEF Crash
      <4>2. QED  BY <4>1 DEF Kept
    <3>2. Kept(sessionFiles, sessionFiles', Tag[part], batch)
      <4>1. \/ sessionFiles' = sessionFiles
            \/ sessionFiles' = Put(sessionFiles, <<Tag[part], batch>>, Torn)
        BY <1>12 DEF Crash
      <4>2. <<Tag[part], batch>>[1] = Tag[part] /\ <<Tag[part], batch>>[2] = batch
        OBVIOUS
      <4>3. QED  BY <4>1, <4>2, PutIsKept, SameIsKept
    <3>3. QED  BY <1>1, <2>1, <2>2, <3>1, <3>2, OthersStand DEF RunInv
  <2>3. CASE pc = "open"
    <3>1. sessionFiles' = sessionFiles
      BY <1>12, <2>3 DEF Crash
    <3>2. Kept(rowFiles, rowFiles', Tag[part], -1) /\ Kept(sessionFiles, sessionFiles', Tag[part], -1)
      BY <1>12, <2>3, <3>1 DEF Crash, RunInv, Kept
    <3>3. ASSUME NEW p, NEW pass, PassStands(rowFiles, sessionFiles, p, pass)
          PROVE  PassStands(rowFiles', sessionFiles', p, pass)
      <4>1. \A c \in 0 .. Len(pass.snap) : c # -1
        OBVIOUS
      <4>2. \A c \in 0 .. Len(pass.snap) : Stands(rowFiles', sessionFiles', p, pass.snap, pass.size, c)
        BY <3>2, <3>3, <4>1, StandsKept DEF PassStands
      <4>3. QED  BY <3>3, <4>2 DEF PassStands
    <3>4. QED  BY <1>1, <1>2, <1>12, <2>1, <3>3 DEF RunInv, Crash, Exit
  <2>4. QED  BY <1>1, <2>1, <2>2, <2>3 DEF TypeOK
<1>13. CASE UNCHANGED vars
  BY <1>1, <1>13 DEF vars, command, files, history, RunInv, InHand, Writing
<1>14. QED
  BY <1>3, <1>4, <1>5, <1>6, <1>7, <1>8, <1>9, <1>10, <1>11, <1>12, <1>13 DEF Next

\* Once a pass over a partition has completed and until the partition is reopened,
\* its output is on disk, whatever other passes and crashes come after it, provided
\* the partitions' tags stay apart when they are sanitised.
THEOREM PassesStand == TagsDiffer => (Spec => []CompletedPassStands)
<1> SUFFICES ASSUME TagsDiffer  PROVE Spec => []CompletedPassStands
  OBVIOUS
<1>1. RunInv => CompletedPassStands
  BY DEF RunInv, CompletedPassStands, PassStands, OutputStands, OutputOfBatch, Stands,
         RowsStand, SessionsStand
<1>2. RunInv /\ [Next]_vars => RunInv'
  BY RunNext
<1>3. QED  BY <1>1, <1>2, RunInit, PTL DEF Spec

(***************************************************************************)
(* Every file comes from an attempt.                                       *)
(***************************************************************************)

\* What an attempt a at partition p may leave under a path: the file a clean pass
\* writes there, or a torn one
RowsOf(c, p, a, k) ==
    /\ k[3] \in DaysOf(a.snap, a.size, k[2])
    /\ c = Torn \/ c = RowsOn(p, a.snap, a.size, k[2], k[3])
SessionsOf(c, p, a, k) ==
    /\ SessionsIn(p, a.snap, a.size, k[2]) # {}
    /\ c = Torn \/ c = SessionsIn(p, a.snap, a.size, k[2])

RowsBegun(rf, tried) ==
    \A p \in Parts, k \in DOMAIN rf : k[1] = Tag[p] => \E a \in tried[p] : RowsOf(rf[k], p, a, k)
SessionsBegun(sf, tried) ==
    \A p \in Parts, k \in DOMAIN sf : k[1] = Tag[p] => \E a \in tried[p] : SessionsOf(sf[k], p, a, k)

\* Only snapshots that can land are ever opened
Landed ==
    /\ \A p \in Parts : landed[p] \in Payloads[p]
    /\ \A p \in Parts : \A a \in attempts[p] : a.snap \in Payloads[p]

Begun ==
    /\ pc \in {"batch", "write"} => [snap |-> snap, size |-> size] \in attempts[part]
    /\ RowsBegun(rowFiles, attempts)
    /\ SessionsBegun(sessionFiles, attempts)

\* The row files of rf2 are those of rf, or of attempt a's n-th batch
RowsAdded(rf, rf2, q, a, n) ==
    \A k \in DOMAIN rf2 :
        \/ k \in DOMAIN rf /\ rf2[k] = rf[k]
        \/ \E d \in DaysOf(a.snap, a.size, n) :
               /\ k = <<Tag[q], n, d>>
               /\ rf2[k] = Torn \/ rf2[k] = RowsOn(q, a.snap, a.size, n, d)

\* A file written by the pass in hand keeps the dataset so: its tag is no other's.
LEMMA RowsPut ==
    ASSUME TagsDiffer, NEW rf, NEW rf2, NEW tried, NEW q \in Parts, NEW a \in tried[q],
           NEW n, RowsBegun(rf, tried), RowsAdded(rf, rf2, q, a, n)
    PROVE  RowsBegun(rf2, tried)
<1> SUFFICES ASSUME NEW p \in Parts, NEW k \in DOMAIN rf2, k[1] = Tag[p]
             PROVE  \E b \in tried[p] : RowsOf(rf2[k], p, b, k)
  BY DEF RowsBegun
<1>1. CASE k \in DOMAIN rf /\ rf2[k] = rf[k]
  BY <1>1 DEF RowsBegun
<1>2. CASE \E d \in DaysOf(a.snap, a.size, n) :
               /\ k = <<Tag[q], n, d>>
               /\ rf2[k] = Torn \/ rf2[k] = RowsOn(q, a.snap, a.size, n, d)
  <2>1. p = q /\ k[2] = n /\ k[3] \in DaysOf(a.snap, a.size, n)
        /\ (rf2[k] = Torn \/ rf2[k] = RowsOn(q, a.snap, a.size, n, k[3]))
    BY <1>2 DEF TagsDiffer
  <2>2. RowsOf(rf2[k], p, a, k)
    BY <2>1 DEF RowsOf
  <2>3. QED  BY <2>1, <2>2
<1>3. QED  BY <1>1, <1>2 DEF RowsAdded

LEMMA SessionsPut ==
    ASSUME TagsDiffer, NEW sf, NEW tried, NEW q \in Parts, NEW a \in tried[q], NEW n, NEW c,
           SessionsBegun(sf, tried), SessionsIn(q, a.snap, a.size, n) # {},
           c = Torn \/ c = SessionsIn(q, a.snap, a.size, n)
    PROVE  SessionsBegun(Put(sf, <<Tag[q], n>>, c), tried)
<1> DEFINE new == Put(sf, <<Tag[q], n>>, c)
<1>1. /\ DOMAIN new = DOMAIN sf \cup {<<Tag[q], n>>}
      /\ new[<<Tag[q], n>>] = c
      /\ \A k \in DOMAIN sf : k # <<Tag[q], n>> => new[k] = sf[k]
  BY DEF Put
<1> HIDE DEF new
<1> SUFFICES ASSUME NEW p \in Parts, NEW k \in DOMAIN new, k[1] = Tag[p]
             PROVE  \E b \in tried[p] : SessionsOf(new[k], p, b, k)
  BY DEF SessionsBegun, new
<1>2. CASE k # <<Tag[q], n>>
  BY <1>1, <1>2 DEF SessionsBegun
<1>3. CASE k = <<Tag[q], n>>
  <2>1. p = q /\ k[2] = n /\ new[k] = c
    BY <1>1, <1>3 DEF TagsDiffer
  <2>2. SessionsOf(new[k], p, a, k)
    BY <2>1 DEF SessionsOf
  <2>3. QED  BY <2>1, <2>2
<1>4. QED  BY <1>2, <1>3

LEMMA LandedInit == Init => Landed
BY DEF Init, Landed

LEMMA LandedNext == ASSUME TypeOK, Landed, [Next]_vars  PROVE Landed'
<1>1. landed \in [Parts -> Seq(Record)] /\ attempts \in [Parts -> SUBSET Pass]
  BY DEF TypeOK
<1>2. CASE \E p \in Parts : Land(p)
  <2>1. PICK p \in Parts : Land(p)
    BY <1>2
  <2>2. PICK s \in Payloads[p] : landed' = [landed EXCEPT ![p] = s]
    BY <2>1 DEF Land
  <2>3. attempts' = attempts
    BY <2>1 DEF Land, history
  <2>4. QED  BY <1>1, <2>2, <2>3 DEF Landed
<1>3. CASE OpenPartition
  <2>1. PICK p \in queue :
          attempts' = [attempts EXCEPT ![p] = @ \cup {[snap |-> landed[p], size |-> size]}]
    BY <1>3 DEF OpenPartition
  <2>2. p \in Parts /\ landed' = landed
    BY <1>3 DEF OpenPartition, TypeOK
  <2>3. \A q \in Parts : \A a \in attempts'[q] : a \in attempts[q] \/ (q = p /\ a.snap = landed[p])
    BY <1>1, <2>1, <2>2
  <2>4. QED  BY <2>2, <2>3 DEF Landed
<1>4. CASE UNCHANGED <<landed, attempts>>
  BY <1>4 DEF Landed
<1>5. QED
  BY <1>2, <1>3, <1>4 DEF Next, StartCommand, TransformBatch, AbortCommand, Exit, WriteDay,
     WriteSessions, ClosePartition, EndCommand, Crash, vars, command, files, history

LEMMA BegunInit == Init => Begun
BY DEF Init, Begun, RowsBegun, SessionsBegun

\* Every file keeps coming from an attempt, and every attempt is remembered.
LEMMA BegunNext == ASSUME TagsDiffer, RunInv, Begun, [Next]_vars  PROVE Begun'
<1>1. TypeOK /\ size \in Nat \ {0} /\ snap \in Seq(Record) /\ batch \in Nat /\ part \in Parts
  BY SizesAssumption DEF RunInv, TypeOK
<1> DEFINE now == [snap |-> snap, size |-> size]
<1>2. now.snap = snap /\ now.size = size /\ (pc \in {"batch", "write"} => now \in attempts[part])
  BY DEF Begun
<1> HIDE DEF now
<1>3. pc = "write" => toWrite \subseteq DaysOf(snap, size, batch)
  BY DEF RunInv, Writing
<1>4. pc = "write" => SessionsIn(part, snap, size, batch) = {Item(part, snap, i) : i \in NewSessions}
  <2> SUFFICES ASSUME pc = "write"
               PROVE  SessionsIn(part, snap, size, batch) = {Item(part, snap, i) : i \in NewSessions}
    OBVIOUS
  <2>1. seen = Opened(snap, batch * size)
    BY DEF RunInv, InHand
  <2>2. NewSessions = {j \in Batch(snap, size, batch) : FirstOf(snap, j)}
    BY <1>1, <2>1, NewAreFirst DEF NewSessions
  <2>3. QED  BY <2>2 DEF SessionsIn
<1>5. ASSUME rowFiles' = rowFiles, sessionFiles' = sessionFiles, attempts' = attempts,
             \/ pc' \in {"idle", "open"}
             \/ part' = part /\ snap' = snap /\ size' = size /\ pc \in {"batch", "write"}
      PROVE  Begun'
  BY <1>5 DEF Begun
<1>6. CASE \E p \in Parts : Land(p)
  BY <1>6 DEF Land, command, files, history, Begun
<1>7. CASE StartCommand
  BY <1>5, <1>7 DEF StartCommand, files, history
<1>8. CASE OpenPartition
  <2>1. PICK p \in queue :
          /\ part' = p /\ snap' = landed[p] /\ size' = size /\ pc' = "batch"
          /\ attempts' = [attempts EXCEPT ![p] = @ \cup {[snap |-> landed[p], size |-> size]}]
    BY <1>8 DEF OpenPartition
  <2>2. p \in Parts /\ attempts \in [Parts -> SUBSET Pass]
    BY <1>1 DEF TypeOK
  <2>3. rowFiles' = rowFiles /\ sessionFiles' = sessionFiles
    BY <1>8 DEF OpenPartition, files
  <2>4. \A q \in Parts : attempts[q] \subseteq attempts'[q]
    BY <2>1, <2>2
  <2>5. [snap |-> snap', size |-> size'] \in attempts'[part']
    BY <2>1, <2>2
  <2>6. RowsBegun(rowFiles', attempts') /\ SessionsBegun(sessionFiles', attempts')
    BY <2>3, <2>4 DEF Begun, RowsBegun, SessionsBegun
  <2>7. QED  BY <2>5, <2>6 DEF Begun
<1>9. CASE TransformBatch
  BY <1>5, <1>9 DEF TransformBatch, files, history
<1>10. CASE AbortCommand
  BY <1>5, <1>10 DEF AbortCommand, Exit, files, history
<1>11. CASE \E d \in Days : WriteDay(d)
  <2>1. PICK d \in toWrite :
           rowFiles' = Put(rowFiles, <<Tag[part], batch, d>>, RowsOn(part, snap, size, batch, d))
    BY <1>11 DEF WriteDay
  <2>2. /\ pc = "write" /\ pc' = "write"
        /\ UNCHANGED <<part, snap, size, batch, sessionFiles, attempts>>
    BY <1>11 DEF WriteDay, history
  <2>3. d \in DaysOf(now.snap, now.size, batch) /\ now \in attempts[part]
    BY <1>2, <1>3, <2>2
  <2>4. RowsAdded(rowFiles, rowFiles', part, now, batch)
    BY <1>2, <2>1, <2>3 DEF Put, RowsAdded
  <2>5. RowsBegun(rowFiles', attempts)
    BY <1>1, <2>3, <2>4, RowsPut DEF Begun
  <2>6. QED  BY <2>2, <2>5 DEF Begun
<1>12. CASE WriteSessions
  <2>1. /\ pc = "write" /\ UNCHANGED <<part, snap, size, rowFiles, attempts>>
        /\ sessionFiles' = IF NewSessions = {} THEN sessionFiles
                           ELSE Put(sessionFiles, <<Tag[part], batch>>, {Item(part, snap, i) : i \in NewSessions})
    BY <1>12 DEF WriteSessions, history
  <2>2. CASE NewSessions = {}
    BY <1>5, <2>1, <2>2
  <2>3. CASE NewSessions # {}
    <3>1. SessionsIn(part, now.snap, now.size, batch) # {} /\ now \in attempts[part]
      BY <1>2, <1>4, <2>1, <2>3
    <3>2. sessionFiles' = Put(sessionFiles, <<Tag[part], batch>>, SessionsIn(part, now.snap, now.size, batch))
      BY <1>2, <1>4, <2>1, <2>3
    <3>3. SessionsBegun(sessionFiles', attempts)
      BY <1>1, <3>1, <3>2, SessionsPut DEF Begun
    <3>4. QED  BY <2>1, <3>3 DEF Begun
  <2>4. QED  BY <2>2, <2>3
<1>13. CASE ClosePartition
  BY <1>5, <1>13 DEF ClosePartition, files
<1>14. CASE EndCommand
  BY <1>5, <1>14 DEF EndCommand, Exit, files, history
<1>15. CASE Crash
  <2>1. pc' = "idle" /\ attempts' = attempts
    BY <1>15 DEF Crash, Exit, history
  <2>2. PICK days \in SUBSET toWrite :
           rowFiles' = [k \in DOMAIN rowFiles \cup {<<Tag[part], batch, d>> : d \in days} |->
                           IF k \in {<<Tag[part], batch, d>> : d \in days}
                           THEN Torn ELSE rowFiles[k]]
    BY <1>15 DEF Crash
  <2>3. RowsBegun(rowFiles', attempts)
    <3>1. CASE pc = "write"
      <4>1. days \subseteq DaysOf(now.snap, now.size, batch) /\ now \in attempts[part]
        BY <1>2, <1>3, <3>1
      <4>2. RowsAdded(rowFiles, rowFiles', part, now, batch)
        BY <2>2, <4>1 DEF RowsAdded
      <4>3. QED  BY <1>1, <4>1, <4>2, RowsPut DEF Begun
    <3>2. CASE pc # "write"
      <4>1. days = {}
        BY <3>2 DEF RunInv
      <4>2. DOMAIN rowFiles' = DOMAIN rowFiles /\ \A k \in DOMAIN rowFiles : rowFiles'[k] = rowFiles[k]
        BY <2>2, <4>1
      <4>3. QED  BY <4>2 DEF Begun, RowsBegun
    <3>3. QED  BY <3>1, <3>2
  <2>4. SessionsBegun(sessionFiles', attempts)
    <3>1. CASE sessionFiles' = sessionFiles
      BY <3>1 DEF Begun
    <3>2. CASE /\ pc = "write" /\ NewSessions # {}
               /\ sessionFiles' = Put(sessionFiles, <<Tag[part], batch>>, Torn)
      <4>1. SessionsIn(part, now.snap, now.size, batch) # {} /\ now \in attempts[part]
        BY <1>2, <1>4, <3>2
      <4>2. QED  BY <1>1, <3>2, <4>1, SessionsPut DEF Begun
    <3>3. QED  BY <1>15, <3>1, <3>2 DEF Crash
  <2>5. QED  BY <2>1, <2>3, <2>4 DEF Begun
<1>16. CASE UNCHANGED vars
  BY <1>16 DEF vars, command, files, history, Begun
<1>17. QED
  BY <1>6, <1>7, <1>8, <1>9, <1>10, <1>11, <1>12, <1>13, <1>14, <1>15, <1>16 DEF Next

\* A file of a whole pass is one of the batches that pass stands on.
LEMMA InBounds ==
    ASSUME NEW s \in Seq(Record), NEW z \in Nat \ {0}, NEW b \in Nat, NEW p,
           DaysOf(s, z, b) # {} \/ SessionsIn(p, s, z, b) # {}
    PROVE  b \in 0 .. Len(s)
<1>1. Batch(s, z, b) # {}
  BY DEF DaysOf, SessionsIn
<1>2. QED  BY <1>1, BatchBound

LEMMA CleanFiles == RunInv /\ Begun => RerunsAreIdentical
<1> SUFFICES ASSUME RunInv, Begun, NEW p \in Parts, done[p] # None, attempts[p] = {done[p]}
             PROVE  /\ \A k \in DOMAIN rowFiles : k[1] = Tag[p] =>
                          /\ k[3] \in DaysOf(done[p].snap, done[p].size, k[2])
                          /\ rowFiles[k] = RowsOn(p, done[p].snap, done[p].size, k[2], k[3])
                    /\ \A k \in DOMAIN sessionFiles : k[1] = Tag[p] =>
                          /\ SessionsIn(p, done[p].snap, done[p].size, k[2]) # {}
                          /\ sessionFiles[k] = SessionsIn(p, done[p].snap, done[p].size, k[2])
  BY DEF RerunsAreIdentical
<1> DEFINE s == done[p].snap
           z == done[p].size
<1>1. TypeOK /\ PassStands(rowFiles, sessionFiles, p, done[p])
  BY DEF RunInv
<1>2. s \in Seq(Record) /\ z \in Nat \ {0}
  BY <1>1, SizesAssumption DEF TypeOK, Pass
<1>3. \A b \in 0 .. Len(s) : Stands(rowFiles, sessionFiles, p, s, z, b)
  BY <1>1 DEF PassStands
<1> HIDE DEF s, z
<1>4. ASSUME NEW k \in DOMAIN rowFiles, k[1] = Tag[p]
      PROVE  k[3] \in DaysOf(s, z, k[2]) /\ rowFiles[k] = RowsOn(p, s, z, k[2], k[3])
  <2>1. k[2] \in Nat /\ k = <<Tag[p], k[2], k[3]>>
    BY <1>1, <1>4 DEF TypeOK
  <2>2. k[3] \in DaysOf(s, z, k[2])
    BY <1>4 DEF Begun, RowsBegun, RowsOf, s, z
  <2>3. k[2] \in 0 .. Len(s)
    BY <1>2, <2>1, <2>2, InBounds
  <2>4. RowsStand(rowFiles, p, s, z, k[2], k[3])
    BY <1>3, <2>2, <2>3 DEF Stands
  <2>5. QED  BY <2>1, <2>2, <2>4 DEF RowsStand
<1>5. ASSUME NEW k \in DOMAIN sessionFiles, k[1] = Tag[p]
      PROVE  SessionsIn(p, s, z, k[2]) # {} /\ sessionFiles[k] = SessionsIn(p, s, z, k[2])
  <2>1. k[2] \in Nat /\ k = <<Tag[p], k[2]>>
    BY <1>1, <1>5 DEF TypeOK
  <2>2. SessionsIn(p, s, z, k[2]) # {}
    BY <1>5 DEF Begun, SessionsBegun, SessionsOf, s, z
  <2>3. k[2] \in 0 .. Len(s)
    BY <1>2, <2>1, <2>2, InBounds
  <2>4. QED  BY <1>3, <2>1, <2>2, <2>3 DEF Stands, SessionsStand
<1>6. QED  BY <1>4, <1>5 DEF s, z

LEMMA FilesJoin == RunInv /\ Begun /\ Landed => RowsJoinSessions
<1> SUFFICES ASSUME RunInv, Begun, Landed, NEW p \in Parts, done[p] # None,
                    \A a \in attempts[p] : a.snap = done[p].snap
             PROVE  /\ \A r \in UNION {rowFiles[k] : k \in Intact(rowFiles, p)} :
                          r.rec.session # NoSession =>
                             \E w \in UNION {sessionFiles[k] : k \in Intact(sessionFiles, p)} :
                                w.rec.session = r.rec.session
                    /\ \A v, w \in UNION {sessionFiles[k] : k \in Intact(sessionFiles, p)} :
                          v.rec.session = w.rec.session => v = w
  BY DEF RowsJoinSessions
<1> DEFINE s == done[p].snap
           z == done[p].size
           onDisk == UNION {sessionFiles[k] : k \in Intact(sessionFiles, p)}
<1>1. TypeOK /\ PassStands(rowFiles, sessionFiles, p, done[p])
  BY DEF RunInv
<1>2. s \in Seq(Record) /\ z \in Nat \ {0}
  BY <1>1, SizesAssumption DEF TypeOK, Pass
<1>3. /\ \A b \in 0 .. Len(s) : Stands(rowFiles, sessionFiles, p, s, z, b)
      /\ \A i \in DOMAIN s : \E b \in 0 .. Len(s) : i \in Batch(s, z, b)
  BY <1>1 DEF PassStands
<1>4. \A a \in attempts[p] : a.snap = s
  OBVIOUS
<1> HIDE DEF s, z
<1>5. ASSUME NEW j \in DOMAIN s, FirstOf(s, j)  PROVE Item(p, s, j) \in onDisk
  <2>1. PICK b \in 0 .. Len(s) : j \in Batch(s, z, b)
    BY <1>3
  <2>2. Item(p, s, j) \in SessionsIn(p, s, z, b)
    BY <1>5, <2>1 DEF SessionsIn
  <2>3. <<Tag[p], b>> \in DOMAIN sessionFiles /\ sessionFiles[<<Tag[p], b>>] = SessionsIn(p, s, z, b)
    BY <1>3, <2>2 DEF Stands, SessionsStand
  <2>4. SessionsIn(p, s, z, b) # Torn
    <3>1. PICK a \in attempts[p] : SessionsOf(sessionFiles[<<Tag[p], b>>], p, a, <<Tag[p], b>>)
      BY <2>3 DEF Begun, SessionsBegun
    <3>2. s \in Payloads[p]
      BY <1>4 DEF Landed
    <3>3. {i \in Batch(s, z, b) : FirstOf(s, i)} \in SUBSET DOMAIN s
      BY DEF Batch
    <3>4. QED  BY <3>2, <3>3, TornAssumption DEF SessionsIn
  <2>5. <<Tag[p], b>> \in Intact(sessionFiles, p)
    BY <2>3, <2>4 DEF Intact
  <2>6. QED  BY <2>2, <2>3, <2>5
<1>6. ASSUME NEW v \in onDisk
      PROVE  \E j \in DOMAIN s : FirstOf(s, j) /\ v = Item(p, s, j)
  <2>1. PICK k \in Intact(sessionFiles, p) : v \in sessionFiles[k]
    BY <1>6
  <2>2. PICK a \in attempts[p] : SessionsOf(sessionFiles[k], p, a, k)
    BY <2>1 DEF Intact, Begun, SessionsBegun
  <2>3. v \in SessionsIn(p, s, a.size, k[2])
    BY <1>4, <2>1, <2>2 DEF Intact, SessionsOf
  <2>4. QED  BY <2>3 DEF SessionsIn, Batch
<1>7. ASSUME NEW r \in UNION {rowFiles[k] : k \in Intact(rowFiles, p)}
      PROVE  \E i \in DOMAIN s : s[i].fate = "row" /\ r = Item(p, s, i)
  <2>1. PICK k \in Intact(rowFiles, p) : r \in rowFiles[k]
    BY <1>7
  <2>2. PICK a \in attempts[p] : RowsOf(rowFiles[k], p, a, k)
    BY <2>1 DEF Intact, Begun, RowsBegun
  <2>3. r \in RowsOn(p, s, a.size, k[2], k[3])
    BY <1>4, <2>1, <2>2 DEF Intact, RowsOf
  <2>4. QED  BY <2>3 DEF RowsOn, Batch
<1>8. ASSUME NEW r \in UNION {rowFiles[k] : k \in Intact(rowFiles, p)}, r.rec.session # NoSession
      PROVE  \E w \in onDisk : w.rec.session = r.rec.session
  <2>1. PICK i \in DOMAIN s : s[i].fate = "row" /\ r = Item(p, s, i)
    BY <1>7, <1>8
  <2>2. Survives(s, i) /\ r.rec = s[i]
    BY <2>1 DEF Survives, Item
  <2> DEFINE same == {j \in DOMAIN s : Survives(s, j) /\ s[j].session = s[i].session}
  <2>3. same \subseteq Nat /\ same # {}
    BY <1>2, <2>2
  <2>4. PICK j \in same : \A m \in same : j <= m
    <3> HIDE DEF same
    <3> QED  BY <2>3, Least
  <2>5. FirstOf(s, j) /\ j \in DOMAIN s /\ s[j].session = r.rec.session
    BY <1>8, <2>2, <2>4 DEF FirstOf
  <2>6. Item(p, s, j) \in onDisk /\ Item(p, s, j).rec = s[j]
    BY <1>5, <2>5 DEF Item
  <2>7. QED  BY <2>5, <2>6
<1>9. ASSUME NEW v \in onDisk, NEW w \in onDisk, v.rec.session = w.rec.session
      PROVE  v = w
  <2>1. PICK i \in DOMAIN s : FirstOf(s, i) /\ v = Item(p, s, i)
    BY <1>6
  <2>2. PICK j \in DOMAIN s : FirstOf(s, j) /\ w = Item(p, s, j)
    BY <1>6
  <2>3. v.rec = s[i] /\ w.rec = s[j]
    BY <2>1, <2>2 DEF Item
  <2>4. i <= j /\ j <= i /\ i \in Nat /\ j \in Nat
    BY <1>2, <1>9, <2>1, <2>2, <2>3 DEF FirstOf
  <2>5. i = j
    BY <2>4
  <2>6. QED  BY <2>1, <2>2, <2>5
<1>10. QED  BY <1>8, <1>9

\* If all attempts at a partition had one snapshot and one batch size, then once one
\* of them has completed its files are those of a clean pass and no other, whatever
\* was killed on the way, provided the sanitised tags stay apart.
THEOREM RerunsIdentical == TagsDiffer => (Spec => []RerunsAreIdentical)
<1> SUFFICES ASSUME TagsDiffer  PROVE Spec => []RerunsAreIdentical
  OBVIOUS
<1>1. RunInv /\ Begun /\ [Next]_vars => RunInv' /\ Begun'
  BY RunNext, BegunNext
<1>2. QED  BY <1>1, RunInit, BegunInit, CleanFiles, PTL DEF Spec

\* If all attempts had one snapshot, whatever their batch sizes, then once one has
\* completed every row on disk finds its session and no session is told twice.
THEOREM SessionsJoin == TagsDiffer => (Spec => []RowsJoinSessions)
<1> SUFFICES ASSUME TagsDiffer  PROVE Spec => []RowsJoinSessions
  OBVIOUS
<1>1. RunInv /\ Begun /\ Landed /\ [Next]_vars => RunInv' /\ Begun' /\ Landed'
  BY RunNext, BegunNext, LandedNext DEF RunInv
<1>2. QED  BY <1>1, RunInit, BegunInit, LandedInit, FilesJoin, PTL DEF Spec

(***************************************************************************)
(* The snapshots a pass opens (LandingReader): for any partitions, names   *)
(* and fetches, what a command reads is the latest, and never an older one *)
(* than a command before it read.                                          *)
(***************************************************************************)

Recencies == [at : Nat, name : Nat]

ZoneType ==
    /\ fetches \in Nat
    /\ fetching \in [Partitions -> {Nothing} \cup [at : 1 .. fetches, name : Names]]
    /\ payloads \in [Partitions -> SUBSET Names]
    /\ sidecar \in [Partitions -> [Names -> 0 .. fetches]]

LandingType ==
    /\ ZoneType
    /\ reading \in {"idle", "next", "look", "end"}
    /\ unread \subseteq Partitions
    /\ opened \in Partitions
    /\ listed \subseteq payloads[opened]
    /\ best \in Recencies
    /\ read \in [Partitions -> Recencies]
    /\ before \in [Partitions -> Nat]
    /\ lastRead \in [Partitions -> Nat]

\* A payload in hand was fetched after every one that has a sidecar.
SidecarsInv ==
    \A p \in Partitions : fetching[p] # Nothing =>
        \A n \in Names : sidecar[p][n] <= fetching[p].at

\* A partition holds a snapshot of that time, or a newer one; a reader's recency of a
\* payload is not above its sidecar's.
HoldsSince(p, t) == t = Never \/ \E n \in payloads[p] : sidecar[p][n] >= t
OnDisk(p, r) == r = Nothing \/ (r.name \in payloads[p] /\ sidecar[p][r.name] >= r.at)

DiskInv ==
    /\ \A p \in Partitions :
          HoldsSince(p, lastRead[p]) /\ HoldsSince(p, before[p]) /\ OnDisk(p, read[p])
    /\ OnDisk(opened, best)

\* What is as new as the snapshot of the beginning: nothing yet in a partition still to
\* be read, the payload ahead or one not looked up yet in the one being read, the payload
\* that was read in the others.
Served(p) ==
    \/ p \in unread
    \/ /\ reading = "look" /\ p = opened
       /\ best.at >= before[p] \/ \E n \in listed : sidecar[p][n] >= before[p]
    \/ ~(reading = "look" /\ p = opened) /\ read[p].at >= before[p]

CommandInv ==
    /\ reading = "end" => unread = {}
    /\ reading # "idle" => \A p \in Partitions :
          lastRead[p] <= before[p] /\ (before[p] # Never => Served(p))

LandingInv == LandingType /\ SidecarsInv /\ DiskInv /\ CommandInv

LEMMA MinIs ==
    ASSUME NEW S, S \subseteq Nat, S # {}
    PROVE  Min(S) \in S
<1>1. \E x \in S : \A y \in S : x =< y
  BY Least
<1>2. QED  BY <1>1 DEF Min

LEMMA MaxIs ==
    ASSUME NEW S, S \subseteq Nat, S # {}, NEW N \in Nat, \A x \in S : x <= N
    PROVE  Max(S) \in S /\ \A x \in S : Max(S) >= x
<1> DEFINE T == {N - x : x \in S}
<1>1. T \subseteq Nat /\ T # {}
  OBVIOUS
<1>2. PICK t \in T : \A u \in T : t <= u
  BY <1>1, Least
<1>3. PICK m \in S : t = N - m
  OBVIOUS
<1>4. ASSUME NEW x \in S  PROVE m >= x
  <2>1. N - m <= N - x
    BY <1>2, <1>3
  <2>2. m \in Nat /\ x \in Nat
    OBVIOUS
  <2>3. QED  BY <2>1, <2>2
<1>5. \E y \in S : \A x \in S : y >= x
  BY <1>4
<1>6. QED  BY <1>5 DEF Max

LEMMA LandingInit == ReaderInit => LandingInv
<1> SUFFICES ASSUME ReaderInit PROVE LandingInv
  OBVIOUS
<1> USE DEF ReaderInit, Each, Never, Nothing
<1>1. LandingType
  BY DEF LandingType, ZoneType, Recencies
<1>2. SidecarsInv
  BY DEF SidecarsInv
<1>3. DiskInv
  BY DEF DiskInv, HoldsSince, OnDisk
<1>4. CommandInv
  BY DEF CommandInv
<1>5. QED  BY <1>1, <1>2, <1>3, <1>4 DEF LandingInv

\* What is on disk stays, and its sidecars only get newer.
DiskGrows ==
    \A p \in Partitions :
        /\ payloads[p] \subseteq payloads'[p]
        /\ \A n \in Names : sidecar[p][n] <= sidecar'[p][n]

LEMMA DiskKept ==
    ASSUME LandingType, LandingType', DiskGrows, NEW p \in Partitions
    PROVE  /\ \A t \in Nat : HoldsSince(p, t) => HoldsSince(p, t)'
           /\ \A r \in Recencies : OnDisk(p, r) => OnDisk(p, r)'
<1>0. /\ payloads[p] \subseteq Names /\ payloads'[p] \subseteq Names
      /\ \A n \in Names : sidecar[p][n] \in Nat /\ sidecar'[p][n] \in Nat
  BY DEF LandingType, ZoneType
<1>1. ASSUME NEW t \in Nat, HoldsSince(p, t)  PROVE HoldsSince(p, t)'
  BY <1>0, <1>1 DEF HoldsSince, DiskGrows
<1>2. ASSUME NEW r \in Recencies, OnDisk(p, r)  PROVE OnDisk(p, r)'
  <2>1. r.at \in Nat
    BY DEF Recencies
  <2>2. QED  BY <1>0, <1>2, <2>1 DEF OnDisk, DiskGrows
<1>3. QED  BY <1>1, <1>2

LEMMA IngestionNext ==
    ASSUME LandingInv, NEW p \in Partitions,
           \/ \E n \in Names : Fetch(p, n)
           \/ WriteSidecar(p) \/ RenamePayload(p) \/ EndFetch(p)
    PROVE  LandingInv'
<1> USE DEF Nothing, Never
<1> DEFINE f == fetching[p]
<1>0. Nothing = [at |-> 0, name |-> 0] /\ (f # Nothing => f \in [at : 1 .. fetches, name : Names])
  BY DEF LandingInv, LandingType, ZoneType, Nothing
<1>1. UNCHANGED reader
  BY DEF Fetch, WriteSidecar, RenamePayload, EndFetch
<1>2. ZoneType' /\ DiskGrows /\ SidecarsInv'
  <2>1. ASSUME NEW n \in Names, Fetch(p, n)  PROVE ZoneType' /\ DiskGrows /\ SidecarsInv'
    <3>1. /\ fetches' = fetches + 1 /\ UNCHANGED <<payloads, sidecar>>
          /\ fetching' = [fetching EXCEPT ![p] = [at |-> fetches', name |-> n]]
      BY <2>1 DEF Fetch
    <3>2. fetches \in Nat /\ sidecar \in [Partitions -> [Names -> 0 .. fetches]]
      BY DEF LandingInv, LandingType, ZoneType
    <3>3. \A q \in Partitions : fetching'[q] =
             IF q = p THEN [at |-> fetches + 1, name |-> n] ELSE fetching[q]
      BY <3>1 DEF LandingInv, LandingType, ZoneType
    <3>4. \A q \in Partitions, m \in Names : sidecar[q][m] \in 0 .. fetches
      BY <3>2
    <3>5. DiskGrows
      BY <3>1, <3>4 DEF DiskGrows
    <3>6. fetching' \in [Partitions -> {Nothing} \cup [at : 1 .. fetches', name : Names]]
      BY <3>1, <3>2 DEF LandingInv, LandingType, ZoneType
    <3>7. sidecar' \in [Partitions -> [Names -> 0 .. fetches']]
      <4>1. sidecar \in [Partitions -> [Names -> 0 .. fetches + 1]]
        BY <3>2
      <4>2. QED  BY <3>1, <4>1
    <3>8. SidecarsInv'
      BY <3>1, <3>2, <3>3, <3>4 DEF LandingInv, SidecarsInv
    <3>9. QED  BY <3>1, <3>2, <3>5, <3>6, <3>7, <3>8 DEF LandingInv, LandingType, ZoneType
  <2>2. CASE WriteSidecar(p)
    <3>1. /\ f # Nothing /\ f.name \in Names /\ f.at \in 1 .. fetches
          /\ sidecar' = [sidecar EXCEPT ![p][f.name] = f.at]
          /\ UNCHANGED <<fetches, fetching, payloads>>
      BY <1>0, <2>2 DEF WriteSidecar
    <3>2. sidecar' \in [Partitions -> [Names -> 0 .. fetches]]
      BY <3>1 DEF LandingInv, LandingType, ZoneType
    <3>3. \A q \in Partitions, n \in Names :
             sidecar'[q][n] = IF q = p /\ n = f.name THEN f.at ELSE sidecar[q][n]
      BY <3>1 DEF LandingInv, LandingType, ZoneType
    <3>4. DiskGrows
      <4>1. \A q \in Partitions, n \in Names : sidecar[q][n] <= sidecar'[q][n]
        BY <3>1, <3>3 DEF LandingInv, LandingType, ZoneType, SidecarsInv
      <4>2. QED  BY <3>1, <4>1 DEF DiskGrows
    <3>5. SidecarsInv'
      BY <3>1, <3>3 DEF LandingInv, LandingType, ZoneType, SidecarsInv
    <3>6. QED  BY <3>1, <3>2, <3>4, <3>5 DEF LandingInv, LandingType, ZoneType
  <2>3. CASE RenamePayload(p)
    BY <1>0, <2>3 DEF LandingInv, LandingType, ZoneType, SidecarsInv, DiskGrows, RenamePayload
  <2>4. CASE EndFetch(p)
    <3>1. fetching' = [fetching EXCEPT ![p] = Nothing] /\ UNCHANGED <<fetches, payloads, sidecar>>
      BY <2>4 DEF EndFetch
    <3>2. ZoneType'
      BY <3>1 DEF LandingInv, LandingType, ZoneType
    <3>3. DiskGrows
      BY <3>1 DEF LandingInv, LandingType, ZoneType, DiskGrows
    <3>4. \A q \in Partitions : fetching'[q] # Nothing => fetching'[q] = fetching[q]
      BY <3>1 DEF LandingInv, LandingType, ZoneType
    <3>5. SidecarsInv'
      BY <3>1, <3>4 DEF LandingInv, SidecarsInv
    <3>6. QED  BY <3>2, <3>3, <3>5
  <2>5. QED  BY <2>1, <2>2, <2>3, <2>4
<1>3. LandingType'
  BY <1>1, <1>2 DEF LandingInv, LandingType, ZoneType, reader, DiskGrows
<1>4. DiskInv'
  BY <1>1, <1>2, <1>3, DiskKept DEF LandingInv, LandingType, ZoneType, DiskInv, reader
<1>5. CommandInv'
  <2>1. \A q \in Partitions : Served(q) => Served(q)'
    <3> SUFFICES ASSUME NEW q \in Partitions, Served(q)  PROVE Served(q)'
      OBVIOUS
    <3>1. UNCHANGED <<reading, unread, opened, listed, best, read, before>>
      BY <1>1 DEF reader
    <3>2. ASSUME NEW n \in listed, q = opened, sidecar[q][n] >= before[q]
          PROVE  sidecar'[q][n] >= before[q]
      <4>1. n \in Names
        BY DEF LandingInv, LandingType, ZoneType
      <4>2. sidecar[q][n] \in Nat /\ sidecar'[q][n] \in Nat /\ before[q] \in Nat
        BY <1>2, <4>1 DEF LandingInv, LandingType, ZoneType
      <4>3. QED  BY <1>2, <3>2, <4>1, <4>2 DEF DiskGrows
    <3>3. QED  BY <3>1, <3>2 DEF Served
  <2>2. QED  BY <1>1, <2>1 DEF LandingInv, CommandInv, reader
<1>6. QED  BY <1>2, <1>3, <1>4, <1>5 DEF LandingInv

\* What is there when a command begins
LEMMA NewestIs ==
    ASSUME LandingInv, NEW p \in Partitions
    PROVE  /\ Newest(p) \in Nat
           /\ HoldsSince(p, Newest(p))
           /\ \A t \in Nat : HoldsSince(p, t) => t <= Newest(p)
<1> DEFINE S == {sidecar[p][n] : n \in Complete(p)} \cup {0}
<1>1. payloads[p] \subseteq Names /\ fetches \in Nat
      /\ \A n \in Names : sidecar[p][n] \in 0 .. fetches
  BY DEF LandingInv, LandingType, ZoneType
<1>2. Complete(p) = {n \in payloads[p] : sidecar[p][n] # 0}
  BY DEF Complete, Never
<1>3. S \subseteq Nat /\ S # {} /\ \A x \in S : x <= fetches
  BY <1>1, <1>2
<1>4. Max(S) \in S /\ \A x \in S : Max(S) >= x
  <2> HIDE DEF S
  <2> QED  BY <1>1, <1>3, MaxIs
<1>5. Newest(p) = Max(S)
  BY DEF Newest, Never
<1>6. HoldsSince(p, Max(S))
  BY <1>1, <1>2, <1>4 DEF HoldsSince, Never
<1>7. ASSUME NEW t \in Nat, HoldsSince(p, t)  PROVE t <= Max(S)
  <2>1. CASE t = 0
    BY <1>3, <1>4, <2>1
  <2>2. CASE t # 0
    <3>1. PICK n \in payloads[p] : sidecar[p][n] >= t
      BY <1>7, <2>2 DEF HoldsSince, Never
    <3>2. sidecar[p][n] \in S
      BY <1>1, <1>2, <2>2, <3>1
    <3>3. Max(S) >= sidecar[p][n] /\ sidecar[p][n] \in Nat /\ Max(S) \in Nat
      <4> HIDE DEF S
      <4> QED  BY <1>3, <1>4, <3>2
    <3>4. QED  BY <3>1, <3>3
  <2>3. QED  BY <2>1, <2>2
<1>8. QED  BY <1>3, <1>4, <1>5, <1>6, <1>7

LEMMA ReadersNext ==
    ASSUME LandingInv,
           \/ Start \/ ListPayloads \/ LookUp
           \/ ReadPayload \/ End \/ Quit
    PROVE  LandingInv'
<1> USE DEF Nothing, Never
<1>1. Nothing = [at |-> 0, name |-> 0] /\ Nothing \in Recencies
  BY DEF Nothing, Recencies
<1>2. UNCHANGED zone
  BY DEF Start, ListPayloads, LookUp, ReadPayload,
         End, Quit
<1>3. ZoneType' /\ SidecarsInv' /\ UNCHANGED <<payloads, sidecar>>
  BY <1>2 DEF LandingInv, LandingType, ZoneType, SidecarsInv, zone
<1>4. CASE Start
  <2>1. /\ read' = [p \in Partitions |-> Nothing] /\ reading' = "next"
        /\ before' = [p \in Partitions |-> Newest(p)]
        /\ unread' = {p \in Partitions : payloads[p] \cup temporary[p] # {}}
        /\ UNCHANGED <<opened, listed, best, lastRead>>
    BY <1>4 DEF Start, Each
  <2>2. LandingType'
    BY <1>1, <1>3, <2>1, NewestIs DEF LandingInv, LandingType
  <2>3. DiskInv'
    BY <1>3, <2>1, NewestIs DEF LandingInv, DiskInv, HoldsSince, OnDisk
  <2>4. CommandInv'
    <3>1. ASSUME NEW p \in Partitions
          PROVE  lastRead[p] <= before'[p] /\ (before'[p] # 0 => p \in unread')
      <4>1. HoldsSince(p, lastRead[p]) /\ lastRead[p] \in Nat
        BY DEF LandingInv, LandingType, DiskInv
      <4>2. before'[p] = Newest(p)
        BY <2>1
      <4>3. before'[p] # 0 => payloads[p] # {}
        BY <4>2, NewestIs DEF HoldsSince
      <4>4. QED  BY <2>1, <4>1, <4>2, <4>3, NewestIs
    <3>2. QED  BY <2>1, <3>1 DEF CommandInv, Served
  <2>5. QED  BY <1>3, <2>2, <2>3, <2>4 DEF LandingInv
<1>5. CASE ListPayloads
  <2>1. /\ reading = "next" /\ reading' = "look" /\ unread # {}
        /\ opened' = Min(unread) /\ unread' = unread \ {opened'}
        /\ listed' = payloads[opened'] /\ best' = Nothing
        /\ UNCHANGED <<read, before, lastRead>>
    BY <1>5 DEF ListPayloads, PayloadFiles
  <2>2. opened' \in unread
    BY <2>1, MinIs, PartitionsAssumption, NamesAssumption DEF LandingInv, LandingType
  <2>3. LandingType'
    BY <1>1, <1>3, <2>1, <2>2 DEF LandingInv, LandingType
  <2>4. DiskInv'
    BY <1>3, <2>1 DEF LandingInv, DiskInv, HoldsSince, OnDisk
  <2>5. CommandInv'
    <3>1. ASSUME NEW p \in Partitions, before[p] # 0, Served(p)  PROVE Served(p)'
      <4>1. CASE p = opened'
        <5>1. HoldsSince(p, before[p])
          BY DEF LandingInv, DiskInv
        <5>2. \E n \in listed' : sidecar[p][n] >= before[p]
          BY <2>1, <3>1, <4>1, <5>1 DEF HoldsSince
        <5>3. QED  BY <1>3, <2>1, <4>1, <5>2 DEF Served
      <4>2. CASE p # opened'
        BY <2>1, <3>1, <4>2 DEF Served
      <4>3. QED  BY <4>1, <4>2
    <3>2. QED  BY <2>1, <3>1 DEF LandingInv, CommandInv
  <2>6. QED  BY <1>3, <2>3, <2>4, <2>5 DEF LandingInv
<1>6. CASE LookUp
  <2> DEFINE n == Min(listed)
             r == [at |-> sidecar[opened][n], name |-> n]
  <2>1. /\ reading = "look" /\ listed # {} /\ listed' = listed \ {n}
        /\ best' = IF r.at > best.at \/ (r.at = best.at /\ r.name > best.name) THEN r ELSE best
        /\ UNCHANGED <<reading, unread, opened, read, before, lastRead>>
    BY <1>6 DEF LookUp, Recency, Ahead
  <2>2. n \in listed /\ n \in Names /\ n \in Nat /\ n \in payloads[opened]
    <3>1. listed \subseteq payloads[opened] /\ payloads[opened] \subseteq Names
      BY DEF LandingInv, LandingType, ZoneType
    <3>2. QED  BY <2>1, <3>1, MinIs, PartitionsAssumption, NamesAssumption
  <2>3. /\ r \in Recencies /\ r.at = sidecar[opened][n] /\ r.name = n
        /\ best \in Recencies /\ best.at \in Nat /\ r.at \in Nat
    BY <2>2 DEF LandingInv, LandingType, ZoneType, Recencies
  <2> HIDE DEF n, r
  <2>4. /\ best' \in Recencies /\ best' \in {r, best}
        /\ best'.at >= r.at /\ best'.at >= best.at
    BY <2>1, <2>3
  <2>5. LandingType'
    BY <1>3, <2>1, <2>4 DEF LandingInv, LandingType
  <2>6. OnDisk(opened, r)
    BY <2>2, <2>3 DEF OnDisk
  <2>7. DiskInv'
    BY <1>3, <2>1, <2>4, <2>6 DEF LandingInv, DiskInv, HoldsSince, OnDisk
  <2>8. CommandInv'
    <3>1. ASSUME NEW p \in Partitions, Served(p)  PROVE Served(p)'
      <4>1. before[p] \in Nat /\ best'.at \in Nat
        BY <2>4 DEF LandingInv, LandingType, Recencies
      <4>2. ASSUME NEW m \in listed, p = opened, sidecar[p][m] >= before[p]
            PROVE  best'.at >= before[p] \/ m \in listed'
        BY <2>1, <2>3, <2>4, <4>1, <4>2
      <4>3. p = opened /\ best.at >= before[p] => best'.at >= before[p]
        BY <2>3, <2>4, <4>1
      <4>4. QED  BY <1>3, <2>1, <3>1, <4>2, <4>3 DEF Served
    <3>2. QED  BY <2>1, <3>1 DEF LandingInv, CommandInv
  <2>9. QED  BY <1>3, <2>5, <2>7, <2>8 DEF LandingInv
<1>7. CASE ReadPayload
  <2>1. /\ reading = "look" /\ reading' = "next" /\ listed = {}
        /\ read' = [read EXCEPT ![opened] = best]
        /\ UNCHANGED <<unread, opened, listed, best, before, lastRead>>
    BY <1>7 DEF ReadPayload
  <2>2. LandingType'
    BY <1>3, <2>1 DEF LandingInv, LandingType
  <2>3. \A p \in Partitions : read'[p] = IF p = opened THEN best ELSE read[p]
    BY <2>1 DEF LandingInv, LandingType
  <2>4. DiskInv'
    BY <1>3, <2>1, <2>3 DEF LandingInv, DiskInv, HoldsSince, OnDisk
  <2>5. CommandInv'
    BY <2>1, <2>3 DEF LandingInv, CommandInv, Served
  <2>6. QED  BY <1>3, <2>2, <2>4, <2>5 DEF LandingInv
<1>8. CASE End
  <2>1. /\ reading = "next" /\ reading' = "end" /\ unread = {}
        /\ UNCHANGED <<unread, opened, listed, best, read, before, lastRead>>
    BY <1>8 DEF End
  <2>2. LandingType'
    BY <1>3, <2>1 DEF LandingInv, LandingType
  <2>3. DiskInv'
    BY <1>3, <2>1 DEF LandingInv, DiskInv, HoldsSince, OnDisk
  <2>4. CommandInv'
    BY <2>1 DEF LandingInv, CommandInv, Served
  <2>5. QED  BY <1>3, <2>2, <2>3, <2>4 DEF LandingInv
<1>9. CASE Quit
  <2>1. /\ reading' = "idle" /\ best' = Nothing
        /\ lastRead' = [p \in Partitions |-> IF read[p] = Nothing THEN lastRead[p] ELSE read[p].at]
        /\ UNCHANGED <<unread, opened, listed, read, before>>
    BY <1>9 DEF Quit
  <2>2. \A p \in Partitions : read[p] \in Recencies /\ read[p].at \in Nat /\ lastRead[p] \in Nat
    BY DEF LandingInv, LandingType, Recencies
  <2>3. lastRead' \in [Partitions -> Nat]
    BY <2>1, <2>2
  <2>4. LandingType'
    BY <1>1, <1>3, <2>1, <2>3 DEF LandingInv, LandingType
  <2>5. ASSUME NEW p \in Partitions  PROVE HoldsSince(p, lastRead'[p])
    BY <2>1 DEF LandingInv, DiskInv, HoldsSince, OnDisk
  <2>6. DiskInv'
    BY <1>3, <2>1, <2>5 DEF LandingInv, DiskInv, HoldsSince, OnDisk
  <2>7. CommandInv'
    BY <2>1 DEF CommandInv
  <2>8. QED  BY <1>3, <2>4, <2>6, <2>7 DEF LandingInv
<1>10. QED  BY <1>4, <1>5, <1>6, <1>7, <1>8, <1>9

LEMMA LandingNext == ASSUME LandingInv, [ReaderNext]_readerVars  PROVE LandingInv'
<1>1. CASE ReaderNext
  BY <1>1, IngestionNext, ReadersNext DEF ReaderNext
<1>2. CASE UNCHANGED readerVars
  <2>1. UNCHANGED <<fetches, fetching, payloads, sidecar, reading, unread, opened, listed, best,
                    read, before, lastRead>>
    BY <1>2 DEF readerVars, zone, reader
  <2>2. ZoneType' /\ LandingType'
    BY <2>1 DEF LandingInv, LandingType, ZoneType
  <2>3. SidecarsInv' /\ DiskInv'
    BY <2>1 DEF LandingInv, SidecarsInv, DiskInv, HoldsSince, OnDisk
  <2>4. CommandInv'
    BY <2>1 DEF LandingInv, CommandInv, Served
  <2>5. QED  BY <2>2, <2>3, <2>4 DEF LandingInv
<1>3. QED  BY <1>1, <1>2

THEOREM LandingInvariant == ReaderSpec => []LandingInv
<1>1. LandingInv /\ [ReaderNext]_readerVars => LandingInv'
  BY LandingNext
<1>2. QED  BY LandingInit, <1>1, PTL DEF ReaderSpec

\* A command reads of every partition a snapshot as new as any that was complete when it
\* began, whatever ingestion lands meanwhile.
THEOREM LatestIsRead == ReaderSpec => []ReadsTheLatest
<1>1. LandingInv => ReadsTheLatest
  <2> SUFFICES ASSUME LandingInv, reading = "end", NEW p \in Partitions, before[p] # 0
               PROVE  read[p].name \in payloads[p] /\ read[p].at >= before[p]
    BY DEF ReadsTheLatest, Never
  <2>1. read[p].at >= before[p]
    BY DEF LandingInv, CommandInv, Served, Never
  <2>2. read[p] # Nothing
    <3>1. Nothing.at = 0 /\ before[p] \in Nat
      BY DEF LandingInv, LandingType, Nothing, Never
    <3>2. QED  BY <2>1, <3>1
  <2>3. QED  BY <2>1, <2>2 DEF LandingInv, DiskInv, OnDisk
<1>2. QED  BY LandingInvariant, <1>1, PTL

\* From one command to the next no partition is read from an older snapshot.
THEOREM NeverAnOlderOne == ReaderSpec => NeverBackwards
<1> DEFINE Forwards == \A p \in Partitions : lastRead'[p] >= lastRead[p]
<1>1. ASSUME LandingInv, [ReaderNext]_readerVars  PROVE [Forwards]_readerVars
  <2>1. \A p \in Partitions : lastRead[p] \in Nat
    BY <1>1 DEF LandingInv, LandingType
  <2>2. CASE Quit
    <3> SUFFICES ASSUME NEW p \in Partitions  PROVE lastRead'[p] >= lastRead[p]
      OBVIOUS
    <3>1. lastRead'[p] = IF read[p] = Nothing THEN lastRead[p] ELSE read[p].at
      BY <2>2 DEF Quit, Nothing
    <3>2. /\ reading = "end" /\ unread = {} /\ lastRead[p] <= before[p] /\ before[p] \in Nat
          /\ read[p].at \in Nat
      BY <1>1, <2>2 DEF Quit, LandingInv, LandingType, CommandInv, Recencies
    <3>3. before[p] # 0 => read[p].at >= before[p]
      BY <1>1, <3>2 DEF LandingInv, CommandInv, Served, Never
    <3>4. QED  BY <2>1, <3>1, <3>2, <3>3
  <2>3. CASE ~Quit
    <3>1. UNCHANGED lastRead
      BY <1>1, <2>3 DEF ReaderNext, readerVars, reader, Fetch, WriteSidecar,
         RenamePayload, EndFetch, Start, ListPayloads, LookUp,
         ReadPayload, End
    <3>2. QED  BY <2>1, <3>1
  <2>4. QED  BY <2>2, <2>3
<1>2. [ReaderNext]_readerVars /\ LandingInv => [Forwards]_readerVars
  BY <1>1
<1>3. QED  BY LandingInvariant, <1>2, PTL DEF ReaderSpec, NeverBackwards
=============================================================================
