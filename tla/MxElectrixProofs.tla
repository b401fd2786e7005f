--------------------------- MODULE MxElectrixProofs ---------------------------
(* Proofs about MxElectrix: for any commands, meters, snapshots and number of     *)
(* runs, what a run that no other command disturbed has made is in the table, and *)
(* no earlier run of its scope takes it out again.                                *)
EXTENDS MxElectrix, TLAPS

Days == {DayOf[k] : k \in Keys}
Copy == [file : Scopes \X Days, key : Keys, stamp : Nat,
         attr : [snapshot : Nat, devices : Nat]]

TypeInv ==
    /\ landed \in [Meters -> Nat]
    /\ \A m \in Meters : landed[m] <= Len(Readings[m])
    /\ devices \in Nat
    /\ parts \in SUBSET Copy
    /\ step \in [Commands -> {"idle", "start", "work", "merging", "merged", "orphan"}]
    /\ scope \in [Commands -> Scopes]
    /\ factors \in [Commands -> Nat]
    /\ stamp \in [Commands -> Nat]
    /\ queue \in [Commands -> SUBSET Meters]
    /\ got \in [Commands -> [Meters -> Nat]]
    /\ \A c \in Commands, m \in Meters : got[c][m] <= Len(Readings[m])
    /\ wrote \in [Commands -> SUBSET Days]
    /\ runs \in Seq(Scopes)
    /\ offer \in [Commands -> SUBSET Copy]

Busy(c) == step[c] \in {"work", "merging", "merged"}

\* A command holds a stamp while it is busy; nothing in the root has one of the future.
StampsInv ==
    /\ \A c \in Commands :
          IF Busy(c) THEN stamp[c] \in 1..Len(runs) ELSE stamp[c] = 0 /\ wrote[c] = {}
    /\ \A r \in parts : r.stamp <= Len(runs)
    /\ quiet \subseteq 1..Len(runs)

Quiet(c) == Busy(c) /\ stamp[c] \in quiet

\* Until another command begins, a run is the last one that took a stamp; all that has
\* its stamp is its own, and what it has written stays.
Undisturbed(c) ==
    /\ stamp[c] = Len(runs)
    /\ \A d \in Commands \ {c} : ~Running(d)
    /\ step[c] # "work" => queue[c] = {}
    /\ queue[c] # {} => wrote[c] = {}
    /\ \A r \in parts : r.stamp = stamp[c] => queue[c] = {} /\ r \in RowsOf(c)
    /\ \A r \in RowsOf(c) : DayOf[r.key] \in wrote[c] => r \in parts

\* What the MERGE of such a run reads, and what the table has once it has committed.
Offered(c) ==
    /\ RowsOf(c) \subseteq offer[c]
    /\ \A r \in offer[c] : r.stamp <= stamp[c] /\ (r.stamp = stamp[c] => r \in RowsOf(c))

Stands(c) ==
    /\ \A r \in RowsOf(c) : Row(r) \in table
    /\ \A d \in Commands \ {c} : step[d] = "orphan" => d \in overtaken

QuietInv ==
    \A c \in Commands : Quiet(c) =>
        /\ Undisturbed(c)
        /\ step[c] = "merging" => Offered(c)
        /\ step[c] = "merged" => Stands(c)

IInv == TypeInv /\ StampsInv /\ QuietInv

(***************************************************************************)
(* The rows of a command.                                                  *)
(***************************************************************************)

LEMMA RowsType ==
    ASSUME TypeInv, NEW c \in Commands, NEW r \in RowsOf(c)
    PROVE  /\ r \in Copy
           /\ r.stamp = stamp[c]
           /\ r.file = FileOf(scope[c], DayOf[r.key])
<1>0. PICK m \in Meters : \E k \in Emitted(c, m) : r = RowOf(c, m, k)
  BY DEF RowsOf
<1>1. PICK k \in Emitted(c, m) : r = RowOf(c, m, k)
  BY <1>0
<1>2. got[c][m] \in DOMAIN Readings[m] /\ k \in Readings[m][got[c][m]]
  <2>1. got[c][m] # 0 /\ k \in Readings[m][got[c][m]]
    BY DEF Emitted
  <2>2. Readings[m] \in Seq(SUBSET Keys) /\ got[c][m] \in Nat /\ got[c][m] <= Len(Readings[m])
    BY ReadingsAssumption DEF TypeInv
  <2>3. QED  BY <2>1, <2>2
<1>3. k \in Keys
  <2>1. Readings[m] \in Seq(SUBSET Keys)
    BY ReadingsAssumption
  <2>2. Readings[m][got[c][m]] \in SUBSET Keys
    BY <1>2, <2>1
  <2>3. QED  BY <1>2, <2>2
<1>4. QED  BY <1>1, <1>3 DEF RowOf, Copy, TypeInv, FileOf, Days

\* The meters have no readings in common: one row for each key.
LEMMA OneRowPerKey ==
    ASSUME TypeInv, NEW c \in Commands, NEW r \in RowsOf(c), NEW s \in RowsOf(c), r.key = s.key
    PROVE  r = s
<1>a. PICK m \in Meters : \E k \in Emitted(c, m) : r = RowOf(c, m, k)
  BY DEF RowsOf
<1>b. PICK n \in Meters : \E l \in Emitted(c, n) : s = RowOf(c, n, l)
  BY DEF RowsOf
<1>1. PICK k \in Emitted(c, m) : r = RowOf(c, m, k)
  BY <1>a
<1>2. PICK l \in Emitted(c, n) : s = RowOf(c, n, l)
  BY <1>b
<1>3. k = l
  BY <1>1, <1>2 DEF RowOf
<1>4. m = n
  <2>1. got[c][m] \in DOMAIN Readings[m] /\ k \in Readings[m][got[c][m]]
    <3>1. got[c][m] # 0 /\ k \in Readings[m][got[c][m]]
      BY DEF Emitted
    <3>2. Readings[m] \in Seq(SUBSET Keys) /\ got[c][m] \in Nat /\ got[c][m] <= Len(Readings[m])
      BY ReadingsAssumption DEF TypeInv
    <3>3. QED  BY <3>1, <3>2
  <2>2. got[c][n] \in DOMAIN Readings[n] /\ l \in Readings[n][got[c][n]]
    <3>1. got[c][n] # 0 /\ l \in Readings[n][got[c][n]]
      BY DEF Emitted
    <3>2. Readings[n] \in Seq(SUBSET Keys) /\ got[c][n] \in Nat /\ got[c][n] <= Len(Readings[n])
      BY ReadingsAssumption DEF TypeInv
    <3>3. QED  BY <3>1, <3>2
  <2>3. QED  BY <2>1, <2>2, <1>3, ReadingsAssumption
<1>5. QED  BY <1>1, <1>2, <1>3, <1>4

\* The rows of a command depend on nothing but what it holds.
LEMMA RowsKeep ==
    ASSUME NEW c \in Commands, scope'[c] = scope[c], factors'[c] = factors[c],
           stamp'[c] = stamp[c], got'[c] = got[c]
    PROVE  RowsOf(c)' = RowsOf(c)
<1>1. \A m \in Meters : Emitted(c, m)' = Emitted(c, m)
  BY DEF Emitted
<1>2. \A m \in Meters : \A k : RowOf(c, m, k)' = RowOf(c, m, k)
  BY DEF RowOf
<1>3. QED  BY <1>1, <1>2 DEF RowsOf

\* Deduplication keeps, for each key, a copy of the highest stamp there is.
LEMMA DedupeKeeps ==
    ASSUME NEW S, NEW W \in Dedupe(S)
    PROVE  \E f \in [KeysOf(S) -> S] :
              /\ \A k \in KeysOf(S) : f[k].key = k /\ \A d \in S : d.key = k => Ranked(f[k], d)
              /\ W = {Row(f[k]) : k \in KeysOf(S)}
BY DEF Dedupe

\* A MERGE that is offered all rows of a run, and nothing as young besides them, puts
\* just these rows into the table.
LEMMA OfferedIsMerged ==
    ASSUME TypeInv, NEW c \in Commands, Offered(c),
           NEW W \in Dedupe(offer[c]), NEW r \in RowsOf(c)
    PROVE  Row(r) \in MergeInto(table, W)
<1>1. PICK f \in [KeysOf(offer[c]) -> offer[c]] :
         /\ \A k \in KeysOf(offer[c]) :
               f[k].key = k /\ \A d \in offer[c] : d.key = k => Ranked(f[k], d)
         /\ W = {Row(f[k]) : k \in KeysOf(offer[c])}
  BY DedupeKeeps
<1>2. r \in offer[c] /\ r.key \in KeysOf(offer[c])
  BY DEF Offered, KeysOf
<1>3. f[r.key] \in offer[c] /\ f[r.key].key = r.key /\ f[r.key].stamp >= r.stamp
  BY <1>1, <1>2, MeasurementsAssumption DEF Ranked
<1>4. r.stamp = stamp[c]
  BY RowsType
<1>5. f[r.key].stamp = stamp[c]
  <2>1. f[r.key].stamp \in Nat /\ stamp[c] \in Nat
    BY <1>3 DEF TypeInv, Copy
  <2>2. f[r.key].stamp <= stamp[c]
    BY <1>3 DEF Offered
  <2>3. QED  BY <1>3, <1>4, <2>1, <2>2
<1>6. f[r.key] = r
  <2>1. f[r.key] \in RowsOf(c)
    BY <1>3, <1>5 DEF Offered
  <2>2. QED  BY <1>3, <2>1, OneRowPerKey
<1>7. QED  BY <1>1, <1>2, <1>6 DEF MergeInto

(***************************************************************************)
(* The invariant.                                                          *)
(***************************************************************************)

LEMMA IInit == Init => IInv
<1> SUFFICES ASSUME Init PROVE IInv
  OBVIOUS
<1>1. TypeInv
  <2>1. \A m \in Meters : 0 <= Len(Readings[m])
    <3>1. \A m \in Meters : Readings[m] \in Seq(SUBSET Keys)
      BY ReadingsAssumption
    <3>2. QED  BY <3>1
  <2>2. QED
    BY <2>1 DEF Init, TypeInv, Each, Nowhere, Scopes, Everything
<1>2. StampsInv
  BY DEF Init, StampsInv, Busy, Each
<1>3. QuietInv
  BY DEF Init, QuietInv, Quiet, Busy, Each
<1>4. QED  BY <1>1, <1>2, <1>3 DEF IInv

LEMMA WriteKeepsCopies ==
    ASSUME TypeInv, NEW c \in Commands, NEW d \in Days, WritePart(c, d)
    PROVE  parts' \in SUBSET Copy
<1>1. \A r \in RowsOf(c) : r \in Copy
  BY RowsType
<1>2. QED  BY <1>1 DEF WritePart, Rewritten, Without, TypeInv

LEMMA TypeNext == TypeInv /\ [Next]_vars => TypeInv'
<1> SUFFICES ASSUME TypeInv, [Next]_vars PROVE TypeInv'
  OBVIOUS
<1>1. CASE LandDevices
  BY <1>1 DEF LandDevices, TypeInv, log, dataset, input, sink
<1>2. ASSUME NEW m \in Meters, Land(m) PROVE TypeInv'
  <2>1. Len(Readings[m]) \in Nat
    <3>1. Readings[m] \in Seq(SUBSET Keys)
      BY ReadingsAssumption
    <3>2. QED  BY <3>1
  <2>2. QED
    BY <1>2, <2>1 DEF Land, TypeInv, dataset, log, input, sink
<1>3. ASSUME NEW c \in Commands, Begin(c) PROVE TypeInv'
  BY <1>3 DEF Begin, TypeInv, zone, dataset, sink
<1>4. ASSUME NEW c \in Commands, StartTransform(c) PROVE TypeInv'
  <2>1. runs' \in Seq(Scopes) /\ Len(runs') \in Nat
    BY <1>4 DEF StartTransform, TypeInv
  <2>2. {m \in InScope(scope[c]) : landed[m] # 0} \in SUBSET Meters
    BY DEF InScope, TypeInv, Scopes, Everything
  <2>3. QED
    BY <1>4, <2>1, <2>2 DEF StartTransform, TypeInv, zone, dataset, sink
<1>5. ASSUME NEW c \in Commands, ReadMeter(c) PROVE TypeInv'
  <2> DEFINE x == Min(queue[c])
  <2>1. \A m \in Meters : got'[c][m] = IF m = x THEN landed[x] ELSE got[c][m]
    BY <1>5 DEF ReadMeter, TypeInv
  <2>2. \A d \in Commands \ {c} : got'[d] = got[d]
    BY <1>5 DEF ReadMeter, TypeInv
  <2>3. got'[c] \in [Meters -> Nat]
    <3>1. got'[c] = [got[c] EXCEPT ![x] = landed[x]]
      BY <1>5 DEF ReadMeter, TypeInv
    <3>2. \A m \in Meters : got'[c][m] \in Nat
      BY <2>1 DEF TypeInv
    <3>3. QED  BY <3>1, <3>2 DEF TypeInv
  <2>4. got' \in [Commands -> [Meters -> Nat]]
    <3>1. got' = [got EXCEPT ![c] = got'[c]]
      BY <1>5 DEF ReadMeter, TypeInv
    <3>2. QED  BY <2>3, <3>1 DEF TypeInv
  <2>5. \A d \in Commands, m \in Meters : got'[d][m] <= Len(Readings[m])
    BY <2>1, <2>2 DEF TypeInv
  <2>6. queue' \in [Commands -> SUBSET Meters]
    BY <1>5 DEF ReadMeter, TypeInv
  <2>7. QED
    BY <1>5, <2>4, <2>5, <2>6 DEF ReadMeter, TypeInv, log, zone, dataset, sink
<1>6. ASSUME NEW c \in Commands, NEW d \in Days, WritePart(c, d) PROVE TypeInv'
  <2>1. parts' \in SUBSET Copy
    BY <1>6, WriteKeepsCopies
  <2>2. QED
    BY <1>6, <2>1 DEF WritePart, TypeInv, log, zone, input, sink
<1>7. ASSUME NEW c \in Commands, Exit(c), UNCHANGED <<zone, dataset, log, sink>> PROVE TypeInv'
  BY <1>7 DEF Exit, Leave, TypeInv, zone, dataset, log, sink, Nowhere, Scopes, Everything
<1>8. ASSUME NEW c \in Commands, StartMerge(c) PROVE TypeInv'
  BY <1>8 DEF StartMerge, TypeInv, log, zone, dataset, input
<1>9. ASSUME NEW c \in Commands, CommitMerge(c) PROVE TypeInv'
  BY <1>9 DEF CommitMerge, Forget, TypeInv, log, zone, dataset, input
<1>10. ASSUME NEW c \in Commands, FailMerge(c) PROVE TypeInv'
  BY <1>10 DEF FailMerge, Exit, Leave, Forget, TypeInv, log, zone, dataset, Nowhere, Scopes, Everything
<1>11. ASSUME NEW c \in Commands, Kill(c) PROVE TypeInv'
  BY <1>11 DEF Kill, Leave, TypeInv, log, zone, sink, Nowhere, Scopes, Everything
<1>12. CASE UNCHANGED vars
  BY <1>12 DEF vars, log, zone, dataset, input, sink, TypeInv
<1>13. QED
  BY <1>1, <1>2, <1>3, <1>4, <1>5, <1>6, <1>7, <1>8, <1>9, <1>10, <1>11, <1>12
  DEF Next, Days, EndCommand, EndLoad

\* What Exit, and likewise Leave, does to the command it ends and to no other
LEMMA Leaves ==
    ASSUME TypeInv, NEW c \in Commands, Leave(c)
    PROVE  /\ stamp'[c] = 0 /\ wrote'[c] = {}
           /\ \A d \in Commands \ {c} :
                 /\ stamp'[d] = stamp[d] /\ scope'[d] = scope[d] /\ factors'[d] = factors[d]
                 /\ queue'[d] = queue[d] /\ got'[d] = got[d] /\ wrote'[d] = wrote[d]
BY DEF Leave, TypeInv

LEMMA StampsNext == TypeInv /\ StampsInv /\ [Next]_vars => StampsInv'
<1> SUFFICES ASSUME TypeInv, StampsInv, [Next]_vars PROVE StampsInv'
  OBVIOUS
<1> USE DEF StampsInv, Busy
<1>1. CASE LandDevices \/ \E m \in Meters : Land(m)
  BY <1>1 DEF LandDevices, Land, dataset, input, log
<1>2. ASSUME NEW c \in Commands, Begin(c) PROVE StampsInv'
  BY <1>2 DEF Begin, TypeInv, dataset
<1>3. ASSUME NEW c \in Commands, StartTransform(c) PROVE StampsInv'
  <2>1. Len(runs') = Len(runs) + 1 /\ Len(runs) \in Nat
    BY <1>3 DEF StartTransform, TypeInv
  <2>2. \A d \in Commands :
         IF Busy(d)' THEN stamp'[d] \in 1..Len(runs') ELSE stamp'[d] = 0 /\ wrote'[d] = {}
    <3>1. Busy(c)' /\ stamp'[c] = Len(runs')
      BY <1>3 DEF StartTransform, TypeInv
    <3>2. \A d \in Commands \ {c} :
             step'[d] = step[d] /\ stamp'[d] = stamp[d] /\ wrote'[d] = wrote[d]
      BY <1>3 DEF StartTransform, TypeInv
    <3>3. QED  BY <2>1, <3>1, <3>2
  <2>3. \A r \in parts' : r.stamp <= Len(runs')
    BY <1>3, <2>1 DEF StartTransform, TypeInv, dataset, Copy
  <2>4. quiet' \subseteq 1..Len(runs')
    <3>1. quiet' = quiet \cup {Len(runs')} \/ quiet' = quiet
      BY <1>3 DEF StartTransform
    <3>2. 1..Len(runs) \cup {Len(runs')} \subseteq 1..Len(runs')
      BY <2>1
    <3>3. QED  BY <3>1, <3>2
  <2>5. QED  BY <2>2, <2>3, <2>4
<1>4. ASSUME NEW c \in Commands, ReadMeter(c) PROVE StampsInv'
  BY <1>4 DEF ReadMeter, dataset, log
<1>5. ASSUME NEW c \in Commands, NEW d \in Days, WritePart(c, d) PROVE StampsInv'
  <2>1. step[c] = "work"
    BY <1>5 DEF WritePart, ToWrite
  <2>2. \A r \in RowsOf(c) : r.stamp <= Len(runs)
    BY <2>1, RowsType DEF TypeInv
  <2>3. \A r \in parts' : r.stamp <= Len(runs)
    BY <1>5, <2>2 DEF WritePart, Rewritten, Without
  <2>4. \A e \in Commands : wrote'[e] = wrote[e] \/ e = c
    BY <1>5 DEF WritePart, TypeInv
  <2>5. QED  BY <1>5, <2>1, <2>3, <2>4 DEF WritePart, input, log
<1>6. ASSUME NEW c \in Commands, Exit(c), UNCHANGED <<dataset, log>> PROVE StampsInv'
  <2>1. Leave(c) /\ step' = [step EXCEPT ![c] = "idle"]
    BY <1>6 DEF Exit
  <2>2. \A d \in Commands :
         IF Busy(d)' THEN stamp'[d] \in 1..Len(runs') ELSE stamp'[d] = 0 /\ wrote'[d] = {}
    BY <1>6, <2>1, Leaves DEF TypeInv, log
  <2>3. QED  BY <1>6, <2>2 DEF dataset, log
<1>7. ASSUME NEW c \in Commands, StartMerge(c) PROVE StampsInv'
  BY <1>7 DEF StartMerge, Written, TypeInv, dataset, input, log
<1>8. ASSUME NEW c \in Commands, CommitMerge(c) PROVE StampsInv'
  BY <1>8 DEF CommitMerge, TypeInv, dataset, input, log
<1>9. ASSUME NEW c \in Commands, Kill(c) PROVE StampsInv'
  <2>1. \A d \in Commands :
         IF Busy(d)' THEN stamp'[d] \in 1..Len(runs') ELSE stamp'[d] = 0 /\ wrote'[d] = {}
    BY <1>9, Leaves DEF Kill, TypeInv, log
  <2>2. QED  BY <1>9, <2>1 DEF Kill, log
<1>10. CASE UNCHANGED vars
  BY <1>10 DEF vars, dataset, input, log
<1>11. QED
  BY <1>1, <1>2, <1>3, <1>4, <1>5, <1>6, <1>7, <1>8, <1>9, <1>10
  DEF Next, Days, EndCommand, EndLoad, FailMerge

\* A command that no other one disturbs is the only one that runs.
LEMMA OnlyOne ==
    ASSUME QuietInv, NEW x \in Commands, Quiet(x), NEW c \in Commands, c # x
    PROVE  step[c] \in {"idle", "orphan"}
BY DEF QuietInv, Undisturbed, Running

\* What a quiet run has depends on what it holds, the root, its offer and the table.
LEMMA QuietKeeps ==
    ASSUME NEW x \in Commands, Undisturbed(x),
           step[x] = "merging" => Offered(x), step[x] = "merged" => Stands(x),
           RowsOf(x)' = RowsOf(x), step'[x] = step[x], stamp'[x] = stamp[x],
           queue'[x] = queue[x], wrote'[x] = wrote[x], offer'[x] = offer[x],
           parts' = parts, table' = table, Len(runs') = Len(runs),
           \A d \in Commands \ {x} : ~Running(d)',
           \A d \in Commands \ {x} :
              step'[d] = "orphan" => step[d] = "orphan" /\ (d \in overtaken => d \in overtaken')
    PROVE  /\ Undisturbed(x)'
           /\ step'[x] = "merging" => Offered(x)'
           /\ step'[x] = "merged" => Stands(x)'
<1>1. Undisturbed(x)'
  BY DEF Undisturbed
<1>2. step'[x] = "merging" => Offered(x)'
  BY DEF Offered
<1>3. step'[x] = "merged" => Stands(x)'
  BY DEF Stands
<1>4. QED  BY <1>1, <1>2, <1>3

LEMMA QuietNext == IInv /\ [Next]_vars => QuietInv'
<1> SUFFICES ASSUME TypeInv, StampsInv, QuietInv, [Next]_vars,
                    NEW x \in Commands, Quiet(x)'
             PROVE  /\ Undisturbed(x)'
                    /\ step'[x] = "merging" => Offered(x)'
                    /\ step'[x] = "merged" => Stands(x)'
  BY DEF IInv, QuietInv
<1> DEFINE Goal == /\ Undisturbed(x)'
                   /\ step'[x] = "merging" => Offered(x)'
                   /\ step'[x] = "merged" => Stands(x)'
<1>0. Quiet(x) => /\ Undisturbed(x)
                  /\ step[x] = "merging" => Offered(x)
                  /\ step[x] = "merged" => Stands(x)
  BY DEF QuietInv
<1>a. \A c \in Commands \ {x} : Quiet(x) => step[c] \in {"idle", "orphan"}
  BY OnlyOne
<1>1. CASE LandDevices \/ (\E m \in Meters : Land(m)) \/ UNCHANGED vars
  <2>1. UNCHANGED <<dataset, step, input, wrote, log, sink>>
    BY <1>1 DEF LandDevices, Land, vars
  <2>2. RowsOf(x)' = RowsOf(x)
    BY <2>1, RowsKeep DEF input
  <2>3. Quiet(x)
    BY <2>1 DEF Quiet, Busy, input, log
  <2>4. QED
    BY <1>0, <1>a, <2>1, <2>2, <2>3, QuietKeeps DEF dataset, input, log, sink, Running
<1>2. ASSUME NEW c \in Commands, Begin(c) PROVE Goal
  <2>1. stamp'[x] = stamp[x] /\ stamp[x] \notin quiet'
    BY <1>2 DEF Begin
  <2>2. QED  BY <2>1 DEF Quiet
<1>3. ASSUME NEW c \in Commands, StartTransform(c) PROVE Goal
  <2>1. Len(runs') = Len(runs) + 1 /\ Len(runs) \in Nat
    BY <1>3 DEF StartTransform, TypeInv
  <2>2. CASE x # c
    <3>1. step'[x] = step[x] /\ stamp'[x] = stamp[x]
      BY <1>3, <2>2 DEF StartTransform, TypeInv
    <3>2. stamp[x] \in quiet
      <4>1. stamp[x] \in 1..Len(runs)
        BY <3>1 DEF StampsInv, Quiet, Busy
      <4>2. quiet' = quiet \cup {Len(runs')} \/ quiet' = quiet
        BY <1>3 DEF StartTransform
      <4>3. QED  BY <2>1, <3>1, <4>1, <4>2 DEF Quiet
    <3>3. Quiet(x)
      BY <3>1, <3>2 DEF Quiet, Busy
    <3>4. QED  BY <1>3, <1>a, <2>2, <3>3 DEF StartTransform
  <2>3. CASE x = c
    <3>1. stamp'[c] = Len(runs') /\ step'[c] = "work"
      BY <1>3 DEF StartTransform, TypeInv
    <3>2. \A d \in Commands \ {c} : ~Running(d)
      <4>1. quiet' # quiet
        BY <2>1, <2>3, <3>1 DEF Quiet, StampsInv
      <4>2. QED  BY <1>3, <4>1 DEF StartTransform
    <3>3. \A d \in Commands \ {c} : ~Running(d)'
      BY <1>3, <3>2 DEF StartTransform, Running, TypeInv
    <3>4. wrote'[c] = {}
      BY <1>3 DEF StartTransform, StampsInv, Busy
    <3>5. \A r \in parts' : r.stamp # stamp'[c]
      BY <1>3, <2>1, <3>1 DEF StartTransform, dataset, StampsInv, TypeInv, Copy
    <3>6. QED  BY <2>3, <3>1, <3>3, <3>4, <3>5 DEF Undisturbed
  <2>4. QED  BY <2>2, <2>3
<1>4. ASSUME NEW c \in Commands, ReadMeter(c) PROVE Goal
  <2>1. Quiet(x) /\ step'[x] = step[x] /\ stamp'[x] = stamp[x] /\ wrote'[x] = wrote[x]
    BY <1>4 DEF ReadMeter, Quiet, Busy, log
  <2>2. x = c
    BY <1>4, <1>a, <2>1 DEF ReadMeter
  <2>3. wrote[x] = {} /\ step[x] = "work"
    BY <1>0, <1>4, <2>1, <2>2 DEF Undisturbed, ReadMeter
  <2>4. \A r \in parts : r.stamp # stamp[x]
    BY <1>0, <1>4, <2>1, <2>2 DEF Undisturbed, ReadMeter
  <2>5. QED
    BY <1>0, <1>4, <2>1, <2>3, <2>4 DEF Undisturbed, ReadMeter, Running, dataset, log
<1>5. ASSUME NEW c \in Commands, NEW d \in Days, WritePart(c, d) PROVE Goal
  <2>1. step[c] = "work" /\ queue[c] = {}
    BY <1>5 DEF WritePart, ToWrite
  <2>2. Quiet(x) /\ step' = step /\ stamp' = stamp /\ queue' = queue
    BY <1>5 DEF WritePart, Quiet, Busy, input, log
  <2>3. x = c
    BY <1>a, <2>1, <2>2
  <2>4. RowsOf(x)' = RowsOf(x)
    BY <1>5, RowsKeep DEF WritePart, input
  <2>5. parts' = Rewritten(c, FileOf(scope[c], d))
    <3>1. \A e \in Commands \ {c} : ToWrite(e) = {}
      BY <1>a, <2>2, <2>3 DEF ToWrite
    <3>2. QED  BY <1>5, <3>1 DEF WritePart
  <2>6. wrote'[c] = wrote[c] \cup {d}
    BY <1>5 DEF WritePart, TypeInv
  <2>7. \A r \in parts' : r.stamp = stamp[c] => r \in RowsOf(c)
    BY <1>0, <2>2, <2>3, <2>5 DEF Undisturbed, Rewritten, Without
  <2>8. \A r \in RowsOf(c) : DayOf[r.key] \in wrote'[c] => r \in parts'
    <3>1. SUFFICES ASSUME NEW r \in RowsOf(c), DayOf[r.key] \in wrote[c] \cup {d}
                   PROVE  r \in parts'
      BY <2>6
    <3>2. r.file = FileOf(scope[c], DayOf[r.key])
      BY RowsType
    <3>3. CASE DayOf[r.key] = d
      BY <2>5, <3>2, <3>3 DEF Rewritten
    <3>4. CASE DayOf[r.key] # d
      <4>1. r \in parts
        BY <1>0, <2>2, <2>3, <3>1, <3>4 DEF Undisturbed
      <4>2. r.file # FileOf(scope[c], d)
        BY <3>2, <3>4 DEF FileOf
      <4>3. QED  BY <2>5, <4>1, <4>2 DEF Rewritten, Without
    <3>5. QED  BY <3>3, <3>4
  <2>9. QED
    BY <1>0, <1>5, <2>1, <2>2, <2>3, <2>4, <2>7, <2>8 DEF Undisturbed, WritePart, Running, log
<1>6. ASSUME NEW c \in Commands, StartMerge(c) PROVE Goal
  <2>1. Quiet(x) /\ stamp' = stamp /\ queue' = queue /\ wrote' = wrote /\ parts' = parts
    <3>1. Busy(c) /\ \A d \in Commands \ {c} : step'[d] = step[d]
      BY <1>6 DEF StartMerge, Written, Busy, TypeInv
    <3>2. QED  BY <1>6, <3>1 DEF StartMerge, Quiet, Busy, input, dataset, log
  <2>2. x = c /\ step[c] = "work" /\ queue[c] = {}
    BY <1>6, <1>a, <2>1 DEF StartMerge, Written
  <2>3. RowsOf(x)' = RowsOf(x)
    BY <1>6, RowsKeep DEF StartMerge, input
  <2>4. step'[c] = "merging" /\ offer'[c] = parts
    BY <1>6 DEF StartMerge, TypeInv
  <2>5. \A d \in Commands \ {c} : ~Running(d)'
    BY <1>0, <1>6, <2>1, <2>2 DEF StartMerge, Undisturbed, Running, TypeInv
  <2>6. Undisturbed(x)'
    BY <1>0, <1>6, <2>1, <2>2, <2>3, <2>4, <2>5 DEF StartMerge, Undisturbed, log
  <2>7. Offered(x)'
    <3>1. \A r \in RowsOf(c) : DayOf[r.key] \in wrote[c]
      BY <1>6, <2>2 DEF StartMerge, Written, ToWrite
    <3>2. RowsOf(c) \subseteq parts
      BY <1>0, <2>1, <2>2, <3>1 DEF Undisturbed
    <3>3. \A r \in parts : r.stamp <= stamp[c] /\ (r.stamp = stamp[c] => r \in RowsOf(c))
      BY <1>0, <2>1, <2>2 DEF Undisturbed, StampsInv
    <3>4. QED  BY <2>1, <2>2, <2>3, <2>4, <3>2, <3>3 DEF Offered
  <2>8. QED  BY <2>2, <2>4, <2>6, <2>7
<1>7. ASSUME NEW c \in Commands, CommitMerge(c) PROVE Goal
  <2>1. /\ \A d \in Commands \ {c} : step'[d] = step[d]
        /\ step'[c] = IF step[c] = "orphan" THEN "idle" ELSE "merged"
    BY <1>7 DEF CommitMerge, TypeInv
  <2>2. Quiet(x)
    <3>1. stamp' = stamp /\ quiet' = quiet
      BY <1>7 DEF CommitMerge, input, log
    <3>2. Busy(x)
      <4>1. step'[x] \in {"work", "merging", "merged"} /\ step[c] \in {"merging", "orphan"}
        BY <1>7 DEF CommitMerge, Quiet, Busy
      <4>2. CASE x = c
        BY <2>1, <4>1, <4>2 DEF Busy
      <4>3. CASE x # c
        BY <2>1, <4>1, <4>3 DEF Busy
      <4>4. QED  BY <4>2, <4>3
    <3>3. QED  BY <3>1, <3>2 DEF Quiet
  <2>3. RowsOf(x)' = RowsOf(x)
    BY <1>7, RowsKeep DEF CommitMerge, input
  <2>4. \A d \in Commands \ {x} : ~Running(d)'
    BY <1>7, <1>a, <2>1, <2>2 DEF CommitMerge, Running
  <2>5. CASE x = c
    <3>1. step[c] = "merging" /\ step'[c] = "merged"
      BY <1>7, <2>1, <2>5 DEF Quiet, Busy, CommitMerge
    <3>2. Undisturbed(x)'
      BY <1>0, <1>7, <2>2, <2>3, <2>4, <2>5, <3>1 DEF CommitMerge, Undisturbed, input, dataset, log
    <3>3. \A r \in RowsOf(c) : Row(r) \in table'
      <4>1. Offered(c)
        BY <1>0, <2>2, <2>5, <3>1
      <4>2. PICK W \in Dedupe(offer[c]) : table' = MergeInto(table, W)
        BY <1>7 DEF CommitMerge
      <4>3. QED  BY <4>1, <4>2, OfferedIsMerged
    <3>4. \A d \in Commands \ {c} : step'[d] = "orphan" => d \in overtaken'
      BY <1>7, <2>1 DEF CommitMerge
    <3>5. Stands(x)'
      BY <2>3, <2>5, <3>3, <3>4 DEF Stands, Row
    <3>6. QED  BY <2>5, <3>1, <3>2, <3>5
  <2>6. CASE x # c
    <3>1. step[c] = "orphan" /\ step'[x] = step[x]
      BY <1>7, <1>a, <2>1, <2>2, <2>6 DEF CommitMerge
    <3>2. step[x] # "merged"
      BY <1>0, <1>7, <2>2, <2>6, <3>1 DEF CommitMerge, Stands
    <3>3. offer'[x] = offer[x]
      BY <1>7, <2>6 DEF CommitMerge, Forget, TypeInv
    <3>4. Undisturbed(x)'
      BY <1>0, <1>7, <2>2, <2>3, <2>4, <3>1 DEF CommitMerge, Undisturbed, input, dataset, log
    <3>5. step'[x] = "merging" => Offered(x)'
      BY <1>0, <1>7, <2>2, <2>3, <3>1, <3>3 DEF CommitMerge, Offered, input
    <3>6. QED  BY <3>1, <3>2, <3>4, <3>5
  <2>7. QED  BY <2>5, <2>6
<1>8. ASSUME NEW c \in Commands, Exit(c), UNCHANGED <<dataset, log, table>>,
             \A d \in Commands \ {c} :
                offer'[d] = offer[d] /\ (d \in overtaken => d \in overtaken')
      PROVE  Goal
  <2>1. /\ step'[c] = "idle" /\ Leave(c)
        /\ \A d \in Commands \ {c} : step'[d] = step[d]
    BY <1>8 DEF Exit, TypeInv
  <2>2. x # c
    BY <2>1 DEF Quiet, Busy
  <2>3. /\ step'[x] = step[x] /\ stamp'[x] = stamp[x] /\ scope'[x] = scope[x]
        /\ factors'[x] = factors[x] /\ queue'[x] = queue[x] /\ got'[x] = got[x]
        /\ wrote'[x] = wrote[x]
    BY <2>1, <2>2, Leaves
  <2>4. RowsOf(x)' = RowsOf(x)
    BY <2>3, RowsKeep
  <2>5. Quiet(x)
    BY <1>8, <2>3 DEF Quiet, Busy, log
  <2>6. \A d \in Commands \ {x} : ~Running(d)'
    BY <1>a, <2>1, <2>5 DEF Running
  <2>7. QED
    BY <1>0, <1>8, <2>1, <2>2, <2>3, <2>4, <2>5, <2>6, QuietKeeps DEF dataset, log
<1>9. ASSUME NEW c \in Commands, FailMerge(c) PROVE Goal
  <2>1. \A d \in Commands \ {c} : offer'[d] = offer[d] /\ (d \in overtaken => d \in overtaken')
    BY <1>9 DEF FailMerge, Forget, TypeInv
  <2>2. QED  BY <1>8, <1>9, <2>1 DEF FailMerge
<1>10. ASSUME NEW c \in Commands, Kill(c) PROVE Goal
  <2>1. step'[c] \in {"idle", "orphan"} /\ Leave(c)
    BY <1>10 DEF Kill, TypeInv
  <2>2. x # c
    BY <2>1 DEF Quiet, Busy
  <2>3. step'[x] = step[x] /\ stamp'[x] = stamp[x]
    BY <1>10, <2>1, <2>2, Leaves DEF Kill, TypeInv
  <2>4. Quiet(x)
    BY <1>10, <2>3 DEF Kill, Quiet, Busy, log
  <2>5. QED  BY <1>10, <1>a, <2>2, <2>4 DEF Kill, Running
<1>11. ASSUME NEW c \in Commands, EndCommand(c) \/ EndLoad(c) PROVE Goal
  BY <1>8, <1>11 DEF EndCommand, EndLoad, sink
<1>12. QED
  BY <1>1, <1>2, <1>3, <1>4, <1>5, <1>6, <1>7, <1>9, <1>10, <1>11 DEF Next, Days

\* Whatever other scopes, earlier snapshots and killed commands have left in the root,
\* and whatever MERGE is still running for one of them: the rows of a run that no other
\* command disturbed are in the table once its MERGE has committed.
THEOREM QuietRunsStand == Spec => []QuietRunStands
<1>1. IInv /\ [Next]_vars => IInv'
  BY TypeNext, StampsNext, QuietNext DEF IInv
<1>2. IInv => QuietRunStands
  BY DEF IInv, QuietInv, Quiet, Busy, Stands, QuietRunStands
<1>3. QED  BY IInit, <1>1, <1>2, PTL DEF Spec

(***************************************************************************)
(* Runs of one scope do not undo each other.  A file belongs to one scope  *)
(* and one day, so what a run writes replaces every older copy its scope   *)
(* has of these keys; and a MERGE that read them before is overtaken by    *)
(* the one that brings the run's rows into the table.                      *)
(***************************************************************************)

\* The stamp of a copy is that of a run, and its file is one of the scope of this run.
FilesInv ==
    /\ \A p \in parts : p.stamp \in 1..Len(runs) /\ p.file = FileOf(runs[p.stamp], DayOf[p.key])
    /\ \A c \in Commands : \A p \in offer[c] : p.stamp \in 1..Len(runs)
    /\ \A c \in Commands : step[c] \notin {"merging", "orphan"} => offer[c] = {}

\* The table has one row for each key, made by some run.
TableInv ==
    /\ \A t \in table : t.stamp \in 1..Len(runs)
    /\ \A t, u \in table : t.key = u.key => t = u

\* No command has a stamp older than that of a run that was alone when it took its own.
TurnsInv ==
    \A c \in Commands : Busy(c) =>
        /\ runs[stamp[c]] = scope[c]
        /\ \A i \in quiet : i <= stamp[c]

\* No copy in S is older than r and of a run of the same scope.
NoOlder(S, r) ==
    \A p \in S : p.key = r.key /\ runs[p.stamp] = runs[r.stamp] => r.stamp <= p.stamp

\* Where a row of an undisturbed run has come, older ones of its scope cannot follow.
OrderInv ==
    /\ \A r \in parts : r.stamp \in quiet => NoOlder(parts, r)
    /\ \A r \in table : r.stamp \in quiet => NoOlder(parts, r)
    /\ \A c \in Commands \ overtaken :
          /\ \A r \in offer[c] : r.stamp \in quiet => NoOlder(parts, r) /\ NoOlder(offer[c], r)
          /\ \A r \in table : r.stamp \in quiet => NoOlder(offer[c], r)

SInv == TypeInv /\ StampsInv /\ FilesInv /\ TableInv /\ TurnsInv /\ OrderInv

(***************************************************************************)
(* What the actions do to the log, the root and the offers.                *)
(***************************************************************************)

\* A stamp that was given stays that of its run.
LEMMA LogGrows ==
    ASSUME TypeInv, [Next]_vars
    PROVE  /\ Len(runs) \in Nat /\ Len(runs) <= Len(runs')
           /\ \A i \in 1..Len(runs) : runs'[i] = runs[i]
<1>0. runs \in Seq(Scopes) /\ Len(runs) \in Nat
  BY DEF TypeInv
<1>1. ASSUME NEW c \in Commands, StartTransform(c)
      PROVE  Len(runs) <= Len(runs') /\ \A i \in 1..Len(runs) : runs'[i] = runs[i]
  <2>1. runs' = Append(runs, scope[c]) /\ scope[c] \in Scopes
    BY <1>1 DEF StartTransform, TypeInv
  <2>2. QED  BY <1>0, <2>1
<1>2. CASE runs' = runs
  BY <1>0, <1>2
<1>3. (\E c \in Commands : StartTransform(c)) \/ runs' = runs
  BY DEF Next, vars, log, LandDevices, Land, Begin, ReadMeter, WritePart, EndCommand, StartMerge,
         CommitMerge, FailMerge, EndLoad, Kill
<1>4. QED  BY <1>0, <1>1, <1>2, <1>3

\* Only a command that is given a stamp may be added to the undisturbed ones.
LEMMA QuietGrows ==
    ASSUME TypeInv, [Next]_vars, NEW i \in quiet', i <= Len(runs)
    PROVE  i \in quiet
<1>0. Len(runs) \in Nat
  BY DEF TypeInv
<1>1. ASSUME NEW c \in Commands, StartTransform(c) PROVE i \in quiet
  <2>1. Len(runs') = Len(runs) + 1
    BY <1>1 DEF StartTransform, TypeInv
  <2>2. i # Len(runs')
    BY <1>0, <2>1
  <2>3. QED  BY <1>1, <2>2 DEF StartTransform
<1>2. (\E c \in Commands : StartTransform(c)) \/ quiet' \subseteq quiet
  BY DEF Next, vars, log, LandDevices, Land, Begin, ReadMeter, WritePart, EndCommand, StartMerge,
         CommitMerge, FailMerge, EndLoad, Kill
<1>3. QED  BY <1>1, <1>2

\* The copies in the root come from the root, or are rows a command writes into its file.
LEMMA PartsCome ==
    ASSUME TypeInv, [Next]_vars
    PROVE  \/ parts' \subseteq parts
           \/ \E c \in Commands, d \in Days :
                 /\ WritePart(c, d)
                 /\ parts' = Rewritten(c, FileOf(scope[c], d))
<1>1. ASSUME NEW c \in Commands, NEW d \in Days, WritePart(c, d)
      PROVE  parts' \subseteq parts \/ parts' = Rewritten(c, FileOf(scope[c], d))
  BY <1>1 DEF WritePart, Without
<1>2. ASSUME NEW c \in Commands, Kill(c) PROVE parts' \subseteq parts
  BY <1>2 DEF Kill
<1>3. \/ \E c \in Commands : Kill(c)
      \/ \E c \in Commands, d \in Days : WritePart(c, d)
      \/ parts' = parts
  BY DEF Next, vars, dataset, Days, LandDevices, Land, Begin, StartTransform, ReadMeter,
         EndCommand, StartMerge, CommitMerge, FailMerge, EndLoad
<1>4. QED  BY <1>1, <1>2, <1>3

\* A row of a command is dated by its stamp and lies in the file of its scope.
LEMMA WrittenRows ==
    ASSUME TypeInv, StampsInv, TurnsInv, NEW c \in Commands, NEW d \in Days, WritePart(c, d),
           NEW p \in RowsOf(c)
    PROVE  /\ p.stamp = stamp[c] /\ p.stamp \in 1..Len(runs)
           /\ p.file = FileOf(runs[p.stamp], DayOf[p.key])
           /\ \A i \in quiet : i <= p.stamp
<1>1. Busy(c)
  BY DEF WritePart, ToWrite, Busy
<1>2. p.stamp = stamp[c] /\ p.file = FileOf(scope[c], DayOf[p.key])
  BY RowsType
<1>3. QED  BY <1>1, <1>2 DEF StampsInv, TurnsInv

\* What a MERGE reads is what the root has when it starts.
LEMMA OffersCome ==
    ASSUME TypeInv, [Next]_vars, NEW x \in Commands
    PROVE  \/ offer'[x] = offer[x]
           \/ offer'[x] = {}
           \/ StartMerge(x) /\ offer'[x] = parts
<1>1. ASSUME NEW c \in Commands, StartMerge(c)
      PROVE  offer'[x] = offer[x] \/ (StartMerge(x) /\ offer'[x] = parts)
  BY <1>1 DEF StartMerge, TypeInv
<1>2. ASSUME NEW c \in Commands, CommitMerge(c) \/ FailMerge(c)
      PROVE  offer'[x] = offer[x] \/ offer'[x] = {}
  BY <1>2 DEF CommitMerge, FailMerge, Forget, TypeInv
<1>3. \/ \E c \in Commands : StartMerge(c) \/ CommitMerge(c) \/ FailMerge(c)
      \/ offer' = offer
  BY DEF Next, vars, sink, LandDevices, Land, Begin, StartTransform, ReadMeter, WritePart,
         EndCommand, EndLoad, Kill
<1>4. QED  BY <1>1, <1>2, <1>3

\* The table changes by commits only.
LEMMA TableComes ==
    ASSUME [Next]_vars
    PROVE  \/ table' = table
           \/ \E c \in Commands \ overtaken :
                 CommitMerge(c) /\ \E W \in Dedupe(offer[c]) : table' = MergeInto(table, W)
BY DEF Next, vars, sink, LandDevices, Land, Begin, StartTransform, ReadMeter, WritePart,
       EndCommand, StartMerge, CommitMerge, FailMerge, EndLoad, Kill

\* A MERGE that may still commit could before, and there has been no other commit.
LEMMA OvertakenStays ==
    ASSUME TypeInv, FilesInv, [Next]_vars,
           NEW x \in Commands, x \notin overtaken', offer'[x] # {}
    PROVE  x \notin overtaken /\ table' = table
<1>1. ASSUME NEW c \in Commands, CommitMerge(c) PROVE FALSE
  <2>1. x # c
    BY <1>1 DEF CommitMerge, Forget, TypeInv
  <2>2. offer'[x] = offer[x]
    BY <1>1, <2>1 DEF CommitMerge, Forget, TypeInv
  <2>3. step[x] \in {"merging", "orphan"}
    BY <2>2 DEF FilesInv
  <2>4. QED  BY <1>1, <2>1, <2>3 DEF CommitMerge
<1>2. ASSUME NEW c \in Commands, FailMerge(c) PROVE x \notin overtaken /\ table' = table
  <2>1. x # c
    BY <1>2 DEF FailMerge, Forget, TypeInv
  <2>2. QED  BY <1>2, <2>1 DEF FailMerge
<1>3. \/ \E c \in Commands : CommitMerge(c) \/ FailMerge(c)
      \/ overtaken' = overtaken /\ table' = table
  BY DEF Next, vars, sink, LandDevices, Land, Begin, StartTransform, ReadMeter, WritePart,
         EndCommand, StartMerge, EndLoad, Kill
<1>4. QED  BY <1>1, <1>2, <1>3

\* The rows a MERGE brings are offered, one of each key.
LEMMA BroughtRows ==
    ASSUME NEW S, NEW W \in Dedupe(S)
    PROVE  /\ \A w \in W : \E p \in S : w = Row(p)
           /\ \A v, w \in W : v.key = w.key => v = w
<1>1. PICK f \in [KeysOf(S) -> S] :
         /\ \A k \in KeysOf(S) : f[k].key = k /\ \A d \in S : d.key = k => Ranked(f[k], d)
         /\ W = {Row(f[k]) : k \in KeysOf(S)}
  BY DedupeKeeps
<1>2. \A k \in KeysOf(S) : f[k] \in S /\ Row(f[k]).key = k
  BY <1>1 DEF Row
<1>3. QED  BY <1>1, <1>2

(***************************************************************************)
(* The invariant.                                                          *)
(***************************************************************************)

LEMMA SInit == Init => SInv
<1>1. Init => TypeInv /\ StampsInv
  BY IInit DEF IInv
<1>2. Init => FilesInv /\ TableInv /\ TurnsInv /\ OrderInv
  BY DEF Init, Each, FilesInv, TableInv, TurnsInv, OrderInv, Busy
<1>3. QED  BY <1>1, <1>2 DEF SInv

LEMMA FilesNext == SInv /\ [Next]_vars => FilesInv'
<1> SUFFICES ASSUME SInv, [Next]_vars PROVE FilesInv'
  OBVIOUS
<1> USE DEF SInv
<1>1. /\ Len(runs) \in Nat /\ Len(runs') \in Nat /\ Len(runs) <= Len(runs')
      /\ \A i \in 1..Len(runs) : i \in 1..Len(runs') /\ runs'[i] = runs[i]
  <2>1. Len(runs') \in Nat
    BY TypeNext DEF TypeInv
  <2>2. QED  BY <2>1, LogGrows
<1>2. \A p \in parts' : p.stamp \in 1..Len(runs) /\ p.file = FileOf(runs[p.stamp], DayOf[p.key])
  <2>1. CASE parts' \subseteq parts
    BY <2>1 DEF FilesInv
  <2>2. ASSUME NEW c \in Commands, NEW d \in Days, WritePart(c, d),
               parts' = Rewritten(c, FileOf(scope[c], d)), NEW p \in parts'
        PROVE  p.stamp \in 1..Len(runs) /\ p.file = FileOf(runs[p.stamp], DayOf[p.key])
    <3>1. p \in parts \/ p \in RowsOf(c)
      BY <2>2 DEF Rewritten, Without
    <3>2. QED  BY <2>2, <3>1, WrittenRows DEF FilesInv
  <2>3. QED  BY <2>1, <2>2, PartsCome
<1>3. \A c \in Commands : \A p \in offer'[c] : p.stamp \in 1..Len(runs)
  BY OffersCome DEF FilesInv
<1>4. \A x \in Commands : step'[x] \notin {"merging", "orphan"} => offer'[x] = {}
  <2> SUFFICES ASSUME NEW x \in Commands, step'[x] \notin {"merging", "orphan"}
               PROVE  offer'[x] = {}
    OBVIOUS
  <2>1. ASSUME NEW c \in Commands, StartMerge(c) PROVE offer'[x] = {}
    BY <2>1 DEF StartMerge, TypeInv, FilesInv
  <2>2. ASSUME NEW c \in Commands, CommitMerge(c) \/ FailMerge(c) PROVE offer'[x] = {}
    <3>1. offer'[c] = {}
      BY <2>2 DEF CommitMerge, FailMerge, Forget, TypeInv
    <3>2. \A e \in Commands \ {c} : offer'[e] = offer[e] /\ step'[e] = step[e]
      BY <2>2 DEF CommitMerge, FailMerge, Exit, Forget, TypeInv
    <3>3. QED  BY <3>1, <3>2 DEF FilesInv
  <2>3. ASSUME NEW c \in Commands,
               Begin(c) \/ StartTransform(c) \/ ReadMeter(c) \/ EndCommand(c) \/ EndLoad(c) \/ Kill(c)
        PROVE  offer'[x] = {}
    <3>1. offer' = offer /\ \A e \in Commands \ {c} : step'[e] = step[e]
      BY <2>3 DEF Begin, StartTransform, ReadMeter, EndCommand, EndLoad, Kill, Exit, sink, TypeInv
    <3>2. CASE x = c
      <4>1. step[c] \notin {"merging", "orphan"}
        BY <2>3, <3>2 DEF Begin, StartTransform, ReadMeter, EndCommand, EndLoad, Kill, Written,
                         Running, TypeInv
      <4>2. QED  BY <3>1, <3>2, <4>1 DEF FilesInv
    <3>3. CASE x # c
      BY <3>1, <3>3 DEF FilesInv
    <3>4. QED  BY <3>2, <3>3
  <2>4. CASE UNCHANGED <<step, sink>>
    BY <2>4 DEF sink, FilesInv
  <2>5. QED
    BY <2>1, <2>2, <2>3, <2>4 DEF Next, vars, Land, LandDevices, WritePart
<1>5. QED  BY <1>1, <1>2, <1>3, <1>4 DEF FilesInv

LEMMA TableNext == SInv /\ [Next]_vars => TableInv'
<1> SUFFICES ASSUME SInv, [Next]_vars PROVE TableInv'
  OBVIOUS
<1> USE DEF SInv
<1>1. \A i \in 1..Len(runs) : i \in 1..Len(runs')
  <2>1. Len(runs') \in Nat
    BY TypeNext DEF TypeInv
  <2>2. QED  BY <2>1, LogGrows
<1>2. CASE table' = table
  BY <1>1, <1>2 DEF TableInv
<1>3. ASSUME NEW c \in Commands, NEW W \in Dedupe(offer[c]), table' = MergeInto(table, W)
      PROVE  TableInv'
  <2>1. \A w \in W : w.stamp \in 1..Len(runs)
    BY BroughtRows DEF FilesInv, Row
  <2>2. \A v, w \in W : v.key = w.key => v = w
    BY BroughtRows
  <2>3. QED  BY <1>1, <1>3, <2>1, <2>2 DEF MergeInto, TableInv
<1>4. QED  BY <1>2, <1>3, TableComes

LEMMA TurnsNext == SInv /\ [Next]_vars => TurnsInv'
<1> SUFFICES ASSUME SInv, [Next]_vars, NEW x \in Commands, Busy(x)'
             PROVE  runs'[stamp'[x]] = scope'[x] /\ \A i \in quiet' : i <= stamp'[x]
  BY DEF TurnsInv
<1> USE DEF SInv
<1>0. Len(runs) \in Nat /\ quiet \subseteq 1..Len(runs)
  BY DEF StampsInv, TypeInv
\* Whoever keeps its stamp and its scope was there before the undisturbed runs to come.
<1>1. ASSUME Busy(x), stamp'[x] = stamp[x], scope'[x] = scope[x], quiet' \subseteq quiet
      PROVE  runs'[stamp'[x]] = scope'[x] /\ \A i \in quiet' : i <= stamp'[x]
  <2>1. stamp[x] \in 1..Len(runs)
    BY <1>1 DEF StampsInv
  <2>2. QED  BY <1>1, <2>1, LogGrows DEF TurnsInv
<1>2. ASSUME NEW c \in Commands, StartTransform(c)
      PROVE  runs'[stamp'[x]] = scope'[x] /\ \A i \in quiet' : i <= stamp'[x]
  <2>1. /\ runs' = Append(runs, scope[c]) /\ Len(runs') = Len(runs) + 1
        /\ scope' = scope /\ runs'[Len(runs')] = scope[c]
    BY <1>2 DEF StartTransform, TypeInv
  <2>2. CASE x = c
    <3>1. stamp'[x] = Len(runs')
      BY <1>2, <2>2 DEF StartTransform, TypeInv
    <3>2. quiet' \subseteq quiet \cup {Len(runs')}
      BY <1>2 DEF StartTransform
    <3>3. QED  BY <1>0, <2>1, <2>2, <3>1, <3>2
  <2>3. CASE x # c
    <3>1. Busy(x) /\ stamp'[x] = stamp[x] /\ scope'[x] = scope[x]
      BY <1>2, <2>3 DEF StartTransform, Busy, TypeInv
    <3>2. quiet' = quiet
      BY <1>2, <2>3, <3>1 DEF StartTransform, Running, Busy
    <3>3. QED  BY <1>1, <3>1, <3>2
  <2>4. QED  BY <2>2, <2>3
<1>3. ASSUME NEW c \in Commands, Begin(c)
      PROVE  runs'[stamp'[x]] = scope'[x] /\ \A i \in quiet' : i <= stamp'[x]
  <2>1. x # c
    BY <1>3 DEF Begin, Busy, TypeInv
  <2>2. Busy(x) /\ stamp'[x] = stamp[x] /\ scope'[x] = scope[x] /\ quiet' \subseteq quiet
    BY <1>3, <2>1 DEF Begin, Busy, TypeInv
  <2>3. QED  BY <1>1, <2>2
<1>4. ASSUME NEW c \in Commands, EndCommand(c) \/ EndLoad(c) \/ FailMerge(c) \/ Kill(c)
      PROVE  runs'[stamp'[x]] = scope'[x] /\ \A i \in quiet' : i <= stamp'[x]
  <2>1. /\ Leave(c) /\ step'[c] \in {"idle", "orphan"} /\ quiet' = quiet
        /\ \A d \in Commands \ {c} : step'[d] = step[d]
    BY <1>4 DEF EndCommand, EndLoad, FailMerge, Kill, Exit, log, TypeInv
  <2>2. x # c
    BY <2>1 DEF Busy
  <2>3. Busy(x) /\ stamp'[x] = stamp[x] /\ scope'[x] = scope[x]
    BY <2>1, <2>2, Leaves DEF Busy
  <2>4. QED  BY <1>1, <2>1, <2>3
<1>5. ASSUME NEW c \in Commands, StartMerge(c) \/ CommitMerge(c)
      PROVE  runs'[stamp'[x]] = scope'[x] /\ \A i \in quiet' : i <= stamp'[x]
  <2>1. Busy(x) /\ stamp' = stamp /\ scope' = scope /\ quiet' = quiet
    BY <1>5 DEF StartMerge, CommitMerge, Written, Busy, input, log, TypeInv
  <2>2. QED  BY <1>1, <2>1
<1>6. ASSUME NEW c \in Commands, ReadMeter(c) \/ \E d \in Days : WritePart(c, d)
      PROVE  runs'[stamp'[x]] = scope'[x] /\ \A i \in quiet' : i <= stamp'[x]
  <2>1. step' = step /\ stamp' = stamp /\ scope' = scope /\ quiet' = quiet
    BY <1>6 DEF ReadMeter, WritePart, input, log
  <2>2. QED  BY <1>1, <2>1 DEF Busy
<1>7. CASE UNCHANGED <<step, input, log>>
  BY <1>1, <1>7 DEF Busy, input, log
<1>8. QED
  BY <1>2, <1>3, <1>4, <1>5, <1>6, <1>7 DEF Next, vars, Days, Land, LandDevices

\* Copies that were about are ordered as they were.
LEMMA NoOlderKeeps ==
    ASSUME TypeInv, [Next]_vars, NEW S, NEW r, NoOlder(S, r), r.stamp \in 1..Len(runs),
           \A p \in S : p.stamp \in 1..Len(runs)
    PROVE  \A p \in S : p.key = r.key /\ runs'[p.stamp] = runs'[r.stamp] => r.stamp <= p.stamp
BY LogGrows DEF NoOlder

\* No command writes a copy older than an undisturbed run.
LEMMA NoOlderWritten ==
    ASSUME SInv, [Next]_vars, NEW r, r.stamp \in 1..Len(runs), r.stamp \in quiet,
           NoOlder(parts, r)
    PROVE  NoOlder(parts, r)'
<1> USE DEF SInv
<1>1. \A p \in parts :
         p.key = r.key /\ runs'[p.stamp] = runs'[r.stamp] => r.stamp <= p.stamp
  BY NoOlderKeeps DEF FilesInv
<1>2. ASSUME NEW c \in Commands, NEW d \in Days, WritePart(c, d),
             parts' = Rewritten(c, FileOf(scope[c], d)), NEW p \in parts'
      PROVE  p \in parts \/ r.stamp <= p.stamp
  BY <1>2, WrittenRows DEF Rewritten, Without
<1>3. QED  BY <1>1, <1>2, PartsCome DEF NoOlder

LEMMA OrderNext == SInv /\ [Next]_vars => OrderInv'
<1> SUFFICES ASSUME SInv, [Next]_vars PROVE OrderInv'
  OBVIOUS
<1> USE DEF SInv
<1>1. ASSUME NEW r \in parts', r.stamp \in quiet' PROVE NoOlder(parts, r)'
  <2>1. ASSUME r \in parts PROVE NoOlder(parts, r)'
    <3>1. r.stamp \in 1..Len(runs) /\ Len(runs) \in Nat
      BY <2>1 DEF FilesInv, TypeInv
    <3>2. r.stamp \in quiet
      BY <1>1, <3>1, QuietGrows
    <3>3. QED  BY <2>1, <3>1, <3>2, NoOlderWritten DEF OrderInv
  <2>2. ASSUME NEW c \in Commands, NEW d \in Days, WritePart(c, d),
               parts' = Rewritten(c, FileOf(scope[c], d)), r \notin parts
        PROVE  NoOlder(parts, r)'
    <3>1. r \in RowsOf(c) /\ r.file = FileOf(scope[c], d)
      BY <1>1, <2>2 DEF Rewritten, Without
    <3>2. /\ r.stamp = stamp[c] /\ r.stamp \in 1..Len(runs) /\ Len(runs) \in Nat
          /\ r.file = FileOf(runs[r.stamp], DayOf[r.key])
      BY <2>2, <3>1, WrittenRows DEF TypeInv
    <3>3. SUFFICES ASSUME NEW p \in parts', p.key = r.key, runs'[p.stamp] = runs'[r.stamp]
                   PROVE  r.stamp <= p.stamp
      BY DEF NoOlder
    <3>4. CASE p \in RowsOf(c)
      BY <2>2, <3>2, <3>4, WrittenRows
    <3>5. CASE p \notin RowsOf(c)
      <4>1. p \in parts /\ p.file # FileOf(scope[c], d)
        BY <2>2, <3>3, <3>5 DEF Rewritten, Without
      <4>2. p.stamp \in 1..Len(runs) /\ p.file = FileOf(runs[p.stamp], DayOf[p.key])
        BY <4>1 DEF FilesInv
      <4>3. runs[p.stamp] = runs[r.stamp]
        BY <3>2, <3>3, <4>2, LogGrows
      <4>4. QED  BY <3>1, <3>2, <3>3, <4>1, <4>2, <4>3
    <3>6. QED  BY <3>4, <3>5
  <2>3. QED  BY <1>1, <2>1, <2>2, PartsCome
<1>2. ASSUME NEW r \in table', r.stamp \in quiet' PROVE NoOlder(parts, r)'
  <2>1. r.stamp \in 1..Len(runs) /\ Len(runs) \in Nat /\ (r.stamp \in quiet => NoOlder(parts, r))
    <3>1. CASE r \in table
      BY <3>1 DEF TableInv, OrderInv, TypeInv
    <3>2. CASE r \notin table
      <4>1. PICK c \in Commands \ overtaken : \E W \in Dedupe(offer[c]) : r \in W
        BY <1>2, <3>2, TableComes DEF MergeInto
      <4>2. PICK p \in offer[c] : r = Row(p)
        BY <4>1, BroughtRows
      <4>3. r.stamp = p.stamp /\ r.key = p.key
        BY <4>2 DEF Row
      <4>4. p.stamp \in quiet => NoOlder(parts, p)
        BY <4>1 DEF OrderInv
      <4>5. p.stamp \in 1..Len(runs)
        BY DEF FilesInv
      <4>6. QED  BY <4>3, <4>4, <4>5 DEF NoOlder, TypeInv
    <3>3. QED  BY <3>1, <3>2
  <2>2. r.stamp \in quiet
    BY <1>2, <2>1, QuietGrows
  <2>3. QED  BY <2>1, <2>2, NoOlderWritten
<1>3. ASSUME NEW x \in Commands \ overtaken'
      PROVE  /\ \A r \in offer'[x] :
                   r.stamp \in quiet' => NoOlder(parts, r)' /\ NoOlder(offer[x], r)'
             /\ \A r \in table' : r.stamp \in quiet' => NoOlder(offer[x], r)'
  <2>1. CASE offer'[x] = {}
    BY <2>1 DEF NoOlder
  <2>2. CASE StartMerge(x) /\ offer'[x] = parts
    <3>1. offer'[x] = parts'
      BY <2>2 DEF StartMerge, dataset
    <3>2. QED  BY <1>1, <1>2, <3>1 DEF NoOlder
  <2>3. CASE offer'[x] = offer[x] /\ offer'[x] # {}
    <3>1. x \notin overtaken /\ table' = table
      BY <2>3, OvertakenStays
    <3>2. /\ Len(runs) \in Nat
          /\ \A p \in offer[x] \cup table : p.stamp \in 1..Len(runs)
      BY DEF FilesInv, TableInv, TypeInv
    <3>3. ASSUME NEW r \in offer[x] \cup table, r.stamp \in quiet' PROVE NoOlder(offer[x], r)'
      <4>1. r.stamp \in 1..Len(runs) /\ r.stamp \in quiet
        BY <3>2, <3>3, QuietGrows
      <4>2. NoOlder(offer[x], r)
        BY <3>1, <3>3, <4>1 DEF OrderInv
      <4>3. QED  BY <2>3, <3>2, <4>1, <4>2, NoOlderKeeps DEF NoOlder
    <3>4. ASSUME NEW r \in offer[x], r.stamp \in quiet' PROVE NoOlder(parts, r)'
      <4>1. r.stamp \in 1..Len(runs) /\ r.stamp \in quiet
        BY <3>2, <3>4, QuietGrows
      <4>2. NoOlder(parts, r)
        BY <3>1, <3>4, <4>1 DEF OrderInv
      <4>3. QED  BY <4>1, <4>2, NoOlderWritten
    <3>5. QED  BY <2>3, <3>1, <3>3, <3>4
  <2>4. QED  BY <2>1, <2>2, <2>3, OffersCome
<1>4. QED  BY <1>1, <1>2, <1>3 DEF OrderInv

\* A row of a run that no other command disturbed is never replaced by an older row of the
\* same scope: not by a stale file, not by a MERGE that is late, not by a killed command.
THEOREM ScopesStayInOrder == Spec => OlderRowsAreOfOtherScopes
<1> DEFINE A == \A t \in table, u \in table' :
                   t.key = u.key /\ u.stamp < t.stamp /\ t.stamp \in quiet
                   => runs[u.stamp] # runs[t.stamp]
<1>1. SInv /\ [Next]_vars => SInv'
  BY TypeNext, StampsNext, FilesNext, TableNext, TurnsNext, OrderNext DEF SInv
<1>2. SInv /\ [Next]_vars => A
  <2> SUFFICES ASSUME SInv, [Next]_vars, NEW t \in table, NEW u \in table',
                      t.key = u.key, u.stamp < t.stamp, t.stamp \in quiet,
                      runs[u.stamp] = runs[t.stamp]
               PROVE  FALSE
    OBVIOUS
  <2>0. t.stamp \in 1..Len(runs) /\ Len(runs) \in Nat
    BY DEF SInv, TableInv, TypeInv
  <2>1. CASE u \in table
    BY <2>0, <2>1 DEF SInv, TableInv
  <2>2. CASE u \notin table
    <3>1. PICK c \in Commands \ overtaken : \E W \in Dedupe(offer[c]) : u \in W
      BY <2>2, TableComes DEF MergeInto
    <3>2. PICK p \in offer[c] : u = Row(p)
      BY <3>1, BroughtRows
    <3>3. NoOlder(offer[c], t)
      BY <3>1 DEF SInv, OrderInv
    <3>4. p.stamp \in 1..Len(runs) /\ p.stamp = u.stamp /\ p.key = u.key
      BY <3>1, <3>2 DEF SInv, FilesInv, Row
    <3>5. t.stamp <= p.stamp
      BY <3>3, <3>4 DEF NoOlder
    <3>6. QED  BY <2>0, <3>4, <3>5
  <2>3. QED  BY <2>1, <2>2
<1>3. QED  BY SInit, <1>1, <1>2, PTL DEF Spec, OlderRowsAreOfOtherScopes
===============================================================================
