------------------------ MODULE TransformRecordsProofs ------------------------
(***************************************************************************)
(* What TransformRecords guarantees for every mapping, every rule set and  *)
(* every input: its types, the rows and the sessions of its result, what   *)
(* its counters say and what they leave out, and how far the reference     *)
(* interpreter agrees: in the readings and the counts as it is, and in     *)
(* every column once it is patched.                                        *)
(***************************************************************************)
EXTENDS ReferenceInterpreter, FiniteSetTheorems, WellFoundedInduction, TLAPS

\* Adding to one counter, or to two, leaves the others alone.
LEMMA CountOne ==
    ASSUME NEW f \in [Counters -> Int], NEW c \in Counters, NEW d \in Int
    PROVE  /\ [f EXCEPT ![c] = @ + d] \in [Counters -> Int]
           /\ [f EXCEPT ![c] = @ + d][c] = f[c] + d
           /\ \A b \in Counters \ {c} : [f EXCEPT ![c] = @ + d][b] = f[b]
OBVIOUS

LEMMA CountTwo ==
    ASSUME NEW f \in [Counters -> Int], NEW c1 \in Counters, NEW c2 \in Counters, c1 # c2,
           NEW d1 \in Int, NEW d2 \in Int,
           NEW g, g = [f EXCEPT ![c1] = @ + d1, ![c2] = @ + d2]
    PROVE  /\ g \in [Counters -> Int]
           /\ g[c1] = f[c1] + d1
           /\ g[c2] = f[c2] + d2
           /\ \A b \in Counters \ {c1, c2} : g[b] = f[b]
<1> DEFINE h == [f EXCEPT ![c1] = @ + d1]
<1>1. /\ h \in [Counters -> Int] /\ h[c1] = f[c1] + d1
      /\ \A b \in Counters \ {c1} : h[b] = f[b]
  BY CountOne
<1>2. g = [h EXCEPT ![c2] = @ + d2]
  OBVIOUS
<1> HIDE DEF h
<1>3. /\ g \in [Counters -> Int] /\ g[c2] = h[c2] + d2
      /\ \A b \in Counters \ {c2} : g[b] = h[b]
  BY <1>1, <1>2, CountOne
<1>4. QED  BY <1>1, <1>3

\* The value a cell yields is a number unless it is Null or Junk: the one
\* conversion of the engine, whatever the entry, the meter and the raw value.
LEMMA ApplyTransformType ==
    ASSUME NEW entry \in Entry, NEW m \in DOMAIN DeviceFactors,
           NEW v \in Numbers \cup {Junk}
    PROVE  ApplyTransform(entry, m, v) \in Int \cup {Null, Junk}
<1>1. v \in Int \cup {Junk}  BY ValuesAssumption
<1>2. DeviceFactors[m] \in [uk : Int \cup {Null}, ik : Int \cup {Null}]
  BY ValuesAssumption
<1>3. entry.factor # "none" => ResolveFactor(entry.factor, m) \in Int \cup {Null}
  BY <1>2 DEF ResolveFactor, Entry
<1>4. QED  BY <1>1, <1>3 DEF ApplyTransform

\* The entries a record is unpivoted with come from the mapping.
LEMMA EntriesType ==
    ASSUME NEW r  PROVE  Entries(r) \in Seq(Entry)
BY MappingAssumption DEF Entries

LEMMA InputType == TypeOK => input \in Seq(Record)
BY InputsAssumption DEF TypeOK

LEMMA RecordType ==
    ASSUME TypeOK, phase \in {"unpivot", "screen"}  PROVE  record \in Record
BY InputType DEF TypeOK, record

\* The rows of a sequence can be counted.
LEMMA SuspectInType ==
    ASSUME NEW s \in Seq(Row)
    PROVE  /\ IsFiniteSet({i \in DOMAIN s : s[i].quality = "suspect"})
           /\ SuspectIn(s) \in Nat
<1>1. IsFiniteSet(1 .. Len(s))
  BY FS_Interval
<1>2. IsFiniteSet({i \in DOMAIN s : s[i].quality = "suspect"})
  <2>1. {i \in DOMAIN s : s[i].quality = "suspect"} \subseteq 1 .. Len(s)
    OBVIOUS
  <2>2. QED  BY <1>1, <2>1, FS_Subset
<1>3. QED  BY <1>2, FS_CardinalityType DEF SuspectIn

\* What each action counts: Same(C) says that no counter outside C changes.
Same(C) == \A c \in Counters \ C : stats'[c] = stats[c]

LEMMA StartRecordCounts ==
    ASSUME TypeOK, StartRecord
    PROVE  /\ stats' \in [Counters -> Int]
           /\ stats'.records_in = stats.records_in + 1
           /\ stats'.records_rejected = stats.records_rejected
                 + (IF DiscardsRecord(RecordVerdict(input[current + 1])) THEN 1 ELSE 0)
           /\ Same({"records_in", "records_rejected"})
<1> DEFINE d == IF DiscardsRecord(RecordVerdict(input[current + 1])) THEN 1 ELSE 0
<1>1. stats' = [stats EXCEPT !["records_in"] = @ + 1, !["records_rejected"] = @ + d]
  BY DEF StartRecord
<1>2. d \in Int
  OBVIOUS
<1> HIDE DEF d
<1>3. /\ "records_in" \in Counters /\ "records_rejected" \in Counters
      /\ "records_in" # "records_rejected" /\ stats \in [Counters -> Int]
  BY DEF Counters, TypeOK
<1>4. QED
  <2>1. /\ stats' \in [Counters -> Int]
        /\ stats'["records_in"] = stats["records_in"] + 1
        /\ stats'["records_rejected"] = stats["records_rejected"] + d
        /\ \A b \in Counters \ {"records_in", "records_rejected"} : stats'[b] = stats[b]
    BY <1>1, <1>2, <1>3, CountTwo
  <2>2. QED  BY <2>1 DEF d, Same

LEMMA RejectRecordCounts ==
    ASSUME TypeOK, RejectRecord
    PROVE  /\ stats' \in [Counters -> Int]
           /\ stats'.records_rejected = stats.records_rejected + 1
           /\ stats'.rows_suspect = stats.rows_suspect - SuspectIn(recordRows)
           /\ Same({"rows_suspect", "records_rejected"})
<1> DEFINE d == -SuspectIn(recordRows)
<1>1. SuspectIn(recordRows) \in Nat
  BY SuspectInType DEF TypeOK
<1>2. /\ "rows_suspect" \in Counters /\ "records_rejected" \in Counters
      /\ "rows_suspect" # "records_rejected" /\ stats \in [Counters -> Int]
  BY DEF Counters, TypeOK
<1>3. stats' = [stats EXCEPT !["records_rejected"] = @ + 1, !["rows_suspect"] = @ + d]
  <2>1. stats["rows_suspect"] \in Int
    BY <1>2
  <2>2. stats["rows_suspect"] - SuspectIn(recordRows) = stats["rows_suspect"] + d
    BY <1>1, <2>1
  <2>3. QED  BY <1>2, <2>2 DEF RejectRecord, SuspectsTakenBack
<1>4. d \in Int
  BY <1>1
<1> HIDE DEF d
<1>5. /\ stats' \in [Counters -> Int]
      /\ stats'["records_rejected"] = stats["records_rejected"] + 1
      /\ stats'["rows_suspect"] = stats["rows_suspect"] + d
      /\ \A b \in Counters \ {"records_rejected", "rows_suspect"} : stats'[b] = stats[b]
  BY <1>2, <1>3, <1>4, CountTwo
<1>6. stats["rows_suspect"] + d = stats["rows_suspect"] - SuspectIn(recordRows)
  BY <1>1, <1>2 DEF d
<1>7. QED  BY <1>5, <1>6 DEF Same

LEMMA UnmappedCounts ==
    ASSUME TypeOK, Unmapped
    PROVE  /\ stats' \in [Counters -> Int]
           /\ stats'.records_unmapped = stats.records_unmapped + 1
           /\ Same({"records_unmapped"})
<1>1. "records_unmapped" \in Counters /\ stats \in [Counters -> Int]
  BY DEF Counters, TypeOK
<1>2. stats' = [stats EXCEPT !["records_unmapped"] = @ + 1]
  BY DEF Unmapped
<1>3. QED  BY <1>1, <1>2, CountOne DEF Same

LEMMA DropValueCounts ==
    ASSUME TypeOK, DropValue
    PROVE  /\ stats' \in [Counters -> Int]
           /\ stats'.rows_dropped = stats.rows_dropped + 1
           /\ Same({"rows_dropped"})
<1>1. "rows_dropped" \in Counters /\ stats \in [Counters -> Int]
  BY DEF Counters, TypeOK
<1>2. stats' = [stats EXCEPT !["rows_dropped"] = @ + 1]
  BY DEF DropValue
<1>3. QED  BY <1>1, <1>2, CountOne DEF Same

LEMMA UnpivotCellCounts ==
    ASSUME TypeOK, UnpivotCell
    PROVE  /\ stats' \in [Counters -> Int]
           /\ stats'.cells_null_skipped = stats.cells_null_skipped
                 + (IF record.cells[Entries(record)[cell].src] = Null THEN 1 ELSE 0)
           /\ Same({"cells_null_skipped"})
<1> DEFINE d == IF record.cells[Entries(record)[cell].src] = Null THEN 1 ELSE 0
<1>1. stats' = [stats EXCEPT !["cells_null_skipped"] = @ + d]
  BY DEF UnpivotCell
<1>2. d \in Int
  OBVIOUS
<1> HIDE DEF d
<1>3. "cells_null_skipped" \in Counters /\ stats \in [Counters -> Int]
  BY DEF Counters, TypeOK
<1>4. QED  BY <1>1, <1>2, <1>3, CountOne DEF d, Same

\* A value that is kept becomes one row, counted as suspect exactly if it is.
Kept(q) == [rec |-> current, entry |-> Head(emitted).entry,
            value |-> Head(emitted).value, quality |-> q]

LEMMA KeepValueCounts ==
    ASSUME TypeOK, KeepValue
    PROVE  /\ stats' \in [Counters -> Int]
           /\ Same({"rows_suspect"})
           /\ \E q \in {"ok", "suspect"} :
                 /\ Kept(q) \in Row
                 /\ recordRows' = Append(recordRows, Kept(q))
                 /\ stats'.rows_suspect = stats.rows_suspect + (IF q = "suspect" THEN 1 ELSE 0)
<1>1. PICK q \in {"ok", "suspect"} :
         /\ recordRows' = Append(recordRows, Kept(q))
         /\ stats' = [stats EXCEPT !["rows_suspect"] = @ + (IF q = "suspect" THEN 1 ELSE 0)]
  BY DEF KeepValue, Kept
<1>2. Head(emitted) \in Emission /\ current \in Nat
  BY DEF KeepValue, TypeOK
<1>3. Kept(q) \in Row
  BY <1>2 DEF Kept, Row, Emission
<1> DEFINE d == IF q = "suspect" THEN 1 ELSE 0
<1>4. d \in Int
  OBVIOUS
<1>5. stats' = [stats EXCEPT !["rows_suspect"] = @ + d]
  BY <1>1
<1> HIDE DEF d
<1>6. "rows_suspect" \in Counters /\ stats \in [Counters -> Int]
  BY DEF Counters, TypeOK
<1>7. /\ stats' \in [Counters -> Int]
      /\ stats'["rows_suspect"] = stats["rows_suspect"] + d
      /\ \A b \in Counters \ {"rows_suspect"} : stats'[b] = stats[b]
  BY <1>4, <1>5, <1>6, CountOne
<1>8. QED  BY <1>1, <1>3, <1>7 DEF d, Same

LEMMA FinishCounts ==
    ASSUME TypeOK, Finish
    PROVE  /\ stats' \in [Counters -> Int]
           /\ Same({"rows_emitted"})
<1>1. Len(rows) \in Int /\ "rows_emitted" \in Counters /\ stats \in [Counters -> Int]
  BY DEF Counters, TypeOK
<1>2. stats' = [stats EXCEPT !["rows_emitted"] = Len(rows)]
  BY DEF Finish
<1>3. QED  BY <1>1, <1>2 DEF Same

LEMMA InitType == Init => TypeOK
<1> SUFFICES ASSUME Init  PROVE TypeOK
  OBVIOUS
<1>1. stats \in [Counters -> Int] /\ stats.records_in = 0
  BY DEF Init, NoStats, Counters
<1>2. input \in Seq(Record)
  BY InputsAssumption DEF Init
<1>3. 0 <= Len(input)
  BY <1>2
<1>4. DOMAIN sessions = {}
  BY DEF Init
<1>5. QED  BY <1>1, <1>3, <1>4 DEF Init, TypeOK, current

LEMMA NextType == TypeOK /\ [Next]_vars => TypeOK'
<1> SUFFICES ASSUME TypeOK, [Next]_vars  PROVE TypeOK'
  OBVIOUS
<1>0. input \in Seq(Record) /\ Len(input) \in Nat
  BY InputType
<1>in. "records_in" \in Counters
  BY DEF Counters
<1>1. CASE StartRecord
  <2>1. stats' \in [Counters -> Int] /\ stats'.records_in = stats.records_in + 1
    BY <1>1, StartRecordCounts
  <2>2. stats.records_in \in Nat /\ stats.records_in < Len(input)
    BY <1>1 DEF StartRecord, TypeOK, current
  <2>3. /\ stats'.records_in \in DOMAIN input' /\ stats'.records_in <= Len(input')
        /\ stats'.records_in \in Nat
    BY <1>0, <1>1, <2>1, <2>2 DEF StartRecord
  <2>4. phase' \in {"next", "raised", "unpivot"} /\ flagged' \in {"ok", "suspect"}
    BY <1>1 DEF StartRecord
  <2>5. QED  BY <1>1, <2>1, <2>3, <2>4 DEF StartRecord, TypeOK, current
<1>2. CASE BadRecord
  BY <1>2 DEF BadRecord, TypeOK, current
<1>3. CASE Unmapped
  <2>1. stats' \in [Counters -> Int] /\ stats'.records_in = stats.records_in
    BY <1>3, <1>in, UnmappedCounts DEF Same
  <2>2. QED  BY <1>3, <2>1 DEF Unmapped, TypeOK, current
<1>4. CASE UnpivotCell
  <2> DEFINE entry == Entries(record)[cell]
             raw   == record.cells[entry.src]
             value == ApplyTransform(entry, record.meter, raw)
  <2>1. record \in Record
    BY <1>4, RecordType DEF UnpivotCell
  <2>2. entry \in Entry
    BY <1>4, EntriesType DEF UnpivotCell
  <2>3. raw \in Numbers \cup {Null, Junk}
    BY <2>1, <2>2 DEF Record, Entry
  <2>4. raw # Null => value \in Int \cup {Null, Junk}
    BY <2>1, <2>2, <2>3, ApplyTransformType DEF Record
  <2>5. emitted' \in Seq(Emission)
    <3>1. CASE raw = Null \/ value \in {Null, Junk}
      BY <3>1, <1>4 DEF UnpivotCell, TypeOK, Counters
    <3>2. CASE ~(raw = Null \/ value \in {Null, Junk})
      <4>1. [entry |-> entry, value |-> value]
               \in Emission
        BY <3>2, <2>2, <2>4 DEF Entry, Emission
      <4>2. emitted' = Append(emitted, [entry |-> entry, value |-> value])
        BY <3>2, <1>4 DEF UnpivotCell
      <4>3. QED  BY <4>1, <4>2 DEF TypeOK
    <3>3. QED  BY <3>1, <3>2
  <2>6. stats' \in [Counters -> Int] /\ stats'.records_in = stats.records_in
    BY <1>4, <1>in, UnpivotCellCounts DEF Same
  <2>7. phase' \in {"next", "raised", "unpivot"}
    BY <1>4 DEF UnpivotCell
  <2>8. QED  BY <1>4, <2>5, <2>6, <2>7 DEF UnpivotCell, TypeOK, current
<1>5. CASE EndUnpivot
  BY <1>5 DEF EndUnpivot, TypeOK, current
<1>6. CASE KeepValue
  <2>1. stats' \in [Counters -> Int] /\ stats'.records_in = stats.records_in
    BY <1>6, <1>in, KeepValueCounts DEF Same
  <2>2. recordRows' \in Seq(Row)
    <3>1. PICK q \in {"ok", "suspect"} :
             Kept(q) \in Row /\ recordRows' = Append(recordRows, Kept(q))
      BY <1>6, KeepValueCounts
    <3>2. QED  BY <3>1 DEF TypeOK
  <2>3. Tail(emitted) \in Seq(Emission)
    BY <1>6 DEF KeepValue, TypeOK
  <2>4. QED  BY <1>6, <2>1, <2>2, <2>3 DEF KeepValue, TypeOK, current
<1>7. CASE DropValue
  <2>1. stats' \in [Counters -> Int] /\ stats'.records_in = stats.records_in
    BY <1>7, <1>in, DropValueCounts DEF Same
  <2>2. Tail(emitted) \in Seq(Emission)
    BY <1>7 DEF DropValue, TypeOK
  <2>3. QED  BY <1>7, <2>1, <2>2 DEF DropValue, TypeOK, current
<1>8. CASE RejectRecord
  <2>1. stats' \in [Counters -> Int] /\ stats'.records_in = stats.records_in
    BY <1>8, <1>in, RejectRecordCounts DEF Same
  <2>2. QED  BY <1>8, <2>1 DEF RejectRecord, TypeOK, current
<1>9. CASE CommitRecord
  <2>1. record \in Record
    BY <1>9, RecordType DEF CommitRecord
  <2>2. rows' \in Seq(Row)
    BY <1>9 DEF CommitRecord, TypeOK
  <2>3. current \in Nat
    BY DEF TypeOK, current
  <2>4. DOMAIN sessions' \subseteq SessionIds /\ \A s \in DOMAIN sessions' : sessions'[s] \in Nat
    BY <1>9, <2>1, <2>3 DEF CommitRecord, OpensSession, TypeOK, Record
  <2>5. QED  BY <1>9, <2>2, <2>4 DEF CommitRecord, TypeOK, current
<1>10. CASE Finish
  <2>1. stats' \in [Counters -> Int] /\ stats'.records_in = stats.records_in
    BY <1>10, <1>in, FinishCounts DEF Same
  <2>2. QED  BY <1>10, <2>1 DEF Finish, TypeOK, current
<1>11. CASE UNCHANGED vars
  BY <1>11 DEF vars, TypeOK, current
<1>12. QED
  BY <1>1, <1>2, <1>3, <1>4, <1>5, <1>6, <1>7, <1>8, <1>9, <1>10, <1>11 DEF Next

\* The types hold of every reachable state.
THEOREM TypeCorrect == Spec => []TypeOK
BY InitType, NextType, PTL DEF Spec

----------------------------------------------------------------------------
(* rows_suspect                                                            *)

LEMMA SuspectInEmpty == SuspectIn(<<>>) = 0
<1>1. {i \in DOMAIN <<>> : <<>>[i].quality = "suspect"} = {}
  OBVIOUS
<1>2. QED  BY <1>1, FS_EmptySet DEF SuspectIn

\* One more row counts if it is suspect.
LEMMA SuspectInAppend ==
    ASSUME NEW s \in Seq(Row), NEW r \in Row
    PROVE  SuspectIn(Append(s, r)) = SuspectIn(s) + (IF r.quality = "suspect" THEN 1 ELSE 0)
<1> DEFINE S == {i \in DOMAIN s : s[i].quality = "suspect"}
           T == {i \in DOMAIN Append(s, r) : Append(s, r)[i].quality = "suspect"}
<1>1. /\ DOMAIN Append(s, r) = DOMAIN s \cup {Len(s) + 1}
      /\ \A i \in DOMAIN s : Append(s, r)[i] = s[i]
      /\ Append(s, r)[Len(s) + 1] = r
      /\ Len(s) + 1 \notin DOMAIN s
  OBVIOUS
<1>2. T = IF r.quality = "suspect" THEN S \cup {Len(s) + 1} ELSE S
  BY <1>1
<1>3. IsFiniteSet(S) /\ Len(s) + 1 \notin S
  BY <1>1, SuspectInType
<1>4. Cardinality(S) \in Nat
  BY <1>3, FS_CardinalityType
<1> HIDE DEF S, T
<1>5. Cardinality(S \cup {Len(s) + 1}) = Cardinality(S) + 1
  BY <1>3, FS_AddElement
<1>6. Cardinality(T) = Cardinality(S) + (IF r.quality = "suspect" THEN 1 ELSE 0)
  BY <1>2, <1>4, <1>5
<1>7. QED  BY <1>6 DEF SuspectIn, S, T

\* Shifting a finite set of integers keeps its size.
LEMMA ShiftedSet ==
    ASSUME NEW T \in SUBSET Int, NEW n \in Int, IsFiniteSet(T)
    PROVE  /\ IsFiniteSet({i + n : i \in T})
           /\ Cardinality({i + n : i \in T}) = Cardinality(T)
<1> DEFINE R == {i + n : i \in T}
           shift == [i \in T |-> i + n]
<1>1. shift \in [T -> R] /\ \A i \in T : shift[i] = i + n
  OBVIOUS
<1>2. \A a, b \in T : shift[a] = shift[b] => a = b
  BY <1>1
<1>3. \A r \in R : \E a \in T : shift[a] = r
  BY <1>1
<1>4. DOMAIN shift = T
  OBVIOUS
<1> HIDE DEF R, shift
<1>5. shift \in Injection(T, R)
  BY <1>1, <1>2, <1>4 DEF Injection, IsInjective
<1>6. shift \in Surjection(T, R)
  BY <1>1, <1>3 DEF Surjection
<1>7. ExistsBijection(T, R)
  BY <1>5, <1>6 DEF Bijection, ExistsBijection
<1>8. IsFiniteSet(R) /\ Cardinality(R) = Cardinality(T)
  BY <1>7, FS_Bijection
<1>9. QED  BY <1>8 DEF R

\* Joining two sequences of rows adds their suspect rows.
LEMMA SuspectInConcat ==
    ASSUME NEW s \in Seq(Row), NEW t \in Seq(Row)
    PROVE  SuspectIn(s \o t) = SuspectIn(s) + SuspectIn(t)
<1> DEFINE n == Len(s)
           S == {i \in DOMAIN s : s[i].quality = "suspect"}
           T == {i \in DOMAIN t : t[i].quality = "suspect"}
           U == {i \in DOMAIN (s \o t) : (s \o t)[i].quality = "suspect"}
           R == {i + n : i \in T}
<1>1. /\ n \in Nat /\ Len(t) \in Nat
      /\ DOMAIN s = 1 .. n /\ DOMAIN t = 1 .. Len(t)
      /\ DOMAIN (s \o t) = 1 .. n + Len(t)
      /\ \A i \in 1 .. n : (s \o t)[i] = s[i]
      /\ \A i \in 1 .. Len(t) : (s \o t)[i + n] = t[i]
  OBVIOUS
<1>2. U = S \cup R
  <2>1. ASSUME NEW i \in U  PROVE i \in S \cup R
    <3>1. CASE i \in 1 .. n
      BY <1>1, <3>1
    <3>2. CASE i \notin 1 .. n
      <4>1. i - n \in 1 .. Len(t) /\ i = (i - n) + n
        BY <1>1, <3>2
      <4>2. t[i - n].quality = "suspect"
        BY <1>1, <4>1
      <4>3. QED  BY <1>1, <4>1, <4>2
    <3>3. QED  BY <3>1, <3>2
  <2>2. ASSUME NEW i \in S \cup R  PROVE i \in U
    <3>1. CASE i \in S
      BY <1>1, <3>1
    <3>2. CASE i \in R
      <4>1. PICK j \in T : i = j + n
        BY <3>2
      <4>2. (s \o t)[j + n] = t[j] /\ j + n \in 1 .. n + Len(t)
        BY <1>1, <4>1
      <4>3. QED  BY <1>1, <4>1, <4>2
    <3>3. QED  BY <2>2, <3>1, <3>2
  <2>3. QED  BY <2>1, <2>2
<1>3. IsFiniteSet(S) /\ IsFiniteSet(T)
  BY SuspectInType
<1>4. S \cap R = {}
  BY <1>1
<1>5. IsFiniteSet(R) /\ Cardinality(R) = Cardinality(T)
  <2>1. T \in SUBSET Int /\ n \in Int
    BY <1>1
  <2> HIDE DEF T, n
  <2>2. QED  BY <1>3, <2>1, ShiftedSet
<1>6. /\ Cardinality(S) \in Nat /\ Cardinality(T) \in Nat
      /\ Cardinality({}) = 0
  BY <1>3, FS_CardinalityType, FS_EmptySet
<1> HIDE DEF S, T, U, R
<1>7. Cardinality(U) = Cardinality(S) + Cardinality(T)
  <2>1. Cardinality(S \cup R) = Cardinality(S) + Cardinality(R) - Cardinality(S \cap R)
    BY <1>3, <1>5, FS_Union
  <2>2. Cardinality(U) = Cardinality(S \cup R) /\ Cardinality(S \cap R) = 0
    BY <1>2, <1>4, <1>6, Zenon
  <2>3. QED  BY <1>5, <1>6, <2>1, <2>2
<1>8. SuspectIn(s) = Cardinality(S) /\ SuspectIn(t) = Cardinality(T)
  BY DEF SuspectIn, S, T
<1>9. SuspectIn(s \o t) = Cardinality(U)
  BY Zenon DEF SuspectIn, U
<1>10. QED  BY <1>7, <1>8, <1>9

\* The buffer is empty between records, and the count holds in between too.
SuspectInv ==
    /\ TypeOK
    /\ phase \in {"next", "unpivot", "done"} => recordRows = <<>>
    /\ SuspectsCounted

LEMMA SuspectInit == Init => SuspectInv
<1> SUFFICES ASSUME Init  PROVE SuspectInv
  OBVIOUS
<1>1. TypeOK
  BY InitType
<1>2. stats.rows_suspect = 0 /\ rows = <<>> /\ recordRows = <<>>
  BY DEF Init, NoStats, Counters
<1>3. QED  BY <1>1, <1>2, SuspectInEmpty DEF SuspectInv, SuspectsCounted

LEMMA SuspectNext == SuspectInv /\ [Next]_vars => SuspectInv'
<1> SUFFICES ASSUME SuspectInv, [Next]_vars  PROVE SuspectInv'
  OBVIOUS
<1>1. TypeOK /\ TypeOK'
  BY NextType DEF SuspectInv
<1>2. "rows_suspect" \in Counters
  BY DEF Counters
<1>3. /\ rows \in Seq(Row) /\ recordRows \in Seq(Row)
      /\ SuspectIn(rows) \in Nat /\ SuspectIn(recordRows) \in Nat
      /\ stats.rows_suspect \in Int
  BY <1>1, <1>2, SuspectInType DEF TypeOK
<1>4. CASE StartRecord
  BY <1>1, <1>2, <1>4, StartRecordCounts DEF StartRecord, SuspectInv, SuspectsCounted, Same
<1>5. CASE BadRecord
  BY <1>1, <1>5 DEF BadRecord, SuspectInv, SuspectsCounted
<1>6. CASE Unmapped
  BY <1>1, <1>2, <1>6, UnmappedCounts DEF Unmapped, SuspectInv, SuspectsCounted, Same
<1>7. CASE UnpivotCell
  <2>1. /\ phase = "unpivot" /\ rows' = rows /\ recordRows' = recordRows
        /\ stats'.rows_suspect = stats.rows_suspect
    BY <1>1, <1>2, <1>7, UnpivotCellCounts DEF UnpivotCell, Same
  <2>2. QED  BY <1>1, <2>1 DEF SuspectInv, SuspectsCounted
<1>8. CASE EndUnpivot
  BY <1>1, <1>8 DEF EndUnpivot, SuspectInv, SuspectsCounted
<1>9. CASE KeepValue
  <2>1. PICK q \in {"ok", "suspect"} :
           /\ Kept(q) \in Row
           /\ recordRows' = Append(recordRows, Kept(q))
           /\ stats'.rows_suspect = stats.rows_suspect + (IF q = "suspect" THEN 1 ELSE 0)
    BY <1>1, <1>9, KeepValueCounts
  <2>2. Kept(q).quality = q
    BY DEF Kept
  <2>3. SuspectIn(recordRows') = SuspectIn(recordRows) + (IF q = "suspect" THEN 1 ELSE 0)
    BY <1>3, <2>1, <2>2, SuspectInAppend
  <2>4. phase = "screen" /\ phase' = "screen" /\ rows' = rows
    BY <1>9 DEF KeepValue
  <2>5. QED  BY <1>1, <1>3, <2>1, <2>3, <2>4 DEF SuspectInv, SuspectsCounted
<1>10. CASE DropValue
  BY <1>1, <1>2, <1>10, DropValueCounts DEF DropValue, SuspectInv, SuspectsCounted, Same
<1>11. CASE RejectRecord
  <2>1. /\ phase = "screen" /\ recordRows' = <<>> /\ rows' = rows
        /\ stats'.rows_suspect = stats.rows_suspect - SuspectIn(recordRows)
    BY <1>1, <1>11, RejectRecordCounts DEF RejectRecord
  <2>2. QED  BY <1>1, <1>3, <2>1, SuspectInEmpty DEF SuspectInv, SuspectsCounted
<1>12. CASE CommitRecord
  <2>1. /\ phase = "screen" /\ recordRows' = <<>> /\ rows' = rows \o recordRows
        /\ stats' = stats
    BY <1>12 DEF CommitRecord
  <2>2. SuspectIn(rows') = SuspectIn(rows) + SuspectIn(recordRows)
    BY <1>3, <2>1, SuspectInConcat
  <2>3. QED  BY <1>1, <1>3, <2>1, <2>2, SuspectInEmpty DEF SuspectInv, SuspectsCounted
<1>13. CASE Finish
  BY <1>1, <1>2, <1>13, FinishCounts DEF Finish, SuspectInv, SuspectsCounted, Same
<1>14. CASE UNCHANGED vars
  BY <1>1, <1>14 DEF vars, SuspectInv, SuspectsCounted
<1>15. QED
  BY <1>4, <1>5, <1>6, <1>7, <1>8, <1>9, <1>10, <1>11, <1>12, <1>13, <1>14 DEF Next

\* The suspect count is exact in every reachable state: what a rejected record had
\* added to rows_suspect is what its rejection takes away, and no more.
THEOREM SuspectCountExact == Spec => []SuspectsCounted
<1>1. SuspectInv => SuspectsCounted
  BY DEF SuspectInv
<1>2. QED  BY SuspectInit, SuspectNext, <1>1, PTL DEF Spec

----------------------------------------------------------------------------
(* The accounting of a long source                                         *)

\* Record r has a mapped reading that the missing factor of its meter hides.
IsUnscaled(r) ==
    /\ RecordVerdict(r) \notin {"reject_row", "drop_row"}
    /\ \E c \in DOMAIN Entries(r) :
          LET raw == r.cells[Entries(r)[c].src]
          IN  raw # Null /\ ApplyTransform(Entries(r)[c], r.meter, raw) = Null

\* The records of a call's first k that are
UnscaledUpTo(in, k) == {i \in 1 .. k : IsUnscaled(in[i])}

LEMMA UnscaledIs == Unscaled = UnscaledUpTo(input, IF phase \in {"next", "done"} THEN current
                                                  ELSE current - 1)
BY DEF Unscaled, UnscaledUpTo, IsUnscaled, Settled, Examined, Cells, Raw, Value

LEMMA UnscaledUpToGrows ==
    ASSUME NEW in, NEW k \in Nat
    PROVE  /\ IsFiniteSet(UnscaledUpTo(in, k)) /\ Cardinality(UnscaledUpTo(in, k)) \in Nat
           /\ Cardinality(UnscaledUpTo(in, k + 1)) =
                 Cardinality(UnscaledUpTo(in, k)) + (IF IsUnscaled(in[k + 1]) THEN 1 ELSE 0)
<1>1. IsFiniteSet(UnscaledUpTo(in, k))
  <2>1. UnscaledUpTo(in, k) \subseteq 1 .. k
    BY DEF UnscaledUpTo
  <2>2. IsFiniteSet(1 .. k)
    BY FS_Interval
  <2>3. QED  BY <2>1, <2>2, FS_Subset
<1>2. Cardinality(UnscaledUpTo(in, k)) \in Nat
  BY <1>1, FS_CardinalityType
<1>3. k + 1 \notin UnscaledUpTo(in, k)
  BY DEF UnscaledUpTo
<1>4. CASE IsUnscaled(in[k + 1])
  <2>1. UnscaledUpTo(in, k + 1) = UnscaledUpTo(in, k) \cup {k + 1}
    BY <1>4 DEF UnscaledUpTo
  <2>2. Cardinality(UnscaledUpTo(in, k) \cup {k + 1}) = Cardinality(UnscaledUpTo(in, k)) + 1
    BY <1>1, <1>3, FS_AddElement
  <2>3. Cardinality(UnscaledUpTo(in, k + 1)) = Cardinality(UnscaledUpTo(in, k)) + 1
    BY <2>1, <2>2, Zenon
  <2>4. QED  BY <1>1, <1>2, <1>4, <2>3
<1>5. CASE ~IsUnscaled(in[k + 1])
  <2>1. UnscaledUpTo(in, k + 1) = UnscaledUpTo(in, k)
    BY <1>5 DEF UnscaledUpTo
  <2>2. Cardinality(UnscaledUpTo(in, k + 1)) = Cardinality(UnscaledUpTo(in, k))
    BY <2>1, Zenon
  <2>3. QED  BY <1>1, <1>2, <1>5, <2>2
<1>6. QED  BY <1>4, <1>5

LEMMA UnscaledUpToOne ==
    ASSUME TypeOK, current # 0
    PROVE  /\ Cardinality(UnscaledUpTo(input, current)) \in Nat
           /\ Cardinality(UnscaledUpTo(input, current - 1)) \in Nat
           /\ Cardinality(UnscaledUpTo(input, current)) =
                 Cardinality(UnscaledUpTo(input, current - 1))
                 + (IF IsUnscaled(record) THEN 1 ELSE 0)
<1> DEFINE k == current - 1
<1>1. k \in Nat /\ current = k + 1 /\ current \in Nat
  BY DEF TypeOK
<1>2. Cardinality(UnscaledUpTo(input, k)) \in Nat
  BY <1>1, UnscaledUpToGrows
<1>3. Cardinality(UnscaledUpTo(input, current)) \in Nat
  BY <1>1, UnscaledUpToGrows
<1>4. Cardinality(UnscaledUpTo(input, k + 1)) =
         Cardinality(UnscaledUpTo(input, k)) + (IF IsUnscaled(input[k + 1]) THEN 1 ELSE 0)
  BY <1>1, UnscaledUpToGrows
<1>5. QED  BY <1>1, <1>2, <1>3, <1>4 DEF record

\* The reading of the record in hand, while no counter stands for it yet: it is
\* being read, about to be screened, in the buffer, or unscaled.
Pending ==
    CASE phase = "unpivot" -> 1
      [] phase = "screen" -> Len(emitted) + Len(recordRows) + (IF IsUnscaled(record) THEN 1 ELSE 0)
      [] OTHER -> 0

LongInv ==
    /\ TypeOK
    /\ phase \in {"unpivot", "screen"} => RecordVerdict(record) \notin {"reject_row", "drop_row"}
    /\ phase \in {"next", "unpivot", "done"} => recordRows = <<>>
    /\ phase = "unpivot" =>
          /\ cell = 1 => emitted = <<>>
          /\ cell > 1 => cell = 2 /\ DOMAIN Entries(record) = {1}
                         /\ Len(emitted) + (IF IsUnscaled(record) THEN 1 ELSE 0) = 1
    /\ phase = "screen" => Pending <= 1
    /\ phase # "raised" =>
          stats.records_in = Accounted + Pending
             + Cardinality(UnscaledUpTo(input, IF phase \in {"next", "done"} THEN current ELSE current - 1))

\* A long record is unpivoted with one entry at most.
LEMMA LongEntries ==
    ASSUME NEW r, r.shape = "long"
    PROVE  DOMAIN Entries(r) \in {{}, {1}} /\ (DOMAIN Entries(r) = {} <=> Entries(r) = <<>>)
           /\ Len(Entries(r)) \in {0, 1} /\ (Len(Entries(r)) = 0 <=> Entries(r) = <<>>)
BY DEF Entries

LEMMA LongInit == ASSUME Init  PROVE LongInv
<1>1. TypeOK
  BY InitType
<1>2. /\ current = 0 /\ stats.records_rejected = 0 /\ stats.records_unmapped = 0
      /\ stats.cells_null_skipped = 0 /\ stats.rows_dropped = 0
  BY DEF Init, NoStats, Counters, current
<1>3. phase = "next" /\ rows = <<>> /\ recordRows = <<>>
  BY DEF Init
<1>4. UnscaledUpTo(input, 0) = {}
  BY DEF UnscaledUpTo
<1>5. Cardinality(UnscaledUpTo(input, 0)) = 0
  BY <1>4, FS_EmptySet, Zenon
<1>6. Len(rows) = 0
  BY <1>3
<1>7. Pending = 0
  BY <1>3 DEF Pending
<1>8. QED  BY <1>1, <1>2, <1>3, <1>5, <1>6, <1>7 DEF LongInv, Accounted, current

\* An action that settles a record adds one to one counter, or lets its one row
\* through, or leaves it unscaled; any other action only moves the reading along.
LEMMA LongNext == ASSUME AllLong, LongInv, [Next]_vars  PROVE LongInv'
<1>1. TypeOK /\ TypeOK'
  BY NextType DEF LongInv
<1>2. input' = input
  BY DEF Next, vars, StartRecord, BadRecord, Unmapped, UnpivotCell, EndUnpivot, KeepValue,
         DropValue, RejectRecord, CommitRecord, Finish
<1>3. /\ \A c \in Counters : stats[c] \in Int
      /\ {"records_in", "records_rejected", "records_unmapped", "cells_null_skipped",
          "rows_dropped", "rows_suspect", "rows_emitted"} = Counters
      /\ current \in Nat /\ Len(rows) \in Nat
  BY <1>1 DEF TypeOK, Counters
<1>0. phase \in {"unpivot", "screen"} => record.shape = "long"
  BY <1>1 DEF AllLong, TypeOK, record
<1>4. CASE StartRecord
  <2> DEFINE r == input[current + 1]
  <2>1. /\ stats'.records_in = current + 1
        /\ stats'.records_unmapped = stats.records_unmapped
        /\ stats'.cells_null_skipped = stats.cells_null_skipped
        /\ stats'.rows_dropped = stats.rows_dropped
        /\ stats'.records_rejected = stats.records_rejected
              + (IF DiscardsRecord(RecordVerdict(r)) THEN 1 ELSE 0)
    BY <1>1, <1>3, <1>4, StartRecordCounts DEF Same, current
  <2>2. /\ phase = "next" /\ rows' = rows /\ recordRows' = <<>> /\ emitted' = <<>> /\ cell' = 1
        /\ phase' \in {"next", "unpivot", "raised"}
        /\ phase' = "next" <=> DiscardsRecord(RecordVerdict(r))
    BY <1>4 DEF StartRecord, DiscardsRecord
  <2>3. record' = r
    BY <1>2, <2>1 DEF record, current
  <2>4. Pending = 0 /\ stats.records_in = Accounted + Cardinality(UnscaledUpTo(input, current))
    <3>1. Accounted \in Int
      BY <1>3 DEF Accounted
    <3>2. Pending = 0
      BY <2>2 DEF Pending
    <3>3. stats.records_in = Accounted + 0 + Cardinality(UnscaledUpTo(input, current))
      BY <2>2, <3>2 DEF LongInv
    <3>4. Cardinality(UnscaledUpTo(input, current)) \in Nat
      BY <1>3, UnscaledUpToGrows
    <3>5. QED  BY <3>1, <3>2, <3>3, <3>4
  <2>5. CASE phase' = "next"
    <3>1. ~IsUnscaled(r)
      BY <2>2, <2>5 DEF IsUnscaled, DiscardsRecord
    <3>2. Cardinality(UnscaledUpTo(input, current + 1)) = Cardinality(UnscaledUpTo(input, current))
      BY <1>3, <3>1, UnscaledUpToGrows
    <3>3. Pending' = 0
      BY <2>5 DEF Pending
    <3>4. Accounted \in Int /\ Accounted' = Accounted + 1
      <4>1. stats'.records_rejected = stats.records_rejected + 1
        BY <2>1, <2>2, <2>5
      <4>2. Len(rows') = Len(rows) /\ Len(rows) \in Int
        BY <1>3, <2>2
      <4>3. /\ stats.records_rejected \in Int /\ stats.records_unmapped \in Int
            /\ stats.cells_null_skipped \in Int /\ stats.rows_dropped \in Int
        BY <1>3
      <4>4. \A a, b, c, d, e \in Int : (a + 1) + b + c + d + e = a + b + c + d + e + 1
        OBVIOUS
      <4>5. (stats.records_rejected + 1) + stats.records_unmapped + stats.cells_null_skipped
               + stats.rows_dropped + Len(rows) = Accounted + 1
        BY <4>2, <4>3, <4>4 DEF Accounted
      <4>6. Accounted' = (stats.records_rejected + 1) + stats.records_unmapped
               + stats.cells_null_skipped + stats.rows_dropped + Len(rows)
        BY <2>1, <4>1, <4>2, Zenon DEF Accounted
      <4>7. Accounted \in Int
        BY <4>2, <4>3 DEF Accounted
      <4>8. QED  BY <4>5, <4>6, <4>7
    <3>5. current' = current + 1 /\ stats.records_in = current
      BY <2>1 DEF current
    <3>6. Cardinality(UnscaledUpTo(input', current')) = Cardinality(UnscaledUpTo(input, current + 1))
      BY <1>2, <3>5, Zenon
    <3>7. Cardinality(UnscaledUpTo(input, current)) \in Nat
      BY <1>3, UnscaledUpToGrows
    <3>8. stats'.records_in = Accounted' + Pending' + Cardinality(UnscaledUpTo(input', current'))
      BY <1>3, <2>1, <2>4, <3>2, <3>3, <3>4, <3>5, <3>6, <3>7
    <3>9. QED  BY <1>1, <2>2, <2>5, <3>8 DEF LongInv
  <2>6. CASE phase' = "unpivot"
    <3>1. Pending' = 1
      BY <2>6 DEF Pending
    <3>2. RecordVerdict(r) \notin {"reject_row", "drop_row"}
      BY <2>2, <2>6 DEF DiscardsRecord
    <3>3. Accounted \in Int /\ Accounted' = Accounted
      BY <1>3, <2>1, <2>2, <2>6 DEF Accounted
    <3>4. current' - 1 = current /\ stats.records_in = current
      BY <1>3, <2>1 DEF current
    <3>5. Cardinality(UnscaledUpTo(input', current' - 1)) = Cardinality(UnscaledUpTo(input, current))
      BY <1>2, <3>4, Zenon
    <3>6. Cardinality(UnscaledUpTo(input, current)) \in Nat
      BY <1>3, UnscaledUpToGrows
    <3>7. stats'.records_in = Accounted' + Pending' + Cardinality(UnscaledUpTo(input', current' - 1))
      BY <1>3, <2>1, <2>4, <3>1, <3>3, <3>4, <3>5, <3>6
    <3>8. QED  BY <1>1, <2>2, <2>3, <2>6, <3>2, <3>7 DEF LongInv
  <2>7. CASE phase' = "raised"
    BY <1>1, <2>7 DEF LongInv
  <2>8. QED  BY <2>2, <2>5, <2>6, <2>7
<1>5. CASE BadRecord
  BY <1>1, <1>5 DEF BadRecord, LongInv
<1>6. CASE Unmapped
  <2>1. /\ phase = "unpivot" /\ phase' = "next" /\ rows' = rows /\ recordRows' = recordRows
        /\ Entries(record) = <<>> /\ current \in Nat \ {0}
    BY <1>1, <1>6 DEF Unmapped, TypeOK
  <2>2. /\ stats'.records_in = current
        /\ stats'.records_unmapped = stats.records_unmapped + 1
        /\ stats'.cells_null_skipped = stats.cells_null_skipped
        /\ stats'.rows_dropped = stats.rows_dropped
        /\ stats'.records_rejected = stats.records_rejected
    BY <1>1, <1>3, <1>6, UnmappedCounts DEF Same, current
  <2>3. ~IsUnscaled(record)
    BY <1>0, <2>1, LongEntries DEF IsUnscaled
  <2>4. Cardinality(UnscaledUpTo(input, current)) = Cardinality(UnscaledUpTo(input, current - 1))
    BY <1>1, <2>1, <2>3, UnscaledUpToOne
  <2>5. Pending = 1 /\ Pending' = 0
    BY <2>1 DEF Pending
  <2>6. Accounted \in Int /\ Accounted' = Accounted + 1
    <3>1. Len(rows') = Len(rows) /\ Len(rows) \in Int
      BY <1>3, <2>1
    <3>2. /\ stats.records_rejected \in Int /\ stats.records_unmapped \in Int
          /\ stats.cells_null_skipped \in Int /\ stats.rows_dropped \in Int
      BY <1>3
    <3>3. PICK a, b, c, d, e \in Int :
             /\ a = stats.records_rejected /\ b = stats.records_unmapped
             /\ c = stats.cells_null_skipped /\ d = stats.rows_dropped /\ e = Len(rows)
      BY <3>1, <3>2
    <3>4. Accounted = a + b + c + d + e
      BY <3>3 DEF Accounted
    <3>5. Accounted' = a + (b + 1) + c + d + e
      BY <2>2, <3>1, <3>3 DEF Accounted
    <3>6. QED  BY <3>4, <3>5
  <2>7. current' = current /\ stats.records_in = current /\ stats'.records_in = current'
    BY <2>2 DEF current
  <2>8. Cardinality(UnscaledUpTo(input', current')) = Cardinality(UnscaledUpTo(input, current))
    BY <1>2, <2>7, Zenon
  <2>9. Cardinality(UnscaledUpTo(input, current)) \in Int
    BY <1>1, <2>1, UnscaledUpToOne
  <2>10. stats.records_in = Accounted + Pending + Cardinality(UnscaledUpTo(input, current - 1))
    BY <2>1 DEF LongInv
  <2>11. stats'.records_in = Accounted' + Pending' + Cardinality(UnscaledUpTo(input', current'))
    BY <2>4, <2>5, <2>6, <2>7, <2>8, <2>9, <2>10
  <2>12. recordRows' = <<>>
    BY <2>1 DEF LongInv
  <2>13. QED  BY <1>1, <2>1, <2>11, <2>12 DEF LongInv
<1>7. CASE UnpivotCell
  <2> DEFINE entry == Entries(record)[cell]
             raw   == record.cells[entry.src]
             value == ApplyTransform(entry, record.meter, raw)
  <2>1. /\ phase = "unpivot" /\ rows' = rows /\ recordRows' = recordRows
        /\ cell \in DOMAIN Entries(record) /\ cell' = cell + 1
    BY <1>7 DEF UnpivotCell
  <2>2. cell = 1 /\ DOMAIN Entries(record) = {1} /\ emitted = <<>> /\ current \in Nat \ {0}
    BY <1>0, <1>1, <2>1, LongEntries DEF LongInv, TypeOK
  <2>3. /\ stats'.records_in = current
        /\ stats'.records_unmapped = stats.records_unmapped
        /\ stats'.cells_null_skipped = stats.cells_null_skipped + (IF raw = Null THEN 1 ELSE 0)
        /\ stats'.rows_dropped = stats.rows_dropped
        /\ stats'.records_rejected = stats.records_rejected
    BY <1>1, <1>3, <1>7, UnpivotCellCounts DEF Same, current
  <2>4. record' = record
    BY <1>2, <2>3 DEF record, current
  <2>5. IsUnscaled(record) <=> raw # Null /\ value = Null
    BY <2>1, <2>2 DEF LongInv, IsUnscaled
  <2>6. Pending = 1
    BY <2>1 DEF Pending
  <2>7. CASE raw = Null
    <3>1. phase' = "next"
      BY <1>0, <1>7, <2>7 DEF UnpivotCell
    <3>2. Cardinality(UnscaledUpTo(input, current)) = Cardinality(UnscaledUpTo(input, current - 1))
      BY <1>1, <2>2, <2>5, <2>7, UnscaledUpToOne
    <3>3. Pending' = 0
      BY <3>1 DEF Pending
    <3>4. Accounted \in Int /\ Accounted' = Accounted + 1
      BY <1>3, <2>1, <2>3, <2>7 DEF Accounted
    <3>5. current' = current /\ stats.records_in = current
      BY <2>3 DEF current
    <3>6. Cardinality(UnscaledUpTo(input', current')) = Cardinality(UnscaledUpTo(input, current))
      BY <1>2, <3>5, Zenon
    <3>7. Cardinality(UnscaledUpTo(input, current)) \in Nat
      BY <1>3, UnscaledUpToGrows
    <3>8. stats.records_in = Accounted + 1 + Cardinality(UnscaledUpTo(input, current - 1))
      BY <2>1, <2>6 DEF LongInv
    <3>9. stats'.records_in = Accounted' + Pending' + Cardinality(UnscaledUpTo(input', current'))
      BY <2>3, <3>2, <3>3, <3>4, <3>5, <3>6, <3>7, <3>8
    <3>10. QED  BY <1>1, <2>1, <3>1, <3>9 DEF LongInv
  <2>8. CASE raw # Null /\ value = Junk
    <3>1. phase' = "raised"
      BY <1>7, <2>8 DEF UnpivotCell
    <3>2. QED  BY <1>1, <3>1 DEF LongInv
  <2>9. CASE raw # Null /\ value # Junk
    <3>1. phase' = "unpivot"
      BY <1>7, <2>9 DEF UnpivotCell
    <3>2. Len(emitted') + (IF IsUnscaled(record) THEN 1 ELSE 0) = 1
      <4>1. CASE value = Null
        BY <1>7, <2>2, <2>5, <2>9, <4>1 DEF UnpivotCell
      <4>2. CASE value # Null
        <5>1. emitted' = Append(<<>>, [entry |-> entry, value |-> value])
          BY <1>7, <2>2, <2>9, <4>2 DEF UnpivotCell
        <5>2. Len(emitted') = 1
          BY <5>1
        <5>3. QED  BY <2>5, <4>2, <5>2
      <4>3. QED  BY <4>1, <4>2
    <3>3. Pending' = 1
      BY <3>1 DEF Pending
    <3>4. QED  BY <1>1, <1>2, <1>3, <2>1, <2>2, <2>3, <2>4, <2>6, <2>9, <3>1, <3>2, <3>3
               DEF LongInv, Accounted, current
  <2>10. QED  BY <2>7, <2>8, <2>9
<1>8. CASE EndUnpivot
  <2>1. /\ phase = "unpivot" /\ phase' = "screen" /\ Entries(record) # <<>>
        /\ cell > Len(Entries(record)) /\ cell \in Nat \ {0}
        /\ UNCHANGED <<cell, emitted, recordRows, rows, stats>>
    BY <1>0, <1>1, <1>8 DEF EndUnpivot, TypeOK
  <2>2. cell > 1
    BY <1>0, <2>1, LongEntries
  <2>3. record' = record /\ current' = current
    BY <1>2, <2>1 DEF record, current
  <2>4. recordRows = <<>> /\ Len(recordRows) = 0
    BY <2>1 DEF LongInv
  <2>5. Pending = 1
    BY <2>1 DEF Pending
  <2>6. Len(emitted) + (IF IsUnscaled(record) THEN 1 ELSE 0) = 1
    BY <2>1, <2>2 DEF LongInv
  <2>7. Pending' = Len(emitted') + Len(recordRows') + (IF IsUnscaled(record') THEN 1 ELSE 0)
    BY <2>1 DEF Pending
  <2>8. Pending' = 1
    BY <1>1, <2>1, <2>3, <2>4, <2>6, <2>7 DEF TypeOK
  <2>9. QED  BY <1>1, <1>2, <1>3, <2>1, <2>3, <2>5, <2>8 DEF LongInv, Accounted, current
<1>9. CASE KeepValue
  <2>1. /\ phase = "screen" /\ phase' = "screen" /\ rows' = rows
        /\ emitted # <<>> /\ emitted' = Tail(emitted)
    BY <1>9 DEF KeepValue
  <2>2. /\ stats'.records_in = current
        /\ stats'.records_unmapped = stats.records_unmapped
        /\ stats'.cells_null_skipped = stats.cells_null_skipped
        /\ stats'.rows_dropped = stats.rows_dropped
        /\ stats'.records_rejected = stats.records_rejected
    BY <1>1, <1>3, <1>9, KeepValueCounts DEF Same, current
  <2>3. Len(recordRows') = Len(recordRows) + 1
    <3>1. PICK q \in {"ok", "suspect"} : recordRows' = Append(recordRows, Kept(q))
      BY <1>1, <1>9, KeepValueCounts
    <3>2. QED  BY <1>1, <3>1 DEF TypeOK
  <2>4. Len(emitted') = Len(emitted) - 1 /\ Len(emitted) \in Nat /\ Len(recordRows) \in Nat
    BY <1>1, <2>1 DEF TypeOK
  <2>5. record' = record
    BY <1>2, <2>2 DEF record, current
  <2>6. Pending' = Pending
    BY <2>1, <2>3, <2>4, <2>5 DEF Pending
  <2>7. QED  BY <1>1, <1>2, <1>3, <2>1, <2>2, <2>5, <2>6 DEF LongInv, Accounted, current
<1>10. CASE DropValue
  <2>1. /\ phase = "screen" /\ phase' = "screen" /\ rows' = rows /\ recordRows' = recordRows
        /\ emitted # <<>> /\ emitted' = Tail(emitted)
    BY <1>10 DEF DropValue
  <2>2. /\ stats'.records_in = current
        /\ stats'.records_unmapped = stats.records_unmapped
        /\ stats'.cells_null_skipped = stats.cells_null_skipped
        /\ stats'.rows_dropped = stats.rows_dropped + 1
        /\ stats'.records_rejected = stats.records_rejected
    BY <1>1, <1>3, <1>10, DropValueCounts DEF Same, current
  <2>3. Len(emitted') = Len(emitted) - 1 /\ Len(emitted) \in Nat /\ Len(recordRows) \in Nat
    BY <1>1, <2>1 DEF TypeOK
  <2>4. record' = record
    BY <1>2, <2>2 DEF record, current
  <2>5. Pending' = Pending - 1
    BY <2>1, <2>3, <2>4 DEF Pending
  <2>6. Pending \in Int
    BY <2>1, <2>3 DEF Pending
  <2>7. Accounted \in Int /\ Accounted' = Accounted + 1
    BY <1>3, <2>1, <2>2 DEF Accounted
  <2>8. current' = current /\ stats.records_in = current /\ current \in Nat \ {0}
    BY <1>1, <2>1, <2>2 DEF current, TypeOK
  <2>9. Cardinality(UnscaledUpTo(input', current' - 1)) = Cardinality(UnscaledUpTo(input, current - 1))
    BY <1>2, <2>8, Zenon
  <2>10. Cardinality(UnscaledUpTo(input, current - 1)) \in Nat
    BY <1>1, <2>8, UnscaledUpToOne
  <2>11. stats.records_in = Accounted + Pending + Cardinality(UnscaledUpTo(input, current - 1))
    BY <2>1 DEF LongInv
  <2>12. stats'.records_in = Accounted' + Pending' + Cardinality(UnscaledUpTo(input', current' - 1))
    BY <2>2, <2>5, <2>6, <2>7, <2>8, <2>9, <2>10, <2>11
  <2>13. QED  BY <1>1, <2>1, <2>4, <2>5, <2>6, <2>12 DEF LongInv
<1>11. CASE RejectRecord
  <2>1. /\ phase = "screen" /\ phase' = "next" /\ rows' = rows /\ recordRows' = <<>>
        /\ emitted # <<>> /\ current \in Nat \ {0}
    BY <1>1, <1>11 DEF RejectRecord, TypeOK
  <2>2. /\ stats'.records_in = current
        /\ stats'.records_unmapped = stats.records_unmapped
        /\ stats'.cells_null_skipped = stats.cells_null_skipped
        /\ stats'.rows_dropped = stats.rows_dropped
        /\ stats'.records_rejected = stats.records_rejected + 1
    BY <1>1, <1>3, <1>11, RejectRecordCounts DEF Same, current
  <2>3. Len(emitted) \in Nat \ {0} /\ Len(recordRows) \in Nat
    BY <1>1, <2>1 DEF TypeOK
  <2>4. Pending = 1 /\ ~IsUnscaled(record)
    BY <2>1, <2>3 DEF Pending, LongInv
  <2>5. Cardinality(UnscaledUpTo(input, current)) = Cardinality(UnscaledUpTo(input, current - 1))
    BY <1>1, <2>1, <2>4, UnscaledUpToOne
  <2>6. Pending' = 0
    BY <2>1 DEF Pending
  <2>7. Accounted \in Int /\ Accounted' = Accounted + 1
    <3>1. Len(rows') = Len(rows) /\ Len(rows) \in Nat
      BY <1>3, <2>1
    <3>2. /\ stats.records_rejected \in Int /\ stats.records_unmapped \in Int
          /\ stats.cells_null_skipped \in Int /\ stats.rows_dropped \in Int
      BY <1>3 DEF Counters
    <3>3. \A a, b, c, d, e \in Int : (a + 1) + b + c + d + e = a + b + c + d + e + 1
      OBVIOUS
    <3>4. (stats.records_rejected + 1) + stats.records_unmapped + stats.cells_null_skipped
             + stats.rows_dropped + Len(rows) = Accounted + 1
      BY <3>1, <3>2, <3>3 DEF Accounted
    <3>5. Accounted' = (stats.records_rejected + 1) + stats.records_unmapped
             + stats.cells_null_skipped + stats.rows_dropped + Len(rows)
      BY <2>2, <3>1, Zenon DEF Accounted
    <3>6. Accounted \in Int
      BY <3>1, <3>2 DEF Accounted
    <3>7. QED  BY <3>4, <3>5, <3>6
  <2>8. current' = current /\ stats.records_in = current
    BY <2>2 DEF current
  <2>9. Cardinality(UnscaledUpTo(input', current')) = Cardinality(UnscaledUpTo(input, current))
    BY <1>2, <2>8, Zenon
  <2>10. Cardinality(UnscaledUpTo(input, current)) \in Nat
    BY <1>3, UnscaledUpToGrows
  <2>11. stats.records_in = Accounted + 1 + Cardinality(UnscaledUpTo(input, current - 1))
    BY <2>1, <2>4 DEF LongInv
  <2>12. stats'.records_in = Accounted' + Pending' + Cardinality(UnscaledUpTo(input', current'))
    BY <2>2, <2>5, <2>6, <2>7, <2>8, <2>9, <2>10, <2>11
  <2>13. QED  BY <1>1, <2>1, <2>12 DEF LongInv
<1>12. CASE CommitRecord
  <2>1. /\ phase = "screen" /\ rows' = rows \o recordRows /\ recordRows' = <<>>
        /\ emitted = <<>> /\ stats' = stats /\ phase' \in {"next", "raised"}
        /\ current \in Nat \ {0}
    BY <1>1, <1>12 DEF CommitRecord, TypeOK
  <2>2. Len(rows') = Len(rows) + Len(recordRows) /\ Len(recordRows) \in Nat /\ Len(emitted) = 0
    BY <1>1, <2>1 DEF TypeOK
  <2>3. Pending = Len(recordRows) + (IF IsUnscaled(record) THEN 1 ELSE 0)
    BY <2>1, <2>2 DEF Pending
  <2>4. Cardinality(UnscaledUpTo(input, current)) =
           Cardinality(UnscaledUpTo(input, current - 1)) + (IF IsUnscaled(record) THEN 1 ELSE 0)
    BY <1>1, <2>1, UnscaledUpToOne
  <2>5. CASE phase' = "next"
    <3>1. Pending' = 0
      BY <2>5 DEF Pending
    <3>2. Accounted \in Int /\ Accounted' = Accounted + Len(recordRows)
      <4>1. \A c \in Counters : stats'[c] = stats[c]
        BY <2>1
      <4>2. QED  BY <1>3, <2>2, <4>1 DEF Accounted, Counters
    <3>3. current' = current /\ stats.records_in = current /\ stats'.records_in = current
      BY <2>1 DEF current
    <3>4. Cardinality(UnscaledUpTo(input', current')) = Cardinality(UnscaledUpTo(input, current))
      BY <1>2, <3>3, Zenon
    <3>5. Cardinality(UnscaledUpTo(input, current - 1)) \in Nat
      BY <1>1, <2>1, UnscaledUpToOne
    <3>6. stats.records_in = Accounted + Pending + Cardinality(UnscaledUpTo(input, current - 1))
      BY <2>1 DEF LongInv
    <3>7. stats'.records_in = Accounted' + Pending' + Cardinality(UnscaledUpTo(input', current'))
      BY <2>2, <2>3, <2>4, <3>1, <3>2, <3>3, <3>4, <3>5, <3>6
    <3>8. QED  BY <1>1, <2>1, <2>5, <3>7 DEF LongInv
  <2>6. CASE phase' = "raised"
    BY <1>1, <2>1, <2>6 DEF LongInv
  <2>7. QED  BY <2>1, <2>5, <2>6
<1>13. CASE Finish
  <2>1. /\ phase = "next" /\ phase' = "done" /\ rows' = rows /\ recordRows' = recordRows
    BY <1>13 DEF Finish
  <2>2. /\ stats'.records_in = current
        /\ stats'.records_unmapped = stats.records_unmapped
        /\ stats'.cells_null_skipped = stats.cells_null_skipped
        /\ stats'.rows_dropped = stats.rows_dropped
        /\ stats'.records_rejected = stats.records_rejected
    BY <1>1, <1>3, <1>13, FinishCounts DEF Same, current
  <2>3. Pending = 0 /\ Pending' = 0
    BY <2>1 DEF Pending
  <2>4. QED  BY <1>1, <1>2, <1>3, <2>1, <2>2, <2>3 DEF LongInv, Accounted, current
<1>14. CASE UNCHANGED vars
  BY <1>1, <1>14 DEF vars, LongInv, Pending, Accounted, current, record
<1>15. QED
  BY <1>4, <1>5, <1>6, <1>7, <1>8, <1>9, <1>10, <1>11, <1>12, <1>13, <1>14 DEF Next

\* The readings of a long source that are in no counter and no row are the unscaled
\* ones, as many and no more.
THEOREM LostAreUnscaled == Spec => []OnlyUnscaledAreLost
<1> DEFINE Inv == AllLong => LongInv
<1>1. Inv => OnlyUnscaledAreLost
  <2> SUFFICES ASSUME LongInv, AllLong, phase \in {"next", "done"}  PROVE OnlyUnscaledAreLost
    BY DEF OnlyUnscaledAreLost
  <2>1. Pending = 0
    BY DEF Pending
  <2>2. Unscaled = UnscaledUpTo(input, current)
    BY UnscaledIs
  <2>3. Cardinality(Unscaled) = Cardinality(UnscaledUpTo(input, current))
    BY <2>2, Zenon
  <2>4. Accounted \in Int
    BY DEF LongInv, TypeOK, Accounted, Counters
  <2>5. Cardinality(UnscaledUpTo(input, current)) \in Nat
    BY UnscaledUpToGrows DEF LongInv, TypeOK
  <2>6. stats.records_in = Accounted + Pending + Cardinality(UnscaledUpTo(input, current))
    BY DEF LongInv
  <2>7. QED  BY <2>1, <2>3, <2>4, <2>5, <2>6 DEF OnlyUnscaledAreLost
<1>2. Init => Inv
  BY LongInit
<1>3. Inv /\ [Next]_vars => Inv'
  <2> SUFFICES ASSUME Inv, [Next]_vars, AllLong'  PROVE LongInv'
    OBVIOUS
  <2>1. input' = input
    BY DEF Next, vars, StartRecord, BadRecord, Unmapped, UnpivotCell, EndUnpivot, KeepValue,
           DropValue, RejectRecord, CommitRecord, Finish
  <2>2. AllLong
    BY <2>1 DEF AllLong
  <2>3. QED  BY <2>2, LongNext
<1>4. QED  BY <1>1, <1>2, <1>3, PTL DEF Spec

\* README.md's sentence, where it is true: when the factors of every meter are known,
\* no reading of a long source is dropped invisibly.
THEOREM NothingLostWithFactors ==
    ASSUME \A m \in DOMAIN DeviceFactors : Null \notin {DeviceFactors[m].uk, DeviceFactors[m].ik}
    PROVE  Spec => []NeverDroppedInvisibly
<1>1. TypeOK => Unscaled = {}
  <2> SUFFICES ASSUME TypeOK, NEW i \in Settled, NEW c \in Cells(i), Raw(i, c) # Null
               PROVE  Value(i, c) # Null
    BY DEF Unscaled
  <2>1. i \in 1 .. Len(input) /\ input \in Seq(Record)
    BY InputType DEF Settled, TypeOK
  <2>2. input[i] \in Record /\ Entries(input[i])[c] \in Entry
    BY <2>1, EntriesType DEF Cells
  <2> DEFINE entry == Entries(input[i])[c]  m == input[i].meter
  <2>3. m \in DOMAIN DeviceFactors /\ entry.factor \in {"none", "uk", "ik", "uk_ik"}
        /\ Raw(i, c) \in Numbers \cup {Null, Junk}
    BY <2>2 DEF Record, Entry, Raw
  <2>4. /\ DeviceFactors[m].uk \in Int /\ DeviceFactors[m].ik \in Int
        /\ Raw(i, c) \in Int \cup {Junk} /\ Null \notin Int /\ Junk \notin Int /\ Null # Junk
    BY <2>3, ValuesAssumption
  <2> HIDE DEF entry, m
  <2>5. entry.factor # "none" => ResolveFactor(entry.factor, m) \in Int
    BY <2>3, <2>4 DEF ResolveFactor
  <2>6. ApplyTransform(entry, m, Raw(i, c)) # Null
    BY <2>4, <2>5 DEF ApplyTransform
  <2>7. QED  BY <2>6 DEF Value, entry, m
<1>2. Cardinality({}) = 0
  BY FS_EmptySet
<1>3. TypeOK /\ OnlyUnscaledAreLost => NeverDroppedInvisibly
  <2> SUFFICES ASSUME TypeOK, AllLong, phase \in {"next", "done"},
                      stats.records_in - Accounted = Cardinality(Unscaled)
               PROVE  stats.records_in = Accounted
    BY DEF OnlyUnscaledAreLost, NeverDroppedInvisibly
  <2>1. Cardinality(Unscaled) = 0
    BY <1>1, <1>2, Zenon
  <2>2. stats.records_in \in Int /\ Accounted \in Int
    BY DEF TypeOK, Accounted, Counters
  <2>3. QED  BY <2>1, <2>2
<1>4. QED  BY <1>3, TypeCorrect, LostAreUnscaled, PTL

(***************************************************************************)
(* A record and its cells.                                                 *)
(***************************************************************************)

\* The vocabulary of TransformRecords' properties, of a record rather than a position
CellsOf(r) == 1 .. Len(Entries(r))
CellRaw(r, c) == r.cells[Entries(r)[c].src]
CellValue(r, c) == ApplyTransform(Entries(r)[c], r.meter, CellRaw(r, c))
CellHas(r, c) == CellRaw(r, c) # Null /\ CellValue(r, c) # Null
CellVerdict(r, c) == QuantityVerdict(Entries(r)[c].quantity, CellValue(r, c))
PoisonAt(r, c) == CellHas(r, c) /\ CellVerdict(r, c) = "reject_row"

Passed(r) == RecordVerdict(r) \notin {"reject_row", "drop_row"}
Rejects(r) == ~Passed(r) \/ \E c \in CellsOf(r) : PoisonAt(r, c)
Spared(r) ==
    /\ ~Rejects(r)
    /\ r.shape = "long" => \E c \in CellsOf(r) : CellRaw(r, c) # Null

\* The cells of a record up to its n-th that become rows or are dropped, those after
\* it that have a value, and the null ones before it
KeptIn(r, n) == {c \in CellsOf(r) : c <= n /\ CellHas(r, c) /\ CellVerdict(r, c) # "drop_row"}
DropIn(r, n) == {c \in CellsOf(r) : c <= n /\ CellHas(r, c) /\ CellVerdict(r, c) = "drop_row"}
After(r, n) == {c \in CellsOf(r) : n < c /\ CellHas(r, c)}
NullIn(r, n) == {c \in CellsOf(r) : c < n /\ CellRaw(r, c) = Null}

\* What a record adds to the counters of null and of dropped cells
NullsOf(r) == IF Passed(r) THEN {c \in CellsOf(r) : CellRaw(r, c) = Null} ELSE {}
DropsOf(r) ==
    IF Passed(r)
    THEN {c \in CellsOf(r) : /\ CellHas(r, c) /\ CellVerdict(r, c) = "drop_row"
                             /\ \A b \in 1 .. c : ~PoisonAt(r, b)}
    ELSE {}

\* A record's cells are numbered from 1 and finitely many.
LEMMA CellsType ==
    ASSUME NEW r
    PROVE  /\ Len(Entries(r)) \in Nat /\ DOMAIN Entries(r) = CellsOf(r)
           /\ CellsOf(r) \subseteq Nat \ {0} /\ IsFiniteSet(CellsOf(r))
<1>1. Len(Entries(r)) \in Nat /\ DOMAIN Entries(r) = CellsOf(r) /\ CellsOf(r) \subseteq Nat \ {0}
  BY EntriesType DEF CellsOf
<1>2. QED  BY <1>1, FS_Interval DEF CellsOf

\* Any set of a record's cells can be counted, and one more cell counts one more.
LEMMA CellsCount ==
    ASSUME NEW r, NEW S \in SUBSET CellsOf(r)
    PROVE  /\ IsFiniteSet(S) /\ Cardinality(S) \in Nat
           /\ \A c : c \notin S => Cardinality(S \cup {c}) = Cardinality(S) + 1
<1>1. IsFiniteSet(S)
  BY CellsType, FS_Subset
<1>2. QED  BY <1>1, FS_CardinalityType, FS_AddElement

(***************************************************************************)
(* Counting positions, and cells of positions.                             *)
(***************************************************************************)

RejectedUpTo(in, n) == {i \in 1 .. n : Rejects(in[i])}

\* One more record counts one more rejected record, if it is one.
LEMMA RejectedGrows ==
    ASSUME NEW in, NEW n \in Nat
    PROVE  /\ Cardinality(RejectedUpTo(in, n)) \in Nat
           /\ Cardinality(RejectedUpTo(in, n + 1)) =
                 Cardinality(RejectedUpTo(in, n)) + (IF Rejects(in[n + 1]) THEN 1 ELSE 0)
<1> DEFINE S == RejectedUpTo(in, n)
           T == RejectedUpTo(in, n + 1)
<1>1. IsFiniteSet(S)
  <2>1. S \subseteq 1 .. n
    BY DEF RejectedUpTo
  <2>2. QED  BY <2>1, FS_Interval, FS_Subset
<1>2. Cardinality(S) \in Nat
  BY <1>1, FS_CardinalityType
<1>3. n + 1 \notin S /\ T = IF Rejects(in[n + 1]) THEN S \cup {n + 1} ELSE S
  BY DEF RejectedUpTo
<1> HIDE DEF S, T
<1>4. Cardinality(S \cup {n + 1}) = Cardinality(S) + 1
  BY <1>1, <1>3, FS_AddElement
<1>5. Cardinality(T) = Cardinality(S) + (IF Rejects(in[n + 1]) THEN 1 ELSE 0)
  BY <1>2, <1>3, <1>4
<1>6. QED  BY <1>2, <1>5 DEF S, T

\* The pairs of a position up to n and a member of its set, where f gives the sets
PairsUpTo(f, n) == {ic \in (1 .. n) \X (1 .. Len(Columns) + 1) : ic[2] \in f[ic[1]]}

\* One more position adds the cells of its set.
LEMMA PairsGrow ==
    ASSUME NEW f, NEW n \in Nat, f[n + 1] \subseteq 1 .. Len(Columns) + 1
    PROVE  /\ Cardinality(PairsUpTo(f, n)) \in Nat
           /\ Cardinality(f[n + 1]) \in Nat
           /\ Cardinality(PairsUpTo(f, n + 1)) =
                 Cardinality(PairsUpTo(f, n)) + Cardinality(f[n + 1])
<1> DEFINE k == Len(Columns) + 1
           S == PairsUpTo(f, n)
           T == PairsUpTo(f, n + 1)
           C == f[n + 1]
           new == {n + 1} \X C
<1>1. k \in Nat
  BY MappingAssumption
<1>2. IsFiniteSet(S) /\ Cardinality(S) \in Nat
  <2>1. IsFiniteSet(1 .. n) /\ IsFiniteSet(1 .. k)
    <3> HIDE DEF k
    <3>1. IsFiniteSet(1 .. n)
      BY FS_Interval
    <3>2. IsFiniteSet(1 .. k)
      BY <1>1, FS_Interval
    <3>3. QED  BY <3>1, <3>2
  <2>2. IsFiniteSet((1 .. n) \X (1 .. k))
    BY <2>1, FS_Product
  <2>3. S \in SUBSET ((1 .. n) \X (1 .. k))
    BY DEF PairsUpTo
  <2>4. IsFiniteSet(S)
    BY <2>2, <2>3, FS_Subset
  <2>5. QED  BY <2>4, FS_CardinalityType
<1>3. IsFiniteSet(C) /\ Cardinality(C) \in Nat
  <2>1. IsFiniteSet(1 .. k) /\ C \in SUBSET (1 .. k)
    BY <1>1, FS_Interval
  <2>2. IsFiniteSet(C)
    BY <2>1, FS_Subset
  <2>3. QED  BY <2>2, FS_CardinalityType
<1>4. IsFiniteSet(new) /\ Cardinality(new) = Cardinality(C)
  <2>1. IsFiniteSet({n + 1}) /\ Cardinality({n + 1}) = 1
    BY FS_Singleton
  <2> HIDE DEF C
  <2>2. QED  BY <1>3, <2>1, FS_Product
<1>5. T = S \cup new /\ S \cap new = {}
  BY DEF PairsUpTo
<1> HIDE DEF S, T, C, new, k
<1>6. Cardinality(S \cup new) = Cardinality(S) + Cardinality(new) - Cardinality({})
  BY <1>2, <1>4, <1>5, FS_Union
<1>7. Cardinality(T) = Cardinality(S) + Cardinality(C)
  BY <1>2, <1>3, <1>4, <1>5, <1>6, FS_EmptySet
<1>8. QED  BY <1>2, <1>3, <1>7 DEF S, T, C

Nulls(in) == [i \in DOMAIN in |-> NullsOf(in[i])]
Drops(in) == [i \in DOMAIN in |-> DropsOf(in[i])]

\* No record has more cells than the mapping has columns, or than one.
LEMMA PairsType ==
    ASSUME NEW r
    PROVE  CellsOf(r) \subseteq 1 .. Len(Columns) + 1
<1>1. Len(Columns) \in Nat
  BY MappingAssumption
<1>2. Len(Entries(r)) <= Len(Columns) + 1 /\ Len(Entries(r)) \in Nat
  BY <1>1, CellsType, LongEntries DEF Entries
<1>3. QED  BY <1>1, <1>2 DEF CellsOf

\* The counters after n records, with x null cells and y dropped values of the next one
Counted(in, n, st, x, y) ==
    /\ st.records_rejected = Cardinality(RejectedUpTo(in, n))
    /\ st.cells_null_skipped = Cardinality(PairsUpTo(Nulls(in), n)) + x
    /\ st.rows_dropped = Cardinality(PairsUpTo(Drops(in), n)) + y

\* The next record is dealt with once the counters have all it adds to them.
LEMMA CountedNext ==
    ASSUME NEW in, NEW n \in Nat, n + 1 \in DOMAIN in, NEW st, NEW st2,
           NEW x \in Nat, NEW y \in Nat, NEW d \in Nat, NEW e \in Nat,
           Counted(in, n, st, x, y),
           st2.records_rejected = st.records_rejected + (IF Rejects(in[n + 1]) THEN 1 ELSE 0),
           st2.cells_null_skipped = st.cells_null_skipped + d,
           st2.rows_dropped = st.rows_dropped + e,
           x + d = Cardinality(NullsOf(in[n + 1])), y + e = Cardinality(DropsOf(in[n + 1]))
    PROVE  Counted(in, n + 1, st2, 0, 0)
<1>1. st2.records_rejected = Cardinality(RejectedUpTo(in, n + 1))
  BY RejectedGrows DEF Counted
<1>2. st2.cells_null_skipped = Cardinality(PairsUpTo(Nulls(in), n + 1)) + 0
  <2>1. Nulls(in)[n + 1] = NullsOf(in[n + 1]) /\ NullsOf(in[n + 1]) \subseteq 1 .. Len(Columns) + 1
    BY PairsType DEF Nulls, NullsOf
  <2>2. /\ Cardinality(PairsUpTo(Nulls(in), n)) \in Nat
        /\ Cardinality(PairsUpTo(Nulls(in), n + 1)) =
              Cardinality(PairsUpTo(Nulls(in), n)) + (x + d)
    BY <2>1, PairsGrow
  <2>3. QED  BY <2>2 DEF Counted
<1>3. st2.rows_dropped = Cardinality(PairsUpTo(Drops(in), n + 1)) + 0
  <2>1. Drops(in)[n + 1] = DropsOf(in[n + 1]) /\ DropsOf(in[n + 1]) \subseteq 1 .. Len(Columns) + 1
    BY PairsType DEF Drops, DropsOf
  <2>2. /\ Cardinality(PairsUpTo(Drops(in), n)) \in Nat
        /\ Cardinality(PairsUpTo(Drops(in), n + 1)) =
              Cardinality(PairsUpTo(Drops(in), n)) + (y + e)
    BY <2>1, PairsGrow
  <2>3. QED  BY <2>2 DEF Counted
<1>4. QED  BY <1>1, <1>2, <1>3 DEF Counted

(***************************************************************************)
(* The values of the record in hand, still to be screened.                 *)
(***************************************************************************)

CellEmission(r, c) == [entry |-> Entries(r)[c], value |-> CellValue(r, c)]

\* at enumerates the cells S of a record in their order, and em is what they emit
Lists(at, em, r, S) ==
    /\ at \in Seq(Nat) /\ Len(at) = Len(em)
    /\ \A j, k \in 1 .. Len(em) : j < k => at[j] < at[k]
    /\ S = {at[k] : k \in 1 .. Len(em)}
    /\ \A k \in 1 .. Len(em) : em[k] = CellEmission(r, at[k])

Listed(em, r, S) == \E at : Lists(at, em, r, S)

\* Nothing is listed exactly of no cells.
LEMMA ListedNone ==
    ASSUME NEW r, NEW S
    PROVE  Listed(<<>>, r, S) <=> S = {}
<1>1. ASSUME S = {}  PROVE Lists(<<>>, <<>>, r, S)
  <2>1. <<>> \in Seq(Nat) /\ 1 .. Len(<<>>) = {}
    OBVIOUS
  <2>2. {<<>>[k] : k \in {}} = {}
    OBVIOUS
  <2>3. QED  BY <1>1, <2>1, <2>2, Zenon DEF Lists
<1>2. ASSUME NEW at, Lists(at, <<>>, r, S)  PROVE S = {}
  <2>1. 1 .. Len(<<>>) = {}
    OBVIOUS
  <2>2. S = {at[k] : k \in 1 .. Len(<<>>)}
    BY <1>2 DEF Lists
  <2>3. QED  BY <2>1, <2>2, Zenon
<1>3. QED  BY <1>1, <1>2 DEF Listed

\* A cell after those listed is listed by appending what it emits.
LEMMA ListedAppend ==
    ASSUME NEW em \in Seq(Emission), NEW r, NEW S, Listed(em, r, S), NEW c \in Nat, \A s \in S : s < c
    PROVE  Listed(Append(em, CellEmission(r, c)), r, S \cup {c})
<1>1. PICK at : Lists(at, em, r, S)
  BY DEF Listed
<1> DEFINE more == Append(em, CellEmission(r, c))
           to == Append(at, c)
           n == Len(em)
<1>2. /\ n \in Nat /\ Len(at) = n /\ at \in Seq(Nat)
      /\ (\A j, k \in 1 .. n : j < k => at[j] < at[k])
      /\ S = {at[k] : k \in 1 .. n}
      /\ (\A k \in 1 .. n : em[k] = CellEmission(r, at[k]))
  BY <1>1 DEF Lists
<1>3. /\ to \in Seq(Nat) /\ Len(to) = n + 1 /\ Len(more) = n + 1
      /\ to[n + 1] = c /\ more[n + 1] = CellEmission(r, c)
      /\ \A k \in 1 .. n : to[k] = at[k] /\ more[k] = em[k]
  BY <1>2
<1> HIDE DEF more, to, n
<1>4. ASSUME NEW j \in 1 .. n + 1, NEW k \in 1 .. n + 1, j < k  PROVE to[j] < to[k]
  <2>1. j \in 1 .. n
    BY <1>2, <1>4
  <2>2. CASE k \in 1 .. n
    BY <1>2, <1>3, <1>4, <2>1, <2>2
  <2>3. CASE k = n + 1
    <3>1. at[j] \in S
      BY <1>2, <2>1
    <3>2. QED  BY <1>3, <2>1, <2>3, <3>1
  <2>4. QED  BY <1>2, <2>2, <2>3
<1>5. S \cup {c} = {to[k] : k \in 1 .. n + 1}
  <2>1. 1 .. n + 1 = (1 .. n) \cup {n + 1}
    BY <1>2
  <2>2. QED  BY <1>2, <1>3, <2>1
<1>6. \A k \in 1 .. n + 1 : more[k] = CellEmission(r, to[k])
  <2>1. 1 .. n + 1 = (1 .. n) \cup {n + 1}
    BY <1>2
  <2>2. QED  BY <1>2, <1>3, <2>1
<1>7. Lists(to, more, r, S \cup {c})
  BY <1>3, <1>4, <1>5, <1>6 DEF Lists
<1>8. QED  BY <1>7 DEF Listed, more

\* The head of the list is the first of its cells; the tail lists the others.
LEMMA ListedTail ==
    ASSUME NEW em \in Seq(Emission), NEW r, NEW S, Listed(em, r, S), em # <<>>
    PROVE  \E c \in S : /\ \A s \in S : c <= s
                        /\ Head(em) = CellEmission(r, c)
                        /\ Listed(Tail(em), r, S \ {c})
<1>1. PICK at : Lists(at, em, r, S)
  BY DEF Listed
<1> DEFINE n == Len(em)
           rest == Tail(em)
           from == Tail(at)
           c == at[1]
<1>2. /\ n \in Nat \ {0} /\ Len(at) = n /\ at \in Seq(Nat)
      /\ (\A j, k \in 1 .. n : j < k => at[j] < at[k])
      /\ S = {at[k] : k \in 1 .. n}
      /\ (\A k \in 1 .. n : em[k] = CellEmission(r, at[k]))
  BY <1>1 DEF Lists
<1>3. /\ from \in Seq(Nat) /\ Len(from) = n - 1 /\ Len(rest) = n - 1
      /\ \A k \in 1 .. n - 1 : from[k] = at[k + 1] /\ rest[k] = em[k + 1]
  BY <1>2
<1>4. c \in S /\ Head(em) = CellEmission(r, c) /\ c \in Nat
  BY <1>2
<1> HIDE DEF n, rest, from
<1>5. \A k \in 1 .. n : at[k] \in Nat
  BY <1>2
<1>6. \A s \in S : c <= s
  <2> SUFFICES ASSUME NEW k \in 1 .. n  PROVE at[1] <= at[k]
    BY <1>2
  <2>1. CASE k = 1
    BY <1>5, <2>1
  <2>2. CASE k # 1
    BY <1>2, <1>5, <2>2
  <2>3. QED  BY <2>1, <2>2
<1>7. \A j, k \in 1 .. n - 1 : j < k => from[j] < from[k]
  BY <1>2, <1>3
<1>8. S \ {c} = {from[k] : k \in 1 .. n - 1}
  <2>1. ASSUME NEW k \in 1 .. n, at[k] # c  PROVE at[k] \in {from[j] : j \in 1 .. n - 1}
    <3>1. k - 1 \in 1 .. n - 1 /\ (k - 1) + 1 = k
      BY <1>2, <2>1
    <3>2. from[k - 1] = at[k]
      BY <1>3, <3>1
    <3>3. QED  BY <3>1, <3>2
  <2>2. ASSUME NEW j \in 1 .. n - 1  PROVE from[j] \in S /\ from[j] # c
    <3>1. j + 1 \in 1 .. n /\ 1 \in 1 .. n /\ 1 < j + 1
      BY <1>2
    <3>2. at[1] < at[j + 1] /\ from[j] = at[j + 1]
      BY <1>2, <1>3, <3>1
    <3>3. at[j + 1] \in S
      BY <1>2, <3>1
    <3>4. at[1] \in Nat /\ at[j + 1] \in Nat
      BY <1>5, <3>1
    <3>5. QED  BY <3>2, <3>3, <3>4
  <2>3. ASSUME NEW x \in S \ {c}  PROVE x \in {from[j] : j \in 1 .. n - 1}
    <3>1. PICK k \in 1 .. n : x = at[k]
      BY <1>2
    <3>2. QED  BY <2>1, <3>1
  <2>4. QED  BY <2>2, <2>3
<1>9. ASSUME NEW k \in 1 .. n - 1  PROVE rest[k] = CellEmission(r, from[k])
  <2>1. k + 1 \in 1 .. n /\ rest[k] = em[k + 1] /\ from[k] = at[k + 1]
    BY <1>2, <1>3
  <2>2. em[k + 1] = CellEmission(r, at[k + 1])
    BY <1>2, <2>1
  <2>3. QED  BY <2>1, <2>2
<1>10. Lists(from, rest, r, S \ {c})
  BY <1>3, <1>7, <1>8, <1>9 DEF Lists
<1>11. QED  BY <1>4, <1>6, <1>10 DEF Listed, rest

(***************************************************************************)
(* The rows and the sessions of the records dealt with.                    *)
(***************************************************************************)

RowsFrom(rs, i) == {k \in DOMAIN rs : rs[k].rec = i}
AllFrom(rr, n) == \A k \in DOMAIN rr : rr[k].rec = n

\* The rows of a record can be counted.
LEMMA RowsFromType ==
    ASSUME NEW rs \in Seq(Row), NEW i
    PROVE  IsFiniteSet(RowsFrom(rs, i)) /\ Cardinality(RowsFrom(rs, i)) \in Nat
<1>1. RowsFrom(rs, i) \in SUBSET (1 .. Len(rs)) /\ IsFiniteSet(1 .. Len(rs))
  BY FS_Interval DEF RowsFrom
<1>2. IsFiniteSet(RowsFrom(rs, i))
  BY <1>1, FS_Subset
<1>3. QED  BY <1>2, FS_CardinalityType

\* Appending the rows of one record adds them to its own and to no other's.
LEMMA RowsFromConcat ==
    ASSUME NEW rs \in Seq(Row), NEW rr \in Seq(Row), NEW n, AllFrom(rr, n),
           NEW i
    PROVE  Cardinality(RowsFrom(rs \o rr, i)) =
               Cardinality(RowsFrom(rs, i)) + (IF i = n THEN Len(rr) ELSE 0)
<1> DEFINE m == Len(rs)
           k == Len(rr)
           S == RowsFrom(rs, i)
           T == RowsFrom(rs \o rr, i)
           new == m + 1 .. m + k
<1>1. /\ m \in Nat /\ k \in Nat /\ DOMAIN rs = 1 .. m /\ DOMAIN rr = 1 .. k
      /\ DOMAIN (rs \o rr) = 1 .. m + k
      /\ (\A j \in 1 .. m : (rs \o rr)[j] = rs[j])
      /\ (\A j \in 1 .. m + k : j > m => (rs \o rr)[j] = rr[j - m])
  OBVIOUS
<1>2. \A j \in new : (rs \o rr)[j].rec = n
  BY <1>1 DEF AllFrom
<1>3. 1 .. m + k = (1 .. m) \cup new
  BY <1>1
<1>4. T = IF i = n THEN S \cup new ELSE S
  BY <1>1, <1>2, <1>3 DEF RowsFrom
<1>5. S \cap new = {}
  BY <1>1 DEF RowsFrom
<1>6. IsFiniteSet(S) /\ Cardinality(S) \in Nat
  BY RowsFromType
<1>7. IsFiniteSet(new) /\ Cardinality(new) = k
  <2>1. m \in Nat /\ k \in Nat /\ m + 1 \in Int /\ m + k \in Int
    BY <1>1
  <2> HIDE DEF m, k
  <2>2. IsFiniteSet(m + 1 .. m + k)
    BY <2>1, FS_Interval
  <2>3. Cardinality(m + 1 .. m + k) = IF m + 1 > m + k THEN 0 ELSE (m + k) - (m + 1) + 1
    BY <2>1, FS_Interval
  <2>4. (IF m + 1 > m + k THEN 0 ELSE (m + k) - (m + 1) + 1) = k
    BY <2>1
  <2>5. QED  BY <2>2, <2>3, <2>4
<1> HIDE DEF m, k, S, T, new
<1>8. Cardinality(S \cup new) = Cardinality(S) + Cardinality(new) - Cardinality({})
  BY <1>5, <1>6, <1>7, FS_Union
<1>9. Cardinality(T) = Cardinality(S) + (IF i = n THEN k ELSE 0)
  BY <1>1, <1>4, <1>6, <1>7, <1>8, FS_EmptySet
<1>10. QED  BY <1>9 DEF S, T, k

RowsUpTo(in, n, rs) ==
    \A i \in 1 .. Len(in) :
        Cardinality(RowsFrom(rs, i)) =
            IF i <= n /\ Spared(in[i]) THEN Cardinality(KeptIn(in[i], Len(Entries(in[i])))) ELSE 0

SessionsUpTo(in, n, ss) ==
    /\ DOMAIN ss = {in[i].session : i \in {j \in 1 .. n : Spared(in[j])}} \ {NoSession}
    /\ \A s \in DOMAIN ss :
          /\ ss[s] \in 1 .. n /\ Spared(in[ss[s]]) /\ in[ss[s]].session = s
          /\ \A j \in 1 .. n : Spared(in[j]) /\ in[j].session = s => ss[s] <= j

\* A record that is not spared adds nothing to either.
LEMMA NothingAdded ==
    ASSUME NEW in \in Seq(Record), NEW n \in Nat, ~Spared(in[n + 1])
    PROVE  /\ \A rs : RowsUpTo(in, n, rs) => RowsUpTo(in, n + 1, rs)
           /\ \A ss : SessionsUpTo(in, n, ss) => SessionsUpTo(in, n + 1, ss)
<1>1. \A i \in 1 .. n + 1 : Spared(in[i]) => i \in 1 .. n
  OBVIOUS
<1>2. ASSUME NEW rs, RowsUpTo(in, n, rs)  PROVE RowsUpTo(in, n + 1, rs)
  BY <1>1, <1>2 DEF RowsUpTo
<1>3. ASSUME NEW ss, SessionsUpTo(in, n, ss)  PROVE SessionsUpTo(in, n + 1, ss)
  <2>1. {j \in 1 .. n + 1 : Spared(in[j])} = {j \in 1 .. n : Spared(in[j])}
    BY <1>1
  <2>2. 1 .. n \subseteq 1 .. n + 1
    OBVIOUS
  <2>3. QED  BY <1>1, <1>3, <2>1, <2>2 DEF SessionsUpTo
<1>4. QED  BY <1>2, <1>3

\* A record that is spared adds its rows ...
LEMMA RowsAdded ==
    ASSUME NEW in \in Seq(Record), NEW n \in Nat, n + 1 \in DOMAIN in, Spared(in[n + 1]),
           NEW rs \in Seq(Row), NEW rr \in Seq(Row), AllFrom(rr, n + 1),
           Len(rr) = Cardinality(KeptIn(in[n + 1], Len(Entries(in[n + 1])))),
           RowsUpTo(in, n, rs)
    PROVE  RowsUpTo(in, n + 1, rs \o rr)
<1> SUFFICES ASSUME NEW i \in 1 .. Len(in)
             PROVE  Cardinality(RowsFrom(rs \o rr, i)) =
                       IF i <= n + 1 /\ Spared(in[i])
                       THEN Cardinality(KeptIn(in[i], Len(Entries(in[i])))) ELSE 0
  BY DEF RowsUpTo
<1>1. Cardinality(RowsFrom(rs \o rr, i)) =
         Cardinality(RowsFrom(rs, i)) + (IF i = n + 1 THEN Len(rr) ELSE 0)
  BY RowsFromConcat
<1>2. Cardinality(RowsFrom(rs, i)) =
         IF i <= n /\ Spared(in[i]) THEN Cardinality(KeptIn(in[i], Len(Entries(in[i])))) ELSE 0
  BY DEF RowsUpTo
<1>3. Cardinality(RowsFrom(rs, i)) \in Nat /\ Len(rr) \in Nat
  BY RowsFromType
<1>4. CASE i = n + 1
  BY <1>1, <1>2, <1>3, <1>4
<1>5. CASE i # n + 1
  <2>1. i <= n + 1 <=> i <= n
    BY <1>5
  <2>2. QED  BY <1>1, <1>2, <1>3, <1>5, <2>1
<1>6. QED  BY <1>4, <1>5

\* ... and opens its session, unless it has none or an earlier one has opened it.
LEMMA SessionsAdded ==
    ASSUME NEW in \in Seq(Record), NEW n \in Nat, n + 1 \in DOMAIN in, Spared(in[n + 1]),
           NEW ss, NEW ss2, SessionsUpTo(in, n, ss),
           LET s == in[n + 1].session
           IN  IF s # NoSession /\ s \notin DOMAIN ss
               THEN ss2 = [t \in DOMAIN ss \cup {s} |-> IF t = s THEN n + 1 ELSE ss[t]]
               ELSE ss2 = ss
    PROVE  SessionsUpTo(in, n + 1, ss2)
<1> DEFINE s == in[n + 1].session
           earlier == {in[i].session : i \in {j \in 1 .. n : Spared(in[j])}}
<1>1. 1 .. n + 1 = (1 .. n) \cup {n + 1} /\ n + 1 \notin 1 .. n
  OBVIOUS
<1>2. {in[i].session : i \in {j \in 1 .. n + 1 : Spared(in[j])}} = earlier \cup {s}
  BY <1>1
<1>3. /\ DOMAIN ss = earlier \ {NoSession}
      /\ \A t \in DOMAIN ss :
            /\ ss[t] \in 1 .. n /\ Spared(in[ss[t]]) /\ in[ss[t]].session = t
            /\ \A j \in 1 .. n : Spared(in[j]) /\ in[j].session = t => ss[t] <= j
  BY DEF SessionsUpTo
<1>4. \A j \in 1 .. n : Spared(in[j]) => in[j].session \in earlier
  OBVIOUS
<1>5. s = in[n + 1].session
  OBVIOUS
<1> HIDE DEF s, earlier
<1>6. CASE s # NoSession /\ s \notin DOMAIN ss
  <2>1. ss2 = [t \in DOMAIN ss \cup {s} |-> IF t = s THEN n + 1 ELSE ss[t]]
    BY <1>6 DEF s
  <2>2. DOMAIN ss2 = (earlier \cup {s}) \ {NoSession}
    BY <1>3, <1>6, <2>1
  <2>3. ASSUME NEW t \in DOMAIN ss2
        PROVE  /\ ss2[t] \in 1 .. n + 1 /\ Spared(in[ss2[t]]) /\ in[ss2[t]].session = t
               /\ \A j \in 1 .. n + 1 : Spared(in[j]) /\ in[j].session = t => ss2[t] <= j
    <3>1. CASE t = s
      <4>1. ss2[t] = n + 1
        BY <2>1, <3>1
      <4>2. \A j \in 1 .. n : Spared(in[j]) => in[j].session # s
        BY <1>3, <1>4, <1>6
      <4>3. QED  BY <1>1, <1>5, <3>1, <4>1, <4>2
    <3>2. CASE t # s
      <4>1. t \in DOMAIN ss /\ ss2[t] = ss[t]
        BY <2>1, <2>3, <3>2
      <4>2. QED  BY <1>1, <1>3, <1>5, <3>2, <4>1
    <3>3. QED  BY <3>1, <3>2
  <2>4. QED  BY <1>2, <2>2, <2>3 DEF SessionsUpTo
<1>7. CASE s = NoSession \/ s \in DOMAIN ss
  <2>1. ss2 = ss
    BY <1>7 DEF s
  <2>2. DOMAIN ss = (earlier \cup {s}) \ {NoSession}
    BY <1>3, <1>7
  <2>3. ASSUME NEW t \in DOMAIN ss
        PROVE  /\ ss[t] \in 1 .. n + 1 /\ Spared(in[ss[t]]) /\ in[ss[t]].session = t
               /\ \A j \in 1 .. n + 1 : Spared(in[j]) /\ in[j].session = t => ss[t] <= j
    <3>1. /\ ss[t] \in 1 .. n /\ Spared(in[ss[t]]) /\ in[ss[t]].session = t
          /\ \A j \in 1 .. n : Spared(in[j]) /\ in[j].session = t => ss[t] <= j
      BY <1>3
    <3>2. ss[t] \in 1 .. n + 1 /\ ss[t] <= n + 1
      BY <3>1
    <3>3. ASSUME NEW j \in 1 .. n + 1, Spared(in[j]), in[j].session = t  PROVE ss[t] <= j
      <4>1. CASE j = n + 1
        BY <3>2, <4>1
      <4>2. CASE j # n + 1
        BY <1>1, <3>1, <3>3, <4>2
      <4>3. QED  BY <4>1, <4>2
    <3>4. QED  BY <3>1, <3>2, <3>3
  <2>4. SessionsUpTo(in, n + 1, ss)
    BY <1>2, <2>2, <2>3 DEF SessionsUpTo
  <2>5. QED  BY <2>1, <2>4
<1>8. QED  BY <1>6, <1>7

(***************************************************************************)
(* The record in hand.                                                     *)
(***************************************************************************)

\* The (k + 1)-th record r is unpivoted up to the cell before cl.
Unpivoted(in, k, r, cl, em, st) ==
    /\ cl > 1 /\ r.shape = "long" => CellRaw(r, 1) # Null
    /\ Listed(em, r, {c \in CellsOf(r) : c < cl /\ CellHas(r, c)})
    /\ Counted(in, k, st, Cardinality(NullIn(r, cl)), 0)

\* Its values up to the n-th cell are screened: no poison, and each one that is not
\* dropped is in the buffer.
Screened(in, k, r, em, rr, st, n) ==
    /\ r.shape = "long" => \E c \in CellsOf(r) : CellRaw(r, c) # Null
    /\ Listed(em, r, After(r, n))
    /\ \A c \in CellsOf(r) : c <= n => ~PoisonAt(r, c)
    /\ AllFrom(rr, k + 1)
    /\ Len(rr) = Cardinality(KeptIn(r, n))
    /\ Counted(in, k, st, Cardinality(NullsOf(r)), Cardinality(DropIn(r, n)))

\* The next value to screen is that of the next cell m that has one.
LEMMA NextValue ==
    ASSUME NEW r, NEW n \in Nat, NEW em \in Seq(Emission), em # <<>>,
           Listed(em, r, After(r, n))
    PROVE  \E m \in CellsOf(r) :
              /\ n < m /\ CellHas(r, m) /\ Head(em) = CellEmission(r, m)
              /\ \A c \in CellsOf(r) : n < c /\ c < m => ~CellHas(r, c)
              /\ Listed(Tail(em), r, After(r, m))
              /\ Cardinality(KeptIn(r, m)) =
                    Cardinality(KeptIn(r, n)) + (IF CellVerdict(r, m) = "drop_row" THEN 0 ELSE 1)
              /\ Cardinality(DropIn(r, m)) =
                    Cardinality(DropIn(r, n)) + (IF CellVerdict(r, m) = "drop_row" THEN 1 ELSE 0)
<1> DEFINE S == After(r, n)
<1>1. PICK m \in S : /\ \A c \in S : m <= c
                     /\ Head(em) = CellEmission(r, m)
                     /\ Listed(Tail(em), r, S \ {m})
  BY ListedTail
<1>2. CellsOf(r) \subseteq Nat
  BY CellsType
<1>3. n < m /\ CellHas(r, m) /\ m \in CellsOf(r) /\ m \in Nat
  BY <1>2 DEF After
<1>4. \A c \in CellsOf(r) : n < c /\ c < m => ~CellHas(r, c)
  BY <1>1, <1>2 DEF After
<1>5. S \ {m} = After(r, m)
  BY <1>1, <1>2, <1>3 DEF After
<1>6. \A c \in CellsOf(r) : CellHas(r, c) => (c <= m <=> c <= n \/ c = m)
  BY <1>2, <1>3, <1>4
<1>7. KeptIn(r, m) = IF CellVerdict(r, m) = "drop_row" THEN KeptIn(r, n) ELSE KeptIn(r, n) \cup {m}
  BY <1>3, <1>6 DEF KeptIn
<1>8. DropIn(r, m) = IF CellVerdict(r, m) = "drop_row" THEN DropIn(r, n) \cup {m} ELSE DropIn(r, n)
  BY <1>3, <1>6 DEF DropIn
<1>9. m \notin KeptIn(r, n) /\ m \notin DropIn(r, n)
  BY <1>3 DEF KeptIn, DropIn
<1>10. /\ Cardinality(KeptIn(r, n)) \in Nat
       /\ Cardinality(KeptIn(r, n) \cup {m}) = Cardinality(KeptIn(r, n)) + 1
  BY <1>9, CellsCount DEF KeptIn
<1>11. /\ Cardinality(DropIn(r, n)) \in Nat
       /\ Cardinality(DropIn(r, n) \cup {m}) = Cardinality(DropIn(r, n)) + 1
  BY <1>9, CellsCount DEF DropIn
<1>12. Cardinality(KeptIn(r, m)) =
          Cardinality(KeptIn(r, n)) + (IF CellVerdict(r, m) = "drop_row" THEN 0 ELSE 1)
  BY <1>7, <1>10
<1>13. Cardinality(DropIn(r, m)) =
          Cardinality(DropIn(r, n)) + (IF CellVerdict(r, m) = "drop_row" THEN 1 ELSE 0)
  BY <1>8, <1>11
<1>14. QED  BY <1>1, <1>3, <1>4, <1>5, <1>12, <1>13

\* A poisoned value: the values dropped are those screened before it.
LEMMA PoisonedDrops ==
    ASSUME NEW r, Passed(r), NEW n \in Nat, NEW m \in CellsOf(r), n < m, PoisonAt(r, m),
           \A c \in CellsOf(r) : n < c /\ c < m => ~CellHas(r, c),
           \A c \in CellsOf(r) : c <= n => ~PoisonAt(r, c)
    PROVE  Rejects(r) /\ DropsOf(r) = DropIn(r, n)
<1>1. CellsOf(r) \subseteq Nat \ {0} /\ m \in Nat
  BY CellsType
<1>2. ASSUME NEW c \in DropIn(r, n)  PROVE c \in DropsOf(r)
  <2>1. c \in CellsOf(r) /\ c <= n /\ \A b \in 1 .. c : b \in CellsOf(r) /\ b <= n
    BY <1>1 DEF DropIn, CellsOf
  <2>2. QED  BY <1>2, <2>1 DEF DropIn, DropsOf
<1>3. ASSUME NEW c \in DropsOf(r)  PROVE c \in DropIn(r, n)
  <2>1. c \in CellsOf(r) /\ CellHas(r, c) /\ CellVerdict(r, c) = "drop_row"
        /\ \A b \in 1 .. c : ~PoisonAt(r, b)
    BY DEF DropsOf
  <2>2. ~(m <= c)
    BY <1>1, <2>1
  <2>3. c <= n
    BY <1>1, <2>1, <2>2
  <2>4. QED  BY <2>1, <2>3 DEF DropIn
<1>4. QED  BY <1>2, <1>3 DEF Rejects

\* No value is left and none was poisoned: the record is spared, with all it kept.
LEMMA AllScreened ==
    ASSUME NEW r, Passed(r), NEW n \in Nat,
           r.shape = "long" => \E c \in CellsOf(r) : CellRaw(r, c) # Null,
           After(r, n) = {},
           \A c \in CellsOf(r) : c <= n => ~PoisonAt(r, c)
    PROVE  /\ Spared(r) /\ ~Rejects(r)
           /\ DropsOf(r) = DropIn(r, n) /\ KeptIn(r, Len(Entries(r))) = KeptIn(r, n)
<1>1. CellsOf(r) \subseteq Nat \ {0} /\ Len(Entries(r)) \in Nat
  BY CellsType
<1>2. \A c \in CellsOf(r) : CellHas(r, c) => c <= n
  BY <1>1 DEF After
<1>3. \A c \in CellsOf(r) : ~PoisonAt(r, c) /\ c <= Len(Entries(r))
  BY <1>2 DEF PoisonAt, CellsOf
<1>4. \A c \in CellsOf(r) : \A b \in 1 .. c : b \in CellsOf(r)
  BY <1>1 DEF CellsOf
<1>5. Spared(r) /\ ~Rejects(r)
  BY <1>3 DEF Spared, Rejects
<1>6. DropsOf(r) = DropIn(r, n)
  BY <1>2, <1>3, <1>4 DEF DropsOf, DropIn
<1>7. KeptIn(r, Len(Entries(r))) = KeptIn(r, n)
  BY <1>2, <1>3 DEF KeptIn
<1>8. QED  BY <1>5, <1>6, <1>7

\* One more cell is read.
LEMMA NextCell ==
    ASSUME NEW r, NEW cl \in CellsOf(r)
    PROVE  /\ Cardinality(NullIn(r, cl)) \in Nat
           /\ Cardinality(NullIn(r, cl + 1)) =
                 Cardinality(NullIn(r, cl)) + (IF CellRaw(r, cl) = Null THEN 1 ELSE 0)
           /\ {c \in CellsOf(r) : c < cl + 1 /\ CellHas(r, c)} =
                 {c \in CellsOf(r) : c < cl /\ CellHas(r, c)}
                 \cup (IF CellHas(r, cl) THEN {cl} ELSE {})
<1>1. CellsOf(r) \subseteq Nat \ {0} /\ cl \in Nat
  BY CellsType
<1>2. \A c \in CellsOf(r) : c < cl + 1 <=> c < cl \/ c = cl
  BY <1>1
<1>3. NullIn(r, cl + 1) = IF CellRaw(r, cl) = Null THEN NullIn(r, cl) \cup {cl} ELSE NullIn(r, cl)
  BY <1>2 DEF NullIn
<1>4. cl \notin NullIn(r, cl)
  BY <1>1 DEF NullIn
<1>5. /\ Cardinality(NullIn(r, cl)) \in Nat
      /\ Cardinality(NullIn(r, cl) \cup {cl}) = Cardinality(NullIn(r, cl)) + 1
  BY <1>4, CellsCount DEF NullIn
<1>6. Cardinality(NullIn(r, cl + 1)) =
         Cardinality(NullIn(r, cl)) + (IF CellRaw(r, cl) = Null THEN 1 ELSE 0)
  BY <1>3, <1>5
<1>7. {c \in CellsOf(r) : c < cl + 1 /\ CellHas(r, c)} =
         {c \in CellsOf(r) : c < cl /\ CellHas(r, c)}
         \cup (IF CellHas(r, cl) THEN {cl} ELSE {})
  BY <1>2
<1>8. QED  BY <1>5, <1>6, <1>7

\* Nothing is screened or read yet.
LEMMA NothingKept ==
    ASSUME NEW r
    PROVE  /\ Cardinality(KeptIn(r, 0)) = 0 /\ Cardinality(DropIn(r, 0)) = 0
           /\ Cardinality(NullIn(r, 1)) = 0
<1>1. CellsOf(r) \subseteq Nat \ {0}
  BY CellsType
<1>2. KeptIn(r, 0) = {} /\ DropIn(r, 0) = {} /\ NullIn(r, 1) = {}
  BY <1>1 DEF KeptIn, DropIn, NullIn
<1>3. QED  BY <1>2, FS_EmptySet

(***************************************************************************)
(* The loop.                                                               *)
(***************************************************************************)

LoopInv ==
    /\ TypeOK
    /\ phase \in {"next", "done"} =>
          /\ Counted(input, current, stats, 0, 0)
          /\ RowsUpTo(input, current, rows)
          /\ SessionsUpTo(input, current, sessions)
    /\ phase \in {"unpivot", "screen"} =>
          /\ Passed(record)
          /\ RowsUpTo(input, current - 1, rows)
          /\ SessionsUpTo(input, current - 1, sessions)
    /\ phase = "unpivot" =>
          recordRows = <<>> /\ Unpivoted(input, current - 1, record, cell, emitted, stats)
    /\ phase = "screen" =>
          \E n \in Nat : Screened(input, current - 1, record, emitted, recordRows, stats, n)

\* Nothing has been dealt with.
LEMMA LoopInit == ASSUME Init  PROVE LoopInv
<1>1. TypeOK /\ phase = "next" /\ rows = <<>> /\ DOMAIN sessions = {}
  BY InitType DEF Init
<1>2. /\ current = 0 /\ stats.records_rejected = 0
      /\ stats.cells_null_skipped = 0 /\ stats.rows_dropped = 0
  BY DEF Init, NoStats, Counters, current
<1>3. Cardinality({}) = 0 /\ 1 .. 0 = {}
  BY FS_EmptySet
<1>4. RejectedUpTo(input, 0) = {} /\ (\A f : PairsUpTo(f, 0) = {}) /\ (\A i : RowsFrom(<<>>, i) = {})
  BY <1>3 DEF RejectedUpTo, PairsUpTo, RowsFrom
<1>5. Cardinality(RejectedUpTo(input, 0)) = 0
  BY <1>3, <1>4, Zenon
<1>6. Cardinality(PairsUpTo(Nulls(input), 0)) = 0 /\ Cardinality(PairsUpTo(Drops(input), 0)) = 0
  BY <1>3, <1>4, Zenon
<1>7. Counted(input, 0, stats, 0, 0)
  BY <1>2, <1>5, <1>6 DEF Counted
<1>8. RowsUpTo(input, 0, <<>>)
  <2>1. \A i \in 1 .. Len(input) : ~(i <= 0)
    OBVIOUS
  <2>2. \A i : Cardinality(RowsFrom(<<>>, i)) = 0
    BY <1>3, <1>4, Zenon
  <2>3. QED  BY <2>1, <2>2 DEF RowsUpTo
<1>9. SessionsUpTo(input, 0, sessions)
  BY <1>1, <1>3 DEF SessionsUpTo
<1>10. QED  BY <1>1, <1>2, <1>7, <1>8, <1>9 DEF LoopInv

\* What the loop has done of a state in which the record r is in hand, and how it
\* stands when r has been dealt with
InHand(k, r) ==
    /\ k \in Nat /\ k + 1 = current /\ current - 1 = k /\ current \in DOMAIN input
    /\ r = record /\ r = input[k + 1] /\ Passed(r)
    /\ RowsUpTo(input, k, rows) /\ SessionsUpTo(input, k, sessions)

\* A record is in hand while it is unpivoted or screened.
LEMMA HandOf ==
    ASSUME LoopInv, phase \in {"unpivot", "screen"}
    PROVE  \E k, r : /\ InHand(k, r)
                     /\ phase = "unpivot" => Unpivoted(input, k, r, cell, emitted, stats)
                     /\ phase = "screen" =>
                           \E n \in Nat : Screened(input, k, r, emitted, recordRows, stats, n)
<1>1. PICK k : k = current - 1
  OBVIOUS
<1>2. /\ k \in Nat /\ k + 1 = current /\ current - 1 = k /\ current \in DOMAIN input
      /\ record = input[k + 1]
  <2>1. current \in DOMAIN input /\ current \in Nat /\ input \in Seq(Record)
    BY InputType DEF LoopInv, TypeOK
  <2>2. current \in Nat \ {0}
    BY <2>1
  <2>3. QED  BY <1>1, <2>1, <2>2 DEF record
<1>3. InHand(k, record)
  BY <1>1, <1>2 DEF LoopInv, InHand
<1>4. QED  BY <1>1, <1>3 DEF LoopInv

\* The counters a step leaves alone
LEMMA Untouched ==
    ASSUME TypeOK, NEW C, Same(C)
    PROVE  /\ "records_in" \notin C => stats'.records_in = stats.records_in
           /\ "records_rejected" \notin C => stats'.records_rejected = stats.records_rejected
           /\ "cells_null_skipped" \notin C => stats'.cells_null_skipped = stats.cells_null_skipped
           /\ "rows_dropped" \notin C => stats'.rows_dropped = stats.rows_dropped
BY DEF Same, Counters

\* The step deals with a record that is not spared: nothing but counters changes.
LEMMA Settles ==
    ASSUME LoopInv, NEW k, NEW r, InHand(k, r), ~Spared(r), TypeOK', phase' = "next",
           current' = current, UNCHANGED <<input, rows, sessions>>,
           Counted(input, k + 1, stats', 0, 0)
    PROVE  LoopInv'
<1>1. input \in Seq(Record)
  BY InputType DEF LoopInv
<1>2. k \in Nat /\ ~Spared(input[k + 1])
  BY DEF InHand
<1>3. RowsUpTo(input, k + 1, rows) /\ SessionsUpTo(input, k + 1, sessions)
  BY <1>1, <1>2, NothingAdded DEF InHand
<1>4. k + 1 = current'
  BY DEF InHand
<1>5. QED  BY <1>3, <1>4 DEF LoopInv

\* A record rule discards the record, or the record is in hand with no cell read.
LEMMA LoopStart == ASSUME LoopInv, StartRecord, TypeOK'  PROVE LoopInv'
<1> DEFINE r == input[current + 1]
           k == current
<1>1. TypeOK /\ input \in Seq(Record) /\ k \in Nat /\ k < Len(input) /\ phase = "next"
  BY InputType DEF LoopInv, TypeOK, StartRecord
<1>2. /\ stats'.records_in = k + 1
      /\ stats'.records_rejected = stats.records_rejected + (IF ~Passed(r) THEN 1 ELSE 0)
      /\ Same({"records_in", "records_rejected"})
  BY <1>1, StartRecordCounts DEF DiscardsRecord, Passed, current
<1>3. current' = k + 1 /\ record' = r
  BY <1>2 DEF current, record, StartRecord
<1>4. stats'.cells_null_skipped = stats.cells_null_skipped /\ stats'.rows_dropped = stats.rows_dropped
  BY <1>1, <1>2, Untouched
<1>5. /\ Counted(input, k, stats, 0, 0) /\ RowsUpTo(input, k, rows) /\ SessionsUpTo(input, k, sessions)
      /\ k + 1 \in DOMAIN input
  BY <1>1 DEF LoopInv
<1>6. /\ phase' = CASE ~Passed(r) -> "next"
                    [] RecordVerdict(r) = "raise" -> "raised"
                    [] OTHER -> "unpivot"
      /\ UNCHANGED <<input, rows, sessions>>
      /\ cell' = 1 /\ emitted' = <<>> /\ recordRows' = <<>>
  BY DEF StartRecord, DiscardsRecord, Passed
<1> HIDE DEF k
<1>7. CASE ~Passed(r)
  <2>1. Rejects(r) /\ NullsOf(r) = {} /\ DropsOf(r) = {} /\ ~Spared(r)
    BY <1>7 DEF Rejects, NullsOf, DropsOf, Spared
  <2>2. Cardinality(NullsOf(r)) = 0 /\ Cardinality(DropsOf(r)) = 0
    BY <2>1, FS_EmptySet
  <2>3. r = input[k + 1]
    BY DEF k
  <2>4. /\ stats'.records_rejected = stats.records_rejected + (IF Rejects(input[k + 1]) THEN 1 ELSE 0)
        /\ stats'.cells_null_skipped = stats.cells_null_skipped + 0
        /\ stats'.rows_dropped = stats.rows_dropped + 0
    <3>1. stats.cells_null_skipped \in Int /\ stats.rows_dropped \in Int
      BY <1>1 DEF TypeOK, Counters
    <3>2. QED  BY <1>2, <1>4, <1>7, <2>1, <2>3, <3>1
  <2>5. Counted(input, k + 1, stats', 0, 0)
    <3>1. 0 + 0 = Cardinality(NullsOf(input[k + 1])) /\ 0 + 0 = Cardinality(DropsOf(input[k + 1])) /\ 0 \in Nat
      BY <2>2, <2>3
    <3>2. QED  BY <1>1, <1>5, <2>4, <3>1, CountedNext
  <2>6. RowsUpTo(input, k + 1, rows) /\ SessionsUpTo(input, k + 1, sessions)
    BY <1>1, <1>5, <2>1, <2>3, NothingAdded
  <2>7. phase' = "next"
    BY <1>7 DEF StartRecord, DiscardsRecord, Passed
  <2>8. QED  BY <1>3, <1>6, <2>5, <2>6, <2>7 DEF LoopInv
<1>8. CASE phase' = "unpivot"
  <2>1. Passed(r)
    BY <1>6, <1>8
  <2>2. Counted(input, k, stats', Cardinality(NullIn(r, 1)), 0)
    <3>1. stats.records_rejected \in Int /\ stats'.records_rejected = stats.records_rejected
      BY <1>1, <1>2, <2>1 DEF TypeOK, Counters
    <3>2. QED  BY <1>4, <1>5, <3>1, NothingKept DEF Counted
  <2>3. Listed(<<>>, r, {c \in CellsOf(r) : c < 1 /\ CellHas(r, c)})
    <3>1. {c \in CellsOf(r) : c < 1 /\ CellHas(r, c)} = {}
      BY CellsType
    <3>2. QED  BY <3>1, ListedNone
  <2>4. Unpivoted(input, k, r, 1, <<>>, stats')
    BY <2>2, <2>3 DEF Unpivoted
  <2>5. current' - 1 = k
    BY <1>1, <1>3
  <2>6. QED  BY <1>3, <1>5, <1>6, <1>8, <2>1, <2>4, <2>5 DEF LoopInv
<1>9. CASE phase' = "raised"
  BY <1>9 DEF LoopInv
<1>10. QED  BY <1>6, <1>7, <1>8, <1>9

\* An unmapped record adds to no counter but its own.
LEMMA LoopUnmapped == ASSUME LoopInv, Unmapped, TypeOK'  PROVE LoopInv'
<1>1. PICK k, r : InHand(k, r) /\ Unpivoted(input, k, r, cell, emitted, stats)
  BY HandOf DEF Unmapped
<1>2. TypeOK /\ r.shape = "long" /\ Entries(r) = <<>> /\ k + 1 \in DOMAIN input /\ k \in Nat /\ r = input[k + 1]
  BY <1>1 DEF LoopInv, Unmapped, InHand
<1>3. CellsOf(r) = {}
  BY <1>2, LongEntries DEF CellsOf
<1>4. ~Spared(r) /\ ~Rejects(r) /\ NullsOf(r) = {} /\ DropsOf(r) = {} /\ NullIn(r, cell) = {}
  BY <1>1, <1>2, <1>3 DEF Spared, Rejects, NullsOf, DropsOf, InHand, NullIn
<1>5. /\ stats'.records_in = stats.records_in
      /\ stats'.records_rejected = stats.records_rejected
      /\ stats'.cells_null_skipped = stats.cells_null_skipped
      /\ stats'.rows_dropped = stats.rows_dropped
  BY <1>2, UnmappedCounts, Untouched
<1>6. /\ stats.records_rejected \in Int /\ stats.cells_null_skipped \in Int /\ stats.rows_dropped \in Int
  BY <1>2 DEF TypeOK, Counters
<1>7. Counted(input, k + 1, stats', 0, 0)
  <2>1. /\ Cardinality(NullIn(r, cell)) = 0 /\ Cardinality(NullsOf(r)) = 0
        /\ Cardinality(DropsOf(r)) = 0
    BY <1>4, FS_EmptySet
  <2>2. Counted(input, k, stats, 0, 0)
    BY <1>1, <2>1 DEF Unpivoted
  <2>3. /\ stats'.records_rejected = stats.records_rejected + (IF Rejects(input[k + 1]) THEN 1 ELSE 0)
        /\ stats'.cells_null_skipped = stats.cells_null_skipped + 0
        /\ stats'.rows_dropped = stats.rows_dropped + 0
        /\ 0 + 0 = Cardinality(NullsOf(input[k + 1])) /\ 0 + 0 = Cardinality(DropsOf(input[k + 1]))
        /\ 0 \in Nat
    BY <1>2, <1>4, <1>5, <1>6, <2>1
  <2>4. QED  BY <1>2, <2>2, <2>3, CountedNext
<1>8. phase' = "next" /\ current' = current /\ UNCHANGED <<input, rows, sessions>>
  BY <1>5 DEF Unmapped, current
<1>9. QED  BY <1>1, <1>4, <1>7, <1>8, Settles

\* A long record has one cell at most.
LEMMA LongCells ==
    ASSUME NEW r, r.shape = "long", NEW c \in CellsOf(r)
    PROVE  c = 1 /\ CellsOf(r) = {1}
<1>1. Len(Entries(r)) \in Nat /\ Len(Entries(r)) <= 1
  BY CellsType, LongEntries
<1>2. QED  BY <1>1 DEF CellsOf

\* The record in hand stays in hand.
LEMMA HandStays ==
    ASSUME NEW k, NEW r, InHand(k, r), UNCHANGED <<input, rows, sessions>>, stats'.records_in = stats.records_in
    PROVE  /\ current' = current /\ current' - 1 = k /\ record' = r /\ Passed(record')
           /\ RowsUpTo(input', current' - 1, rows') /\ SessionsUpTo(input', current' - 1, sessions')
<1>1. current' = current /\ input' = input
  BY DEF current
<1>2. record' = r
  BY <1>1 DEF InHand, record
<1>3. QED  BY <1>1, <1>2 DEF InHand

\* A null cell is counted and ends a long record; a value is listed.
LEMMA LoopUnpivotCell == ASSUME LoopInv, UnpivotCell, TypeOK'  PROVE LoopInv'
<1>1. PICK k, r : InHand(k, r) /\ Unpivoted(input, k, r, cell, emitted, stats)
  BY HandOf DEF UnpivotCell
<1>2. /\ TypeOK /\ k \in Nat /\ k + 1 \in DOMAIN input /\ r = input[k + 1] /\ Passed(r)
      /\ cell \in CellsOf(r) /\ cell \in Nat \ {0} /\ emitted \in Seq(Emission) /\ r = record
  BY <1>1, CellsType DEF LoopInv, UnpivotCell, InHand, TypeOK
<1> DEFINE raw == CellRaw(r, cell)
           value == CellValue(r, cell)
           d == IF raw = Null THEN 1 ELSE 0
<1>3. /\ phase' = CASE raw = Null /\ r.shape = "long" -> "next"
                    [] raw # Null /\ value = Junk -> "raised"
                    [] OTHER -> "unpivot"
      /\ emitted' = IF raw = Null \/ value \in {Null, Junk} THEN emitted
                    ELSE Append(emitted, CellEmission(r, cell))
      /\ cell' = cell + 1 /\ UNCHANGED <<input, rows, sessions>> /\ recordRows' = recordRows
  BY <1>2 DEF UnpivotCell, CellRaw, CellValue, CellEmission
<1>4. /\ stats'.records_in = stats.records_in
      /\ stats'.records_rejected = stats.records_rejected
      /\ stats'.cells_null_skipped = stats.cells_null_skipped + d
      /\ stats'.rows_dropped = stats.rows_dropped
  <2>1. Same({"cells_null_skipped"}) /\ stats'.cells_null_skipped = stats.cells_null_skipped + d
    BY <1>2, UnpivotCellCounts DEF CellRaw
  <2>2. QED  BY <1>2, <2>1, Untouched
<1>5. /\ stats.records_rejected \in Int /\ stats.cells_null_skipped \in Int /\ stats.rows_dropped \in Int
      /\ Counted(input, k, stats, Cardinality(NullIn(r, cell)), 0)
  BY <1>1, <1>2 DEF TypeOK, Counters, Unpivoted
<1>6. /\ Cardinality(NullIn(r, cell)) \in Nat
      /\ Cardinality(NullIn(r, cell + 1)) = Cardinality(NullIn(r, cell)) + d
      /\ {c \in CellsOf(r) : c < cell + 1 /\ CellHas(r, c)} =
            {c \in CellsOf(r) : c < cell /\ CellHas(r, c)}
            \cup (IF CellHas(r, cell) THEN {cell} ELSE {})
  BY <1>2, NextCell
<1>7. CASE raw = Null /\ r.shape = "long"
  <2>1. cell = 1 /\ CellsOf(r) = {1}
    BY <1>2, <1>7, LongCells
  <2>2. ~Spared(r) /\ ~Rejects(r) /\ NullsOf(r) = {1} /\ DropsOf(r) = {}
    BY <1>2, <1>7, <2>1 DEF Spared, Rejects, NullsOf, DropsOf, PoisonAt, CellHas
  <2>3. Cardinality(NullIn(r, cell)) = 0 /\ Cardinality(NullsOf(r)) = 1 /\ Cardinality(DropsOf(r)) = 0
    <3>1. Cardinality(NullIn(r, 1)) = 0
      BY NothingKept
    <3>2. Cardinality({1}) = 1 /\ Cardinality({}) = 0
      BY FS_Singleton, FS_EmptySet
    <3>3. QED  BY <2>1, <2>2, <3>1, <3>2
  <2>4. /\ stats'.records_rejected = stats.records_rejected + (IF Rejects(input[k + 1]) THEN 1 ELSE 0)
        /\ stats'.cells_null_skipped = stats.cells_null_skipped + 1
        /\ stats'.rows_dropped = stats.rows_dropped + 0
    BY <1>2, <1>4, <1>5, <1>7, <2>2
  <2>5. Counted(input, k, stats, 0, 0) /\ 0 + 1 = Cardinality(NullsOf(input[k + 1]))
        /\ 0 + 0 = Cardinality(DropsOf(input[k + 1])) /\ 0 \in Nat /\ 1 \in Nat
    BY <1>2, <1>5, <2>3
  <2>6. Counted(input, k + 1, stats', 0, 0)
    BY <1>2, <2>4, <2>5, CountedNext
  <2>7. phase' = "next" /\ current' = current
    BY <1>3, <1>4, <1>7 DEF current
  <2>8. QED  BY <1>1, <1>3, <2>2, <2>6, <2>7, Settles
<1>8. CASE ~(raw = Null /\ r.shape = "long") /\ ~(raw # Null /\ value = Junk)
  <2>1. phase' = "unpivot"
    BY <1>3, <1>8
  <2>2. r.shape = "long" => CellRaw(r, 1) # Null
    BY <1>2, <1>8, LongCells
  <2>3. Listed(emitted', r, {c \in CellsOf(r) : c < cell + 1 /\ CellHas(r, c)})
    <3> DEFINE S == {c \in CellsOf(r) : c < cell /\ CellHas(r, c)}
    <3>1. Listed(emitted, r, S) /\ \A s \in S : s < cell
      BY <1>1 DEF Unpivoted
    <3> HIDE DEF S
    <3>2. CASE CellHas(r, cell)
      <4>1. emitted' = Append(emitted, CellEmission(r, cell))
        BY <1>3, <1>8, <3>2 DEF CellHas
      <4>2. Listed(Append(emitted, CellEmission(r, cell)), r, S \cup {cell})
        BY <1>2, <3>1, ListedAppend
      <4>3. QED  BY <1>6, <3>2, <4>1, <4>2 DEF S
    <3>3. CASE ~CellHas(r, cell)
      <4>1. emitted' = emitted
        BY <1>3, <3>3 DEF CellHas
      <4>2. QED  BY <1>6, <3>1, <3>3, <4>1 DEF S
    <3>4. QED  BY <3>2, <3>3
  <2>4. Counted(input, k, stats', Cardinality(NullIn(r, cell + 1)), 0)
    <3>1. \A p : p \in Int /\ stats.cells_null_skipped = p + Cardinality(NullIn(r, cell))
                 => stats'.cells_null_skipped = p + Cardinality(NullIn(r, cell + 1))
      BY <1>4, <1>5, <1>6
    <3>2. Cardinality(PairsUpTo(Nulls(input), k)) \in Int
      <4>1. Nulls(input)[k + 1] = NullsOf(input[k + 1]) /\ NullsOf(input[k + 1]) \subseteq 1 .. Len(Columns) + 1
        BY <1>2, PairsType DEF Nulls, NullsOf
      <4>2. QED  BY <1>2, <4>1, PairsGrow
    <3>3. QED  BY <1>4, <1>5, <3>1, <3>2 DEF Counted
  <2>5. Unpivoted(input, k, r, cell', emitted', stats')
    BY <1>3, <2>2, <2>3, <2>4 DEF Unpivoted
  <2>6. /\ current' - 1 = k /\ record' = r /\ Passed(record') /\ input' = input
        /\ RowsUpTo(input', current' - 1, rows') /\ SessionsUpTo(input', current' - 1, sessions')
    BY <1>1, <1>3, <1>4, HandStays
  <2>7. recordRows' = <<>>
    BY <1>3 DEF LoopInv, UnpivotCell
  <2>8. QED  BY <2>1, <2>5, <2>6, <2>7 DEF LoopInv
<1>9. CASE raw # Null /\ value = Junk
  <2>1. phase' = "raised"
    BY <1>3, <1>9
  <2>2. QED  BY <2>1 DEF LoopInv
<1>10. QED  BY <1>7, <1>8, <1>9

\* All cells are read: their values are listed, and none is screened.
LEMMA LoopEndUnpivot == ASSUME LoopInv, EndUnpivot, TypeOK'  PROVE LoopInv'
<1>1. PICK k, r : InHand(k, r) /\ Unpivoted(input, k, r, cell, emitted, stats)
  BY HandOf DEF EndUnpivot
<1>2. /\ TypeOK /\ k \in Nat /\ r = record /\ cell > Len(Entries(r)) /\ cell \in Nat \ {0} /\ Passed(r)
      /\ r.shape = "long" => Entries(r) # <<>>
  BY <1>1 DEF LoopInv, EndUnpivot, InHand, TypeOK
<1>3. Len(Entries(r)) \in Nat /\ CellsOf(r) \subseteq Nat \ {0}
  BY CellsType
<1>4. \A c \in CellsOf(r) : c < cell /\ 0 < c
  BY <1>2, <1>3 DEF CellsOf
<1>5. r.shape = "long" => \E c \in CellsOf(r) : CellRaw(r, c) # Null
  <2> HAVE r.shape = "long"
  <2>1. Len(Entries(r)) >= 1
    BY <1>2, EntriesType
  <2>2. 1 \in CellsOf(r) /\ cell > 1
    BY <1>2, <1>3, <2>1 DEF CellsOf
  <2>3. QED  BY <1>1, <2>2 DEF Unpivoted
<1>6. /\ After(r, 0) = {c \in CellsOf(r) : c < cell /\ CellHas(r, c)}
      /\ NullIn(r, cell) = NullsOf(r)
  BY <1>2, <1>4 DEF NullIn, NullsOf, After
<1>7. recordRows = <<>> /\ AllFrom(recordRows, k + 1) /\ Len(recordRows) = 0
  BY DEF LoopInv, EndUnpivot, AllFrom
<1>8. Screened(input, k, r, emitted, recordRows, stats, 0)
  <2>1. Cardinality(KeptIn(r, 0)) = 0 /\ Cardinality(DropIn(r, 0)) = 0
    BY NothingKept
  <2>2. \A c \in CellsOf(r) : ~(c <= 0)
    BY <1>3
  <2>3. QED  BY <1>1, <1>5, <1>6, <1>7, <2>1, <2>2 DEF Screened, Unpivoted
<1>9. /\ phase' = "screen"
      /\ UNCHANGED <<input, flagged, cell, emitted, recordRows, rows, sessions, stats>>
  BY DEF EndUnpivot
<1>10. /\ current' - 1 = k /\ record' = r /\ Passed(record')
       /\ RowsUpTo(input', current' - 1, rows') /\ SessionsUpTo(input', current' - 1, sessions')
  BY <1>1, <1>9, HandStays
<1>11. \E n \in Nat : Screened(input', current' - 1, record', emitted', recordRows', stats', n)
  <2>1. 0 \in Nat /\ Screened(input', current' - 1, record', emitted', recordRows', stats', 0)
    BY <1>8, <1>9, <1>10
  <2>2. QED  BY <2>1
<1>12. QED  BY <1>9, <1>10, <1>11 DEF LoopInv

\* The next value to screen is that of a cell m of the record in hand.
NextIs(k, r, n, m) ==
    /\ InHand(k, r) /\ n \in Nat /\ m \in CellsOf(r) /\ m \in Nat /\ n < m
    /\ Screened(input, k, r, emitted, recordRows, stats, n)
    /\ CellHas(r, m) /\ Head(emitted) = CellEmission(r, m)
    /\ \A c \in CellsOf(r) : n < c /\ c < m => ~CellHas(r, c)
    /\ Listed(Tail(emitted), r, After(r, m))
    /\ Cardinality(KeptIn(r, m)) =
          Cardinality(KeptIn(r, n)) + (IF CellVerdict(r, m) = "drop_row" THEN 0 ELSE 1)
    /\ Cardinality(DropIn(r, m)) =
          Cardinality(DropIn(r, n)) + (IF CellVerdict(r, m) = "drop_row" THEN 1 ELSE 0)
    /\ CellVerdict(r, m) = QuantityVerdict(Head(emitted).entry.quantity, Head(emitted).value)
    /\ (CellVerdict(r, m) # "reject_row" => \A c \in CellsOf(r) : c <= m => ~PoisonAt(r, c))

\* There is such a cell while a value is left.
LEMMA NextToScreen ==
    ASSUME LoopInv, phase = "screen", emitted # <<>>
    PROVE  \E k, r, n, m : NextIs(k, r, n, m)
<1>1. PICK k, r : InHand(k, r) /\ \E n \in Nat : Screened(input, k, r, emitted, recordRows, stats, n)
  BY HandOf
<1>2. PICK n \in Nat : Screened(input, k, r, emitted, recordRows, stats, n)
  BY <1>1
<1>3. emitted \in Seq(Emission) /\ Listed(emitted, r, After(r, n))
  BY <1>2 DEF LoopInv, TypeOK, Screened
<1>4. PICK m \in CellsOf(r) :
         /\ n < m /\ CellHas(r, m) /\ Head(emitted) = CellEmission(r, m)
         /\ \A c \in CellsOf(r) : n < c /\ c < m => ~CellHas(r, c)
         /\ Listed(Tail(emitted), r, After(r, m))
         /\ Cardinality(KeptIn(r, m)) =
               Cardinality(KeptIn(r, n)) + (IF CellVerdict(r, m) = "drop_row" THEN 0 ELSE 1)
         /\ Cardinality(DropIn(r, m)) =
               Cardinality(DropIn(r, n)) + (IF CellVerdict(r, m) = "drop_row" THEN 1 ELSE 0)
  BY <1>2, <1>3, NextValue
<1>5. CellsOf(r) \subseteq Nat \ {0}
  BY CellsType
<1>6. CellVerdict(r, m) = QuantityVerdict(Head(emitted).entry.quantity, Head(emitted).value)
  BY <1>4 DEF CellEmission, CellVerdict
<1>7. ASSUME CellVerdict(r, m) # "reject_row", NEW c \in CellsOf(r), c <= m  PROVE ~PoisonAt(r, c)
  <2>1. c <= n \/ (n < c /\ c < m) \/ c = m
    BY <1>2, <1>5, <1>7
  <2>2. c <= n => ~PoisonAt(r, c)
    BY <1>2 DEF Screened
  <2>3. QED  BY <1>4, <1>7, <2>1, <2>2 DEF PoisonAt
<1>8. NextIs(k, r, n, m)
  BY <1>1, <1>2, <1>4, <1>5, <1>6, <1>7 DEF NextIs
<1>9. QED  BY <1>8

\* The record in hand goes on being screened.
LEMMA ScreensOn ==
    ASSUME LoopInv, phase = "screen", NEW k, NEW r, InHand(k, r), TypeOK', phase' = phase,
           UNCHANGED <<input, rows, sessions>>, stats'.records_in = stats.records_in,
           NEW n \in Nat, Screened(input, k, r, emitted', recordRows', stats', n)
    PROVE  LoopInv'
<1>1. /\ current' - 1 = k /\ record' = r /\ Passed(record') /\ input' = input /\ phase' = "screen"
      /\ RowsUpTo(input', current' - 1, rows') /\ SessionsUpTo(input', current' - 1, sessions')
  BY HandStays
<1>2. Screened(input', current' - 1, record', emitted', recordRows', stats', n)
  BY <1>1
<1>3. QED  BY <1>1, <1>2 DEF LoopInv

\* A value kept is one more row in the buffer.
LEMMA LoopKeepValue == ASSUME LoopInv, KeepValue, TypeOK'  PROVE LoopInv'
<1>1. TypeOK /\ phase = "screen" /\ emitted # <<>>
  BY DEF LoopInv, KeepValue
<1>2. PICK k, r, n, m : NextIs(k, r, n, m)
  BY <1>1, NextToScreen
<1>3. CellVerdict(r, m) \in {"ok", "flag_suspect"}
  BY <1>2 DEF KeepValue, NextIs
<1>4. PICK q \in {"ok", "suspect"} : Kept(q) \in Row /\ recordRows' = Append(recordRows, Kept(q))
  BY <1>1, KeepValueCounts
<1>5. recordRows \in Seq(Row) /\ AllFrom(recordRows, k + 1) /\ Kept(q).rec = k + 1
      /\ Len(recordRows) = Cardinality(KeptIn(r, n))
  BY <1>1, <1>2 DEF TypeOK, NextIs, Screened, InHand, Kept
<1>6. AllFrom(recordRows', k + 1) /\ Len(recordRows') = Len(recordRows) + 1
  BY <1>4, <1>5 DEF AllFrom
<1>7. Len(recordRows') = Cardinality(KeptIn(r, m)) /\ Cardinality(DropIn(r, m)) = Cardinality(DropIn(r, n))
  <2>1. Cardinality(DropIn(r, n)) \in Nat
    BY CellsCount DEF DropIn
  <2>2. QED  BY <1>2, <1>3, <1>5, <1>6, <2>1 DEF NextIs
<1>8. /\ stats'.records_in = stats.records_in
      /\ stats'.records_rejected = stats.records_rejected
      /\ stats'.cells_null_skipped = stats.cells_null_skipped
      /\ stats'.rows_dropped = stats.rows_dropped
  BY <1>1, KeepValueCounts, Untouched
<1>9. Counted(input, k, stats', Cardinality(NullsOf(r)), Cardinality(DropIn(r, m)))
  BY <1>2, <1>7, <1>8 DEF NextIs, Screened, Counted
<1>10. emitted' = Tail(emitted) /\ phase' = phase /\ UNCHANGED <<input, rows, sessions>>
  BY DEF KeepValue
<1>11. Screened(input, k, r, emitted', recordRows', stats', m)
  BY <1>2, <1>3, <1>6, <1>7, <1>9, <1>10 DEF NextIs, Screened
<1>12. QED  BY <1>1, <1>2, <1>8, <1>10, <1>11, ScreensOn DEF NextIs

\* A value dropped is one more in its counter.
LEMMA LoopDropValue == ASSUME LoopInv, DropValue, TypeOK'  PROVE LoopInv'
<1>1. TypeOK /\ phase = "screen" /\ emitted # <<>>
  BY DEF LoopInv, DropValue
<1>2. PICK k, r, n, m : NextIs(k, r, n, m)
  BY <1>1, NextToScreen
<1>3. CellVerdict(r, m) = "drop_row"
  BY <1>2 DEF DropValue, NextIs
<1>4. /\ emitted' = Tail(emitted) /\ phase' = phase /\ UNCHANGED <<input, rows, sessions>>
      /\ recordRows' = recordRows
  BY DEF DropValue
<1>5. /\ stats'.records_in = stats.records_in
      /\ stats'.records_rejected = stats.records_rejected
      /\ stats'.cells_null_skipped = stats.cells_null_skipped
      /\ stats'.rows_dropped = stats.rows_dropped + 1
  BY <1>1, DropValueCounts, Untouched
<1>6. /\ Cardinality(DropIn(r, n)) \in Nat /\ Cardinality(KeptIn(r, n)) \in Nat
      /\ Cardinality(PairsUpTo(Drops(input), k)) \in Int
  <2>1. Cardinality(DropIn(r, n)) \in Nat /\ Cardinality(KeptIn(r, n)) \in Nat
    BY CellsCount DEF DropIn, KeptIn
  <2>2. k \in Nat /\ k + 1 \in DOMAIN input
    BY <1>2 DEF NextIs, InHand
  <2>3. Drops(input)[k + 1] = DropsOf(input[k + 1]) /\ DropsOf(input[k + 1]) \subseteq 1 .. Len(Columns) + 1
    BY <2>2, PairsType DEF Drops, DropsOf
  <2>4. QED  BY <2>1, <2>2, <2>3, PairsGrow
<1>7. Counted(input, k, stats', Cardinality(NullsOf(r)), Cardinality(DropIn(r, m)))
  <2>1. Cardinality(DropIn(r, m)) = Cardinality(DropIn(r, n)) + 1
    BY <1>2, <1>3 DEF NextIs
  <2>2. Counted(input, k, stats, Cardinality(NullsOf(r)), Cardinality(DropIn(r, n)))
    BY <1>2 DEF NextIs, Screened
  <2>3. QED  BY <1>5, <1>6, <2>1, <2>2 DEF Counted
<1>8. Cardinality(KeptIn(r, m)) = Cardinality(KeptIn(r, n))
  BY <1>2, <1>3, <1>6 DEF NextIs
<1>9. Screened(input, k, r, emitted', recordRows', stats', m)
  BY <1>2, <1>3, <1>4, <1>7, <1>8 DEF NextIs, Screened
<1>10. QED  BY <1>1, <1>2, <1>4, <1>5, <1>9, ScreensOn DEF NextIs

\* A poisoned value settles its record as rejected.
LEMMA LoopRejectRecord == ASSUME LoopInv, RejectRecord, TypeOK'  PROVE LoopInv'
<1>1. TypeOK /\ phase = "screen" /\ emitted # <<>>
  BY DEF LoopInv, RejectRecord
<1>2. PICK k, r, n, m : NextIs(k, r, n, m)
  BY <1>1, NextToScreen
<1>3. InHand(k, r) /\ Passed(r) /\ k \in Nat /\ k + 1 \in DOMAIN input /\ r = input[k + 1]
  BY <1>2 DEF NextIs, InHand
<1>4. PoisonAt(r, m)
  BY <1>2 DEF NextIs, RejectRecord, PoisonsRecord, PoisonAt
<1>5. Rejects(r) /\ DropsOf(r) = DropIn(r, n) /\ ~Spared(r)
  <2>1. \A c \in CellsOf(r) : c <= n => ~PoisonAt(r, c)
    BY <1>2 DEF NextIs, Screened
  <2>2. /\ n \in Nat /\ m \in CellsOf(r) /\ n < m
        /\ \A c \in CellsOf(r) : n < c /\ c < m => ~CellHas(r, c)
    BY <1>2 DEF NextIs
  <2>3. Rejects(r) /\ DropsOf(r) = DropIn(r, n)
    BY <1>3, <1>4, <2>1, <2>2, PoisonedDrops
  <2>4. QED  BY <2>3 DEF Spared
<1>6. /\ stats'.records_in = stats.records_in
      /\ stats'.records_rejected = stats.records_rejected + 1
      /\ stats'.cells_null_skipped = stats.cells_null_skipped
      /\ stats'.rows_dropped = stats.rows_dropped
  BY <1>1, RejectRecordCounts, Untouched
<1>7. /\ stats.cells_null_skipped \in Int /\ stats.rows_dropped \in Int
      /\ Cardinality(NullsOf(r)) \in Nat /\ Cardinality(DropsOf(r)) \in Nat
  <2>1. NullsOf(r) \in SUBSET CellsOf(r) /\ DropsOf(r) \in SUBSET CellsOf(r)
    BY DEF NullsOf, DropsOf
  <2>2. QED  BY <1>1, <2>1, CellsCount DEF TypeOK, Counters
<1>8. Counted(input, k + 1, stats', 0, 0)
  <2>1. Counted(input, k, stats, Cardinality(NullsOf(r)), Cardinality(DropsOf(r)))
    BY <1>2, <1>5 DEF NextIs, Screened
  <2>2. /\ stats'.records_rejected = stats.records_rejected + (IF Rejects(input[k + 1]) THEN 1 ELSE 0)
        /\ stats'.cells_null_skipped = stats.cells_null_skipped + 0
        /\ stats'.rows_dropped = stats.rows_dropped + 0
        /\ Cardinality(NullsOf(r)) + 0 = Cardinality(NullsOf(input[k + 1]))
        /\ Cardinality(DropsOf(r)) + 0 = Cardinality(DropsOf(input[k + 1]))
        /\ 0 \in Nat
    BY <1>3, <1>5, <1>6, <1>7
  <2>3. QED  BY <1>3, <1>7, <2>1, <2>2, CountedNext
<1>9. phase' = "next" /\ current' = current /\ UNCHANGED <<input, rows, sessions>>
  BY <1>6 DEF RejectRecord, current
<1>10. QED  BY <1>3, <1>5, <1>8, <1>9, Settles

\* A record with no value left joins the result.
LEMMA LoopCommitRecord == ASSUME LoopInv, CommitRecord, TypeOK'  PROVE LoopInv'
<1>1. TypeOK /\ phase = "screen" /\ emitted = <<>>
  BY DEF LoopInv, CommitRecord
<1>2. PICK k, r : InHand(k, r) /\ \E n \in Nat : Screened(input, k, r, emitted, recordRows, stats, n)
  BY <1>1, HandOf
<1>3. PICK n \in Nat : Screened(input, k, r, emitted, recordRows, stats, n)
  BY <1>2
<1>4. /\ k \in Nat /\ k + 1 \in DOMAIN input /\ k + 1 = current /\ r = input[k + 1] /\ r = record /\ Passed(r)
      /\ input \in Seq(Record) /\ rows \in Seq(Row) /\ recordRows \in Seq(Row)
      /\ RowsUpTo(input, k, rows) /\ SessionsUpTo(input, k, sessions)
  BY <1>1, <1>2, InputType DEF InHand, TypeOK
<1>5. /\ Spared(r) /\ ~Rejects(r)
      /\ DropsOf(r) = DropIn(r, n) /\ KeptIn(r, Len(Entries(r))) = KeptIn(r, n)
  <2>1. After(r, n) = {}
    BY <1>1, <1>3, ListedNone DEF Screened
  <2>2. /\ r.shape = "long" => \E c \in CellsOf(r) : CellRaw(r, c) # Null
        /\ \A c \in CellsOf(r) : c <= n => ~PoisonAt(r, c)
    BY <1>3 DEF Screened
  <2>3. QED  BY <1>4, <2>1, <2>2, AllScreened
<1>6. CASE OpensSession /\ ~record.coerces
  <2>1. phase' = "raised"
    BY <1>6 DEF CommitRecord
  <2>2. QED  BY <2>1 DEF LoopInv
<1>7. CASE ~(OpensSession /\ ~record.coerces)
  <2>1. /\ phase' = "next" /\ rows' = rows \o recordRows /\ input' = input /\ stats' = stats
        /\ current' = k + 1
    BY <1>4, <1>7 DEF CommitRecord, current
  <2>2. RowsUpTo(input, k + 1, rows')
    <3>1. AllFrom(recordRows, k + 1) /\ Len(recordRows) = Cardinality(KeptIn(r, Len(Entries(r))))
      BY <1>3, <1>5 DEF Screened
    <3>2. QED  BY <1>4, <1>5, <2>1, <3>1, RowsAdded
  <2>3. SessionsUpTo(input, k + 1, sessions')
    <3>1. LET s == input[k + 1].session
          IN  IF s # NoSession /\ s \notin DOMAIN sessions
              THEN sessions' = [t \in DOMAIN sessions \cup {s} |-> IF t = s THEN k + 1 ELSE sessions[t]]
              ELSE sessions' = sessions
      BY <1>4, <1>7 DEF CommitRecord, OpensSession
    <3>2. Spared(input[k + 1])
      BY <1>4, <1>5
    <3>3. QED  BY <1>4, <3>1, <3>2, SessionsAdded
  <2>4. Counted(input, k + 1, stats', 0, 0)
    <3>1. /\ stats.records_rejected \in Int /\ stats.cells_null_skipped \in Int /\ stats.rows_dropped \in Int
          /\ Cardinality(NullsOf(r)) \in Nat /\ Cardinality(DropsOf(r)) \in Nat
      <4>1. NullsOf(r) \in SUBSET CellsOf(r) /\ DropsOf(r) \in SUBSET CellsOf(r)
        BY DEF NullsOf, DropsOf
      <4>2. QED  BY <1>1, <4>1, CellsCount DEF TypeOK, Counters
    <3>2. Counted(input, k, stats, Cardinality(NullsOf(r)), Cardinality(DropsOf(r)))
      BY <1>3, <1>5 DEF Screened
    <3>3. /\ stats'.records_rejected = stats.records_rejected + (IF Rejects(input[k + 1]) THEN 1 ELSE 0)
          /\ stats'.cells_null_skipped = stats.cells_null_skipped + 0
          /\ stats'.rows_dropped = stats.rows_dropped + 0
          /\ Cardinality(NullsOf(r)) + 0 = Cardinality(NullsOf(input[k + 1]))
          /\ Cardinality(DropsOf(r)) + 0 = Cardinality(DropsOf(input[k + 1]))
          /\ 0 \in Nat
      BY <1>4, <1>5, <2>1, <3>1
    <3>4. QED  BY <1>4, <3>1, <3>2, <3>3, CountedNext
  <2>5. QED  BY <2>1, <2>2, <2>3, <2>4 DEF LoopInv
<1>8. QED  BY <1>6, <1>7

\* Every step of the loop preserves its invariant.
LEMMA LoopNext == LoopInv /\ [Next]_vars => LoopInv'
<1> SUFFICES ASSUME LoopInv, [Next]_vars  PROVE LoopInv'
  OBVIOUS
<1>1. TypeOK'
  BY NextType DEF LoopInv
<1>2. CASE StartRecord       BY <1>1, <1>2, LoopStart
<1>3. CASE BadRecord
  <2>1. phase' = "raised"
    BY <1>3 DEF BadRecord
  <2>2. QED  BY <1>1, <2>1 DEF LoopInv
<1>4. CASE Unmapped          BY <1>1, <1>4, LoopUnmapped
<1>5. CASE UnpivotCell       BY <1>1, <1>5, LoopUnpivotCell
<1>6. CASE EndUnpivot        BY <1>1, <1>6, LoopEndUnpivot
<1>7. CASE KeepValue         BY <1>1, <1>7, LoopKeepValue
<1>8. CASE DropValue         BY <1>1, <1>8, LoopDropValue
<1>9. CASE RejectRecord      BY <1>1, <1>9, LoopRejectRecord
<1>10. CASE CommitRecord     BY <1>1, <1>10, LoopCommitRecord
<1>11. CASE Finish
  <2>1. /\ phase = "next" /\ phase' = "done" /\ UNCHANGED <<input, rows, sessions>>
        /\ TypeOK /\ Same({"rows_emitted"})
    BY <1>11, FinishCounts DEF Finish, LoopInv
  <2>2. /\ current' = current /\ stats'.records_rejected = stats.records_rejected
        /\ stats'.cells_null_skipped = stats.cells_null_skipped
        /\ stats'.rows_dropped = stats.rows_dropped
    BY <2>1, Untouched DEF current
  <2>3. Counted(input', current', stats', 0, 0)
    BY <2>1, <2>2 DEF LoopInv, Counted
  <2>4. RowsUpTo(input', current', rows') /\ SessionsUpTo(input', current', sessions')
    BY <2>1, <2>2 DEF LoopInv
  <2>5. QED  BY <1>1, <2>1, <2>3, <2>4 DEF LoopInv
<1>12. CASE UNCHANGED vars
  BY <1>1, <1>12 DEF LoopInv, vars, current, record
<1>13. QED  BY <1>2, <1>3, <1>4, <1>5, <1>6, <1>7, <1>8, <1>9, <1>10, <1>11, <1>12 DEF Next

\* The invariant of the loop holds in every state.
THEOREM LoopInvariant == Spec => []LoopInv
<1>1. Init => LoopInv
  BY LoopInit
<1>2. LoopInv /\ [Next]_vars => LoopInv'
  BY LoopNext
<1>3. QED  BY <1>1, <1>2, PTL DEF Spec

\* What it says in the vocabulary of the properties
LEMMA InTheirWords ==
    ASSUME NEW i
    PROVE  /\ Cells(i) = CellsOf(input[i])
           /\ Examined(i) <=> Passed(input[i])
           /\ Survives(i) <=> Spared(input[i])
           /\ (~Examined(i) \/ \E c \in Cells(i) : Poison(i, c)) <=> Rejects(input[i])
           /\ \A c : /\ Raw(i, c) = CellRaw(input[i], c)
                     /\ HasValue(i, c) <=> CellHas(input[i], c)
                     /\ VerdictOn(i, c) = CellVerdict(input[i], c)
                     /\ Poison(i, c) <=> PoisonAt(input[i], c)
<1>1. Cells(i) = CellsOf(input[i])
  BY CellsType DEF Cells
<1>2. ASSUME NEW c
      PROVE  /\ Raw(i, c) = CellRaw(input[i], c)
             /\ HasValue(i, c) <=> CellHas(input[i], c)
             /\ VerdictOn(i, c) = CellVerdict(input[i], c)
             /\ Poison(i, c) <=> PoisonAt(input[i], c)
  BY DEF Raw, Value, HasValue, VerdictOn, Poison, CellRaw, CellValue, CellHas, CellVerdict, PoisonAt
<1>3. Examined(i) <=> Passed(input[i])
  BY DEF Examined, Passed
<1>4. (~Examined(i) \/ \E c \in Cells(i) : Poison(i, c)) <=> Rejects(input[i])
  BY <1>1, <1>2, <1>3 DEF Rejects
<1>5. Survives(i) <=> Spared(input[i])
  BY <1>1, <1>2, <1>3, <1>4 DEF Survives, Spared
<1>6. QED  BY <1>1, <1>2, <1>3, <1>4, <1>5

\* The records dealt with are the first n.
LEMMA SettledUpTo ==
    ASSUME LoopInv, phase # "raised"
    PROVE  \E n \in Nat : /\ n <= Len(input) /\ Settled = 1 .. n
                          /\ RowsUpTo(input, n, rows) /\ SessionsUpTo(input, n, sessions)
                          /\ phase \in {"next", "done"} => Counted(input, n, stats, 0, 0)
<1>1. /\ TypeOK /\ input \in Seq(Record) /\ current \in Nat /\ current <= Len(input) /\ Len(input) \in Nat
  BY InputType DEF LoopInv, TypeOK
<1>2. CASE phase \in {"next", "done"}
  BY <1>1, <1>2 DEF LoopInv, Settled
<1>3. CASE phase \in {"unpivot", "screen"}
  <2>1. current \in 1 .. Len(input)
    BY <1>1, <1>3 DEF TypeOK
  <2>2. current - 1 \in Nat /\ current - 1 <= Len(input) /\ Settled = 1 .. current - 1
    BY <1>1, <1>3, <2>1 DEF Settled
  <2>3. QED  BY <1>3, <2>2 DEF LoopInv
<1>4. QED  BY <1>1, <1>2, <1>3 DEF TypeOK

\* The invariant gives the three properties.
LEMMA LoopGivesRows == LoopInv => AllOrNothing
<1> SUFFICES ASSUME LoopInv, phase # "raised", NEW i \in 1 .. Len(input)
             PROVE  Cardinality({k \in DOMAIN rows : rows[k].rec = i}) =
                       IF i \in Settled /\ Survives(i)
                       THEN Cardinality({c \in Cells(i) : HasValue(i, c) /\ VerdictOn(i, c) # "drop_row"})
                       ELSE 0
  BY DEF AllOrNothing
<1>1. PICK n \in Nat : Settled = 1 .. n /\ RowsUpTo(input, n, rows)
  BY SettledUpTo
<1>2. i \in Settled <=> i <= n
  BY <1>1
<1>3. {k \in DOMAIN rows : rows[k].rec = i} = RowsFrom(rows, i)
  BY DEF RowsFrom
<1>4. {c \in Cells(i) : HasValue(i, c) /\ VerdictOn(i, c) # "drop_row"}
         = KeptIn(input[i], Len(Entries(input[i])))
  BY InTheirWords, CellsType DEF KeptIn, CellsOf
<1>5. Cardinality(RowsFrom(rows, i)) =
         IF i <= n /\ Spared(input[i]) THEN Cardinality(KeptIn(input[i], Len(Entries(input[i])))) ELSE 0
  BY <1>1 DEF RowsUpTo
<1>6. Survives(i) <=> Spared(input[i])
  BY InTheirWords
<1>7. QED  BY <1>2, <1>3, <1>4, <1>5, <1>6

LEMMA LoopGivesSessions == LoopInv => SessionsOfFirstSurvivor
<1> SUFFICES ASSUME LoopInv, phase # "raised"  PROVE SessionsOfFirstSurvivor
  BY DEF SessionsOfFirstSurvivor
<1>1. PICK n \in Nat : Settled = 1 .. n /\ SessionsUpTo(input, n, sessions)
  BY SettledUpTo
<1>2. \A i : Survives(i) <=> Spared(input[i])
  BY InTheirWords
<1>3. {j \in Settled : Survives(j)} = {j \in 1 .. n : Spared(input[j])}
  BY <1>1, <1>2
<1>4. QED  BY <1>1, <1>2, <1>3 DEF SessionsUpTo, SessionsOfFirstSurvivor

LEMMA LoopGivesCounters == LoopInv => CountersExact
<1> SUFFICES ASSUME LoopInv, phase \in {"next", "done"}  PROVE CountersExact
  BY DEF CountersExact
<1>1. PICK n \in Nat : n <= Len(input) /\ Settled = 1 .. n /\ Counted(input, n, stats, 0, 0)
  BY SettledUpTo
<1> DEFINE pairs == Settled \X (1 .. Len(Columns) + 1)
           cells == {ic \in pairs : Examined(ic[1]) /\ ic[2] \in Cells(ic[1])}
           nulls == {ic \in cells : Raw(ic[1], ic[2]) = Null}
           drops == {ic \in cells :
                        /\ HasValue(ic[1], ic[2])
                        /\ VerdictOn(ic[1], ic[2]) = "drop_row"
                        /\ \A c \in 1 .. ic[2] : ~Poison(ic[1], c)}
           rejected == {i \in Settled : ~Examined(i) \/ \E c \in Cells(i) : Poison(i, c)}
<1>2. rejected = RejectedUpTo(input, n)
  <2>1. \A i : (~Examined(i) \/ \E c \in Cells(i) : Poison(i, c)) <=> Rejects(input[i])
    BY InTheirWords
  <2>2. QED  BY <1>1, <2>1 DEF RejectedUpTo
<1>3. \A i \in 1 .. n : i \in DOMAIN input
  BY <1>1, InputType DEF LoopInv
<1>4. nulls = PairsUpTo(Nulls(input), n)
  <2>1. \A ic \in pairs : ic \in nulls <=> ic[2] \in Nulls(input)[ic[1]]
    <3> SUFFICES ASSUME NEW ic \in pairs  PROVE ic \in nulls <=> ic[2] \in Nulls(input)[ic[1]]
      OBVIOUS
    <3>1. ic[1] \in 1 .. n /\ Nulls(input)[ic[1]] = NullsOf(input[ic[1]])
      BY <1>1, <1>3 DEF Nulls
    <3>2. QED  BY <3>1, InTheirWords DEF NullsOf
  <2>2. nulls \subseteq pairs
    OBVIOUS
  <2>3. QED  BY <1>1, <2>1, <2>2 DEF PairsUpTo
<1>5. drops = PairsUpTo(Drops(input), n)
  <2>1. \A ic \in pairs : ic \in drops <=> ic[2] \in Drops(input)[ic[1]]
    <3> SUFFICES ASSUME NEW ic \in pairs  PROVE ic \in drops <=> ic[2] \in Drops(input)[ic[1]]
      OBVIOUS
    <3>1. ic[1] \in 1 .. n /\ Drops(input)[ic[1]] = DropsOf(input[ic[1]])
      BY <1>1, <1>3 DEF Drops
    <3>2. QED  BY <3>1, InTheirWords DEF DropsOf
  <2>2. drops \subseteq pairs
    OBVIOUS
  <2>3. QED  BY <1>1, <2>1, <2>2 DEF PairsUpTo
<1>6. /\ Cardinality(PairsUpTo(Nulls(input), n)) + 0 = Cardinality(PairsUpTo(Nulls(input), n))
      /\ Cardinality(PairsUpTo(Drops(input), n)) + 0 = Cardinality(PairsUpTo(Drops(input), n))
  <2>1. ASSUME NEW f, f \in [DOMAIN input -> SUBSET (1 .. Len(Columns) + 1)]
        PROVE  Cardinality(PairsUpTo(f, n)) \in Int
    <3>1. PairsUpTo(f, n) \in SUBSET ((1 .. n) \X (1 .. Len(Columns) + 1))
      BY DEF PairsUpTo
    <3>2. IsFiniteSet(1 .. n) /\ IsFiniteSet(1 .. Len(Columns) + 1)
      <4>1. PICK m : m = Len(Columns) + 1 /\ m \in Nat
        BY MappingAssumption
      <4>2. IsFiniteSet(1 .. n)
        BY FS_Interval
      <4>3. IsFiniteSet(1 .. m)
        BY <4>1, FS_Interval
      <4>4. QED  BY <4>1, <4>2, <4>3
    <3>3. IsFiniteSet(PairsUpTo(f, n))
      BY <3>1, <3>2, FS_Product, FS_Subset
    <3>4. QED  BY <3>3, FS_CardinalityType
  <2>2. Nulls(input) \in [DOMAIN input -> SUBSET (1 .. Len(Columns) + 1)]
    BY PairsType DEF Nulls, NullsOf
  <2>3. Drops(input) \in [DOMAIN input -> SUBSET (1 .. Len(Columns) + 1)]
    BY PairsType DEF Drops, DropsOf
  <2>4. QED  BY <2>1, <2>2, <2>3
<1>7. /\ stats.records_rejected = Cardinality(rejected)
      /\ stats.cells_null_skipped = Cardinality(nulls)
      /\ stats.rows_dropped = Cardinality(drops)
  BY <1>1, <1>2, <1>4, <1>5, <1>6 DEF Counted
<1>8. QED  BY <1>7 DEF CountersExact

\* A record's rows are in the result all together or not at all: what CommitRecord
\* appends is all that the record kept, and nothing else appends (transform_records'
\* buffer record_rows).
THEOREM RowsTogether == Spec => []AllOrNothing
<1>1. LoopInv => AllOrNothing
  BY LoopGivesRows
<1>2. QED  BY <1>1, LoopInvariant, PTL

\* The sessions are those of the surviving records, each filled by the first of them.
THEOREM SessionsFromSurvivors == Spec => []SessionsOfFirstSurvivor
<1>1. LoopInv => SessionsOfFirstSurvivor
  BY LoopGivesSessions
<1>2. QED  BY <1>1, LoopInvariant, PTL

\* Between records, the counters of rejected records, null cells and dropped values are
\* those that the rules and the mapping say of the records dealt with.
THEOREM CountersTrue == Spec => []CountersExact
<1>1. LoopInv => CountersExact
  BY LoopGivesCounters
<1>2. QED  BY <1>1, LoopInvariant, PTL

(***************************************************************************)
(* The reference interpreter (ReferenceInterpreter)                        *)
(***************************************************************************)

\* A set of numbers has a smallest one ...
LEMMA Smallest ==
    ASSUME NEW S, S \subseteq Nat, S # {}
    PROVE  \E n \in S : \A m \in S : n <= m
<1> DEFINE R == OpToRel(<, Nat)
<1>1. IsWellFoundedOn(R, Nat)
  BY NatLessThanWellFounded
<1>2. \A x, y \in Nat : <<x, y>> \in R <=> x < y
  BY DEF OpToRel
<1> HIDE DEF R
<1>3. PICK x \in S : \A y \in S : ~(<<y, x>> \in R)
  BY <1>1, WFMin
<1>4. ASSUME NEW y \in S  PROVE x <= y
  <2>1. x \in Nat /\ y \in Nat
    OBVIOUS
  <2>2. ~(y < x)
    BY <1>2, <1>3, <2>1, Zenon
  <2>3. QED  BY <2>1, <2>2
<1>5. QED  BY <1>4

\* ... so what holds of 0 and of each next number holds up to N.
LEMMA Upwards ==
    ASSUME NEW N \in Nat, NEW S, 0 \in S, \A n \in 1 .. N : n - 1 \in S => n \in S
    PROVE  \A n \in 0 .. N : n \in S
<1> DEFINE bad == (0 .. N) \ S
<1> SUFFICES ASSUME bad # {}  PROVE FALSE
  OBVIOUS
<1>0. bad \subseteq Nat
  OBVIOUS
<1>1. PICK n \in bad : \A m \in bad : n <= m
  <2> HIDE DEF bad
  <2>1. QED  BY <1>0, Smallest
<1>2. n - 1 \in 0 .. N /\ n \in 1 .. N /\ ~(n <= n - 1)
  OBVIOUS
<1>3. n - 1 \in S
  BY <1>1, <1>2
<1>4. QED  BY <1>2, <1>3

\* A step in V for each number, and where it begins, make a function.
LEMMA Recursion ==
    ASSUME NEW V, NEW base \in V, NEW N \in Nat, NEW step \in [1 .. N -> [V -> V]]
    PROVE  \E f \in [0 .. N -> V] : f[0] = base /\ \A n \in 1 .. N : f[n] = step[n][f[n - 1]]
<1> DEFINE Reaches(n) == \E f \in [0 .. n -> V] :
                            f[0] = base /\ \A m \in 1 .. n : f[m] = step[m][f[m - 1]]
           S == {n \in 0 .. N : Reaches(n)}
<1>1. Reaches(0)
  <2> DEFINE f == [m \in 0 .. 0 |-> base]
  <2>1. f \in [0 .. 0 -> V] /\ f[0] = base
    OBVIOUS
  <2>2. \A m \in 1 .. 0 : f[m] = step[m][f[m - 1]]
    OBVIOUS
  <2> HIDE DEF f
  <2>3. QED  BY <2>1, <2>2
<1>2. ASSUME NEW n \in 1 .. N, Reaches(n - 1)  PROVE Reaches(n)
  <2>1. PICK f \in [0 .. n - 1 -> V] :
               f[0] = base /\ \A m \in 1 .. n - 1 : f[m] = step[m][f[m - 1]]
    BY <1>2
  <2>2. f[n - 1] \in V /\ step[n] \in [V -> V] /\ step[n][f[n - 1]] \in V
    BY <2>1
  <2> DEFINE g == [m \in 0 .. n |-> IF m = n THEN step[n][f[n - 1]] ELSE f[m]]
  <2>3. g \in [0 .. n -> V]
    BY <2>1, <2>2
  <2>4. g[0] = base /\ g[n] = step[n][f[n - 1]] /\ \A m \in 0 .. n - 1 : g[m] = f[m]
    BY <2>1
  <2> HIDE DEF g
  <2>5. \A m \in 1 .. n : g[m] = step[m][g[m - 1]]
    BY <2>1, <2>4
  <2>6. QED  BY <2>3, <2>4, <2>5
<1>3. 0 \in S /\ \A n \in 1 .. N : n - 1 \in S => n \in S
  <2> HIDE DEF Reaches
  <2>1. QED  BY <1>1, <1>2
<1>4. \A n \in 0 .. N : n \in S
  <2> HIDE DEF S
  <2>1. QED  BY <1>3, Upwards
<1>5. QED  BY <1>4

\* A function made by such a recursion takes these steps and stays in V.  (That the
\* recursion has a function at all is Recursion; the definition names one by CHOOSE.)
LEMMA Unfolded ==
    ASSUME NEW V, NEW base \in V, NEW N \in Nat, NEW step \in [1 .. N -> [V -> V]],
           NEW f, f[0] = base,
           \A n \in 1 .. N : f[n - 1] \in V => f[n] = step[n][f[n - 1]]
    PROVE  /\ \A n \in 0 .. N : f[n] \in V
           /\ \A n \in 1 .. N : f[n] = step[n][f[n - 1]]
<1> DEFINE S == {n \in 0 .. N : f[n] \in V}
<1>1. 0 \in S /\ \A n \in 1 .. N : n - 1 \in S => n \in S
  OBVIOUS
<1>2. \A n \in 0 .. N : n \in S
  <2> HIDE DEF S
  <2>1. QED  BY <1>1, Upwards
<1>3. QED  BY <1>2

(***************************************************************************)
(* The scan of rules                                                       *)
(***************************************************************************)

Marks == {"ok", "suspect", "drop_row", "reject_row", "raise"}

\* The marks a scan goes through
LEMMA JudgeType ==
    ASSUME NEW mark \in Marks, NEW rule \in Rule, NEW v
    PROVE  Judge(mark, rule, v) \in Marks
<1>1. rule.type \in {"not_null", "range"} /\ rule.onFail \in OnFail
  BY DEF Rule
<1>2. QED  BY <1>1 DEF Judge, Marks, OnFail, Ended

\* A scan is unfolded rule by rule.
LEMMA ScanningSteps ==
    ASSUME NEW rules \in Seq(Rule), NEW values, NEW mark \in Marks
    PROVE  LET after == Scanning(rules, values, mark)
           IN  /\ after[0] = mark
               /\ \A n \in 0 .. Len(rules) : after[n] \in Marks
               /\ \A n \in 1 .. Len(rules) : after[n] = Judge(after[n - 1], rules[n], values[n])
<1> DEFINE after[n \in 0 .. Len(rules)] ==
              IF n = 0 THEN mark ELSE Judge(after[n - 1], rules[n], values[n])
           step == [n \in 1 .. Len(rules) |->
                       [m \in Marks |-> Judge(m, rules[n], values[n])]]
           N == Len(rules)
<1>1. N \in Nat
  OBVIOUS
<1>2. step \in [1 .. N -> [Marks -> Marks]]
  <2>1. \A n \in 1 .. N : rules[n] \in Rule
    OBVIOUS
  <2>2. QED  BY <2>1, JudgeType
<1>3. PICK f \in [0 .. N -> Marks] :
             f[0] = mark /\ \A n \in 1 .. N : f[n] = step[n][f[n - 1]]
  <2> HIDE DEF step, N
  <2>1. QED  BY <1>1, <1>2, Recursion
<1>4. \A n \in 1 .. N : f[n] = Judge(f[n - 1], rules[n], values[n])
  <2> SUFFICES ASSUME NEW n \in 1 .. N  PROVE f[n] = Judge(f[n - 1], rules[n], values[n])
    OBVIOUS
  <2>1. f[n - 1] \in Marks
    BY <1>1
  <2>2. QED  BY <1>3, <2>1
<1>5. f = [n \in 0 .. Len(rules) |->
              IF n = 0 THEN mark ELSE Judge(f[n - 1], rules[n], values[n])]
  <2>1. \A n \in 0 .. N : f[n] = IF n = 0 THEN mark ELSE Judge(f[n - 1], rules[n], values[n])
    <3> HIDE DEF N
    <3>1. QED  BY <1>1, <1>3, <1>4
  <2>2. QED  BY <2>1
<1>6. after = [n \in 0 .. Len(rules) |->
                 IF n = 0 THEN mark ELSE Judge(after[n - 1], rules[n], values[n])]
  BY <1>5, Zenon
<1>7. Scanning(rules, values, mark) = after
  BY Zenon DEF Scanning
<1> HIDE DEF after
<1>8. after[0] = mark
  BY <1>1, <1>6
<1>9. \A n \in 1 .. N : after[n] = Judge(after[n - 1], rules[n], values[n])
  BY <1>1, <1>6
<1>10. \A n \in 1 .. N : after[n - 1] \in Marks => after[n] = step[n][after[n - 1]]
  BY <1>9
<1>11. \A n \in 0 .. N : after[n] \in Marks
  <2> HIDE DEF step, N
  <2>1. QED  BY <1>1, <1>2, <1>8, <1>10, Unfolded
<1>12. QED  BY <1>7, <1>8, <1>9, <1>11

\* What one rule does to a mark that has not ended the scan
LEMMA JudgeOne ==
    ASSUME NEW mark \in {"ok", "suspect"}, NEW rule \in Rule, NEW v \in Int \cup {Null, Junk}
    PROVE  Judge(mark, rule, v) =
              IF Passes(rule, v) THEN mark
              ELSE IF PassesRaises(rule, v) THEN "raise"
              ELSE IF rule.onFail = "flag_suspect" THEN "suspect" ELSE rule.onFail
<1>1. rule.type \in {"not_null", "range"} /\ rule.onFail \in OnFail /\ rule.allowed \subseteq Int
  BY DEF Rule
<1>2. mark \notin Ended
  BY DEF Ended
<1>3. Junk \notin Int /\ Null \notin Int /\ Null # Junk
  BY ValuesAssumption
<1>4. CASE rule.type = "not_null"
  BY <1>1, <1>2, <1>3, <1>4 DEF Judge, Passes, PassesRaises
<1>5. CASE rule.type = "range"
  BY <1>1, <1>2, <1>3, <1>5 DEF Judge, Passes, PassesRaises
<1>6. QED  BY <1>1, <1>4, <1>5

\* The scan that marks as it goes says what the first-failure rule of the engine says.
LEMMA ScanIsVerdict ==
    ASSUME NEW rules \in Seq(Rule), NEW values,
           \A i \in DOMAIN rules : values[i] \in Int \cup {Null, Junk},
           NEW mark \in {"ok", "suspect"}
    PROVE  /\ Verdict(rules, values) \in {"ok", "flag_suspect", "drop_row", "reject_row", "raise"}
           /\ (\A i \in DOMAIN rules : values[i] # Junk) => Verdict(rules, values) # "raise"
           /\ Scanning(rules, values, mark)[Len(rules)] =
                 CASE Verdict(rules, values) = "ok" -> mark
                   [] Verdict(rules, values) = "flag_suspect" -> "suspect"
                   [] OTHER -> Verdict(rules, values)
<1> DEFINE N       == Len(rules)
           after   == Scanning(rules, values, mark)
           failing == {i \in DOMAIN rules : ~Passes(rules[i], values[i])}
           ending  == {i \in failing : \/ PassesRaises(rules[i], values[i])
                                        \/ rules[i].onFail # "flag_suspect"}
           EndsAs(e) == IF PassesRaises(rules[e], values[e]) THEN "raise" ELSE rules[e].onFail
           First(e)  == e \in ending /\ \A j \in ending : e <= j
           Stands(n) == /\ (\A e \in ending : n < e) =>
                              after[n] = IF \E i \in failing : i <= n THEN "suspect" ELSE mark
                        /\ \A e \in ending : First(e) /\ e <= n => after[n] = EndsAs(e)
           S == {n \in 0 .. N : Stands(n)}
<1>0. N \in Nat /\ DOMAIN rules = 1 .. N
  OBVIOUS
<1>1. /\ after[0] = mark
      /\ \A n \in 1 .. N : after[n] = Judge(after[n - 1], rules[n], values[n])
  BY ScanningSteps DEF Marks
<1>2. /\ failing \subseteq 1 .. N /\ ending \subseteq failing
      /\ \A e \in ending : EndsAs(e) \in Ended
      /\ (\A i \in DOMAIN rules : values[i] # Junk) => \A e \in ending : EndsAs(e) # "raise"
  <2>1. \A rule \in Rule : rule.onFail \in OnFail
    BY DEF Rule
  <2>2. \A i \in DOMAIN rules : rules[i] \in Rule
    OBVIOUS
  <2>3. \A e \in ending : rules[e].onFail \in OnFail
    BY <2>1, <2>2
  <2>4. QED  BY <2>3 DEF Ended, OnFail, PassesRaises
<1>3. \A n \in 1 .. N : after[n - 1] \in {"ok", "suspect"} =>
         after[n] = IF n \notin failing THEN after[n - 1]
                    ELSE IF n \in ending THEN EndsAs(n) ELSE "suspect"
  <2> SUFFICES ASSUME NEW n \in 1 .. N, after[n - 1] \in {"ok", "suspect"}
               PROVE  after[n] = IF n \notin failing THEN after[n - 1]
                                 ELSE IF n \in ending THEN EndsAs(n) ELSE "suspect"
    OBVIOUS
  <2>1. rules[n] \in Rule /\ values[n] \in Int \cup {Null, Junk} /\ n \in DOMAIN rules
    OBVIOUS
  <2>2. after[n] = Judge(after[n - 1], rules[n], values[n])
    BY <1>1
  <2> HIDE DEF after
  <2>3. Judge(after[n - 1], rules[n], values[n]) =
           IF Passes(rules[n], values[n]) THEN after[n - 1]
           ELSE IF PassesRaises(rules[n], values[n]) THEN "raise"
           ELSE IF rules[n].onFail = "flag_suspect" THEN "suspect" ELSE rules[n].onFail
    BY <2>1, JudgeOne
  <2>4. QED  BY <2>1, <2>2, <2>3
<1>4. \A n \in 1 .. N : after[n - 1] \in Ended => after[n] = after[n - 1]
  BY <1>1 DEF Judge
<1> HIDE DEF after, failing, ending, EndsAs, N
<1>5. 0 \in S
  BY <1>0, <1>1, <1>2
<1>6. ASSUME NEW n \in 1 .. N, Stands(n - 1)  PROVE Stands(n)
  <2>1. ASSUME \A e \in ending : n < e
        PROVE  after[n] = IF \E i \in failing : i <= n THEN "suspect" ELSE mark
    <3>1. \A e \in ending : n - 1 < e
      BY <1>0, <1>2, <2>1
    <3>2. after[n - 1] = IF \E i \in failing : i <= n - 1 THEN "suspect" ELSE mark
      BY <1>6, <3>1
    <3>3. n \notin ending
      BY <1>0, <2>1
    <3>4. after[n] = IF n \notin failing THEN after[n - 1] ELSE "suspect"
      BY <1>3, <3>2, <3>3
    <3>5. \A i \in failing : i <= n <=> (i <= n - 1 \/ i = n)
      BY <1>0, <1>2
    <3>6. QED  BY <3>2, <3>4, <3>5
  <2>2. ASSUME NEW e \in ending, First(e), e <= n  PROVE after[n] = EndsAs(e)
    <3>1. CASE e = n
      <4>1. \A d \in ending : n - 1 < d
        BY <1>0, <1>2, <2>2, <3>1
      <4>2. after[n - 1] \in {"ok", "suspect"}
        BY <1>6, <4>1
      <4>3. QED  BY <1>2, <1>3, <3>1, <4>2
    <3>2. CASE e # n
      <4>1. e <= n - 1
        BY <1>0, <1>2, <2>2, <3>2
      <4>2. after[n - 1] = EndsAs(e) /\ EndsAs(e) \in Ended
        BY <1>2, <1>6, <2>2, <4>1
      <4>3. QED  BY <1>4, <4>2
    <3>3. QED  BY <3>1, <3>2
  <2>3. QED  BY <2>1, <2>2
<1>7. \A n \in 1 .. N : n - 1 \in S => n \in S
  <2> HIDE DEF Stands
  <2>1. QED  BY <1>0, <1>6
<1>8. \A n \in 0 .. N : n \in S
  <2> HIDE DEF S
  <2>1. QED  BY <1>0, <1>5, <1>7, Upwards
<1>9. Stands(N)
  <2> HIDE DEF Stands
  <2>1. QED  BY <1>0, <1>8
<1>10. Verdict(rules, values) =
          IF ending = {} THEN IF failing = {} THEN "ok" ELSE "flag_suspect"
          ELSE EndsAs(CHOOSE e \in ending : \A j \in ending : e <= j)
  BY DEF Verdict, ending, failing, EndsAs
<1>11. CASE ending = {}
  <2>1. after[N] = IF failing = {} THEN mark ELSE "suspect"
    BY <1>0, <1>2, <1>9, <1>11
  <2>2. QED  BY <1>10, <1>11, <2>1 DEF after, N
<1>12. CASE ending # {}
  <2>1. PICK d \in ending : \A j \in ending : d <= j
    <3>1. ending \subseteq Nat
      BY <1>0, <1>2
    <3>2. QED  BY <1>12, <3>1, Smallest
  <2> DEFINE e == CHOOSE e \in ending : \A j \in ending : e <= j
  <2>2. e \in ending /\ \A j \in ending : e <= j
    BY <2>1
  <2> HIDE DEF e
  <2>3. First(e) /\ e <= N
    BY <1>0, <1>2, <2>2
  <2>4. after[N] = EndsAs(e) /\ EndsAs(e) \in Ended
    BY <1>2, <1>9, <2>2, <2>3
  <2>5. Verdict(rules, values) = EndsAs(e)
    BY <1>10, <1>12 DEF e
  <2>6. QED  BY <1>2, <2>2, <2>4, <2>5 DEF Ended, after, N
<1>13. QED  BY <1>11, <1>12

(***************************************************************************)
(* The cells of a record                                                   *)
(***************************************************************************)

\* Both read a record with the same mapping entries ...
LEMMA TargetsAreEntries ==
    ASSUME NEW rec \in Record
    PROVE  Targets(rec) = Entries(rec) /\ Entries(rec) \in Seq(Entry)
<1>1. rec.shape \in {"wide", "long"}
  BY DEF Record
<1>2. QED  BY <1>1, EntriesType DEF Targets, Entries

\* ... and convert a value alike, whichever way round the factors are asked for.
LEMMA ScaledIsApplied ==
    ASSUME NEW entry \in Entry, NEW m \in DOMAIN DeviceFactors, NEW raw \in Numbers \cup {Junk}
    PROVE  Scaled(entry, DeviceFactors[m], raw) = ApplyTransform(entry, m, raw)
<1> DEFINE f == DeviceFactors[m]
           name == entry.factor
<1>1. /\ f \in [uk : Int \cup {Null}, ik : Int \cup {Null}]
      /\ Null \notin Int /\ name \in {"none", "uk", "ik", "uk_ik"}
  BY ValuesAssumption DEF Entry
<1>2. f.uk \in Int \cup {Null} /\ f.ik \in Int \cup {Null}
  BY <1>1
<1> HIDE DEF f, name
<1>3. CASE name = "none"
  BY <1>3 DEF Scaled, ApplyTransform, name
<1>4. CASE name = "uk_ik" /\ Null \in {f.uk, f.ik}
  <2>1. ResolveFactor(name, m) = Null
    BY <1>4 DEF ResolveFactor, f
  <2>2. \E n \in {"uk", "ik"} : f[n] = Null
    BY <1>4
  <2>3. Scaled(entry, f, raw) = Null
    BY <1>4, <2>2 DEF Scaled, name
  <2>4. QED  BY <1>4, <2>1, <2>3 DEF ApplyTransform, name, f
<1>5. CASE name = "uk_ik" /\ Null \notin {f.uk, f.ik}
  <2>1. f.uk \in Int /\ f.ik \in Int
    BY <1>2, <1>5
  <2>2. f.uk * f.ik \in Int
    BY <2>1
  <2>3. ResolveFactor(name, m) = f.uk * f.ik
    BY <1>5 DEF ResolveFactor, f
  <2>4. ~\E n \in {"uk", "ik"} : f[n] = Null
    BY <1>5
  <2>5. Scaled(entry, f, raw) = IF raw = Junk THEN Junk ELSE raw * (f.uk * f.ik)
    BY <1>5, <2>4 DEF Scaled, name
  <2>6. QED  BY <1>1, <1>5, <2>2, <2>3, <2>5 DEF ApplyTransform, name, f
<1>6. CASE name \in {"uk", "ik"}
  <2>1. ResolveFactor(name, m) = f[name]
    BY <1>6 DEF ResolveFactor, f
  <2>2. Scaled(entry, f, raw) =
           IF f[name] = Null THEN Null ELSE IF raw = Junk THEN Junk ELSE raw * f[name]
    BY <1>6 DEF Scaled, name
  <2>3. QED  BY <1>6, <2>1, <2>2 DEF ApplyTransform, name, f
<1>7. QED  BY <1>1, <1>3, <1>4, <1>5, <1>6 DEF f

\* What the interpreter has of a record's cells; the reading is unfolded cell by cell.
CellsRead == [candidates : Seq(Emission), nulls : Nat, raised : BOOLEAN]

\* What a cell does to what has been read, in the words of the engine
LEMMA TakeCellIs ==
    ASSUME NEW acc \in CellsRead, NEW rec \in Record, NEW entry \in Entry
    PROVE  LET raw   == rec.cells[entry.src]
               value == ApplyTransform(entry, rec.meter, raw)
           IN  /\ TakeCell(acc, entry, rec) \in CellsRead
               /\ ~acc.raised /\ raw = Null =>
                     TakeCell(acc, entry, rec) = [acc EXCEPT !.nulls = @ + 1]
               /\ ~acc.raised /\ raw # Null /\ value = Null => TakeCell(acc, entry, rec) = acc
               /\ ~acc.raised /\ raw # Null /\ value \notin {Null, Junk} =>
                     TakeCell(acc, entry, rec) =
                        [acc EXCEPT !.candidates =
                            Append(@, [entry |-> entry, value |-> value])]
<1> DEFINE raw   == rec.cells[entry.src]
           value == ApplyTransform(entry, rec.meter, raw)
<1>1. /\ entry.quantity \in DOMAIN QuantityRules /\ rec.meter \in DOMAIN DeviceFactors
      /\ raw \in Numbers \cup {Null, Junk}
  BY DEF Entry, Record
<1>2. acc.raised \in BOOLEAN /\ acc.nulls \in Nat /\ acc.candidates \in Seq(Emission)
      /\ acc = [candidates |-> acc.candidates, nulls |-> acc.nulls, raised |-> acc.raised]
  BY DEF CellsRead
<1>3. raw # Null => Scaled(entry, DeviceFactors[rec.meter], raw) = value
  BY <1>1, ScaledIsApplied
<1>4. raw # Null => value \in Int \cup {Null, Junk}
  BY <1>1, ApplyTransformType
<1>5. Null # Junk
  BY ValuesAssumption
<1> DEFINE scaled == Scaled(entry, DeviceFactors[rec.meter], raw)
<1>6. TakeCell(acc, entry, rec) =
         CASE acc.raised -> acc
           [] ~acc.raised /\ raw = Null -> [acc EXCEPT !.nulls = @ + 1]
           [] ~acc.raised /\ raw # Null /\ scaled = Null -> acc
           [] ~acc.raised /\ raw # Null /\ scaled = Junk -> [acc EXCEPT !.raised = TRUE]
           [] OTHER -> [acc EXCEPT !.candidates =
                           Append(@, [entry |-> entry, value |-> scaled])]
  BY Zenon DEF TakeCell
<1> HIDE DEF raw, value, scaled
<1>7. CASE acc.raised
  BY <1>2, <1>6, <1>7
<1>8. CASE ~acc.raised /\ raw = Null
  <2>1. TakeCell(acc, entry, rec) = [acc EXCEPT !.nulls = @ + 1]
    BY <1>6, <1>8
  <2>2. [acc EXCEPT !.nulls = @ + 1] \in CellsRead
    BY <1>2 DEF CellsRead
  <2>3. QED  BY <1>8, <2>1, <2>2 DEF raw, value
<1>9. CASE ~acc.raised /\ raw # Null
  <2>1. scaled = value /\ value \in Int \cup {Null, Junk}
    BY <1>3, <1>4, <1>9 DEF scaled
  <2>2. CASE value = Null
    <3>1. TakeCell(acc, entry, rec) = acc
      BY <1>5, <1>6, <1>9, <2>1, <2>2
    <3>2. QED  BY <1>9, <2>2, <3>1 DEF raw, value
  <2>3. CASE value = Junk
    <3>1. TakeCell(acc, entry, rec) = [acc EXCEPT !.raised = TRUE]
      BY <1>5, <1>6, <1>9, <2>1, <2>3
    <3>2. [acc EXCEPT !.raised = TRUE] \in CellsRead
      BY <1>2 DEF CellsRead
    <3>3. QED  BY <1>9, <2>3, <3>1, <3>2, <1>5 DEF raw, value
  <2>4. CASE value \notin {Null, Junk}
    <3> DEFINE next == [acc EXCEPT !.candidates =
                           Append(@, [entry |-> entry, value |-> value])]
    <3>1. TakeCell(acc, entry, rec) = next
      BY <1>6, <1>9, <2>1, <2>4
    <3>2. next \in CellsRead
      <4>1. [entry |-> entry, value |-> value] \in Emission
        BY <1>1, <2>1, <2>4 DEF Emission
      <4>2. QED  BY <1>2, <4>1 DEF CellsRead
    <3>3. QED  BY <1>9, <2>4, <3>1, <3>2 DEF raw, value
  <2>5. QED  BY <2>1, <2>2, <2>3, <2>4
<1>10. QED  BY <1>2, <1>7, <1>8, <1>9 DEF raw

\* The reading after each cell
LEMMA ReadingSteps ==
    ASSUME NEW rec \in Record
    PROVE  LET after == Reading(rec)
           IN  /\ after[0] = NoCells
               /\ \A n \in 0 .. Len(Entries(rec)) : after[n] \in CellsRead
               /\ \A n \in 1 .. Len(Entries(rec)) :
                     after[n] = TakeCell(after[n - 1], Entries(rec)[n], rec)
<1> DEFINE after[n \in 0 .. Len(Targets(rec))] ==
              IF n = 0 THEN NoCells ELSE TakeCell(after[n - 1], Targets(rec)[n], rec)
           step == [n \in 1 .. Len(Targets(rec)) |->
                       [acc \in CellsRead |-> TakeCell(acc, Targets(rec)[n], rec)]]
           N == Len(Targets(rec))
<1>0. Targets(rec) = Entries(rec) /\ Targets(rec) \in Seq(Entry)
  BY TargetsAreEntries
<1>1. N \in Nat /\ NoCells \in CellsRead
  BY <1>0 DEF NoCells, CellsRead
<1>2. step \in [1 .. N -> [CellsRead -> CellsRead]]
  <2>1. \A n \in 1 .. N : Targets(rec)[n] \in Entry
    BY <1>0
  <2>2. \A acc \in CellsRead, entry \in Entry : TakeCell(acc, entry, rec) \in CellsRead
    BY TakeCellIs
  <2> HIDE DEF N
  <2>3. QED  BY <2>1, <2>2 DEF N
<1>3. PICK f \in [0 .. N -> CellsRead] :
             f[0] = NoCells /\ \A n \in 1 .. N : f[n] = step[n][f[n - 1]]
  <2> HIDE DEF step, N
  <2>1. QED  BY <1>1, <1>2, Recursion
<1>4. \A n \in 1 .. N : f[n] = TakeCell(f[n - 1], Targets(rec)[n], rec)
  <2> SUFFICES ASSUME NEW n \in 1 .. N  PROVE f[n] = TakeCell(f[n - 1], Targets(rec)[n], rec)
    OBVIOUS
  <2>1. f[n - 1] \in CellsRead
    BY <1>1
  <2>2. QED  BY <1>3, <2>1
<1>5. f = [n \in 0 .. Len(Targets(rec)) |->
              IF n = 0 THEN NoCells ELSE TakeCell(f[n - 1], Targets(rec)[n], rec)]
  <2>1. \A n \in 0 .. N : f[n] = IF n = 0 THEN NoCells ELSE TakeCell(f[n - 1], Targets(rec)[n], rec)
    <3> HIDE DEF N
    <3>1. QED  BY <1>1, <1>3, <1>4
  <2>2. QED  BY <2>1
<1>6. after = [n \in 0 .. Len(Targets(rec)) |->
                 IF n = 0 THEN NoCells ELSE TakeCell(after[n - 1], Targets(rec)[n], rec)]
  BY <1>5, Zenon
<1>7. Reading(rec) = after
  BY Zenon DEF Reading
<1> HIDE DEF after
<1>8. after[0] = NoCells
  BY <1>1, <1>6
<1>9. \A n \in 1 .. N : after[n] = TakeCell(after[n - 1], Targets(rec)[n], rec)
  BY <1>1, <1>6
<1>10. \A n \in 1 .. N : after[n - 1] \in CellsRead => after[n] = step[n][after[n - 1]]
  BY <1>9
<1>11. \A n \in 0 .. N : after[n] \in CellsRead
  <2> HIDE DEF step, N
  <2>1. QED  BY <1>1, <1>2, <1>8, <1>10, Unfolded
<1>12. QED  BY <1>0, <1>7, <1>8, <1>9, <1>11

\* The candidates are what is read after the last cell.
LEMMA CandidatesType ==
    ASSUME NEW rec \in Record
    PROVE  /\ Readings(rec) = Reading(rec)[Len(Entries(rec))] /\ Readings(rec) \in CellsRead
           /\ Candidates(rec) \in Seq(Emission)
<1>1. Targets(rec) = Entries(rec) /\ Len(Entries(rec)) \in Nat
  BY TargetsAreEntries
<1>2. Reading(rec)[Len(Entries(rec))] \in CellsRead
  BY <1>1, ReadingSteps
<1>3. Readings(rec) \in CellsRead
  BY <1>1, <1>2 DEF Readings
<1>4. QED  BY <1>1, <1>3 DEF Readings, Candidates, CellsRead

(***************************************************************************)
(* The screening of the candidates                                         *)
(***************************************************************************)

\* The mark of a candidate is what the engine's verdict makes of the record's mark.
LEMMA ScanValueIs ==
    ASSUME NEW c \in Emission, NEW mark \in {"ok", "suspect"}
    PROVE  LET verdict == QuantityVerdict(c.entry.quantity, c.value)
           IN  /\ verdict \in {"ok", "flag_suspect", "drop_row", "reject_row"}
               /\ ScanValue(c, mark) = CASE verdict = "ok" -> mark
                                          [] verdict = "flag_suspect" -> "suspect"
                                          [] OTHER -> verdict
<1> DEFINE rules  == QuantityRules[c.entry.quantity]
           values == [i \in DOMAIN QuantityRules[c.entry.quantity] |-> c.value]
<1>1. /\ rules \in Seq(Rule) /\ c.value \in Int /\ Junk \notin Int
  BY RulesAssumption, ValuesAssumption DEF Emission, Entry
<1>2. \A i \in DOMAIN rules : values[i] \in Int \cup {Null, Junk} /\ values[i] # Junk
  BY <1>1
<1>3. /\ QuantityVerdict(c.entry.quantity, c.value) = Verdict(rules, values)
      /\ ScanValue(c, mark) = Scanning(rules, values, mark)[Len(rules)]
  BY DEF QuantityVerdict, ScanValue
<1> HIDE DEF rules, values
<1>4. /\ Verdict(rules, values) \in {"ok", "flag_suspect", "drop_row", "reject_row", "raise"}
      /\ Verdict(rules, values) # "raise"
      /\ Scanning(rules, values, mark)[Len(rules)] =
            CASE Verdict(rules, values) = "ok" -> mark
              [] Verdict(rules, values) = "flag_suspect" -> "suspect"
              [] OTHER -> Verdict(rules, values)
  BY <1>1, <1>2, ScanIsVerdict
<1>5. QED  BY <1>3, <1>4

\* What the interpreter has of a record's rows
Buffers == [rows : Seq(Row), dropped : Nat, rejected : BOOLEAN]

\* A candidate leaves a buffer a buffer.
LEMMA TakeCandidateType ==
    ASSUME NEW acc \in Buffers, NEW i \in Nat, NEW c \in Emission,
           NEW quality \in {"ok", "suspect", "drop_row", "reject_row"}
    PROVE  TakeCandidate(acc, i, c, quality) \in Buffers
<1>1. /\ acc.rows \in Seq(Row) /\ acc.dropped \in Nat /\ acc.rejected \in BOOLEAN
      /\ acc = [rows |-> acc.rows, dropped |-> acc.dropped, rejected |-> acc.rejected]
  BY DEF Buffers
<1>2. CASE acc.rejected
  BY <1>2 DEF TakeCandidate
<1>3. CASE ~acc.rejected /\ quality = "reject_row"
  <2>1. TakeCandidate(acc, i, c, quality) = [acc EXCEPT !.rejected = TRUE]
    BY <1>3 DEF TakeCandidate
  <2>2. QED  BY <1>1, <2>1 DEF Buffers
<1>4. CASE ~acc.rejected /\ quality = "drop_row"
  <2>1. TakeCandidate(acc, i, c, quality) = [acc EXCEPT !.dropped = @ + 1]
    BY <1>4 DEF TakeCandidate
  <2>2. QED  BY <1>1, <2>1 DEF Buffers
<1>5. CASE ~acc.rejected /\ quality \in {"ok", "suspect"}
  <2> DEFINE row == [rec |-> i, entry |-> c.entry, value |-> c.value, quality |-> quality]
  <2>1. row \in Row
    BY <1>5 DEF Row, Emission
  <2>2. TakeCandidate(acc, i, c, quality) = [acc EXCEPT !.rows = Append(@, row)]
    BY <1>5 DEF TakeCandidate
  <2> HIDE DEF row
  <2>3. Append(acc.rows, row) \in Seq(Row)
    BY <1>1, <2>1
  <2>4. TakeCandidate(acc, i, c, quality) = [acc EXCEPT !.rows = Append(acc.rows, row)]
    BY <2>2
  <2>5. \A s \in Seq(Row) : [acc EXCEPT !.rows = s] \in Buffers
    BY <1>1 DEF Buffers
  <2>6. QED  BY <2>3, <2>4, <2>5
<1>6. QED  BY <1>1, <1>2, <1>3, <1>4, <1>5

\* The screening is unfolded candidate by candidate.
LEMMA ScreeningSteps ==
    ASSUME NEW rec \in Record, NEW i \in Nat, NEW mark \in {"ok", "suspect"}
    PROVE  LET after == Screening(rec, i, mark)
               cs    == Candidates(rec)
           IN  /\ after[0] = NoRows
               /\ \A n \in 0 .. Len(cs) : after[n] \in Buffers
               /\ \A n \in 1 .. Len(cs) :
                     after[n] = TakeCandidate(after[n - 1], i, cs[n], ScanValue(cs[n], mark))
<1> DEFINE cs == Candidates(rec)
           after[n \in 0 .. Len(Candidates(rec))] ==
              IF n = 0 THEN NoRows
              ELSE TakeCandidate(after[n - 1], i, Candidates(rec)[n],
                                 ScanValue(Candidates(rec)[n], mark))
           step == [n \in 1 .. Len(cs) |->
                       [acc \in Buffers |-> TakeCandidate(acc, i, cs[n], ScanValue(cs[n], mark))]]
           N == Len(cs)
<1>0. cs \in Seq(Emission)
  BY CandidatesType
<1>1. N \in Nat /\ NoRows \in Buffers
  BY <1>0 DEF NoRows, Buffers
<1>2. step \in [1 .. N -> [Buffers -> Buffers]]
  <2>1. \A n \in 1 .. N : cs[n] \in Emission
    BY <1>0
  <2>2. \A c \in Emission : ScanValue(c, mark) \in {"ok", "suspect", "drop_row", "reject_row"}
    BY ScanValueIs
  <2>3. \A acc \in Buffers, c \in Emission : TakeCandidate(acc, i, c, ScanValue(c, mark)) \in Buffers
    BY <2>2, TakeCandidateType
  <2> HIDE DEF N, cs
  <2>4. QED  BY <2>1, <2>3 DEF N
<1>3. PICK f \in [0 .. N -> Buffers] :
             f[0] = NoRows /\ \A n \in 1 .. N : f[n] = step[n][f[n - 1]]
  <2> HIDE DEF step, N
  <2>1. QED  BY <1>1, <1>2, Recursion
<1>4. \A n \in 1 .. N : f[n] = TakeCandidate(f[n - 1], i, cs[n], ScanValue(cs[n], mark))
  <2> SUFFICES ASSUME NEW n \in 1 .. N
               PROVE  f[n] = TakeCandidate(f[n - 1], i, cs[n], ScanValue(cs[n], mark))
    OBVIOUS
  <2>1. f[n - 1] \in Buffers
    BY <1>1
  <2>2. QED  BY <1>3, <2>1
<1>5. f = [n \in 0 .. Len(Candidates(rec)) |->
              IF n = 0 THEN NoRows
              ELSE TakeCandidate(f[n - 1], i, Candidates(rec)[n], ScanValue(Candidates(rec)[n], mark))]
  <2>1. \A n \in 0 .. N :
           f[n] = IF n = 0 THEN NoRows
                  ELSE TakeCandidate(f[n - 1], i, cs[n], ScanValue(cs[n], mark))
    <3> HIDE DEF N, cs
    <3>1. QED  BY <1>1, <1>3, <1>4
  <2>2. QED  BY <2>1
<1>6. after = [n \in 0 .. Len(Candidates(rec)) |->
                 IF n = 0 THEN NoRows
                 ELSE TakeCandidate(after[n - 1], i, Candidates(rec)[n],
                                    ScanValue(Candidates(rec)[n], mark))]
  BY <1>5, Zenon
<1>7. Screening(rec, i, mark) = after
  BY Zenon DEF Screening
<1> HIDE DEF after
<1>8. after[0] = NoRows
  BY <1>1, <1>6
<1>9. \A n \in 1 .. N : after[n] = TakeCandidate(after[n - 1], i, cs[n], ScanValue(cs[n], mark))
  BY <1>1, <1>6
<1>10. \A n \in 1 .. N : after[n - 1] \in Buffers => after[n] = step[n][after[n - 1]]
  BY <1>9
<1>11. \A n \in 0 .. N : after[n] \in Buffers
  <2> HIDE DEF step, N
  <2>1. QED  BY <1>1, <1>2, <1>8, <1>10, Unfolded
<1>12. QED  BY <1>7, <1>8, <1>9, <1>11

\* Once a candidate has rejected the record, the rest of the screening changes nothing.
LEMMA RejectedStays ==
    ASSUME NEW rec \in Record, NEW i \in Nat, NEW mark \in {"ok", "suspect"},
           NEW n \in 0 .. Len(Candidates(rec)), Screening(rec, i, mark)[n].rejected
    PROVE  Screening(rec, i, mark)[Len(Candidates(rec))] = Screening(rec, i, mark)[n]
<1> DEFINE after == Screening(rec, i, mark)
           N == Len(Candidates(rec))
           S == {m \in 0 .. N : m < n \/ after[m] = after[n]}
<1>1. N \in Nat
  BY CandidatesType
<1>2. \A m \in 1 .. N : after[m - 1].rejected => after[m] = after[m - 1]
  BY ScreeningSteps DEF TakeCandidate
<1>3. 0 \in S
  BY <1>1
<1>4. \A m \in 1 .. N : m - 1 \in S => m \in S
  <2> SUFFICES ASSUME NEW m \in 1 .. N, m - 1 \in S  PROVE m \in S
    OBVIOUS
  <2>1. CASE m < n
    BY <1>1, <2>1
  <2>2. CASE m = n
    BY <1>1, <2>2
  <2>3. CASE n < m
    <3>1. after[m - 1] = after[n]
      BY <1>1, <2>3
    <3>2. QED  BY <1>1, <1>2, <3>1
  <2>4. QED  BY <1>1, <2>1, <2>2, <2>3
<1>5. \A m \in 0 .. N : m \in S
  <2> HIDE DEF S, N
  <2>1. QED  BY <1>1, <1>3, <1>4, Upwards
<1>6. QED  BY <1>1, <1>5

(***************************************************************************)
(* One record                                                              *)
(***************************************************************************)

\* What the interpreter has come to between two records
Outs == [rows : Seq(Row), stats : [Counters -> Int], raised : BOOLEAN]

\* What the statistics say when one record more has been counted
RecordCounted(st, base, nulls, dropped, rejected, unmapped) ==
    /\ st.records_in = base.records_in + 1
    /\ st.cells_null_skipped = base.cells_null_skipped + nulls
    /\ st.rows_dropped = base.rows_dropped + dropped
    /\ st.records_rejected = base.records_rejected + rejected
    /\ st.records_unmapped = base.records_unmapped + unmapped
    /\ st.rows_emitted = base.rows_emitted

\* Counting changes one counter and nothing else.
LEMMA CountIs ==
    ASSUME NEW out \in Outs, NEW c \in Counters, NEW n \in Int
    PROVE  /\ Count(out, c, n) \in Outs
           /\ Count(out, c, n).rows = out.rows
           /\ Count(out, c, n).raised = out.raised
           /\ Count(out, c, n).stats[c] = out.stats[c] + n
           /\ \A b \in Counters \ {c} : Count(out, c, n).stats[b] = out.stats[b]
<1>1. /\ out.rows \in Seq(Row) /\ out.stats \in [Counters -> Int] /\ out.raised \in BOOLEAN
      /\ out = [rows |-> out.rows, stats |-> out.stats, raised |-> out.raised]
  BY DEF Outs
<1>2. Count(out, c, n) = [out EXCEPT !.stats = [out.stats EXCEPT ![c] = @ + n]]
  BY <1>1 DEF Count
<1>3. [out.stats EXCEPT ![c] = @ + n] \in [Counters -> Int]
  BY <1>1, CountOne
<1>4. \A st \in [Counters -> Int] :
         LET next == [out EXCEPT !.stats = st]
         IN  next \in Outs /\ next.rows = out.rows /\ next.raised = out.raised /\ next.stats = st
  BY <1>1 DEF Outs
<1>5. LET next == Count(out, c, n)
      IN  /\ next \in Outs /\ next.rows = out.rows /\ next.raised = out.raised
          /\ next.stats = [out.stats EXCEPT ![c] = @ + n]
  <2> DEFINE st == [out.stats EXCEPT ![c] = @ + n]
  <2>1. st \in [Counters -> Int] /\ Count(out, c, n) = [out EXCEPT !.stats = st]
    BY <1>2, <1>3
  <2> HIDE DEF st
  <2>2. QED  BY <1>4, <2>1 DEF st
<1>6. QED  BY <1>1, <1>5, CountOne

\* The interpreter has come from out to next by a record that adds these rows and counts.
Took(next, out, rs, nulls, dropped, rejected, unmapped) ==
    /\ next \in Outs /\ ~next.raised /\ next.rows = rs
    /\ next.stats.rows_suspect = out.stats.rows_suspect
    /\ RecordCounted(next.stats, out.stats, nulls, dropped, rejected, unmapped)

\* The counters are numbers.
LEMMA CountersAre ==
    ASSUME NEW st \in [Counters -> Int]
    PROVE  /\ st.records_in \in Int /\ st.cells_null_skipped \in Int /\ st.rows_dropped \in Int
           /\ st.records_rejected \in Int /\ st.records_unmapped \in Int /\ st.rows_emitted \in Int
BY DEF Counters

\* A record is counted when it is taken ...
LEMMA CountsIn ==
    ASSUME NEW out \in Outs, ~out.raised
    PROVE  Took(Count(out, "records_in", 1), out, out.rows, 0, 0, 0, 0)
<1>1. out.stats \in [Counters -> Int]
  BY DEF Outs
<1>2. "records_in" \in Counters /\ 1 \in Int
  BY DEF Counters
<1> DEFINE next == Count(out, "records_in", 1)
<1>3. /\ next \in Outs /\ next.rows = out.rows /\ next.raised = out.raised
      /\ next.stats["records_in"] = out.stats["records_in"] + 1
      /\ \A c \in Counters \ {"records_in"} : next.stats[c] = out.stats[c]
  BY <1>2, CountIs, Zenon
<1> HIDE DEF next
<1>4. RecordCounted(next.stats, out.stats, 0, 0, 0, 0)
  BY <1>1, <1>3, CountersAre DEF RecordCounted, Counters
<1>5. next.stats.rows_suspect = out.stats.rows_suspect
  BY <1>3 DEF Counters
<1>6. QED  BY <1>3, <1>4, <1>5 DEF next, Took

\* ... and what else is counted of it is added.
LEMMA CountsOn ==
    ASSUME NEW out \in Outs, NEW mid, NEW rs, NEW n \in Int,
           NEW a \in Int, NEW b \in Int, NEW d \in Int, NEW e \in Int,
           Took(mid, out, rs, a, b, d, e)
    PROVE  /\ Took(Count(mid, "cells_null_skipped", n), out, rs, a + n, b, d, e)
           /\ Took(Count(mid, "rows_dropped", n), out, rs, a, b + n, d, e)
           /\ Took(Count(mid, "records_rejected", n), out, rs, a, b, d + n, e)
           /\ Took(Count(mid, "records_unmapped", n), out, rs, a, b, d, e + n)
<1> DEFINE Moved(c) == Count(mid, c, n)
<1>0. /\ mid \in Outs /\ ~mid.raised /\ mid.rows = rs
      /\ mid.stats.rows_suspect = out.stats.rows_suspect
      /\ RecordCounted(mid.stats, out.stats, a, b, d, e)
  BY DEF Took
<1>1. mid.stats \in [Counters -> Int] /\ out.stats \in [Counters -> Int]
  BY <1>0 DEF Outs
<1>2. Counters = {"records_in", "records_rejected", "records_unmapped", "cells_null_skipped",
                  "rows_dropped", "rows_suspect", "rows_emitted"}
  BY DEF Counters
<1>3. ASSUME NEW c \in Counters
      PROVE  /\ Moved(c) \in Outs /\ Moved(c).rows = mid.rows /\ Moved(c).raised = mid.raised
             /\ Moved(c).stats[c] = mid.stats[c] + n
             /\ \A f \in Counters \ {c} : Moved(c).stats[f] = mid.stats[f]
  BY <1>0, CountIs
<1> HIDE DEF Moved
<1>4. /\ mid.stats.records_in \in Int /\ out.stats.records_in \in Int
      /\ mid.stats.cells_null_skipped \in Int /\ out.stats.cells_null_skipped \in Int
      /\ mid.stats.rows_dropped \in Int /\ out.stats.rows_dropped \in Int
      /\ mid.stats.records_rejected \in Int /\ out.stats.records_rejected \in Int
      /\ mid.stats.records_unmapped \in Int /\ out.stats.records_unmapped \in Int
  BY <1>1, CountersAre
<1>5. RecordCounted(Moved("cells_null_skipped").stats, out.stats, a + n, b, d, e)
  BY <1>0, <1>2, <1>3, <1>4 DEF RecordCounted
<1>6. RecordCounted(Moved("rows_dropped").stats, out.stats, a, b + n, d, e)
  BY <1>0, <1>2, <1>3, <1>4 DEF RecordCounted
<1>7. RecordCounted(Moved("records_rejected").stats, out.stats, a, b, d + n, e)
  BY <1>0, <1>2, <1>3, <1>4 DEF RecordCounted
<1>8. RecordCounted(Moved("records_unmapped").stats, out.stats, a, b, d, e + n)
  BY <1>0, <1>2, <1>3, <1>4 DEF RecordCounted
<1>9. \A c \in {"cells_null_skipped", "rows_dropped", "records_rejected", "records_unmapped"} :
         /\ Moved(c) \in Outs /\ ~Moved(c).raised /\ Moved(c).rows = rs
         /\ Moved(c).stats.rows_suspect = out.stats.rows_suspect
  BY <1>0, <1>2, <1>3
<1>10. QED  BY <1>5, <1>6, <1>7, <1>8, <1>9 DEF Moved, Took

\* The mark of a record is what the engine's verdict on it says.
LEMMA RecordVerdictIs ==
    ASSUME NEW rec \in Record
    PROVE  LET verdict == RecordVerdict(rec)
           IN  /\ verdict \in {"ok", "flag_suspect", "drop_row", "reject_row", "raise"}
               /\ ScanRecord(rec) = CASE verdict = "ok" -> "ok"
                                      [] verdict = "flag_suspect" -> "suspect"
                                      [] OTHER -> verdict
<1> DEFINE rules  == [i \in DOMAIN RecordRules |-> RecordRules[i].rule]
           values == [i \in DOMAIN RecordRules |-> rec.cells[RecordRules[i].field]]
           N      == Len(RecordRules)
<1>1. N \in Nat /\ DOMAIN RecordRules = 1 .. N
  BY RulesAssumption
<1>2. \A i \in 1 .. N : RecordRules[i].rule \in Rule /\ RecordRules[i].field \in Fields
  <2> DEFINE Checks == [field : Fields, rule : Rule]
  <2>0. RecordRules \in Seq(Checks)
    BY RulesAssumption
  <2>1. \A i \in 1 .. N : RecordRules[i] \in Checks
    <3> HIDE DEF Checks
    <3>1. QED  BY <1>1, <2>0
  <2>2. \A x \in [field : Fields, rule : Rule] : x.rule \in Rule /\ x.field \in Fields
    OBVIOUS
  <2>3. QED  BY <2>1, <2>2
<1>3. rules \in Seq(Rule) /\ Len(rules) = N
  BY <1>1, <1>2
<1>4. \A f \in Fields : rec.cells[f] \in Int \cup {Null, Junk}
  <2>1. rec.cells \in [Fields -> Numbers \cup {Null, Junk}]
    BY DEF Record
  <2>2. Numbers \subseteq Int
    BY ValuesAssumption
  <2>3. QED  BY <2>1, <2>2
<1>5. \A i \in DOMAIN rules : values[i] \in Int \cup {Null, Junk}
  BY <1>1, <1>2, <1>4
<1>6. /\ RecordVerdict(rec) = Verdict(rules, values)
      /\ ScanRecord(rec) = Scanning(rules, values, "ok")[N]
  BY DEF RecordVerdict, ScanRecord
<1> HIDE DEF rules, values, N
<1>7. /\ Verdict(rules, values) \in {"ok", "flag_suspect", "drop_row", "reject_row", "raise"}
      /\ Scanning(rules, values, "ok")[Len(rules)] =
            CASE Verdict(rules, values) = "ok" -> "ok"
              [] Verdict(rules, values) = "flag_suspect" -> "suspect"
              [] OTHER -> Verdict(rules, values)
  BY <1>3, <1>5, ScanIsVerdict
<1>8. QED  BY <1>3, <1>6, <1>7

\* What the cells and the candidates of a record that is not discarded add to the counts
Tallied(out, read, screened) ==
    Count(Count(out, "cells_null_skipped", read.nulls), "rows_dropped", screened.dropped)

\* A record that passes the record rules, with what its cells and its candidates come to
LEMMA InterpretIs ==
    ASSUME NEW out \in Outs, NEW rec \in Record, NEW i \in Nat, NEW mark \in {"ok", "suspect"}
    PROVE  LET read     == Reading(rec)[Len(Entries(rec))]
               screened == Screening(rec, i, mark)[Len(Candidates(rec))]
               next     == Interpret(out, rec, i, mark)
               unmapped == rec.shape = "long" /\ Entries(rec) = <<>>
           IN  /\ next \in Outs
               /\ rec.readable /\ unmapped => next = Count(out, "records_unmapped", 1)
               /\ rec.readable /\ ~unmapped /\ ~read.raised /\ screened.rejected =>
                     next = Count(Tallied(out, read, screened), "records_rejected", 1)
               /\ rec.readable /\ ~unmapped /\ ~read.raised /\ ~screened.rejected =>
                     /\ next.stats = Tallied(out, read, screened).stats
                     /\ next.raised = Tallied(out, read, screened).raised
                     /\ next.rows = Tallied(out, read, screened).rows \o screened.rows
<1> DEFINE read     == Reading(rec)[Len(Entries(rec))]
           screened == Screening(rec, i, mark)[Len(Candidates(rec))]
           next     == Interpret(out, rec, i, mark)
           unmapped == rec.shape = "long" /\ Entries(rec) = <<>>
           nulls    == Count(out, "cells_null_skipped", read.nulls)
           dropped  == Count(nulls, "rows_dropped", screened.dropped)
<1>1. Targets(rec) = Entries(rec) /\ Readings(rec) = read /\ read \in CellsRead
  BY TargetsAreEntries, CandidatesType
<1>2. read.nulls \in Nat /\ read.raised \in BOOLEAN
  BY <1>1 DEF CellsRead
<1>3. screened \in Buffers
  <2>1. Len(Candidates(rec)) \in Nat
    BY CandidatesType
  <2>2. QED  BY <2>1, ScreeningSteps
<1>4. screened.rows \in Seq(Row) /\ screened.dropped \in Nat /\ screened.rejected \in BOOLEAN
  BY <1>3 DEF Buffers
<1>5. next = CASE ~rec.readable \/ read.raised -> [out EXCEPT !.raised = TRUE]
               [] rec.readable /\ unmapped -> Count(out, "records_unmapped", 1)
               [] OTHER -> IF screened.rejected THEN Count(dropped, "records_rejected", 1)
                                                ELSE [dropped EXCEPT !.rows = @ \o screened.rows]
  BY <1>1, Zenon DEF Interpret
<1>6. unmapped => ~read.raised
  <2>1. Reading(rec)[0] = NoCells
    BY ReadingSteps
  <2>2. unmapped => Len(Entries(rec)) = 0
    OBVIOUS
  <2>3. QED  BY <2>1, <2>2 DEF NoCells
<1>7. {"records_unmapped", "cells_null_skipped", "rows_dropped", "records_rejected"} \subseteq Counters
  BY DEF Counters
<1> HIDE DEF read, screened, next, unmapped
<1>8. nulls \in Outs
  BY <1>2, <1>7, CountIs
<1> HIDE DEF nulls
<1>9. dropped \in Outs
  BY <1>4, <1>7, <1>8, CountIs
<1> HIDE DEF dropped
<1>10. /\ [out EXCEPT !.raised = TRUE] \in Outs
       /\ Count(out, "records_unmapped", 1) \in Outs
       /\ Count(dropped, "records_rejected", 1) \in Outs
  <2>1. [out EXCEPT !.raised = TRUE] \in Outs
    BY DEF Outs
  <2>2. QED  BY <1>7, <1>9, <2>1, CountIs
<1>11. [dropped EXCEPT !.rows = @ \o screened.rows] \in Outs
  <2>1. dropped.rows \in Seq(Row)
    BY <1>9 DEF Outs
  <2>2. dropped.rows \o screened.rows \in Seq(Row)
    BY <1>4, <2>1
  <2>3. \A s \in Seq(Row) : [dropped EXCEPT !.rows = s] \in Outs
    BY <1>9 DEF Outs
  <2>4. QED  BY <2>2, <2>3
<1>12. rec.readable \in BOOLEAN /\ unmapped \in BOOLEAN
  BY DEF Record, unmapped
<1>13. next \in Outs
  <2>1. CASE ~rec.readable \/ read.raised
    BY <1>5, <1>6, <1>10, <1>12, <2>1
  <2>2. CASE rec.readable /\ ~read.raised
    BY <1>5, <1>10, <1>11, <1>12, <2>2
  <2>3. QED  BY <1>2, <1>12, <2>1, <2>2
<1>14. rec.readable /\ unmapped => next = Count(out, "records_unmapped", 1)
  BY <1>5, <1>6
<1>15. ASSUME rec.readable, ~unmapped, ~read.raised, screened.rejected
       PROVE  next = Count(dropped, "records_rejected", 1)
  BY <1>5, <1>15
<1>16. ASSUME rec.readable, ~unmapped, ~read.raised, ~screened.rejected
       PROVE  /\ next.stats = dropped.stats /\ next.raised = dropped.raised
              /\ next.rows = dropped.rows \o screened.rows
  <2>1. next = [dropped EXCEPT !.rows = @ \o screened.rows]
    BY <1>5, <1>16
  <2>2. QED  BY <1>9, <2>1 DEF Outs
<1>17. QED
  BY <1>13, <1>14, <1>15, <1>16 DEF read, screened, next, unmapped, dropped, nulls, Tallied

\* The three ways a record can go
LEMMA OneRecordIs ==
    ASSUME NEW out \in Outs, NEW rec \in Record, NEW i \in Nat
    PROVE  LET taken   == Count(out, "records_in", 1)
               verdict == RecordVerdict(rec)
               next    == OneRecord(out, rec, i)
           IN  /\ taken \in Outs /\ next \in Outs
               /\ ~out.raised /\ verdict \in {"drop_row", "reject_row"} =>
                     next = Count(taken, "records_rejected", 1)
               /\ ~out.raised /\ verdict \in {"ok", "flag_suspect"} =>
                     /\ ScanRecord(rec) = IF verdict = "flag_suspect" THEN "suspect" ELSE "ok"
                     /\ next = Interpret(taken, rec, i, ScanRecord(rec))
<1> DEFINE taken   == Count(out, "records_in", 1)
           verdict == RecordVerdict(rec)
           next    == OneRecord(out, rec, i)
           mark    == ScanRecord(rec)
<1>1. {"records_in", "records_rejected"} \subseteq Counters
  BY DEF Counters
<1>2. taken \in Outs
  BY <1>1, CountIs
<1>3. /\ verdict \in {"ok", "flag_suspect", "drop_row", "reject_row", "raise"}
      /\ mark = CASE verdict = "ok" -> "ok"
                  [] verdict = "flag_suspect" -> "suspect"
                  [] OTHER -> verdict
  BY RecordVerdictIs
<1>4. next = CASE out.raised -> out
               [] ~out.raised /\ mark = "raise" -> [taken EXCEPT !.raised = TRUE]
               [] ~out.raised /\ mark \in {"drop_row", "reject_row"} ->
                     Count(taken, "records_rejected", 1)
               [] OTHER -> Interpret(taken, rec, i, mark)
  BY Zenon DEF OneRecord
<1>5. out.raised \in BOOLEAN
  BY DEF Outs
<1> HIDE DEF taken, verdict, next, mark
<1>6. [taken EXCEPT !.raised = TRUE] \in Outs
  BY <1>2 DEF Outs
<1>7. Count(taken, "records_rejected", 1) \in Outs
  BY <1>1, <1>2, CountIs
<1>8. CASE out.raised
  BY <1>2, <1>4, <1>8 DEF taken, verdict, next, mark
<1>9. CASE ~out.raised /\ verdict = "raise"
  <2>1. next = [taken EXCEPT !.raised = TRUE]
    BY <1>3, <1>4, <1>9
  <2>2. QED  BY <1>2, <1>6, <1>9, <2>1 DEF taken, verdict, next, mark
<1>10. CASE ~out.raised /\ verdict \in {"drop_row", "reject_row"}
  <2>1. next = Count(taken, "records_rejected", 1)
    BY <1>3, <1>4, <1>10
  <2>2. QED  BY <1>2, <1>7, <1>10, <2>1 DEF taken, verdict, next, mark
<1>11. CASE ~out.raised /\ verdict \in {"ok", "flag_suspect"}
  <2>1. /\ mark = IF verdict = "flag_suspect" THEN "suspect" ELSE "ok"
        /\ next = Interpret(taken, rec, i, mark)
    BY <1>3, <1>4, <1>11
  <2>2. next \in Outs
    <3>1. mark \in {"ok", "suspect"}
      BY <2>1
    <3>2. Interpret(taken, rec, i, mark) \in Outs
      BY <1>2, <3>1, InterpretIs
    <3>3. QED  BY <2>1, <3>2
  <2>3. QED  BY <1>2, <1>11, <2>1, <2>2 DEF taken, verdict, next, mark
<1>12. QED  BY <1>3, <1>5, <1>8, <1>9, <1>10, <1>11

\* What a record comes to in the interpreter that the engine gets through: discarded by
\* a record rule, unmapped, rejected by a value, or kept
LEMMA RecordDone ==
    ASSUME NEW out \in Outs, ~out.raised, NEW rec \in Record, NEW i \in Nat
    PROVE  LET verdict  == RecordVerdict(rec)
               read     == Reading(rec)[Len(Entries(rec))]
               screened == Screening(rec, i, ScanRecord(rec))[Len(Candidates(rec))]
               next     == OneRecord(out, rec, i)
               unmapped == rec.shape = "long" /\ Entries(rec) = <<>>
               passes   == verdict \in {"ok", "flag_suspect"} /\ rec.readable
           IN  /\ verdict \in {"drop_row", "reject_row"} => Took(next, out, out.rows, 0, 0, 1, 0)
               /\ passes /\ unmapped => Took(next, out, out.rows, 0, 0, 0, 1)
               /\ passes /\ ~unmapped /\ ~read.raised /\ screened.rejected =>
                     Took(next, out, out.rows, read.nulls, screened.dropped, 1, 0)
               /\ passes /\ ~unmapped /\ ~read.raised /\ ~screened.rejected =>
                     Took(next, out, out.rows \o screened.rows, read.nulls, screened.dropped, 0, 0)
<1> DEFINE verdict  == RecordVerdict(rec)
           mark     == ScanRecord(rec)
           read     == Reading(rec)[Len(Entries(rec))]
           screened == Screening(rec, i, mark)[Len(Candidates(rec))]
           next     == OneRecord(out, rec, i)
           unmapped == rec.shape = "long" /\ Entries(rec) = <<>>
           taken    == Count(out, "records_in", 1)
<1>1. 0 \in Int /\ 1 \in Int
  OBVIOUS
<1>2. taken \in Outs /\ Took(taken, out, out.rows, 0, 0, 0, 0)
  BY CountsIn DEF Took
<1> HIDE DEF taken
<1>3. ASSUME verdict \in {"drop_row", "reject_row"}
      PROVE  Took(next, out, out.rows, 0, 0, 1, 0)
  <2>1. next = Count(taken, "records_rejected", 1)
    BY <1>3, OneRecordIs DEF taken
  <2>2. Took(Count(taken, "records_rejected", 1), out, out.rows, 0, 0, 0 + 1, 0)
    BY <1>1, <1>2, CountsOn
  <2> HIDE DEF next
  <2>3. QED  BY <2>1, <2>2
<1>4. ASSUME verdict \in {"ok", "flag_suspect"}
      PROVE  mark \in {"ok", "suspect"} /\ next = Interpret(taken, rec, i, mark)
  BY <1>4, OneRecordIs DEF taken
<1>5. ASSUME verdict \in {"ok", "flag_suspect"}, rec.readable, unmapped
      PROVE  Took(next, out, out.rows, 0, 0, 0, 1)
  <2>1. mark \in {"ok", "suspect"} /\ next = Interpret(taken, rec, i, mark)
    BY <1>4, <1>5
  <2> HIDE DEF mark, next
  <2>2. Interpret(taken, rec, i, mark) = Count(taken, "records_unmapped", 1)
    BY <1>2, <1>5, <2>1, InterpretIs
  <2>3. Took(Count(taken, "records_unmapped", 1), out, out.rows, 0, 0, 0, 0 + 1)
    BY <1>1, <1>2, CountsOn
  <2>4. QED  BY <2>1, <2>2, <2>3
<1>6. ASSUME verdict \in {"ok", "flag_suspect"}, rec.readable, ~unmapped, ~read.raised
      PROVE  /\ screened.rejected => Took(next, out, out.rows, read.nulls, screened.dropped, 1, 0)
             /\ ~screened.rejected => Took(next, out, out.rows \o screened.rows,
                                           read.nulls, screened.dropped, 0, 0)
  <2> DEFINE dropped == Tallied(taken, read, screened)
  <2>1. mark \in {"ok", "suspect"} /\ Len(Candidates(rec)) \in Nat /\ Len(Entries(rec)) \in Nat
    BY <1>4, <1>6, CandidatesType, TargetsAreEntries
  <2>2. read.nulls \in Int /\ screened.dropped \in Int /\ screened.rejected \in BOOLEAN
    <3>1. read \in CellsRead /\ screened \in Buffers
      BY <2>1, ReadingSteps, ScreeningSteps
    <3> HIDE DEF read, screened
    <3>2. QED  BY <3>1 DEF CellsRead, Buffers
  <2>3. /\ screened.rejected => next = Count(dropped, "records_rejected", 1)
        /\ ~screened.rejected => /\ next.stats = dropped.stats /\ next.raised = dropped.raised
                                 /\ next.rows = dropped.rows \o screened.rows
    <3>1. next = Interpret(taken, rec, i, mark)
      BY <1>4, <1>6
    <3> HIDE DEF mark, next
    <3>2. mark \in {"ok", "suspect"} /\ taken \in Outs /\ rec.readable /\ ~unmapped /\ ~read.raised
      BY <1>2, <1>6, <2>1
    <3>3. QED  BY <3>1, <3>2, InterpretIs
  <2>4. next \in Outs
    BY OneRecordIs
  <2> HIDE DEF next, read, screened
  <2>5. Took(dropped, out, out.rows, read.nulls, screened.dropped, 0, 0)
    <3> DEFINE nulls == Count(taken, "cells_null_skipped", read.nulls)
    <3>1. Took(nulls, out, out.rows, 0 + read.nulls, 0, 0, 0)
      BY <1>1, <1>2, <2>2, CountsOn
    <3>2. 0 + read.nulls = read.nulls /\ 0 + screened.dropped = screened.dropped
      BY <2>2
    <3>3. dropped = Count(nulls, "rows_dropped", screened.dropped)
      BY DEF Tallied
    <3> HIDE DEF nulls, dropped
    <3>4. Took(nulls, out, out.rows, read.nulls, 0, 0, 0)
      BY <3>1, <3>2
    <3>5. Took(Count(nulls, "rows_dropped", screened.dropped), out, out.rows,
               read.nulls, 0 + screened.dropped, 0, 0)
      BY <1>1, <2>2, <3>4, CountsOn
    <3>6. QED  BY <3>2, <3>3, <3>5
  <2> HIDE DEF dropped
  <2>6. CASE screened.rejected
    <3>1. Took(Count(dropped, "records_rejected", 1), out, out.rows,
               read.nulls, screened.dropped, 0 + 1, 0)
      BY <1>1, <2>2, <2>5, CountsOn
    <3>2. QED  BY <2>3, <2>6, <3>1
  <2>7. CASE ~screened.rejected
    BY <2>3, <2>4, <2>5, <2>7 DEF Took
  <2>8. QED  BY <2>2, <2>6, <2>7
<1>7. QED  BY <1>3, <1>5, <1>6

\* What the interpreter has come to after the first records
LEMMA OutputsSteps ==
    ASSUME NEW records \in Seq(Record)
    PROVE  LET after == Outputs(records)
           IN  /\ after[0] = NoOutput
               /\ \A n \in 0 .. Len(records) : after[n] \in Outs
               /\ \A n \in 1 .. Len(records) : after[n] = OneRecord(after[n - 1], records[n], n)
<1> DEFINE after[n \in 0 .. Len(records)] ==
              IF n = 0 THEN NoOutput ELSE OneRecord(after[n - 1], records[n], n)
           step == [n \in 1 .. Len(records) |->
                       [out \in Outs |-> OneRecord(out, records[n], n)]]
           N == Len(records)
<1>1. N \in Nat /\ NoOutput \in Outs
  BY DEF NoOutput, Outs, NoStats
<1>2. step \in [1 .. N -> [Outs -> Outs]]
  <2>1. \A n \in 1 .. N : records[n] \in Record /\ n \in Nat
    OBVIOUS
  <2>2. \A out \in Outs, rec \in Record, n \in Nat : OneRecord(out, rec, n) \in Outs
    BY OneRecordIs
  <2> HIDE DEF N
  <2>3. QED  BY <2>1, <2>2 DEF N
<1>3. PICK f \in [0 .. N -> Outs] :
             f[0] = NoOutput /\ \A n \in 1 .. N : f[n] = step[n][f[n - 1]]
  <2> HIDE DEF step, N
  <2>1. QED  BY <1>1, <1>2, Recursion
<1>4. \A n \in 1 .. N : f[n] = OneRecord(f[n - 1], records[n], n)
  <2> SUFFICES ASSUME NEW n \in 1 .. N  PROVE f[n] = OneRecord(f[n - 1], records[n], n)
    OBVIOUS
  <2>1. f[n - 1] \in Outs
    BY <1>1
  <2>2. QED  BY <1>3, <2>1
<1>5. f = [n \in 0 .. Len(records) |->
              IF n = 0 THEN NoOutput ELSE OneRecord(f[n - 1], records[n], n)]
  <2>1. \A n \in 0 .. N : f[n] = IF n = 0 THEN NoOutput ELSE OneRecord(f[n - 1], records[n], n)
    <3> HIDE DEF N
    <3>1. QED  BY <1>1, <1>3, <1>4
  <2>2. QED  BY <2>1
<1>6. after = [n \in 0 .. Len(records) |->
                 IF n = 0 THEN NoOutput ELSE OneRecord(after[n - 1], records[n], n)]
  BY <1>5, Zenon
<1>7. Outputs(records) = after
  BY Zenon DEF Outputs
<1> HIDE DEF after
<1>8. after[0] = NoOutput
  BY <1>1, <1>6
<1>9. \A n \in 1 .. N : after[n] = OneRecord(after[n - 1], records[n], n)
  BY <1>1, <1>6
<1>10. \A n \in 1 .. N : after[n - 1] \in Outs => after[n] = step[n][after[n - 1]]
  BY <1>9
<1>11. \A n \in 0 .. N : after[n] \in Outs
  <2> HIDE DEF step, N
  <2>1. QED  BY <1>1, <1>2, <1>8, <1>10, Unfolded
<1>12. QED  BY <1>7, <1>8, <1>9, <1>11

(***************************************************************************)
(* Engine and interpreter, side by side                                    *)
(***************************************************************************)

\* Where both stand between records: the same rows and counters, but for the two counters
\* that the interpreter fills in at the end
Untallied(out) == out.stats.rows_emitted = 0 /\ out.stats.rows_suspect = 0

Agrees(st, rs, out) ==
    /\ ~out.raised /\ Untallied(out)
    /\ rs = out.rows
    /\ st.records_in = out.stats.records_in
    /\ st.cells_null_skipped = out.stats.cells_null_skipped
    /\ st.rows_dropped = out.stats.rows_dropped
    /\ st.records_rejected = out.stats.records_rejected
    /\ st.records_unmapped = out.stats.records_unmapped

\* The engine has taken the record that the interpreter takes next ...
SameRecord(out, rs, r, mark) ==
    /\ ~out.raised /\ Untallied(out)
    /\ rs = out.rows
    /\ RecordVerdict(r) \in {"ok", "flag_suspect"}
    /\ mark = ScanRecord(r)

\* ... has read the cells before cl, and found what the interpreter finds in them ...
SameCells(out, st, r, cl, em, rr) ==
    LET read == Reading(r)[cl - 1]
    IN  /\ cl <= Len(Entries(r)) + 1
        /\ ~read.raised
        /\ em = read.candidates
        /\ rr = <<>>
        /\ RecordCounted(st, out.stats, read.nulls, 0, 0, 0)

\* ... or has read them all and screened the first n candidates.
SameBuffer(out, st, r, i, mark, em, rr, n) ==
    LET cs       == Candidates(r)
        screened == Screening(r, i, mark)[n]
    IN  /\ r.readable
        /\ r.shape = "long" => Entries(r) # <<>>
        /\ ~Reading(r)[Len(Entries(r))].raised
        /\ n + Len(em) = Len(cs)
        /\ \A j \in 1 .. Len(em) : em[j] = cs[n + j]
        /\ ~screened.rejected
        /\ rr = screened.rows
        /\ RecordCounted(st, out.stats, Reading(r)[Len(Entries(r))].nulls, screened.dropped, 0, 0)

\* Where the engine stands, told by where the interpreter stands: the inductive invariant
ReferenceInv ==
    /\ TypeOK
    /\ phase = "next" => Agrees(stats, rows, Outputs(input)[current]) /\ stats.rows_emitted = 0
    /\ phase = "done" => /\ Agrees(stats, rows, Outputs(input)[current])
                         /\ current = Len(input) /\ stats.rows_emitted = Len(rows)
    /\ phase \in {"unpivot", "screen"} =>
          SameRecord(Outputs(input)[current - 1], rows, record, flagged)
    /\ phase = "unpivot" =>
          SameCells(Outputs(input)[current - 1], stats, record, cell, emitted, recordRows)
    /\ phase = "screen" =>
          \E n \in Nat : SameBuffer(Outputs(input)[current - 1], stats, record, current, flagged,
                                    emitted, recordRows, n)

\* They start at the same place.
LEMMA ReferenceInit == ASSUME Init  PROVE ReferenceInv
<1>1. TypeOK /\ phase = "next" /\ rows = <<>> /\ input \in Seq(Record) /\ stats = NoStats
  BY InitType, InputType DEF Init
<1>2. Outputs(input)[0] = NoOutput
  BY <1>1, OutputsSteps
<1>3. \A c \in Counters : NoStats[c] = 0
  BY DEF NoStats
<1>4. current = 0
  BY <1>1, <1>3 DEF current, Counters
<1>5. Agrees(stats, rows, NoOutput)
  BY <1>1, <1>3 DEF Agrees, Untallied, NoOutput, Counters
<1>6. stats.rows_emitted = 0
  BY <1>1, <1>3 DEF Counters
<1>7. QED  BY <1>1, <1>2, <1>4, <1>5, <1>6 DEF ReferenceInv

\* The interpreter has come to the end of the record that the engine has dealt with.
LEMMA TookAgrees ==
    ASSUME NEW st, NEW rs, NEW out \in Outs, Untallied(out), NEW next,
           NEW nulls, NEW dropped, NEW rejected, NEW unmapped,
           Took(next, out, rs, nulls, dropped, rejected, unmapped),
           RecordCounted(st, out.stats, nulls, dropped, rejected, unmapped)
    PROVE  Agrees(st, rs, next) /\ st.rows_emitted = 0
BY DEF Took, RecordCounted, Agrees, Untallied

\* What there is of a record in hand
InTurn(k, r, out) ==
    /\ k \in Nat \ {0} /\ k = current /\ r = record /\ out = Outputs(input)[current - 1]
    /\ r \in Record /\ out \in Outs
    /\ Outputs(input)[current] = OneRecord(out, r, k)
    /\ ScanRecord(r) \in {"ok", "suspect"}
    /\ SameRecord(out, rows, r, flagged)

\* While a record is in hand the invariant names it and what the interpreter had before it.
LEMMA TurnOf ==
    ASSUME ReferenceInv, phase \in {"unpivot", "screen"}
    PROVE  \E k, r, out :
              /\ InTurn(k, r, out)
              /\ phase = "unpivot" => SameCells(out, stats, r, cell, emitted, recordRows)
              /\ phase = "screen" =>
                    \E n \in Nat : SameBuffer(out, stats, r, k, flagged, emitted, recordRows, n)
<1>1. TypeOK /\ input \in Seq(Record) /\ current \in 1 .. Len(input) /\ Len(input) \in Nat
  BY InputType DEF ReferenceInv, TypeOK
<1>2. PICK out : out = Outputs(input)[current - 1]
  OBVIOUS
<1>3. /\ current - 1 \in 0 .. Len(input) /\ current \in Nat \ {0} /\ record = input[current]
      /\ record \in Record
  BY <1>1 DEF record
<1>4. out \in Outs /\ Outputs(input)[current] = OneRecord(out, record, current)
  BY <1>1, <1>2, <1>3, OutputsSteps
<1>5. SameRecord(out, rows, record, flagged)
  BY <1>2 DEF ReferenceInv
<1>6. ScanRecord(record) \in {"ok", "suspect"}
  BY <1>1, <1>5 DEF SameRecord, TypeOK
<1>7. InTurn(current, record, out)
  BY <1>2, <1>3, <1>4, <1>5, <1>6 DEF InTurn
<1>8. QED  BY <1>2, <1>7 DEF ReferenceInv

\* A step that stays with the record, and one that ends it
LEMMA StaysInTurn ==
    ASSUME NEW k, NEW r, NEW out, InTurn(k, r, out), TypeOK', current' = current,
           UNCHANGED <<input, rows, flagged>>, phase' \in {"unpivot", "screen"},
           phase' = "unpivot" => SameCells(out, stats', r, cell', emitted', recordRows'),
           phase' = "screen" =>
              \E n \in Nat : SameBuffer(out, stats', r, k, flagged, emitted', recordRows', n)
    PROVE  ReferenceInv'
<1>1. record' = record /\ Outputs(input)[current - 1]' = Outputs(input)[current - 1]
  BY DEF record
<1>2. QED  BY <1>1 DEF ReferenceInv, InTurn

\* A step after which the interpreter has taken the record too
LEMMA EndsTurn ==
    ASSUME NEW k, NEW r, NEW out, InTurn(k, r, out), TypeOK', current' = current, input' = input,
           phase' = "next",
           NEW nulls, NEW dropped, NEW rejected, NEW unmapped,
           Took(OneRecord(out, r, k), out, rows', nulls, dropped, rejected, unmapped),
           RecordCounted(stats', out.stats, nulls, dropped, rejected, unmapped)
    PROVE  ReferenceInv'
<1>1. Agrees(stats', rows', OneRecord(out, r, k)) /\ stats'.rows_emitted = 0
  BY TookAgrees DEF InTurn, SameRecord
<1>2. Outputs(input')[current'] = OneRecord(out, r, k)
  BY DEF InTurn
<1>3. QED  BY <1>1, <1>2 DEF ReferenceInv

\* The next record is taken by both; one that a record rule discards is done with.
LEMMA StartRecordAgrees ==
    ASSUME ReferenceInv, StartRecord, TypeOK'
    PROVE  ReferenceInv'
<1>1. /\ TypeOK /\ input \in Seq(Record) /\ Len(input) \in Nat
      /\ phase = "next" /\ current \in Nat /\ current < Len(input)
  BY InputType DEF ReferenceInv, TypeOK, StartRecord
<1>2. /\ input' = input /\ rows' = rows /\ cell' = 1 /\ emitted' = <<>> /\ recordRows' = <<>>
  BY DEF StartRecord
<1>3. PICK k, r, out : k = current + 1 /\ r = input[k] /\ out = Outputs(input)[current]
  OBVIOUS
<1>4. /\ k \in Nat /\ k \in 1 .. Len(input) /\ k - 1 = current /\ current \in 0 .. Len(input)
      /\ k - 1 \in 0 .. Len(input)
  BY <1>1, <1>3
<1>5. r \in Record /\ out \in Outs /\ Outputs(input)[k] = OneRecord(out, r, k)
  <2>1. Outputs(input)[k] = OneRecord(Outputs(input)[k - 1], input[k], k)
    BY <1>1, <1>4, OutputsSteps
  <2>2. out \in Outs
    BY <1>1, <1>3, <1>4, OutputsSteps
  <2>3. QED  BY <1>1, <1>3, <1>4, <2>1, <2>2
<1>6. Agrees(stats, rows, out) /\ stats.rows_emitted = 0 /\ ~out.raised /\ Untallied(out)
  BY <1>1, <1>3 DEF ReferenceInv, Agrees
<1>7. /\ stats'.records_in = stats.records_in + 1
      /\ stats'.records_rejected = stats.records_rejected
            + (IF DiscardsRecord(RecordVerdict(r)) THEN 1 ELSE 0)
      /\ Same({"records_in", "records_rejected"})
  BY <1>1, <1>3, StartRecordCounts
<1>8. /\ current' = k /\ record' = r
  BY <1>2, <1>3, <1>7 DEF current, record
<1>9. /\ stats'.cells_null_skipped = stats.cells_null_skipped
      /\ stats'.rows_dropped = stats.rows_dropped
      /\ stats'.records_unmapped = stats.records_unmapped
      /\ stats'.rows_emitted = stats.rows_emitted
  BY <1>7 DEF Same, Counters
<1>10. RecordCounted(stats', out.stats, 0, 0,
                     IF DiscardsRecord(RecordVerdict(r)) THEN 1 ELSE 0, 0)
  <2>1. out.stats \in [Counters -> Int] /\ stats \in [Counters -> Int]
    BY <1>1, <1>5 DEF Outs, TypeOK
  <2>2. /\ out.stats.cells_null_skipped \in Int /\ out.stats.rows_dropped \in Int
        /\ out.stats.records_unmapped \in Int
    BY <2>1, CountersAre
  <2>3. QED  BY <1>6, <1>7, <1>9, <2>2 DEF RecordCounted, Agrees, Untallied
<1>11. LET verdict == RecordVerdict(r)
       IN  /\ verdict \in {"ok", "flag_suspect", "drop_row", "reject_row", "raise"}
           /\ verdict = "ok" => ScanRecord(r) = "ok"
           /\ verdict = "flag_suspect" => ScanRecord(r) = "suspect"
  BY <1>5, RecordVerdictIs
<1>12. CASE RecordVerdict(r) \in {"drop_row", "reject_row"}
  <2>1. phase' = "next" /\ DiscardsRecord(RecordVerdict(r))
    BY <1>3, <1>12 DEF StartRecord, DiscardsRecord
  <2>2. Took(OneRecord(out, r, k), out, rows', 0, 0, 1, 0)
    BY <1>2, <1>4, <1>5, <1>6, <1>12, RecordDone DEF Agrees
  <2>3. RecordCounted(stats', out.stats, 0, 0, 1, 0)
    BY <1>10, <2>1
  <2>4. Agrees(stats', rows', OneRecord(out, r, k)) /\ stats'.rows_emitted = 0
    BY <1>5, <1>6, <2>2, <2>3, TookAgrees
  <2>5. QED  BY <1>2, <1>5, <1>8, <2>1, <2>4 DEF ReferenceInv
<1>13. CASE RecordVerdict(r) = "raise"
  <2>1. phase' = "raised"
    BY <1>3, <1>13 DEF StartRecord, DiscardsRecord
  <2>2. QED  BY <2>1 DEF ReferenceInv
<1>14. CASE RecordVerdict(r) \in {"ok", "flag_suspect"}
  <2>1. phase' = "unpivot" /\ flagged' = ScanRecord(r) /\ ~DiscardsRecord(RecordVerdict(r))
    BY <1>3, <1>11, <1>14 DEF StartRecord, DiscardsRecord
  <2>2. SameRecord(out, rows', r, flagged')
    BY <1>2, <1>6, <1>14, <2>1 DEF SameRecord, Agrees
  <2>3. Reading(r)[1 - 1] = NoCells /\ Len(Entries(r)) \in Nat
    BY <1>5, ReadingSteps, TargetsAreEntries
  <2>4. RecordCounted(stats', out.stats, 0, 0, 0, 0)
    BY <1>10, <2>1
  <2>5. SameCells(out, stats', r, 1, <<>>, <<>>)
    BY <2>3, <2>4 DEF SameCells, NoCells
  <2>6. Outputs(input')[current' - 1] = out
    BY <1>2, <1>3, <1>4, <1>8
  <2>7. QED  BY <1>2, <1>8, <2>1, <2>2, <2>5, <2>6 DEF ReferenceInv
<1>15. QED  BY <1>11, <1>12, <1>13, <1>14

\* A key the mapping does not know: one count in both
LEMMA UnmappedAgrees ==
    ASSUME ReferenceInv, Unmapped, TypeOK'
    PROVE  ReferenceInv'
<1>1. TypeOK /\ phase = "unpivot"
  BY DEF ReferenceInv, Unmapped
<1>2. PICK k, r, out : /\ InTurn(k, r, out)
                       /\ SameCells(out, stats, r, cell, emitted, recordRows)
  BY <1>1, TurnOf
<1>3. /\ r = record /\ r \in Record /\ out \in Outs /\ k \in Nat
      /\ SameRecord(out, rows, r, flagged)
  BY <1>2 DEF InTurn
<1>4. r.readable /\ r.shape = "long" /\ Entries(r) = <<>>
  BY <1>3 DEF Unmapped, Readable
<1>5. /\ stats'.records_unmapped = stats.records_unmapped + 1
      /\ Same({"records_unmapped"})
  BY <1>1, UnmappedCounts
<1>6. current' = current /\ rows' = rows /\ input' = input /\ phase' = "next"
  BY <1>5 DEF Same, current, Unmapped, Counters
<1>7. Took(OneRecord(out, r, k), out, rows', 0, 0, 0, 1)
  BY <1>3, <1>4, <1>6, RecordDone DEF SameRecord
<1>8. RecordCounted(stats, out.stats, 0, 0, 0, 0)
  <2>1. cell \in Nat \ {0} /\ cell <= 0 + 1
    BY <1>1, <1>2, <1>4 DEF TypeOK, SameCells
  <2>2. cell - 1 = 0
    BY <2>1
  <2>3. Reading(r)[cell - 1] = NoCells
    BY <1>3, <2>2, ReadingSteps
  <2>4. QED  BY <1>2, <2>3 DEF SameCells, NoCells
<1>9. RecordCounted(stats', out.stats, 0, 0, 0, 1)
  <2>1. out.stats.records_unmapped \in Int
    BY <1>3, CountersAre DEF Outs
  <2>2. QED  BY <1>5, <1>8, <2>1 DEF RecordCounted, Same, Counters
<1>10. QED  BY <1>2, <1>6, <1>7, <1>9, EndsTurn

\* What the next cell says to both
LEMMA CellAgrees ==
    ASSUME NEW r \in Record, NEW cl \in DOMAIN Entries(r), ~Reading(r)[cl - 1].raised
    PROVE  LET raw   == r.cells[Entries(r)[cl].src]
               value == ApplyTransform(Entries(r)[cl], r.meter, raw)
               acc   == Reading(r)[cl - 1]
               next  == Reading(r)[cl]
           IN  /\ acc \in CellsRead /\ next \in CellsRead
               /\ raw # Null => value \in Int \cup {Null, Junk}
               /\ raw = Null => /\ next.candidates = acc.candidates /\ ~next.raised
                                /\ next.nulls = acc.nulls + 1
               /\ raw # Null /\ value = Null => next = acc
               /\ raw # Null /\ value \notin {Null, Junk} =>
                     /\ next.candidates = Append(acc.candidates, [entry |-> Entries(r)[cl],
                                                                  value |-> value])
                     /\ ~next.raised /\ next.nulls = acc.nulls
<1>1. /\ Entries(r) \in Seq(Entry) /\ cl - 1 \in 0 .. Len(Entries(r)) /\ cl \in 0 .. Len(Entries(r))
      /\ cl \in 1 .. Len(Entries(r))
  BY EntriesType
<1>2. PICK entry, raw, value, acc, next :
         /\ entry = Entries(r)[cl] /\ raw = r.cells[entry.src]
         /\ value = ApplyTransform(entry, r.meter, raw)
         /\ acc = Reading(r)[cl - 1] /\ next = Reading(r)[cl]
  OBVIOUS
<1>3. entry \in Entry
  BY <1>1, <1>2
<1>4. acc \in CellsRead /\ next \in CellsRead
  BY <1>1, <1>2, ReadingSteps
<1>5. next = TakeCell(acc, entry, r)
  BY <1>1, <1>2, ReadingSteps
<1>6. ~acc.raised
  BY <1>2
<1>7. raw \in Numbers \cup {Null, Junk} /\ r.meter \in DOMAIN DeviceFactors
  BY <1>2, <1>3 DEF Record, Entry
<1>8. raw # Null => value \in Int \cup {Null, Junk}
  BY <1>2, <1>3, <1>7, ApplyTransformType
<1>9. /\ raw = Null => next = [acc EXCEPT !.nulls = @ + 1]
      /\ raw # Null /\ value = Null => next = acc
      /\ raw # Null /\ value \notin {Null, Junk} =>
            next = [acc EXCEPT !.candidates =
                       Append(@, [entry |-> entry, value |-> value])]
  <2>1. LET v == r.cells[entry.src]
            w == ApplyTransform(entry, r.meter, v)
        IN  /\ ~acc.raised /\ v = Null => TakeCell(acc, entry, r) = [acc EXCEPT !.nulls = @ + 1]
            /\ ~acc.raised /\ v # Null /\ w = Null => TakeCell(acc, entry, r) = acc
            /\ ~acc.raised /\ v # Null /\ w \notin {Null, Junk} =>
                  TakeCell(acc, entry, r) = [acc EXCEPT !.candidates =
                     Append(@, [entry |-> entry, value |-> w])]
    BY <1>3, <1>4, TakeCellIs, Zenon
  <2>2. QED  BY <1>2, <1>5, <1>6, <2>1, Zenon
<1>10. raw = Null => /\ next.candidates = acc.candidates /\ ~next.raised
                     /\ next.nulls = acc.nulls + 1
  BY <1>4, <1>6, <1>9 DEF CellsRead
<1>11. raw # Null /\ value \notin {Null, Junk} =>
          /\ next.candidates = Append(acc.candidates, [entry |-> entry, value |-> value])
          /\ ~next.raised /\ next.nulls = acc.nulls
  BY <1>4, <1>6, <1>9 DEF CellsRead
<1>12. QED  BY <1>2, <1>4, <1>8, <1>9, <1>10, <1>11

\* One cell read by both; a null reading of a long source is the end of its record.
LEMMA UnpivotCellAgrees ==
    ASSUME ReferenceInv, UnpivotCell, TypeOK'
    PROVE  ReferenceInv'
<1>1. TypeOK /\ phase = "unpivot" /\ cell \in Nat \ {0}
  BY DEF ReferenceInv, UnpivotCell, TypeOK
<1>2. PICK k, r, out : /\ InTurn(k, r, out)
                       /\ SameCells(out, stats, r, cell, emitted, recordRows)
  BY <1>1, TurnOf
<1>3. /\ r = record /\ r \in Record /\ out \in Outs /\ k \in Nat
      /\ SameRecord(out, rows, r, flagged)
  BY <1>2 DEF InTurn
<1>4. r.readable /\ cell \in DOMAIN Entries(r)
  BY <1>3 DEF UnpivotCell, Readable
<1>5. /\ Entries(r) \in Seq(Entry) /\ cell \in 1 .. Len(Entries(r)) /\ Len(Entries(r)) \in Nat
      /\ (cell + 1) - 1 = cell /\ cell + 1 <= Len(Entries(r)) + 1
  BY <1>4, EntriesType
<1>6. PICK raw, value, acc, next :
         /\ raw = r.cells[Entries(r)[cell].src]
         /\ value = ApplyTransform(Entries(r)[cell], r.meter, raw)
         /\ acc = Reading(r)[cell - 1] /\ next = Reading(r)[cell]
  OBVIOUS
<1>7. /\ acc \in CellsRead /\ next \in CellsRead
      /\ raw # Null => value \in Int \cup {Null, Junk}
      /\ raw = Null => /\ next.candidates = acc.candidates /\ ~next.raised
                       /\ next.nulls = acc.nulls + 1
      /\ raw # Null /\ value = Null => next = acc
      /\ raw # Null /\ value \notin {Null, Junk} =>
            /\ next.candidates = Append(acc.candidates, [entry |-> Entries(r)[cell],
                                                         value |-> value])
            /\ ~next.raised /\ next.nulls = acc.nulls
  <2>1. LET v == r.cells[Entries(r)[cell].src]
            w == ApplyTransform(Entries(r)[cell], r.meter, v)
            a == Reading(r)[cell - 1]
            n == Reading(r)[cell]
        IN  /\ a \in CellsRead /\ n \in CellsRead
            /\ v # Null => w \in Int \cup {Null, Junk}
            /\ v = Null => /\ n.candidates = a.candidates /\ ~n.raised /\ n.nulls = a.nulls + 1
            /\ v # Null /\ w = Null => n = a
            /\ v # Null /\ w \notin {Null, Junk} =>
                  /\ n.candidates = Append(a.candidates, [entry |-> Entries(r)[cell],
                                                          value |-> w])
                  /\ ~n.raised /\ n.nulls = a.nulls
    <3>1. ~Reading(r)[cell - 1].raised
      BY <1>2 DEF SameCells
    <3>2. QED  BY <1>3, <1>4, <3>1, CellAgrees
  <2>2. QED  BY <1>6, <2>1, Zenon
<1>8. /\ phase' = (CASE raw = Null /\ r.shape = "long" -> "next"
                     [] raw # Null /\ value = Junk -> "raised"
                     [] OTHER -> "unpivot")
      /\ emitted' = (IF raw = Null \/ value \in {Null, Junk} THEN emitted
                     ELSE Append(emitted, [entry |-> Entries(r)[cell], value |-> value]))
      /\ cell' = cell + 1
      /\ UNCHANGED <<input, flagged, recordRows, rows>>
  BY <1>3, <1>6 DEF UnpivotCell
<1>9. /\ stats'.cells_null_skipped = stats.cells_null_skipped + (IF raw = Null THEN 1 ELSE 0)
      /\ Same({"cells_null_skipped"})
  BY <1>1, <1>3, <1>6, UnpivotCellCounts
<1>10. current' = current
  BY <1>9 DEF Same, current, Counters
<1>11. /\ ~acc.raised /\ emitted = acc.candidates /\ recordRows = <<>>
       /\ RecordCounted(stats, out.stats, acc.nulls, 0, 0, 0)
  BY <1>2, <1>6 DEF SameCells
<1>12. /\ raw = Null => RecordCounted(stats', out.stats, acc.nulls + 1, 0, 0, 0)
       /\ raw # Null => RecordCounted(stats', out.stats, acc.nulls, 0, 0, 0)
  <2>1. out.stats.cells_null_skipped \in Int /\ acc.nulls \in Int
    BY <1>3, <1>7, CountersAre DEF Outs, CellsRead
  <2>2. /\ stats'.records_in = stats.records_in /\ stats'.rows_dropped = stats.rows_dropped
        /\ stats'.records_rejected = stats.records_rejected
        /\ stats'.records_unmapped = stats.records_unmapped
        /\ stats'.rows_emitted = stats.rows_emitted
    BY <1>9 DEF Same, Counters
  <2>3. QED  BY <1>9, <1>11, <2>1, <2>2 DEF RecordCounted
<1>13. CASE raw = Null /\ r.shape = "long"
  <2>1. Len(Entries(r)) = 1 /\ cell = 1 /\ cell - 1 = 0 /\ Entries(r) # <<>>
    <3>1. Len(Entries(r)) \in {0, 1} /\ (Len(Entries(r)) = 0 <=> Entries(r) = <<>>)
      BY <1>13, LongEntries, Zenon
    <3>2. PICK L : L = Len(Entries(r))
      OBVIOUS
    <3>3. L \in {0, 1} /\ cell \in 1 .. L
      BY <1>5, <3>1, <3>2, Zenon
    <3>4. L = 1 /\ cell = 1 /\ cell - 1 = 0
      BY <3>3
    <3>5. QED  BY <3>1, <3>2, <3>4
  <2>2. acc = NoCells
    BY <1>3, <1>6, <2>1, ReadingSteps
  <2>3. next = Reading(r)[Len(Entries(r))] /\ next.candidates = <<>> /\ ~next.raised
    BY <1>6, <1>7, <1>13, <2>1, <2>2 DEF NoCells
  <2>4. Candidates(r) = <<>> /\ Len(Candidates(r)) = 0
    BY <1>3, <2>3, CandidatesType DEF Candidates
  <2>5. ScanRecord(r) \in {"ok", "suspect"}
    BY <1>2 DEF InTurn
  <2>6. Screening(r, k, ScanRecord(r))[Len(Candidates(r))] = NoRows
    BY <1>3, <2>4, <2>5, ScreeningSteps
  <2>7. Took(OneRecord(out, r, k), out, out.rows \o <<>>, next.nulls, 0, 0, 0)
    <3>1. /\ RecordVerdict(r) \in {"ok", "flag_suspect"} /\ ~out.raised
      BY <1>3 DEF SameRecord
    <3>2. ~NoRows.rejected /\ NoRows.rows = <<>> /\ NoRows.dropped = 0
      BY DEF NoRows
    <3>3. LET read     == Reading(r)[Len(Entries(r))]
              screened == Screening(r, k, ScanRecord(r))[Len(Candidates(r))]
          IN  ~read.raised /\ ~screened.rejected =>
                 Took(OneRecord(out, r, k), out, out.rows \o screened.rows,
                      read.nulls, screened.dropped, 0, 0)
      BY <1>3, <1>4, <2>1, <3>1, RecordDone
    <3>4. QED  BY <2>3, <2>6, <3>2, <3>3
  <2>8. out.rows \o <<>> = rows'
    <3>1. out.rows \in Seq(Row) /\ rows' = out.rows
      BY <1>3, <1>8 DEF SameRecord, Outs
    <3>2. QED  BY <3>1
  <2>9. phase' = "next" /\ RecordCounted(stats', out.stats, next.nulls, 0, 0, 0)
    BY <1>7, <1>8, <1>12, <1>13
  <2>10. QED  BY <1>2, <1>8, <1>10, <2>7, <2>8, <2>9, EndsTurn
<1>14. CASE raw # Null /\ value = Junk
  <2>1. phase' = "raised"
    BY <1>8, <1>14
  <2>2. QED  BY <2>1 DEF ReferenceInv
<1>15. CASE ~(raw = Null /\ r.shape = "long") /\ ~(raw # Null /\ value = Junk)
  <2>1. phase' = "unpivot"
    BY <1>8, <1>15
  <2>2. /\ ~next.raised /\ emitted' = next.candidates
        /\ RecordCounted(stats', out.stats, next.nulls, 0, 0, 0)
    <3>1. CASE raw = Null
      BY <1>7, <1>8, <1>11, <1>12, <3>1
    <3>2. CASE raw # Null /\ value = Null
      BY <1>7, <1>8, <1>11, <1>12, <3>2
    <3>3. CASE raw # Null /\ value \notin {Null, Junk}
      BY <1>7, <1>8, <1>11, <1>12, <3>3
    <3>4. QED  BY <1>15, <3>1, <3>2, <3>3
  <2>3. SameCells(out, stats', r, cell', emitted', recordRows')
    BY <1>5, <1>6, <1>8, <1>11, <2>2 DEF SameCells
  <2>4. QED  BY <1>2, <1>8, <1>10, <2>1, <2>3, StaysInTurn
<1>16. QED  BY <1>13, <1>14, <1>15

\* The engine's values are the interpreter's candidates.
LEMMA EndUnpivotAgrees ==
    ASSUME ReferenceInv, EndUnpivot, TypeOK'
    PROVE  ReferenceInv'
<1>1. TypeOK /\ phase = "unpivot" /\ cell \in Nat \ {0}
  BY DEF ReferenceInv, EndUnpivot, TypeOK
<1>2. PICK k, r, out : /\ InTurn(k, r, out)
                       /\ SameCells(out, stats, r, cell, emitted, recordRows)
  BY <1>1, TurnOf
<1>3. /\ r = record /\ r \in Record /\ out \in Outs /\ k \in Nat
      /\ SameRecord(out, rows, r, flagged) /\ ScanRecord(r) \in {"ok", "suspect"}
      /\ flagged = ScanRecord(r)
  BY <1>2 DEF InTurn, SameRecord
<1>4. /\ r.readable /\ cell > Len(Entries(r)) /\ (r.shape = "long" => Entries(r) # <<>>)
      /\ phase' = "screen" /\ UNCHANGED <<input, flagged, cell, emitted, recordRows, rows, stats>>
  BY <1>3 DEF EndUnpivot, Readable
<1>5. cell - 1 = Len(Entries(r))
  BY <1>1, <1>2, <1>4, EntriesType DEF SameCells
<1>6. PICK read, cs, screened : /\ read = Reading(r)[Len(Entries(r))] /\ cs = Candidates(r)
                                /\ screened = Screening(r, k, flagged)[0]
  OBVIOUS
<1>7. cs \in Seq(Emission) /\ cs = read.candidates /\ screened = NoRows
  BY <1>3, <1>6, CandidatesType, ScreeningSteps DEF Candidates
<1>8. /\ ~read.raised /\ emitted = cs /\ recordRows = <<>>
      /\ RecordCounted(stats, out.stats, read.nulls, 0, 0, 0)
  BY <1>2, <1>5, <1>6, <1>7 DEF SameCells
<1>9. 0 + Len(emitted) = Len(cs) /\ \A j \in 1 .. Len(emitted) : emitted[j] = cs[0 + j]
  BY <1>7, <1>8
<1>10. SameBuffer(out, stats, r, k, flagged, emitted, recordRows, 0)
  BY <1>4, <1>6, <1>7, <1>8, <1>9 DEF SameBuffer, NoRows
<1>11. SameBuffer(out, stats', r, k, flagged, emitted', recordRows', 0) /\ 0 \in Nat
  BY <1>4, <1>10
<1>12. current' = current
  BY <1>4 DEF current
<1>13. QED  BY <1>2, <1>4, <1>11, <1>12, StaysInTurn

\* Screening in hand: n candidates are through, and the values still to be screened
\* are the others.
InScreen(k, r, out, n, mark, read, acc, em) ==
    /\ InTurn(k, r, out) /\ k = current /\ r = record /\ r \in Record /\ out \in Outs
    /\ em = emitted /\ em \in Seq(Emission)
    /\ k \in Nat /\ n \in Nat /\ mark = flagged /\ mark \in {"ok", "suspect"}
    /\ mark = ScanRecord(r) /\ RecordVerdict(r) \in {"ok", "flag_suspect"}
    /\ ~out.raised /\ rows = out.rows
    /\ read = Reading(r)[Len(Entries(r))] /\ read \in CellsRead
    /\ acc = Screening(r, k, mark)[n] /\ acc \in Buffers
    /\ r.readable /\ (r.shape = "long" => Entries(r) # <<>>) /\ ~read.raised
    /\ n + Len(em) = Len(Candidates(r))
    /\ \A j \in 1 .. Len(em) : em[j] = Candidates(r)[n + j]
    /\ ~acc.rejected /\ recordRows = acc.rows
    /\ RecordCounted(stats, out.stats, read.nulls, acc.dropped, 0, 0)

\* While the engine screens, the invariant says how many candidates are through.
LEMMA ScreenTurn ==
    ASSUME ReferenceInv, phase = "screen"
    PROVE  \E k, r, out, n, mark, read, acc, em : InScreen(k, r, out, n, mark, read, acc, em)
<1>1. PICK k, r, out : /\ InTurn(k, r, out)
                       /\ \E n \in Nat : SameBuffer(out, stats, r, k, flagged, emitted, recordRows, n)
  BY TurnOf
<1>2. PICK n \in Nat : SameBuffer(out, stats, r, k, flagged, emitted, recordRows, n)
  BY <1>1
<1>3. /\ k = current /\ r = record /\ r \in Record /\ out \in Outs /\ k \in Nat
      /\ SameRecord(out, rows, r, flagged)
  BY <1>1 DEF InTurn
<1>4. PICK mark, read, acc, em : /\ mark = flagged /\ read = Reading(r)[Len(Entries(r))]
                                 /\ acc = Screening(r, k, mark)[n] /\ em = emitted
  OBVIOUS
<1>5. mark \in {"ok", "suspect"} /\ em \in Seq(Emission)
  BY <1>4 DEF ReferenceInv, TypeOK
<1>6. n \in 0 .. Len(Candidates(r)) /\ Len(Entries(r)) \in 0 .. Len(Entries(r))
  <2>1. Candidates(r) \in Seq(Emission) /\ n + Len(em) = Len(Candidates(r))
    BY <1>2, <1>3, <1>4, CandidatesType DEF SameBuffer
  <2>2. Entries(r) \in Seq(Entry)
    BY EntriesType
  <2>3. QED  BY <1>5, <2>1, <2>2
<1>7. read \in CellsRead /\ acc \in Buffers
  BY <1>3, <1>4, <1>5, <1>6, ReadingSteps, ScreeningSteps
<1>8. /\ mark = ScanRecord(r) /\ RecordVerdict(r) \in {"ok", "flag_suspect"}
      /\ ~out.raised /\ rows = out.rows
  BY <1>3, <1>4 DEF SameRecord
<1>9. /\ r.readable /\ (r.shape = "long" => Entries(r) # <<>>) /\ ~read.raised
      /\ n + Len(em) = Len(Candidates(r))
      /\ \A j \in 1 .. Len(em) : em[j] = Candidates(r)[n + j]
      /\ ~acc.rejected /\ recordRows = acc.rows
      /\ RecordCounted(stats, out.stats, read.nulls, acc.dropped, 0, 0)
  BY <1>2, <1>4 DEF SameBuffer
<1>10. InScreen(k, r, out, n, mark, read, acc, em)
  BY <1>1, <1>3, <1>4, <1>5, <1>7, <1>8, <1>9 DEF InScreen
<1>11. QED  BY <1>10

\* The other values follow once the first has been screened.
LEMMA TailAgrees ==
    ASSUME NEW em \in Seq(Emission), em # <<>>, NEW cs \in Seq(Emission), NEW n \in Nat,
           n + Len(em) = Len(cs), \A j \in 1 .. Len(em) : em[j] = cs[n + j]
    PROVE  /\ (n + 1) + Len(Tail(em)) = Len(cs)
           /\ \A j \in 1 .. Len(Tail(em)) : Tail(em)[j] = cs[(n + 1) + j]
<1>1. /\ Len(em) \in Nat \ {0} /\ Len(Tail(em)) = Len(em) - 1
      /\ \A j \in 1 .. Len(Tail(em)) : Tail(em)[j] = em[j + 1]
  OBVIOUS
<1>2. ASSUME NEW j \in 1 .. Len(Tail(em))  PROVE Tail(em)[j] = cs[(n + 1) + j]
  <2>1. j + 1 \in 1 .. Len(em) /\ n + (j + 1) = (n + 1) + j
    BY <1>1
  <2>2. em[j + 1] = cs[n + (j + 1)]
    BY <2>1
  <2>3. QED  BY <1>1, <2>1, <2>2
<1>3. QED  BY <1>1, <1>2

\* The quality of a row of this verdict
Quality(mark, verdict) == IF mark = "suspect" \/ verdict = "flag_suspect" THEN "suspect" ELSE "ok"

\* The interpreter has come from acc to next by a candidate of this verdict.
ScreenedAs(verdict, next, acc, k, c, mark) ==
    /\ verdict \in {"ok", "flag_suspect"} =>
          /\ next.rows = Append(acc.rows, [rec |-> k, entry |-> c.entry, value |-> c.value,
                                           quality |-> Quality(mark, verdict)])
          /\ next.dropped = acc.dropped /\ ~next.rejected
    /\ verdict = "drop_row" =>
          next.rows = acc.rows /\ next.dropped = acc.dropped + 1 /\ ~next.rejected
    /\ verdict = "reject_row" => next.dropped = acc.dropped /\ next.rejected

\* What the next candidate, the head of the values still to be screened, says to both
LEMMA CandidateAgrees ==
    ASSUME NEW k, NEW r, NEW out, NEW n, NEW mark, NEW read, NEW acc, NEW em,
           InScreen(k, r, out, n, mark, read, acc, em), em # <<>>
    PROVE  \E c, verdict, next :
              /\ c = Head(em) /\ verdict = QuantityVerdict(c.entry.quantity, c.value)
              /\ next = Screening(r, k, mark)[n + 1]
              /\ n + 1 \in 0 .. Len(Candidates(r))
              /\ ScreenedAs(verdict, next, acc, k, c, mark)
<1>1. /\ r \in Record /\ k \in Nat /\ mark \in {"ok", "suspect"} /\ n \in Nat
      /\ em \in Seq(Emission) /\ n + Len(em) = Len(Candidates(r))
      /\ \A j \in 1 .. Len(em) : em[j] = Candidates(r)[n + j]
      /\ acc = Screening(r, k, mark)[n] /\ ~acc.rejected
  BY DEF InScreen
<1>2. PICK c, verdict, next, cs, mark2, quality :
         /\ c = Head(em) /\ verdict = QuantityVerdict(c.entry.quantity, c.value)
         /\ next = Screening(r, k, mark)[n + 1]
         /\ cs = Candidates(r) /\ mark2 = ScanValue(c, mark)
         /\ quality = Quality(mark, verdict)
  OBVIOUS
<1>3. /\ cs \in Seq(Emission) /\ n \in 0 .. Len(cs) /\ n + 1 \in 1 .. Len(cs)
      /\ n + 1 \in 0 .. Len(cs) /\ (n + 1) - 1 = n
      /\ c \in Emission /\ c = cs[n + 1]
  <2>1. cs \in Seq(Emission)
    BY <1>1, <1>2, CandidatesType
  <2>2. Len(em) \in Nat \ {0} /\ c = em[1] /\ c \in Emission
    BY <1>1, <1>2
  <2>3. QED  BY <1>1, <1>2, <2>1, <2>2
<1>4. acc \in Buffers /\ next \in Buffers /\ ~acc.rejected
  BY <1>1, <1>2, <1>3, ScreeningSteps
<1>5. next = TakeCandidate(acc, k, c, mark2)
  BY <1>1, <1>2, <1>3, ScreeningSteps
<1>6. /\ verdict \in {"ok", "flag_suspect", "drop_row", "reject_row"}
      /\ verdict = "ok" => mark2 = mark
      /\ verdict = "flag_suspect" => mark2 = "suspect"
      /\ verdict \in {"drop_row", "reject_row"} => mark2 = verdict
  <2>1. LET v == QuantityVerdict(c.entry.quantity, c.value)
        IN  /\ v \in {"ok", "flag_suspect", "drop_row", "reject_row"}
            /\ ScanValue(c, mark) = CASE v = "ok" -> mark
                                      [] v = "flag_suspect" -> "suspect"
                                      [] OTHER -> v
    BY <1>1, <1>3, ScanValueIs
  <2>2. verdict = QuantityVerdict(c.entry.quantity, c.value)
    BY <1>2
  <2>3. QED  BY <1>2, <2>1, <2>2
<1>7. ASSUME verdict \in {"ok", "flag_suspect"}
      PROVE  /\ next.rows = Append(acc.rows, [rec |-> k, entry |-> c.entry,
                                              value |-> c.value, quality |-> quality])
             /\ next.dropped = acc.dropped /\ ~next.rejected
  <2>1. mark2 = quality /\ quality \in {"ok", "suspect"}
    BY <1>1, <1>2, <1>6, <1>7 DEF Quality
  <2>2. PICK row : row = [rec |-> k, entry |-> c.entry, value |-> c.value,
                          quality |-> quality]
    OBVIOUS
  <2>3. next = [acc EXCEPT !.rows = Append(@, row)]
    BY <1>4, <1>5, <2>1, <2>2 DEF TakeCandidate
  <2>4. next.rows = Append(acc.rows, row) /\ next.dropped = acc.dropped /\ ~next.rejected
    BY <1>4, <2>3 DEF Buffers
  <2>5. QED  BY <2>2, <2>4
<1>8. ASSUME verdict = "drop_row"
      PROVE  next.rows = acc.rows /\ next.dropped = acc.dropped + 1 /\ ~next.rejected
  <2>1. next = [acc EXCEPT !.dropped = @ + 1]
    BY <1>4, <1>5, <1>6, <1>8 DEF TakeCandidate
  <2>2. QED  BY <1>4, <2>1 DEF Buffers
<1>9. ASSUME verdict = "reject_row"
      PROVE  next.dropped = acc.dropped /\ next.rejected
  <2>1. next = [acc EXCEPT !.rejected = TRUE]
    BY <1>4, <1>5, <1>6, <1>9 DEF TakeCandidate
  <2>2. QED  BY <1>4, <2>1 DEF Buffers
<1>10. ScreenedAs(verdict, next, acc, k, c, mark)
  BY <1>2, <1>7, <1>8, <1>9 DEF ScreenedAs
<1>11. QED  BY <1>2, <1>3, <1>10

\* A value that stays is a row in both buffers.
LEMMA KeepValueAgrees ==
    ASSUME ReferenceInv, KeepValue, TypeOK'
    PROVE  ReferenceInv'
<1>1. TypeOK /\ phase = "screen"
  BY DEF ReferenceInv, KeepValue
<1>2. PICK k, r, out, n, mark, read, acc, em : InScreen(k, r, out, n, mark, read, acc, em)
  BY <1>1, ScreenTurn
<1>3. em # <<>>
  BY <1>2 DEF InScreen, KeepValue
<1>4. PICK c, verdict, next :
         /\ c = Head(em) /\ verdict = QuantityVerdict(c.entry.quantity, c.value)
         /\ next = Screening(r, k, mark)[n + 1]
         /\ ScreenedAs(verdict, next, acc, k, c, mark)
  BY <1>2, <1>3, CandidateAgrees
<1>5. PICK quality, left : quality = Quality(mark, verdict) /\ left = Tail(em)
  OBVIOUS
<1>6. /\ verdict \in {"ok", "flag_suspect"}
      /\ recordRows' = Append(acc.rows, [rec |-> k, entry |-> c.entry,
                                         value |-> c.value, quality |-> quality])
      /\ emitted' = left /\ UNCHANGED <<input, phase, flagged, cell, rows>>
  BY <1>2, <1>4, <1>5 DEF KeepValue, InScreen, Quality
<1>7. /\ next.rows = Append(acc.rows, [rec |-> k, entry |-> c.entry,
                                       value |-> c.value, quality |-> quality])
      /\ next.dropped = acc.dropped /\ ~next.rejected
  BY <1>4, <1>6, <1>5 DEF ScreenedAs
<1>8. /\ (n + 1) + Len(left) = Len(Candidates(r))
      /\ \A j \in 1 .. Len(left) : left[j] = Candidates(r)[(n + 1) + j]
  <2>1. /\ Candidates(r) \in Seq(Emission) /\ em \in Seq(Emission) /\ em # <<>> /\ n \in Nat
        /\ n + Len(em) = Len(Candidates(r)) /\ \A j \in 1 .. Len(em) : em[j] = Candidates(r)[n + j]
    BY <1>2, <1>3, CandidatesType DEF InScreen
  <2>2. QED  BY <1>5, <2>1, TailAgrees
<1>9. /\ stats'.records_in = stats.records_in
      /\ RecordCounted(stats', out.stats, read.nulls, next.dropped, 0, 0)
  <2>1. Same({"rows_suspect"})
    BY <1>1, <1>6, KeepValueCounts
  <2>2. RecordCounted(stats, out.stats, read.nulls, next.dropped, 0, 0)
    BY <1>2, <1>7 DEF InScreen
  <2>3. QED  BY <2>1, <2>2 DEF Same, Counters, RecordCounted
<1>10. SameBuffer(out, stats', r, k, mark, left, recordRows', n + 1) /\ n + 1 \in Nat
  <2>1. /\ r.readable /\ (r.shape = "long" => Entries(r) # <<>>) /\ n + 1 \in Nat
        /\ read = Reading(r)[Len(Entries(r))] /\ ~read.raised
    BY <1>2 DEF InScreen
  <2>2. recordRows' = next.rows
    BY <1>2, <1>6, <1>7 DEF InScreen
  <2>3. QED  BY <1>4, <1>7, <1>8, <1>9, <2>1, <2>2 DEF SameBuffer
<1>11. current' = current /\ phase' = "screen"
  BY <1>1, <1>6, <1>9 DEF current
<1>12. InTurn(k, r, out) /\ mark = flagged
  BY <1>2 DEF InScreen
<1>13. QED  BY <1>6, <1>10, <1>11, <1>12, StaysInTurn

\* A value that goes is counted in both.
LEMMA DropValueAgrees ==
    ASSUME ReferenceInv, DropValue, TypeOK'
    PROVE  ReferenceInv'
<1>1. TypeOK /\ phase = "screen"
  BY DEF ReferenceInv, DropValue
<1>2. PICK k, r, out, n, mark, read, acc, em : InScreen(k, r, out, n, mark, read, acc, em)
  BY <1>1, ScreenTurn
<1>3. em # <<>>
  BY <1>2 DEF InScreen, DropValue
<1>4. PICK c, verdict, next :
         /\ c = Head(em) /\ verdict = QuantityVerdict(c.entry.quantity, c.value)
         /\ next = Screening(r, k, mark)[n + 1]
         /\ ScreenedAs(verdict, next, acc, k, c, mark)
  BY <1>2, <1>3, CandidateAgrees
<1>5. PICK quality, left : quality = Quality(mark, verdict) /\ left = Tail(em)
  OBVIOUS
<1>6. /\ verdict = "drop_row"
      /\ emitted' = left /\ UNCHANGED <<input, phase, flagged, cell, recordRows, rows>>
  BY <1>2, <1>4, <1>5 DEF DropValue, InScreen
<1>7. next.rows = acc.rows /\ next.dropped = acc.dropped + 1 /\ ~next.rejected
  BY <1>4, <1>6 DEF ScreenedAs
<1>8. /\ (n + 1) + Len(left) = Len(Candidates(r))
      /\ \A j \in 1 .. Len(left) : left[j] = Candidates(r)[(n + 1) + j]
  <2>1. /\ Candidates(r) \in Seq(Emission) /\ em \in Seq(Emission) /\ em # <<>> /\ n \in Nat
        /\ n + Len(em) = Len(Candidates(r)) /\ \A j \in 1 .. Len(em) : em[j] = Candidates(r)[n + j]
    BY <1>2, <1>3, CandidatesType DEF InScreen
  <2>2. QED  BY <1>5, <2>1, TailAgrees
<1>9. /\ stats'.records_in = stats.records_in
      /\ RecordCounted(stats', out.stats, read.nulls, next.dropped, 0, 0)
  <2>1. Same({"rows_dropped"}) /\ stats'.rows_dropped = stats.rows_dropped + 1
    BY <1>1, <1>6, DropValueCounts
  <2>2. out.stats.rows_dropped \in Int /\ acc.dropped \in Int
    BY <1>2, CountersAre DEF Outs, Buffers, InScreen
  <2>3. RecordCounted(stats, out.stats, read.nulls, acc.dropped, 0, 0)
    BY <1>2 DEF InScreen
  <2>4. QED  BY <1>7, <2>1, <2>2, <2>3 DEF Same, Counters, RecordCounted
<1>10. SameBuffer(out, stats', r, k, mark, left, recordRows', n + 1) /\ n + 1 \in Nat
  <2>1. /\ r.readable /\ (r.shape = "long" => Entries(r) # <<>>) /\ n + 1 \in Nat
        /\ read = Reading(r)[Len(Entries(r))] /\ ~read.raised
    BY <1>2 DEF InScreen
  <2>2. recordRows' = next.rows
    BY <1>2, <1>6, <1>7 DEF InScreen
  <2>3. QED  BY <1>4, <1>7, <1>8, <1>9, <2>1, <2>2 DEF SameBuffer
<1>11. current' = current /\ phase' = "screen"
  BY <1>1, <1>6, <1>9 DEF current
<1>12. InTurn(k, r, out) /\ mark = flagged
  BY <1>2 DEF InScreen
<1>13. QED  BY <1>6, <1>10, <1>11, <1>12, StaysInTurn

\* A value that rejects its record: what the interpreter has found by then is all it counts.
LEMMA RejectRecordAgrees ==
    ASSUME ReferenceInv, RejectRecord, TypeOK'
    PROVE  ReferenceInv'
<1>1. TypeOK /\ phase = "screen"
  BY DEF ReferenceInv, RejectRecord
<1>2. PICK k, r, out, n, mark, read, acc, em : InScreen(k, r, out, n, mark, read, acc, em)
  BY <1>1, ScreenTurn
<1>3. em # <<>>
  BY <1>2 DEF InScreen, RejectRecord
<1>4. PICK c, verdict, next :
         /\ c = Head(em) /\ verdict = QuantityVerdict(c.entry.quantity, c.value)
         /\ next = Screening(r, k, mark)[n + 1]
         /\ n + 1 \in 0 .. Len(Candidates(r))
         /\ ScreenedAs(verdict, next, acc, k, c, mark)
  BY <1>2, <1>3, CandidateAgrees
<1>5. verdict = "reject_row"
  BY <1>2, <1>4 DEF RejectRecord, PoisonsRecord, InScreen
<1>6. next.dropped = acc.dropped /\ next.rejected
  BY <1>4, <1>5 DEF ScreenedAs
<1>7. /\ r \in Record /\ k \in Nat /\ mark \in {"ok", "suspect"} /\ mark = ScanRecord(r)
      /\ RecordVerdict(r) \in {"ok", "flag_suspect"} /\ out \in Outs /\ ~out.raised
      /\ r.readable /\ (r.shape = "long" => Entries(r) # <<>>)
      /\ read = Reading(r)[Len(Entries(r))] /\ ~read.raised
      /\ rows = out.rows
  BY <1>2 DEF InScreen
<1>8. Screening(r, k, mark)[Len(Candidates(r))] = next
  BY <1>4, <1>6, <1>7, RejectedStays
<1>9. Took(OneRecord(out, r, k), out, out.rows, read.nulls, next.dropped, 1, 0)
  <2>1. LET done == Screening(r, k, ScanRecord(r))[Len(Candidates(r))]
            all  == Reading(r)[Len(Entries(r))]
        IN  ~all.raised /\ done.rejected =>
               Took(OneRecord(out, r, k), out, out.rows, all.nulls, done.dropped, 1, 0)
    BY <1>7, RecordDone
  <2>2. QED  BY <1>6, <1>7, <1>8, <2>1
<1>10. /\ stats'.records_in = stats.records_in
       /\ RecordCounted(stats', out.stats, read.nulls, next.dropped, 1, 0)
  <2>1. Same({"rows_suspect", "records_rejected"})
        /\ stats'.records_rejected = stats.records_rejected + 1
    BY <1>1, RejectRecordCounts
  <2>2. RecordCounted(stats, out.stats, read.nulls, next.dropped, 0, 0)
    BY <1>2, <1>6 DEF InScreen
  <2>3. out.stats.records_rejected \in Int
    BY <1>7, CountersAre DEF Outs
  <2>4. QED  BY <2>1, <2>2, <2>3 DEF Same, Counters, RecordCounted
<1>11. phase' = "next" /\ input' = input /\ current' = current /\ rows' = out.rows
  BY <1>7, <1>10 DEF RejectRecord, current
<1>12. InTurn(k, r, out)
  BY <1>2 DEF InScreen
<1>13. Took(OneRecord(out, r, k), out, rows', read.nulls, next.dropped, 1, 0)
  BY <1>9, <1>11
<1>14. QED  BY <1>10, <1>11, <1>12, <1>13, EndsTurn

\* A record with nothing left to screen: the rows of both are all there.
LEMMA CommitRecordAgrees ==
    ASSUME ReferenceInv, CommitRecord, TypeOK'
    PROVE  ReferenceInv'
<1>1. phase = "screen" /\ phase' \in {"next", "raised"}
  BY DEF CommitRecord
<1>2. PICK k, r, out, n, mark, read, acc, em : InScreen(k, r, out, n, mark, read, acc, em)
  BY <1>1, ScreenTurn
<1>3. /\ r \in Record /\ k \in Nat /\ mark = ScanRecord(r)
      /\ RecordVerdict(r) \in {"ok", "flag_suspect"} /\ out \in Outs /\ ~out.raised
      /\ r.readable /\ (r.shape = "long" => Entries(r) # <<>>)
      /\ read = Reading(r)[Len(Entries(r))] /\ ~read.raised
      /\ rows = out.rows /\ recordRows = acc.rows /\ ~acc.rejected
      /\ RecordCounted(stats, out.stats, read.nulls, acc.dropped, 0, 0)
      /\ InTurn(k, r, out)
  BY <1>2 DEF InScreen
<1>4. acc = Screening(r, k, ScanRecord(r))[Len(Candidates(r))]
  <2>1. em = <<>> /\ n \in Nat /\ n + Len(em) = Len(Candidates(r))
        /\ acc = Screening(r, k, ScanRecord(r))[n]
    BY <1>2 DEF InScreen, CommitRecord
  <2>2. n = Len(Candidates(r))
    BY <2>1
  <2>3. QED  BY <2>1, <2>2
<1>5. Took(OneRecord(out, r, k), out, out.rows \o acc.rows, read.nulls, acc.dropped, 0, 0)
  <2>1. LET done == Screening(r, k, ScanRecord(r))[Len(Candidates(r))]
            all  == Reading(r)[Len(Entries(r))]
        IN  ~all.raised /\ ~done.rejected =>
               Took(OneRecord(out, r, k), out, out.rows \o done.rows, all.nulls, done.dropped, 0, 0)
    BY <1>3, RecordDone
  <2>2. QED  BY <1>3, <1>4, <2>1
<1>6. input' = input /\ stats' = stats /\ current' = current /\ rows' = out.rows \o acc.rows
  BY <1>3 DEF CommitRecord, current
<1>7. CASE phase' = "next"
  <2>1. /\ Took(OneRecord(out, r, k), out, rows', read.nulls, acc.dropped, 0, 0)
        /\ RecordCounted(stats', out.stats, read.nulls, acc.dropped, 0, 0)
    BY <1>3, <1>5, <1>6
  <2>2. QED  BY <1>3, <1>6, <1>7, <2>1, EndsTurn
<1>8. CASE phase' = "raised"
  BY <1>8 DEF ReferenceInv
<1>9. QED  BY <1>1, <1>7, <1>8

\* The end of the input
LEMMA FinishAgrees ==
    ASSUME ReferenceInv, Finish, TypeOK'
    PROVE  ReferenceInv'
<1>1. /\ TypeOK /\ phase = "next" /\ phase' = "done" /\ current = Len(input)
      /\ input' = input /\ rows' = rows
  BY DEF ReferenceInv, Finish
<1>2. PICK out : out = Outputs(input)[current]
  OBVIOUS
<1>3. Agrees(stats, rows, out)
  BY <1>1, <1>2 DEF ReferenceInv
<1>4. Same({"rows_emitted"})
  BY <1>1, FinishCounts
<1>5. stats'.rows_emitted = Len(rows)
  BY <1>1 DEF Finish, TypeOK, Counters
<1>6. current' = current
  BY <1>4 DEF Same, Counters, current
<1>7. Agrees(stats', rows', out)
  BY <1>1, <1>3, <1>4 DEF Same, Counters, Agrees
<1>8. QED  BY <1>1, <1>2, <1>5, <1>6, <1>7 DEF ReferenceInv

\* Every action of the engine keeps them in step.
LEMMA ReferenceNext == ReferenceInv /\ [Next]_vars => ReferenceInv'
<1> SUFFICES ASSUME ReferenceInv, [Next]_vars  PROVE ReferenceInv'
  OBVIOUS
<1>1. TypeOK'
  BY NextType DEF ReferenceInv
<1>2. CASE StartRecord
  BY <1>1, <1>2, StartRecordAgrees
<1>3. CASE BadRecord
  BY <1>1, <1>3 DEF BadRecord, ReferenceInv
<1>4. CASE Unmapped
  BY <1>1, <1>4, UnmappedAgrees
<1>5. CASE UnpivotCell
  BY <1>1, <1>5, UnpivotCellAgrees
<1>6. CASE EndUnpivot
  BY <1>1, <1>6, EndUnpivotAgrees
<1>7. CASE KeepValue
  BY <1>1, <1>7, KeepValueAgrees
<1>8. CASE DropValue
  BY <1>1, <1>8, DropValueAgrees
<1>9. CASE RejectRecord
  BY <1>1, <1>9, RejectRecordAgrees
<1>10. CASE CommitRecord
  BY <1>1, <1>10, CommitRecordAgrees
<1>11. CASE Finish
  BY <1>1, <1>11, FinishAgrees
<1>12. CASE UNCHANGED vars
  BY <1>1, <1>12 DEF vars, ReferenceInv, current, record
<1>13. QED
  BY <1>2, <1>3, <1>4, <1>5, <1>6, <1>7, <1>8, <1>9, <1>10, <1>11, <1>12 DEF Next

\* At every record the engine and the second implementation stand at the same place, and
\* within a record the engine's buffer is what the other has found so far.
THEOREM InStepWithReference == Spec => []ReferenceInv
<1>1. Init => ReferenceInv
  BY ReferenceInit
<1>2. QED  BY <1>1, ReferenceNext, PTL DEF Spec

\* What the loop of the interpreter comes to on an input that the engine gets through: the
\* engine's readings in the engine's order, its statistics, and no exception of its own.
LEMMA SameReadings ==
    ASSUME ReferenceInv, SuspectInv, phase = "done"
    PROVE  Totalled(input) = [rows |-> rows, stats |-> stats, raised |-> FALSE]
<1>1. /\ TypeOK /\ input \in Seq(Record) /\ Len(input) \in Nat
      /\ stats \in [Counters -> Int] /\ rows \in Seq(Row)
      /\ current = Len(input) /\ stats.rows_emitted = Len(rows)
      /\ recordRows = <<>> /\ stats.rows_suspect = SuspectIn(rows) + SuspectIn(recordRows)
  BY InputType DEF ReferenceInv, SuspectInv, SuspectsCounted, TypeOK
<1>2. PICK all : all = Outputs(input)[Len(input)]
  OBVIOUS
<1>3. all \in Outs /\ Agrees(stats, rows, all)
  BY <1>1, <1>2, OutputsSteps DEF ReferenceInv
<1>4. SuspectIn(rows) \in Int /\ Len(rows) \in Int /\ stats.rows_suspect = SuspectIn(rows)
  <2>1. SuspectIn(recordRows) = 0
    BY <1>1, SuspectInEmpty, Zenon
  <2>2. Len(rows) \in Nat
    BY <1>1
  <2>3. SuspectIn(rows) \in Nat
    BY <1>1, SuspectInType
  <2>4. QED  BY <1>1, <2>1, <2>2, <2>3
<1>5. PICK emitting, out : /\ emitting = Count(all, "rows_emitted", Len(rows))
                           /\ out = Count(emitting, "rows_suspect", SuspectIn(rows))
  OBVIOUS
<1>6. /\ emitting \in Outs /\ emitting.rows = all.rows /\ emitting.raised = all.raised
      /\ emitting.stats["rows_emitted"] = all.stats["rows_emitted"] + Len(rows)
      /\ \A b \in Counters \ {"rows_emitted"} : emitting.stats[b] = all.stats[b]
  <2>1. "rows_emitted" \in Counters
    BY DEF Counters
  <2>2. QED  BY <1>3, <1>4, <1>5, <2>1, CountIs
<1>7. /\ out \in Outs /\ out.rows = all.rows /\ out.raised = all.raised
      /\ out.stats["rows_suspect"] = emitting.stats["rows_suspect"] + SuspectIn(rows)
      /\ \A b \in Counters \ {"rows_suspect"} : out.stats[b] = emitting.stats[b]
  <2>1. "rows_suspect" \in Counters
    BY DEF Counters
  <2>2. QED  BY <1>4, <1>5, <1>6, <2>1, CountIs
<1>8. out.stats = stats
  <2>1. out.stats \in [Counters -> Int]
    BY <1>7 DEF Outs
  <2>2. \A b \in Counters : out.stats[b] = stats[b]
    <3>1. /\ out.stats.rows_emitted = stats.rows_emitted
          /\ out.stats.rows_suspect = stats.rows_suspect
      BY <1>1, <1>3, <1>4, <1>6, <1>7 DEF Counters, Agrees, Untallied
    <3>2. QED  BY <1>3, <1>6, <1>7, <3>1 DEF Counters, Agrees
  <2>3. QED  BY <1>1, <2>1, <2>2
<1>9. ~out.raised /\ out.rows = rows
  BY <1>3, <1>7 DEF Agrees
<1>10. Totalled(input) = out
  <2>1. all.rows = rows
    BY <1>3 DEF Agrees
  <2>2. Totalled(input) = Count(Count(all, "rows_emitted", Len(all.rows)),
                               "rows_suspect", SuspectIn(all.rows))
    BY <1>2, Zenon DEF Totalled, Total, SuspectIn
  <2>3. QED  BY <1>5, <2>1, <2>2
<1>11. out = [rows |-> rows, stats |-> stats, raised |-> FALSE]
  BY <1>7, <1>8, <1>9 DEF Outs
<1>12. QED  BY <1>10, <1>11

\* Level 3 of the replay, and the levels above it where the contract describes the source:
\* on every mapping, every rule set and every input that the engine gets through, the two
\* have the same statistics and the same readings row by row; a row's source_row_id is the
\* same unless rows are identified by position, and its aggregation is another exactly
\* where a wide column has one of its own that is not the default.
THEOREM EnginesAgree == Spec => []AgreesWithReference
<1>1. ReferenceInv /\ SuspectInv => AgreesWithReference
  <2> SUFFICES ASSUME ReferenceInv, SuspectInv, phase = "done"  PROVE AgreesWithReference
    BY DEF AgreesWithReference
  <2> DEFINE out == Transform(input)
             written == [k \in DOMAIN rows |-> Written(rows[k], input[rows[k].rec])]
  <2>1. out = [rows |-> written, stats |-> stats, raised |-> FALSE]
    <3> DEFINE totalled == [rows |-> rows, stats |-> stats, raised |-> FALSE]
    <3>1. Totalled(input) = totalled
      BY SameReadings
    <3>2. out = [Totalled(input) EXCEPT
                    !.rows = [k \in DOMAIN Totalled(input).rows |->
                        Written(Totalled(input).rows[k], input[Totalled(input).rows[k].rec])]]
      BY Zenon DEF Transform, WriteAll
    <3>3. out = [totalled EXCEPT !.rows = [k \in DOMAIN totalled.rows |->
                                     Written(totalled.rows[k], input[totalled.rows[k].rec])]]
      <4> HIDE DEF totalled, out
      <4>1. QED  BY <3>1, <3>2
    <3>4. totalled.rows = rows
      OBVIOUS
    <3>5. out = [totalled EXCEPT !.rows = written]
      <4> HIDE DEF totalled, out
      <4>1. QED  BY <3>3, <3>4
    <3> HIDE DEF out, written
    <3>6. QED  BY <3>5
  <2> HIDE DEF out
  <2>2. ASSUME NEW k \in DOMAIN rows
        PROVE  LET mine == EngineRows[k]  theirs == written[k]  rec == input[rows[k].rec]
               IN  /\ theirs.reading = mine.reading
                   /\ ~rec.positional => theirs.source_row_id = mine.source_row_id
                   /\ theirs.aggregation = mine.aggregation <=>
                         \/ rec.shape = "long"
                         \/ rows[k].entry.aggregation \in {Null, DefaultAggregation}
    <3> DEFINE rec == input[rows[k].rec]
               own == rows[k].entry.aggregation
    <3>1. EngineRows[k] = [reading |-> rows[k],
                           aggregation |-> IF own = Null THEN DefaultAggregation ELSE own,
                           source_row_id |-> IF rec.positional THEN rec.position ELSE rec.id]
      BY <2>2 DEF EngineRows, Canonical, Aggregation, SourceRowId
    <3>2. written[k] = [reading |-> rows[k],
                        aggregation |-> IF rec.shape = "long" /\ own # Null THEN own
                                        ELSE DefaultAggregation,
                        source_row_id |-> rec.id]
      BY <2>2 DEF Written, Columned
    <3> HIDE DEF rec, own, written
    <3>3. QED  BY <3>1, <3>2 DEF rec, own
  <2>3. ReadsAsEngine(out)
    <3> HIDE DEF written
    <3>1. written = [k \in DOMAIN rows |-> Written(rows[k], input[rows[k].rec])]
      BY DEF written
    <3>2. DOMAIN written = DOMAIN rows
      BY <3>1
    <3>3. QED  BY <2>1, <2>2, <3>2 DEF ReadsAsEngine
  <2>4. QED  BY <2>3 DEF AgreesWithReference, out
<1>2. QED  BY <1>1, SuspectInit, ReferenceInit, ReferenceNext, SuspectNext, PTL DEF Spec

\* Level 1, gate G4: with the two constructs added, the second implementation writes the
\* engine's rows in every column.
THEOREM ControlAgrees == Spec => []ControlIsExact
<1>1. ReferenceInv /\ SuspectInv => ControlIsExact
  <2> SUFFICES ASSUME ReferenceInv, SuspectInv, phase = "done"  PROVE ControlIsExact
    BY DEF ControlIsExact
  <2> DEFINE out == PositiveControl(input)
             patched == [k \in DOMAIN rows |-> Patched(rows[k], input[rows[k].rec])]
  <2>1. out = [rows |-> patched, stats |-> stats, raised |-> FALSE]
    <3> DEFINE totalled == [rows |-> rows, stats |-> stats, raised |-> FALSE]
    <3>1. Totalled(input) = totalled
      BY SameReadings
    <3>2. out = [Totalled(input) EXCEPT
                    !.rows = [k \in DOMAIN Totalled(input).rows |->
                        Patched(Totalled(input).rows[k], input[Totalled(input).rows[k].rec])]]
      BY Zenon DEF PositiveControl, PatchAll
    <3>3. out = [totalled EXCEPT !.rows = [k \in DOMAIN totalled.rows |->
                                     Patched(totalled.rows[k], input[totalled.rows[k].rec])]]
      <4> HIDE DEF totalled, out
      <4>1. QED  BY <3>1, <3>2
    <3>4. totalled.rows = rows
      OBVIOUS
    <3>5. out = [totalled EXCEPT !.rows = patched]
      <4> HIDE DEF totalled, out
      <4>1. QED  BY <3>3, <3>4
    <3> HIDE DEF out, patched
    <3>6. QED  BY <3>5
  <2> HIDE DEF out
  <2>2. \A k \in DOMAIN rows : Patched(rows[k], input[rows[k].rec]) = Canonical(rows[k])
    BY DEF Patched, Columned, Canonical, Aggregation, SourceRowId
  <2>3. patched = EngineRows
    BY <2>2 DEF EngineRows
  <2>4. QED  BY <2>1, <2>3 DEF ControlIsExact, out
<1>2. QED  BY <1>1, SuspectInit, ReferenceInit, ReferenceNext, SuspectNext, PTL DEF Spec
=============================================================================
