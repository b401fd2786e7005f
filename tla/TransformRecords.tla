--------------------------- MODULE TransformRecords ---------------------------
(***************************************************************************)
(* One call of transform_records: a vendor-blind engine that turns raw     *)
(* records into canonical rows, charging sessions and run statistics.      *)
(*                                                                         *)
(* A record is what the rules and the mapping can tell apart: the shape of *)
(* its source's mapping (the same for all records of a call: wide, one     *)
(* record with many cells, or long, one record with one reading), whether  *)
(* the source's rows are identified by their position in the payload, the  *)
(* record's own id and its position, its meter, its key (long shape), its  *)
(* session, whether it is readable (the fields of its identity are there,  *)
(* its epoch is in range, its offset is an integer), whether its session   *)
(* attributes coerce, and a value per field: an integer, Null, or Junk,    *)
(* which is text that float() rejects.  A timestamp that is no timestamp   *)
(* is not an error: its rows have none.                                    *)
(*                                                                         *)
(* A row keeps the number of the record it came from, its mapping entry,   *)
(* its value and its quality.  Of the columns these determine, two are     *)
(* taken from more than one place and are spelt out (Canonical):           *)
(* aggregation and source_row_id.  measurement_id is a hash of columns.    *)
(*                                                                         *)
(* An exception (Junk where a number is needed, a record that cannot be    *)
(* read) ends the call: the caller gets no rows, sessions or statistics.   *)
(***************************************************************************)
EXTENDS Integers, Sequences, FiniteSets

CONSTANTS
    Columns,        \* wide: the mapping's columns, a sequence of entries
    RowsByKey,      \* long: mapped key -> entry
    RecordRules,    \* sequence of rules on raw fields
    QuantityRules,  \* quantity -> sequence of rules on canonical values
    DeviceFactors,  \* meter -> the factors read for it, Null for one that is not there
    Fields,         \* the source fields the rules and the mapping read
    Numbers,        \* the numbers a cell can hold
    Aggregations,   \* what a mapping entry may declare its readings to be
    DefaultAggregation,
    RowIds,         \* what a record's id, or its position, can be
    SessionIds,     \* the sessions of the source
    Inputs,         \* the record sequences a call can get
    Null, Junk, NoSession

OnFail == {"flag_suspect", "reject_row", "drop_row"}

\* factor: "none", or the factor_field of scale_by_factor
Entry == [src : Fields, quantity : DOMAIN QuantityRules, factor : {"none", "uk", "ik", "uk_ik"},
          aggregation : Aggregations \cup {Null}]

\* check_type, on_fail, and the numbers a range rule lets through; "field" is
\* used by record rules alone
Rule == [type : {"not_null", "range"}, onFail : OnFail, allowed : SUBSET Int]

Record == [shape : {"wide", "long"}, positional : BOOLEAN, id : RowIds \cup {Null},
           position : RowIds \cup {Null}, meter : DOMAIN DeviceFactors, key : STRING,
           session : SessionIds \cup {NoSession}, readable : BOOLEAN, coerces : BOOLEAN,
           cells : [Fields -> Numbers \cup {Null, Junk}]]

Row == [rec : Nat, entry : Entry, value : Int, quality : {"ok", "suspect"}]

\* A value with its meaning, unpivoted and not yet screened
Emission == [entry : Entry, value : Int]

Counters == {"records_in", "records_rejected", "records_unmapped", "cells_null_skipped",
             "rows_dropped", "rows_suspect", "rows_emitted"}

ASSUME MappingAssumption ==
    /\ Columns \in Seq(Entry)
    /\ \A k \in DOMAIN RowsByKey : RowsByKey[k] \in Entry
ASSUME RulesAssumption ==
    /\ RecordRules \in Seq([field : Fields, rule : Rule])
    /\ \A q \in DOMAIN QuantityRules : QuantityRules[q] \in Seq(Rule)
ASSUME ValuesAssumption ==
    /\ Numbers \subseteq Int
    /\ {Null, Junk} \cap Int = {}
    /\ Null # Junk
    /\ NoSession \notin SessionIds
    /\ \A m \in DOMAIN DeviceFactors :
          DeviceFactors[m] \in [uk : Int \cup {Null}, ik : Int \cup {Null}]
\* one call has one mapping
ASSUME InputsAssumption ==
    /\ Inputs \subseteq Seq(Record)
    /\ \A in \in Inputs : \A i, j \in DOMAIN in :
          in[i].shape = in[j].shape /\ in[i].positional = in[j].positional

VARIABLES
    input,       \* the records of this call
    phase,       \* "next" (between records), "unpivot", "screen", "done", "raised"
    flagged,     \* record_suspect: "suspect" or "ok"
    cell,        \* the mapping entry being read, while phase = "unpivot"
    emitted,     \* the values of this record still to be screened
    recordRows,  \* the rows of this record, buffered until the record survives
    rows,        \* the rows of the surviving records
    sessions,    \* session id -> the record that filled its attributes
    stats

vars == <<input, phase, flagged, cell, emitted, recordRows, rows, sessions, stats>>

NoStats == [c \in Counters |-> 0]

----------------------------------------------------------------------------
(* Rules *)

\* Rule.passes; nullness is not_null's concern, never range's
Passes(rule, v) ==
    IF rule.type = "not_null" THEN v # Null ELSE v = Null \/ v \in rule.allowed

\* float(value) of a range rule raises on text that is no number
PassesRaises(rule, v) == rule.type = "range" /\ v = Junk

\* What a sequence of rules says of the values they look at: the first rule
\* that raises or fails with something else than a flag ends the scan.
Verdict(rules, values) ==
    LET failing == {i \in DOMAIN rules : ~Passes(rules[i], values[i])}
        ending  == {i \in failing : \/ PassesRaises(rules[i], values[i])
                                    \/ rules[i].onFail # "flag_suspect"}
    IN  IF ending = {}
        THEN IF failing = {} THEN "ok" ELSE "flag_suspect"
        ELSE LET first == CHOOSE i \in ending : \A j \in ending : i <= j
             IN  IF PassesRaises(rules[first], values[first]) THEN "raise"
                                                              ELSE rules[first].onFail

RecordVerdict(r) ==
    Verdict([i \in DOMAIN RecordRules |-> RecordRules[i].rule],
            [i \in DOMAIN RecordRules |-> r.cells[RecordRules[i].field]])

QuantityVerdict(q, v) == Verdict(QuantityRules[q], [i \in DOMAIN QuantityRules[q] |-> v])

----------------------------------------------------------------------------
(* Mapping *)

\* The entries a record is unpivoted with: every column, or the one its key names.
Entries(r) ==
    IF r.shape = "wide" THEN Columns
    ELSE IF r.key \in DOMAIN RowsByKey THEN <<RowsByKey[r.key]>> ELSE <<>>

\* _resolve_factor: the factor of that name, or the product of both if both are there
ResolveFactor(name, m) ==
    LET f == DeviceFactors[m]
    IN  IF name = "uk_ik" THEN IF f.uk = Null \/ f.ik = Null THEN Null ELSE f.uk * f.ik
        ELSE f[name]

\* _apply_transform: Null when the factor it needs is unknown (the cell is then
\* not even parsed), Junk when float() raises
ApplyTransform(entry, m, v) ==
    IF entry.factor = "none" THEN v
    ELSE LET factor == ResolveFactor(entry.factor, m)
         IN  IF factor = Null THEN Null ELSE IF v = Junk THEN Junk ELSE v * factor

\* A position that is missing raises where the source's rows are identified by it.
Readable(r) == r.readable /\ (r.positional => r.position # Null)

\* The columns of a canonical row that come from the mapping entry or the defaults,
\* from the record's place or its own id
Aggregation(entry) == IF entry.aggregation = Null THEN DefaultAggregation ELSE entry.aggregation
SourceRowId(r) == IF r.positional THEN r.position ELSE r.id

\* The columns of one row of the result
Canonical(row) ==
    [reading |-> row, aggregation |-> Aggregation(row.entry),
     source_row_id |-> SourceRowId(input[row.rec])]

----------------------------------------------------------------------------
(* The record loop *)

\* At record level, reject_row and drop_row both discard the record ...
DiscardsRecordOnlyIfRejected(verdict) == verdict = "reject_row"
DiscardsRecord(verdict) == verdict \in {"reject_row", "drop_row"}

\* ... while a value's drop_row takes the value alone.
PoisonsRecordIfDropped(verdict) == verdict \in {"reject_row", "drop_row"}
PoisonsRecord(verdict) == verdict = "reject_row"

current == stats.records_in       \* the position of the record in hand
record  == input[current]

Init ==
    /\ input \in Inputs
    /\ phase = "next"
    /\ flagged = "ok"
    /\ cell = 1
    /\ emitted = <<>>
    /\ recordRows = <<>>
    /\ rows = <<>>
    /\ sessions = [s \in {} |-> 0]
    /\ stats = NoStats

\* Take the next record and run the record rules against it, still raw.
StartRecord ==
    /\ phase = "next"
    /\ current < Len(input)
    /\ LET verdict  == RecordVerdict(input[current + 1])
           rejected == DiscardsRecord(verdict)
       IN  /\ phase' = CASE rejected -> "next"
                         [] verdict = "raise" -> "raised"
                         [] OTHER -> "unpivot"
           /\ flagged' = IF verdict = "flag_suspect" THEN "suspect" ELSE "ok"
           /\ stats' = [stats EXCEPT !.records_in = @ + 1,
                                     !.records_rejected = @ + (IF rejected THEN 1 ELSE 0)]
    /\ cell' = 1
    /\ emitted' = <<>>
    /\ recordRows' = <<>>
    /\ UNCHANGED <<input, rows, sessions>>

\* A missing meter or template field, an epoch out of range, a missing payload
\* position or an offset that is no integer raises, before any cell is read.
BadRecord ==
    /\ phase = "unpivot"
    /\ ~Readable(record)
    /\ phase' = "raised"
    /\ UNCHANGED <<input, flagged, cell, emitted, recordRows, rows, sessions, stats>>

\* As Unmapped, with nothing counted
UnmappedSilently ==
    /\ phase = "unpivot" /\ Readable(record) /\ record.shape = "long" /\ Entries(record) = <<>>
    /\ phase' = "next"
    /\ UNCHANGED <<input, flagged, cell, emitted, recordRows, rows, sessions, stats>>

\* A long record whose key the mapping does not know: counted, nothing else.
Unmapped ==
    /\ phase = "unpivot"
    /\ Readable(record)
    /\ record.shape = "long"
    /\ Entries(record) = <<>>
    /\ phase' = "next"
    /\ stats' = [stats EXCEPT !.records_unmapped = @ + 1]
    /\ UNCHANGED <<input, flagged, cell, emitted, recordRows, rows, sessions>>

\* A mapped cell of the record.  A null cell is counted, and in a long record it
\* ends the record; a value that cannot be produced is left out.
UnpivotCell ==
    /\ phase = "unpivot"
    /\ Readable(record)
    /\ cell \in DOMAIN Entries(record)
    /\ LET entry == Entries(record)[cell]
           raw   == record.cells[entry.src]
           value == ApplyTransform(entry, record.meter, raw)
       IN  /\ phase' = CASE raw = Null /\ record.shape = "long" -> "next"
                         [] raw # Null /\ value = Junk -> "raised"
                         [] OTHER -> "unpivot"
           /\ emitted' = IF raw = Null \/ value \in {Null, Junk} THEN emitted
                         ELSE Append(emitted, [entry |-> entry, value |-> value])
           /\ stats' = [stats EXCEPT !.cells_null_skipped = @ + (IF raw = Null THEN 1 ELSE 0)]
    /\ cell' = cell + 1
    /\ UNCHANGED <<input, flagged, recordRows, rows, sessions>>

EndUnpivot ==
    /\ phase = "unpivot"
    /\ Readable(record)
    /\ cell > Len(Entries(record))
    /\ record.shape = "long" => Entries(record) # <<>>
    /\ phase' = "screen"
    /\ UNCHANGED <<input, flagged, cell, emitted, recordRows, rows, sessions, stats>>

----------------------------------------------------------------------------
(* Quality screening and the end of a record *)

\* How many of a sequence of rows are suspect
SuspectIn(s) == Cardinality({i \in DOMAIN s : s[i].quality = "suspect"})

\* Screen the next value of the record against the rules of its quantity, when
\* they let it through, flagged or not
KeepValue ==
    /\ phase = "screen"
    /\ emitted # <<>>
    /\ LET v       == Head(emitted)
           verdict == QuantityVerdict(v.entry.quantity, v.value)
           quality == IF flagged = "suspect" \/ verdict = "flag_suspect" THEN "suspect" ELSE "ok"
       IN  /\ verdict \in {"ok", "flag_suspect"}
           /\ recordRows' = Append(recordRows, [rec |-> current, entry |-> v.entry,
                                                value |-> v.value, quality |-> quality])
           /\ stats' = [stats EXCEPT !.rows_suspect = @ + (IF quality = "suspect" THEN 1 ELSE 0)]
    /\ emitted' = Tail(emitted)
    /\ UNCHANGED <<input, phase, flagged, cell, rows, sessions>>

DropValue ==
    /\ phase = "screen"
    /\ emitted # <<>>
    /\ QuantityVerdict(Head(emitted).entry.quantity, Head(emitted).value) = "drop_row"
    /\ emitted' = Tail(emitted)
    /\ stats' = [stats EXCEPT !.rows_dropped = @ + 1]
    /\ UNCHANGED <<input, phase, flagged, cell, recordRows, rows, sessions>>

\* The suspect rows a rejection takes out of the count
SuspectsLeftIn == 0
SuspectsTakenBack == SuspectIn(recordRows)

\* One value that a reject_row rule fails discards the whole record: its buffered
\* rows go, and the suspect rows among them are no longer counted.
RejectRecord ==
    /\ phase = "screen"
    /\ emitted # <<>>
    /\ PoisonsRecord(QuantityVerdict(Head(emitted).entry.quantity, Head(emitted).value))
    /\ phase' = "next"
    /\ recordRows' = <<>>
    /\ emitted' = <<>>
    /\ stats' = [stats EXCEPT !.records_rejected = @ + 1,
                              !.rows_suspect = @ - SuspectsTakenBack]
    /\ UNCHANGED <<input, flagged, cell, rows, sessions>>

\* Does this record open its session?  Only the first surviving record does.
OpensEveryTime == record.session # NoSession
OpensWithoutId == record.session \notin DOMAIN sessions
OpensSession == record.session # NoSession /\ record.session \notin DOMAIN sessions

\* The record survives: its rows join the result, and the first surviving record
\* of a session fills the session's attributes (which may not coerce).
CommitRecord ==
    /\ phase = "screen"
    /\ emitted = <<>>
    /\ rows' = rows \o recordRows
    /\ phase' = IF OpensSession /\ ~record.coerces THEN "raised" ELSE "next"
    /\ sessions' = IF OpensSession /\ record.coerces
                   THEN [s \in DOMAIN sessions \cup {record.session} |->
                            IF s = record.session THEN current ELSE sessions[s]]
                   ELSE sessions
    /\ recordRows' = <<>>
    /\ UNCHANGED <<input, flagged, cell, emitted, stats>>

Finish ==
    /\ phase = "next"
    /\ current = Len(input)
    /\ phase' = "done"
    /\ stats' = [stats EXCEPT !.rows_emitted = Len(rows)]
    /\ UNCHANGED <<input, flagged, cell, emitted, recordRows, rows, sessions>>

Next ==
    \/ StartRecord \/ BadRecord \/ Unmapped \/ UnpivotCell \/ EndUnpivot
    \/ KeepValue \/ DropValue \/ RejectRecord \/ CommitRecord \/ Finish

Spec == Init /\ [][Next]_vars

----------------------------------------------------------------------------
(* Properties.  The vocabulary below says, record by record and with no    *)
(* state, what the rules and the mapping decide; the properties relate it  *)
(* to what the loop has accumulated.                                       *)

TypeOK ==
    /\ input \in Inputs
    /\ phase \in {"next", "unpivot", "screen", "done", "raised"}
    /\ flagged \in {"ok", "suspect"}
    /\ cell \in Nat \ {0}
    /\ emitted \in Seq(Emission)
    /\ recordRows \in Seq(Row)
    /\ rows \in Seq(Row)
    /\ DOMAIN sessions \subseteq SessionIds
    /\ \A s \in DOMAIN sessions : sessions[s] \in Nat
    /\ stats \in [Counters -> Int]
    /\ current \in Nat
    /\ phase \in {"unpivot", "screen"} => current \in DOMAIN input
    /\ current <= Len(input)

\* The records that have been dealt with.
Settled == 1 .. (IF phase \in {"next", "done"} THEN current ELSE current - 1)

Examined(i) == ~(RecordVerdict(input[i]) \in {"reject_row", "drop_row"})
Cells(i) == DOMAIN Entries(input[i])
Raw(i, c) == input[i].cells[Entries(input[i])[c].src]
Value(i, c) == ApplyTransform(Entries(input[i])[c], input[i].meter, Raw(i, c))
HasValue(i, c) == Raw(i, c) # Null /\ Value(i, c) # Null
VerdictOn(i, c) == QuantityVerdict(Entries(input[i])[c].quantity, Value(i, c))
Poison(i, c) == HasValue(i, c) /\ VerdictOn(i, c) = "reject_row"

\* A record contributes rows or a session only if no rule discards it and, in the
\* long shape, its one reading is mapped and not null.
Survives(i) ==
    /\ Examined(i)
    /\ \A c \in Cells(i) : ~Poison(i, c)
    /\ input[i].shape = "long" => \E c \in Cells(i) : Raw(i, c) # Null

\* A record's rows are in the result all together or not at all: one row for each
\* value no rule drops when the record survives, none when any rule discards it,
\* however many of its rows had been buffered by then.
AllOrNothing ==
    phase # "raised" =>
        \A i \in 1 .. Len(input) :
            Cardinality({k \in DOMAIN rows : rows[k].rec = i}) =
                IF i \in Settled /\ Survives(i)
                THEN Cardinality({c \in Cells(i) : HasValue(i, c) /\ VerdictOn(i, c) # "drop_row"})
                ELSE 0

\* The sessions are those of the surviving records, each filled by the first of
\* them: a rejected, unmapped or null record neither opens a session nor claims one.
SessionsOfFirstSurvivor ==
    phase # "raised" =>
        /\ DOMAIN sessions =
              {input[i].session : i \in {j \in Settled : Survives(j)}} \ {NoSession}
        /\ \A s \in DOMAIN sessions :
              /\ sessions[s] \in Settled
              /\ Survives(sessions[s])
              /\ input[sessions[s]].session = s
              /\ \A j \in Settled : Survives(j) /\ input[j].session = s => sessions[s] <= j

\* rows_suspect is the number of suspect rows of the result and of the record in
\* hand, at every point: a rejection gives back exactly what its record had added.
SuspectsCounted == phase # "raised" => stats.rows_suspect = SuspectIn(rows) + SuspectIn(recordRows)

\* What the other counters count: a record is rejected once, by a record rule or by
\* a poisoned value; null cells are counted in rejected records too; a dropped
\* value is counted if it comes before the value that rejects its record.
CountersExact ==
    phase \in {"next", "done"} =>
        LET cells == {ic \in Settled \X (1 .. Len(Columns) + 1) :
                         Examined(ic[1]) /\ ic[2] \in Cells(ic[1])}
        IN  /\ stats.records_rejected =
                  Cardinality({i \in Settled : ~Examined(i) \/ \E c \in Cells(i) : Poison(i, c)})
            /\ stats.cells_null_skipped = Cardinality({ic \in cells : Raw(ic[1], ic[2]) = Null})
            /\ stats.rows_dropped =
                  Cardinality({ic \in cells :
                      /\ HasValue(ic[1], ic[2])
                      /\ VerdictOn(ic[1], ic[2]) = "drop_row"
                      /\ \A c \in 1 .. ic[2] : ~Poison(ic[1], c)})

AllLong == \A i \in DOMAIN input : input[i].shape = "long"

\* The readings of a long source that have, or have not, become a row or a count
Accounted ==
    stats.records_rejected + stats.records_unmapped + stats.cells_null_skipped
    + stats.rows_dropped + Len(rows)

\* The readings skipped because the factor their mapping entry scales by is unknown
Unscaled ==
    {i \in Settled : Examined(i) /\ \E c \in Cells(i) : Raw(i, c) # Null /\ Value(i, c) = Null}

\* "skipped or unmapped data is counted in the run stats, never dropped invisibly": a
\* long record is one reading, so what came in is a row or in a counter.  It is not: a
\* reading whose factor is unknown leaves no trace (transform.py:234, 253 for a column).
NeverDroppedInvisibly ==
    AllLong /\ phase \in {"next", "done"} => stats.records_in = Accounted

\* The exact extent of that: the readings lost without a trace are as many as the
\* unscaled ones, so no other way out of the loop forgets its counter or takes two,
\* and a source whose factors are all known loses nothing invisibly.
OnlyUnscaledAreLost ==
    AllLong /\ phase \in {"next", "done"} =>
        stats.records_in - Accounted = Cardinality(Unscaled)

=============================================================================
