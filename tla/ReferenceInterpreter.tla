------------------------ MODULE ReferenceInterpreter ------------------------
(***************************************************************************)
(* The experiment's reference implementation of the contract, a second     *)
(* program that turns the same records into the same rows, written without *)
(* a line of the engine.  It is a function of its input, so the model is   *)
(* one operator, Transform.  Where the engine keeps every counter as it    *)
(* goes, the interpreter counts its suspect rows when all records are      *)
(* through; where the engine fills sessions, it knows none; where the      *)
(* engine honours a column's own aggregation and a source's positional row *)
(* ids, it follows the contract, which describes neither.  PositiveControl *)
(* is the same program patched to honour both, gate G4 of the replay.      *)
(*                                                                         *)
(* A record whose identity, epoch or offset the engine cannot read is one  *)
(* Transform refuses too, which is more than the interpreter does (it      *)
(* never looks at an offset); no call that the engine completes has one    *)
(* that is looked at.                                                      *)
(***************************************************************************)
EXTENDS TransformRecords

Ended == {"drop_row", "reject_row", "raise"}

\* A rule and the value it looks at: passes, and what a rule that fails does to a scan,
\* which ends at the first rule that does anything else than mark
Judge(mark, rule, v) ==
    IF mark \in Ended THEN mark
    ELSE CASE rule.type = "not_null" /\ v # Null -> mark
           [] rule.type = "range" /\ v \in rule.allowed \cup {Null} -> mark
           [] rule.type = "range" /\ v = Junk -> "raise"
           [] OTHER -> IF rule.onFail = "flag_suspect" THEN "suspect" ELSE rule.onFail

\* The loops of the interpreter are functions of the number of turns they have made.

\* The mark after the first rules
Scanning(rules, values, mark) ==
    LET after[n \in 0 .. Len(rules)] ==
            IF n = 0 THEN mark ELSE Judge(after[n - 1], rules[n], values[n])
    IN  after

ScanRecord(rec) ==
    Scanning([i \in DOMAIN RecordRules |-> RecordRules[i].rule],
             [i \in DOMAIN RecordRules |-> rec.cells[RecordRules[i].field]],
             "ok")[Len(RecordRules)]

ScanValue(candidate, mark) ==
    LET rules == QuantityRules[candidate.entry.quantity]
    IN  Scanning(rules, [i \in DOMAIN rules |-> candidate.value], mark)[Len(rules)]

\* The mapping entries a record has cells for
Targets(rec) ==
    CASE rec.shape = "wide" -> Columns
      [] rec.shape = "long" /\ rec.key \in DOMAIN RowsByKey -> <<RowsByKey[rec.key]>>
      [] OTHER -> <<>>

\* "no_scaling", the defect the harness plants in the interpreter
ScaledByNothing(entry, factors, raw) ==
    IF entry.factor = "uk_ik" /\ Null \in {factors.uk, factors.ik} THEN Null ELSE raw

\* apply_transform on a cell that is not null: Null without a factor, which comes
\* before float(raw) can raise
Scaled(entry, factors, raw) ==
    LET needed == IF entry.factor = "uk_ik" THEN {"uk", "ik"} ELSE {entry.factor}
    IN  CASE entry.factor = "none" -> raw
          [] entry.factor # "none" /\ (\E name \in needed : factors[name] = Null) -> Null
          [] OTHER -> IF raw = Junk THEN Junk
                      ELSE raw * (IF entry.factor = "uk_ik" THEN factors.uk * factors.ik
                                  ELSE factors[entry.factor])

\* One cell: a null, no value, a value that float(raw) cannot read, or a candidate
TakeCell(acc, entry, rec) ==
    LET raw   == rec.cells[entry.src]
        value == Scaled(entry, DeviceFactors[rec.meter], raw)
    IN  CASE acc.raised -> acc
          [] ~acc.raised /\ raw = Null -> [acc EXCEPT !.nulls = @ + 1]
          [] ~acc.raised /\ raw # Null /\ value = Null -> acc
          [] ~acc.raised /\ raw # Null /\ value = Junk -> [acc EXCEPT !.raised = TRUE]
          [] OTHER -> [acc EXCEPT !.candidates =
                          Append(@, [entry |-> entry, value |-> value])]

\* The candidates of a record, the values it may emit, after the first cells
NoCells == [candidates |-> <<>>, nulls |-> 0, raised |-> FALSE]
Reading(rec) ==
    LET after[n \in 0 .. Len(Targets(rec))] ==
            IF n = 0 THEN NoCells ELSE TakeCell(after[n - 1], Targets(rec)[n], rec)
    IN  after

Readings(rec) == Reading(rec)[Len(Targets(rec))]
Candidates(rec) == Readings(rec).candidates

\* One candidate with what its quantity's rules say of it
TakeCandidate(acc, i, c, quality) ==
    CASE acc.rejected -> acc
      [] ~acc.rejected /\ quality = "reject_row" -> [acc EXCEPT !.rejected = TRUE]
      [] ~acc.rejected /\ quality = "drop_row" -> [acc EXCEPT !.dropped = @ + 1]
      [] OTHER -> [acc EXCEPT !.rows = Append(@, [rec |-> i, entry |-> c.entry,
                                                  value |-> c.value, quality |-> quality])]

\* The first candidates' rows, until one of them rejects the record
NoRows == [rows |-> <<>>, dropped |-> 0, rejected |-> FALSE]
Screening(rec, i, mark) ==
    LET after[n \in 0 .. Len(Candidates(rec))] ==
            IF n = 0 THEN NoRows
            ELSE TakeCandidate(after[n - 1], i, Candidates(rec)[n],
                               ScanValue(Candidates(rec)[n], mark))
    IN  after

Count(out, counter, n) == [out EXCEPT !.stats[counter] = @ + n]

\* A record that passed the record rules with this mark
Interpret(out, rec, i, mark) ==
    LET screened == Screening(rec, i, mark)[Len(Candidates(rec))]
        nulls    == Count(out, "cells_null_skipped", Readings(rec).nulls)
        dropped  == Count(nulls, "rows_dropped", screened.dropped)
    IN  CASE ~rec.readable \/ Readings(rec).raised -> [out EXCEPT !.raised = TRUE]
          [] rec.readable /\ rec.shape = "long" /\ Targets(rec) = <<>> ->
                Count(out, "records_unmapped", 1)
          [] OTHER -> IF screened.rejected THEN Count(dropped, "records_rejected", 1)
                                           ELSE [dropped EXCEPT !.rows = @ \o screened.rows]

\* The loop over the records; an exception ends it
OneRecord(out, rec, i) ==
    LET taken == Count(out, "records_in", 1)
        mark  == ScanRecord(rec)
    IN  CASE out.raised -> out
          [] ~out.raised /\ mark = "raise" -> [taken EXCEPT !.raised = TRUE]
          [] ~out.raised /\ mark \in {"drop_row", "reject_row"} ->
                Count(taken, "records_rejected", 1)
          [] OTHER -> Interpret(taken, rec, i, mark)

\* What the program has come to after the first records
NoOutput == [rows |-> <<>>, stats |-> NoStats, raised |-> FALSE]
Outputs(records) ==
    LET after[n \in 0 .. Len(records)] ==
            IF n = 0 THEN NoOutput ELSE OneRecord(after[n - 1], records[n], n)
    IN  after

\* The loop's result with the two counters that are filled in at its end
Total(all) ==
    Count(Count(all, "rows_emitted", Len(all.rows)),
          "rows_suspect", Cardinality({k \in DOMAIN all.rows : all.rows[k].quality = "suspect"}))

Totalled(records) == Total(Outputs(records)[Len(records)])

\* The columns of a row: what was read, its aggregation and its source_row_id
Columned(row, aggregation, id) ==
    [reading |-> row, aggregation |-> aggregation, source_row_id |-> id]

\* A long record's entry may have an aggregation of its own, a wide record's columns
\* take the default; a row is identified by the id of its record.
Written(row, rec) ==
    Columned(row, IF rec.shape = "long" /\ row.entry.aggregation # Null
                  THEN row.entry.aggregation ELSE DefaultAggregation, rec.id)

WriteAll(out, records) ==
    [out EXCEPT !.rows = [k \in DOMAIN out.rows |->
                             Written(out.rows[k], records[out.rows[k].rec])]]

Transform(records) == WriteAll(Totalled(records), records)

\* The patches of the positive control, with a patch left out
PatchedOnce(row, rec) ==
    Columned(row, IF row.entry.aggregation # Null THEN row.entry.aggregation
                  ELSE DefaultAggregation, rec.id)

\* POSITIVE_PATCHES: a column's own aggregation and the positional row id
Patched(row, rec) ==
    Columned(row, IF row.entry.aggregation # Null THEN row.entry.aggregation
                  ELSE DefaultAggregation,
                  IF rec.positional THEN rec.position ELSE rec.id)

PatchAll(out, records) ==
    [out EXCEPT !.rows = [k \in DOMAIN out.rows |->
                             Patched(out.rows[k], records[out.rows[k].rec])]]

PositiveControl(records) == PatchAll(Totalled(records), records)

----------------------------------------------------------------------------
\* The rows of the engine with their columns
EngineRows == [k \in DOMAIN rows |-> Canonical(rows[k])]

\* The engine's statistics and readings, and its columns as far as the contract has them
ReadsAsEngine(out) ==
    /\ ~out.raised /\ out.stats = stats /\ DOMAIN out.rows = DOMAIN rows
    /\ \A k \in DOMAIN rows :
          LET mine == EngineRows[k]  theirs == out.rows[k]  rec == input[rows[k].rec]
          IN  /\ theirs.reading = mine.reading
              /\ ~rec.positional => theirs.source_row_id = mine.source_row_id
              /\ theirs.aggregation = mine.aggregation <=>
                    \/ rec.shape = "long"
                    \/ rows[k].entry.aggregation \in {Null, DefaultAggregation}

\* "all exact", as far as it goes: on every input the engine gets through, the second
\* implementation gets through too, with the same statistics and as many rows, though
\* it scans, buffers and counts in another order.  Row by row they have the same record,
\* entry, value and quality, and the same source_row_id unless the source's rows are
\* identified by position.  Their aggregations differ exactly where a wide column has one
\* of its own that is not the default: there the interpreter does not write the engine's row.
AgreesWithReference == phase = "done" => ReadsAsEngine(Transform(input))

\* Gate G4: with the two constructs added, the second implementation writes the
\* engine's rows in every column, identities included, and the same statistics.
ControlIsExact ==
    phase = "done" =>
        PositiveControl(input) = [rows |-> EngineRows, stats |-> stats, raised |-> FALSE]
=============================================================================
