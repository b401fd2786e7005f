-------------------------------- MODULE ScoreCase --------------------------------
(***************************************************************************)
(* compare.py: score a program's rows against the engine's, as multisets:  *)
(* pair rows of equal identity and equal fields first, then rows that only *)
(* share their identity; look for near misses among what is left; and pair *)
(* once more with timestamps read as instants.                             *)
(*                                                                         *)
(* A row is its identity (key), its value, and whether its measurement_id  *)
(* is the one the engine writes.  The value is a number in units of the    *)
(* tolerance; a field of EXACT_FIELDS that is wrong counts as a value that *)
(* is close to none.                                                       *)
(***************************************************************************)
EXTENDS Integers, Sequences, SequencesExt, FiniteSets, FiniteSetsExt

CONSTANTS
    Keys,        \* identities of rows
    InstantOf,   \* key -> the identity with its timestamp read as an instant
    ReadingOf,   \* key -> device, row id and instant
    OracleRows,  \* rows of the engine
    OutputRows,  \* rows of the program
    MaxOracle,   \* bound: rows of the engine
    MaxOutput    \* bound: rows of the program

NotNumeric == 0
Malformed == [key |-> 0, value |-> 0, id |-> FALSE]   \* without a field of the identity, or the value

ASSUME RowsAssumption ==
    /\ OracleRows \subseteq [key : Keys, value : Nat \ {NotNumeric}, id : {TRUE}]
    /\ OutputRows \subseteq [key : Keys, value : Nat, id : BOOLEAN] \cup {Malformed}

VARIABLES
    oracle,      \* the engine's rows, a sequence
    output,      \* output["rows"], a sequence
    stage,       \* "split", "exact", "mismatch", "near", "lenient", "end"
    rows,        \* the well-formed rows
    malformed,   \* score.malformed_rows
    todo,        \* the oracle rows the loop has still to see
    buckets,     \* the produced rows not paired yet, in order
    exact,       \* the exact pairs: whether their ids match, a sequence
    leftover,    \* leftover_oracle
    mismatched,  \* produced rows paired by identity only
    missing,     \* oracle rows without a partner
    extra,       \* score.extra, the malformed rows among them
    near,        \* near misses
    lenient      \* score.lenient_rows

inputs == <<oracle, output>>
score == <<malformed, exact, mismatched, missing, extra, near, lenient>>
scoreVars == <<inputs, stage, rows, todo, buckets, leftover, score>>

ScoreInit ==
    /\ oracle \in UNION {[1 .. n -> OracleRows] : n \in 0 .. MaxOracle}
    /\ output \in UNION {[1 .. n -> OutputRows] : n \in 0 .. MaxOutput}
    /\ stage = "split"
    /\ rows = << >>
    /\ malformed = 0
    /\ todo = << >>
    /\ buckets = << >>
    /\ exact = << >>
    /\ leftover = << >>
    /\ mismatched = << >>
    /\ missing = << >>
    /\ extra = 0
    /\ near = 0
    /\ lenient = 0

----------------------------------------------------------------------------

\* candidates.pop(i), and a candidate that is left in its bucket
Peek(candidates, i) == candidates
Pop(candidates, i) == RemoveAt(candidates, i)

\* values_close: within one unit, which is not transitive
Close(expected, produced) ==
    produced # NotNumeric /\ expected - produced \in -1 .. 1

\* The last candidate in place of the first
LastExact(e) == SelectLastInSeq(buckets, LAMBDA r : r.key = e.key /\ Close(e.value, r.value))

\* The first candidate of the same identity, with a close value or with any; 0: none
FirstExact(e) == SelectInSeq(buckets, LAMBDA r : r.key = e.key /\ Close(e.value, r.value))
FirstOfKey(e) == SelectInSeq(buckets, LAMBDA r : r.key = e.key)
FirstLenient(e) ==
    SelectInSeq(buckets, LAMBDA r : InstantOf[r.key] = InstantOf[e.key] /\ Close(e.value, r.value))
FirstOfReading(e) ==
    SelectInSeq(buckets, LAMBDA r : ReadingOf[r.key] = ReadingOf[e.key] /\ Close(e.value, r.value))

\* The rows that carry every field, in order
WellFormed(s) ==
    LET kept[n \in 0 .. Len(s)] ==
            IF n = 0 THEN << >>
            ELSE IF s[n] = Malformed THEN kept[n - 1] ELSE Append(kept[n - 1], s[n])
    IN  kept[Len(s)]

\* Rows that do not carry every field are counted and set aside.
Split ==
    /\ stage = "split"
    /\ rows' = WellFormed(output)
    /\ malformed' = Len(output) - Len(rows')
    /\ todo' = oracle
    /\ buckets' = rows'
    /\ stage' = "exact"
    /\ UNCHANGED <<inputs, leftover, exact, mismatched, missing, extra, near, lenient>>

PairExact ==
    /\ stage = "exact"
    /\ todo # << >>
    /\ LET e == Head(todo)
           i == FirstExact(e)
       IN  IF i = 0
           THEN leftover' = Append(leftover, e) /\ UNCHANGED <<buckets, exact>>
           ELSE /\ exact' = Append(exact, buckets[i].id)
                /\ buckets' = Pop(buckets, i)
                /\ UNCHANGED leftover
    /\ todo' = Tail(todo)
    /\ UNCHANGED <<inputs, stage, rows, malformed, mismatched, missing, extra, near, lenient>>

EndExact ==
    /\ stage = "exact"
    /\ todo = << >>
    /\ todo' = leftover
    /\ stage' = "mismatch"
    /\ UNCHANGED <<inputs, rows, buckets, leftover, score>>

PairMismatched ==
    /\ stage = "mismatch"
    /\ todo # << >>
    /\ LET e == Head(todo)
           i == FirstOfKey(e)
       IN  IF i = 0
           THEN missing' = Append(missing, e) /\ UNCHANGED <<buckets, mismatched>>
           ELSE /\ mismatched' = Append(mismatched, buckets[i])
                /\ buckets' = Pop(buckets, i)
                /\ UNCHANGED missing
    /\ todo' = Tail(todo)
    /\ UNCHANGED <<inputs, stage, rows, leftover, malformed, exact, extra, near, lenient>>

\* What is left is extra; the mismatched rows too may be near misses of missing ones.
EndMismatched ==
    /\ stage = "mismatch"
    /\ todo = << >>
    /\ extra' = Len(buckets) + malformed
    /\ todo' = missing
    /\ buckets' = buckets \o mismatched
    /\ stage' = "near"
    /\ UNCHANGED <<inputs, rows, leftover, malformed, exact, mismatched, missing, near, lenient>>

PairNear ==
    /\ stage = "near"
    /\ todo # << >>
    /\ LET i == FirstOfReading(Head(todo))
       IN  IF i = 0 THEN UNCHANGED <<buckets, near>>
           ELSE near' = near + 1 /\ buckets' = Pop(buckets, i)
    /\ todo' = Tail(todo)
    /\ UNCHANGED <<inputs, stage, rows, leftover, malformed, exact, mismatched, missing, extra, lenient>>

\* The lenient pairing starts from all rows again, not from what the strict one left.
EndNearOnTheRest ==
    /\ stage = "near"
    /\ todo = << >>
    /\ todo' = oracle
    /\ stage' = "lenient"
    /\ UNCHANGED <<inputs, rows, buckets, leftover, score>>
EndNear ==
    /\ stage = "near"
    /\ todo = << >>
    /\ todo' = oracle
    /\ buckets' = rows
    /\ stage' = "lenient"
    /\ UNCHANGED <<inputs, rows, leftover, score>>

PairLenient ==
    /\ stage = "lenient"
    /\ todo # << >>
    /\ LET i == FirstLenient(Head(todo))
       IN  IF i = 0 THEN UNCHANGED <<buckets, lenient>>
           ELSE lenient' = lenient + 1 /\ buckets' = Pop(buckets, i)
    /\ todo' = Tail(todo)
    /\ UNCHANGED <<inputs, stage, rows, leftover, malformed, exact, mismatched, missing, extra, near>>

EndLenient ==
    /\ stage = "lenient"
    /\ todo = << >>
    /\ stage' = "end"
    /\ UNCHANGED <<inputs, rows, todo, buckets, leftover, score>>

ScoreNext ==
    \/ Split \/ PairExact \/ EndExact \/ PairMismatched \/ EndMismatched
    \/ PairNear \/ EndNear \/ PairLenient \/ EndLenient

ScoreSpec == ScoreInit /\ [][ScoreNext]_scoreVars

\* passed: the same multiset of rows, every field equal, nothing malformed
Passed ==
    /\ malformed = 0
    /\ Len(exact) = Len(oracle)
    /\ Len(exact) = Len(output)

IdMatches == Cardinality({i \in DOMAIN exact : exact[i]})

----------------------------------------------------------------------------
(* Properties *)

\* How many rows of a sequence have this identity, and how many are as good as this one
OfKey(k, s) == Cardinality({i \in DOMAIN s : s[i].key = k})
AsGoodAs(r, s) == Cardinality({i \in DOMAIN s : s[i].key = r.key /\ Close(r.value, s[i].value)})

\* The numbers of one identity are close or far apart: no row can be had by two that are
\* not close themselves.
Clustered(identity) ==
    LET written == {r \in ToSet(oracle) \cup ToSet(rows) : r.value # NotNumeric}
        Alike(r, s) == identity[r.key] = identity[s.key] /\ Close(r.value, s.value)
    IN  \A r, s, t \in written : Alike(r, s) /\ Alike(s, t) => Alike(r, t)
AsWritten == [k \in Keys |-> k]

\* missing is the shortfall of each identity, whatever the values are and however the
\* exact pairs were found, and extra what the program has beyond that.
MissingIsTheShortfall ==
    stage = "end" =>
        /\ \A k \in Keys :
              OfKey(k, missing) = Max({0, OfKey(k, oracle) - OfKey(k, rows)})
        /\ extra = Len(output) - (Len(oracle) - Len(missing))

\* "Rows are compared as multisets, because row order is not part of the contract and
\* duplicates are": pairing first come, first served finds the whole intersection, all but
\* the rows of the engine that the program has too few like.
ExactIsTheIntersection ==
    stage = "end" /\ Clustered(AsWritten) =>
        /\ Len(exact) = Len(oracle) - Len(leftover)
        /\ \A r \in ToSet(oracle) :
              AsGoodAs(r, leftover) = Max({0, AsGoodAs(r, oracle) - AsGoodAs(r, rows)})

\* Reading timestamps as instants forgives; it never loses a pair the strict tier found.
LenientForgives ==
    stage = "end" /\ Clustered(InstantOf) => lenient >= Len(exact)
=============================================================================
