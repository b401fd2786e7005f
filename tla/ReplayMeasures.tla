----------------------------- MODULE ReplayMeasures -----------------------------
(***************************************************************************)
(* replay_run.py: the measures of the Kempower replay beyond score_case.   *)
(* A program's rows are compared with the engine's at three levels, each   *)
(* of which leaves out more of the contract's fields; and the reference's  *)
(* rows are compared with the engine's row by row.                         *)
(*                                                                         *)
(* Both orders of pairing meet here: score_case pairs greedily in order of *)
(* appearance, a level sorts the values first.  Values are close within a  *)
(* tolerance for both, so the two may pair differently.                    *)
(***************************************************************************)
EXTENDS ScoreCase

CONSTANTS
    RowIdAside,        \* key -> what is left of it without source_row_id
    AggregationAside   \* key -> what is left of that without aggregation

\* What a level compares of a row beside its value
Left(level, r) ==
    CASE level = 1 -> <<r.key, r.id>>
      [] level = 2 -> RowIdAside[r.key]
      [] level = 3 -> AggregationAside[RowIdAside[r.key]]

\* The values of a bucket, each at the place of its row
Bucket(level, left, s) ==
    [i \in {j \in DOMAIN s : Left(level, s[j]) = left} |-> s[i].value]

\* How many values of a bucket are up to v
UpTo(v, values) == Cardinality({i \in DOMAIN values : values[i] <= v})

\* A bucket's values are compared one by one as they come.
AsTheyCome(values) ==
    [n \in 1 .. Cardinality(DOMAIN values) |->
        values[CHOOSE i \in DOMAIN values : Cardinality({j \in DOMAIN values : j <= i}) = n]]
\* sorted(): the n-th is the smallest that n of them are up to
Sorted(values) ==
    [n \in 1 .. Cardinality(DOMAIN values) |->
        Min({v \in Range(values) : UpTo(v, values) >= n})]

BucketsAgree(level, left) ==
    LET expected == Bucket(level, left, oracle)
        produced == Bucket(level, left, output)
        size == Cardinality(DOMAIN expected)
    IN  /\ Cardinality(DOMAIN produced) = size
        /\ \A i \in DOMAIN produced : produced[i] # NotNumeric
        /\ \A n \in 1 .. size : Close(Sorted(expected)[n], Sorted(produced)[n])

\* All rows well-formed, as many as the engine's, and in the same buckets
ProjectedMatch(level) ==
    /\ Malformed \notin ToSet(output)
    /\ Len(output) = Len(oracle)
    /\ \A r \in ToSet(oracle) \cup ToSet(output) : BucketsAgree(level, Left(level, r))

\* No field of any row differs, in the order the rows are written in.
NoOrderedDifferences ==
    /\ Malformed \notin ToSet(output)
    /\ Len(output) = Len(oracle)
    /\ \A i \in DOMAIN output :
          /\ output[i].key = oracle[i].key
          /\ output[i].id
          /\ Close(oracle[i].value, output[i].value)

\* engine_identity for one input: a pass in which every identity hash is the engine's
EngineIdentity == Passed /\ IdMatches = Len(exact)

----------------------------------------------------------------------------
(* Properties *)

\* PROTOCOL.md: level 1 "is measure A's pass with every identity hash equal as well".
\* What score_case passes is never refused by the sorted comparison, whatever the values;
\* the other way round the greedy pairing may fail on values that are not clustered.
LevelOneIsThePass ==
    stage = "end" =>
        /\ EngineIdentity => ProjectedMatch(1)
        /\ Clustered(AsWritten) /\ ProjectedMatch(1) => EngineIdentity

\* PROTOCOL.md: "a program that reaches level 1 also reaches levels 2 and 3".  A level with
\* fewer fields sorts the values of several buckets together and must still pair them.
LevelsNest ==
    stage = "end" =>
        /\ ProjectedMatch(1) => ProjectedMatch(2)
        /\ ProjectedMatch(2) => ProjectedMatch(3)

\* P2 reads the reference's departures off ordered_differences, and its level and its pass
\* off the other measures: rows without an ordered difference pass, and reach level 1.
NoDifferencePasses ==
    stage = "end" /\ NoOrderedDifferences => EngineIdentity /\ ProjectedMatch(1)
=============================================================================
