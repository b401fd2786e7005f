-------------------------- MODULE MCTransformRecords --------------------------
(* Two small sources for TransformRecords: a wide one with a scaled column and *)
(* a long one, with rules of every kind and sessions.  The inputs are the      *)
(* sequences of up to three records of the one or the other, and sequences of  *)
(* up to two records of each when it identifies its rows by position.          *)
EXTENDS ReferenceInterpreter, SequencesExt, TLC

CONSTANTS m1, m2   \* a meter whose factors are known, and one whose are not

NotNull(onFail) == [type |-> "not_null", onFail |-> onFail, allowed |-> {}]
InRange(onFail, allowed) == [type |-> "range", onFail |-> onFail, allowed |-> allowed]

MCFields == {"a", "b", "c"}
MCNumbers == 0 .. 4
MCSessionIds == {"s1", "s2"}
MCRowIds == {"r1", "p1", "p2"}
MCAggregations == {"average", "instantaneous"}
MCDefault == "average"
MCFactors == (m1 :> [uk |-> 2, ik |-> 1]) @@ (m2 :> [uk |-> 2, ik |-> Null])

\* "a" is scaled; quantity U is flagged above 4 and poisons the record at 8;
\* quantity P is dropped at 0, after having been flagged below 2, and a wide source
\* and a long one declare an aggregation for it
WideColumns ==
    << [src |-> "b", quantity |-> "P", factor |-> "none", aggregation |-> "instantaneous"],
       [src |-> "a", quantity |-> "U", factor |-> "uk_ik", aggregation |-> Null] >>
LongRows ==
    ("k1" :> [src |-> "b", quantity |-> "P", factor |-> "none", aggregation |-> "instantaneous"]) @@
    ("k2" :> [src |-> "b", quantity |-> "U", factor |-> "uk_ik", aggregation |-> Null]) @@
    ("k4" :> [src |-> "b", quantity |-> "U", factor |-> "uk", aggregation |-> "average"])

MCRecordRules ==
    << [field |-> "c", rule |-> InRange("flag_suspect", 1 .. 4)],
       [field |-> "c", rule |-> NotNull("reject_row")],
       [field |-> "c", rule |-> InRange("drop_row", 0 .. 3)] >>
MCQuantityRules ==
    ("P" :> << InRange("flag_suspect", 2 .. 8), InRange("drop_row", 1 .. 8) >>) @@
    ("U" :> << InRange("flag_suspect", 0 .. 4), InRange("reject_row", 0 .. 7) >>)

Rec(m, k, s, ok, fits, a, b, c) ==
    [shape |-> IF k = "" THEN "wide" ELSE "long", positional |-> FALSE,
     id |-> IF s = "s1" THEN "r1" ELSE Null, position |-> Null,
     meter |-> m, key |-> k, session |-> s, readable |-> ok, coerces |-> fits,
     cells |-> ("a" :> a) @@ ("b" :> b) @@ ("c" :> c)]

\* what each record is there for is said by the rule or the cell it meets
WideRecords ==
    { Rec(m1, "", "s1", TRUE, TRUE, 1, 2, 1),            \* two good values
      Rec(m1, "", "s1", TRUE, TRUE, 3, 1, 0),            \* flagged by record and values
      Rec(m1, "", "s2", TRUE, TRUE, 4, 1, 1),            \* P flagged, then U poisons it
      Rec(m1, "", "s2", TRUE, TRUE, 4, 0, 0),            \* P dropped, then U poisons it
      Rec(m1, "", "s1", TRUE, TRUE, 1, 0, 1),            \* P dropped, U good
      Rec(m1, "", NoSession, TRUE, TRUE, Null, 0, 1),    \* null, dropped
      Rec(m2, "", "s2", TRUE, TRUE, 1, 1, 2),            \* factor unknown
      Rec(m2, "", "s1", TRUE, TRUE, Junk, Null, 2),      \* factor unknown, so not parsed
      Rec(m1, "", "s2", TRUE, TRUE, 1, 2, Null),         \* discarded by not_null
      Rec(m1, "", "s2", FALSE, TRUE, 1, 2, 4),           \* discarded before it is read
      Rec(m1, "", "s2", FALSE, TRUE, 1, 2, 1),           \* raises: offset
      Rec(m1, "", "s2", TRUE, FALSE, 1, 2, 1),           \* raises if it opens the session
      Rec(m1, "", "s1", TRUE, TRUE, Junk, 2, 1),         \* raises: not a number
      Rec(m1, "", "s1", TRUE, TRUE, 1, 2, Junk) }        \* raises in a range rule

LongRecords ==
    { Rec(m1, "k1", "s1", TRUE, TRUE, Null, 2, 1),
      Rec(m1, "k1", "s2", TRUE, TRUE, Null, 1, 0),       \* flagged twice
      Rec(m1, "k1", "s2", TRUE, TRUE, Null, 0, 1),       \* dropped, its session stays
      Rec(m1, "k2", "s1", TRUE, TRUE, Null, 4, 1),       \* poisoned
      Rec(m2, "k2", "s2", TRUE, TRUE, Null, 2, 1),       \* one of its factors unknown
      Rec(m2, "k4", "s2", TRUE, TRUE, Null, 2, 1),       \* needs only the known one
      Rec(m1, "k3", "s1", TRUE, TRUE, Null, 2, 1),       \* unmapped
      Rec(m1, "k1", "s1", TRUE, TRUE, Null, Null, 1),    \* null
      Rec(m1, "k1", "s1", TRUE, TRUE, Null, 2, 4),       \* discarded by drop_row
      Rec(m1, "k2", "s1", TRUE, TRUE, Null, Junk, 1),    \* raises
      Rec(m1, "k3", "s1", FALSE, TRUE, Null, 2, 1) }     \* raises before it is unmapped

\* The same records of a source that identifies its rows by position, which the reader
\* stamps, or a caller forgot to
Positioned(records, positions) ==
    {[r EXCEPT !.positional = TRUE, !.position = p] : r \in records, p \in positions}

MaxRecords == 3
MaxPositioned == 2
WideInputs == BoundedSeq(WideRecords, MaxRecords)
MCInputs ==
    WideInputs \cup BoundedSeq(LongRecords, MaxRecords)
    \cup BoundedSeq(Positioned(WideRecords, {"p1", Null}), MaxPositioned)
    \cup BoundedSeq(Positioned(LongRecords, {"p1", "p2"}), MaxPositioned)
=============================================================================
