----------------------------- MODULE MCMxElectrix -----------------------------
(* Two meters and two days.  The second snapshot of one meter has a reading    *)
(* more than the first, its third one less.                                    *)
EXTENDS MxElectrix, TLC

TwoMeters == {1, 2}
Snapshots == <<<<{"a", "b"}, {"b"}>>, <<{"c"}>>>>
TwoDays == [k \in {"a", "b", "c"} |-> IF k = "c" THEN 2 ELSE 1]

Interchangeable == Permutations(Commands)
=============================================================================
