----------------------------- MODULE MCLoadKempower -----------------------------
(* Two parts of two measurement files and a session file each, and a part of    *)
(* one measurement file and no sessions.                                        *)
EXTENDS LoadKempower

ThreeParts == {"p10", "p20", "p30"}
MCFiles == [p \in ThreeParts |-> IF p = "p30" THEN {"b0"} ELSE {"b0", "b1"}]
MCSessionFiles == [p \in ThreeParts |-> IF p = "p30" THEN {} ELSE {p}]
=============================================================================
