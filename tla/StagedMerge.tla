----------------------------- MODULE StagedMerge -----------------------------
(***************************************************************************)
(* What the sink's SQL does to sets of rows: the staged copies are reduced *)
(* to one row of each merge key, and these are merged into the table.  A   *)
(* copy is a record with at least key, stamp (ingested_at) and attr.       *)
(***************************************************************************)
EXTENDS Integers

CONSTANT Order   \* "latest": the entity has ingested_at; "first": it has not

ASSUME OrderAssumption == Order \in {"latest", "first"}

Row(c) == [key |-> c.key, stamp |-> c.stamp, attr |-> c.attr]
KeysOf(S) == {c.key : c \in S}

\* No ORDER BY
RankedAnyhow(c, d) == TRUE
\* Does a copy come no later than another in the ORDER BY of row_number()?
Ranked(c, d) == IF Order = "latest" THEN c.stamp >= d.stamp ELSE c.attr <= d.attr

\* The staged projection without its _rn = 1
NothingDeduped(S) == {{Row(c) : c \in S}}

\* The staged projection keeps one copy of each key; where copies rank equal,
\* whichever row_number() meets first.
Dedupe(S) ==
    LET firsts == {f \in [KeysOf(S) -> S] : \A k \in KeysOf(S) :
                      f[k].key = k /\ \A d \in S : d.key = k => Ranked(f[k], d)}
    IN  {{Row(f[k]) : k \in KeysOf(S)} : f \in firsts}

\* WHEN NOT MATCHED alone
InsertOnly(T, W) == T \cup {w \in W : \A t \in T : t.key # w.key}

\* WHEN MATCHED alone
UpdateOnly(T, W) == {t \in T : \A w \in W : w.key # t.key} \cup {w \in W : w.key \in KeysOf(T)}

\* MERGE: a matched row is replaced whole, an unmatched one inserted.
MergeInto(T, W) == {t \in T : \A w \in W : w.key # t.key} \cup W
==============================================================================
