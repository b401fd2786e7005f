------------------------------ MODULE MergedTable ------------------------------
(***************************************************************************)
(* What a load of staged rows promises: a table with one row per merge     *)
(* key.  A load brings, for every key it offers, one of the best copies it *)
(* offers of that key, whatever the table held, and changes nothing else.  *)
(***************************************************************************)
EXTENDS Integers

CONSTANTS
    Copies,   \* what can be staged: [file, key, stamp, attr]
    Order     \* "latest": highest stamp; "first": lowest other columns

VARIABLES
    content,  \* merge key -> its row
    last      \* the copies the last load has offered

KeysOf(S) == {c.key : c \in S}

\* The copies of a key of which one may be kept
Best(S, k) ==
    {c \in S : /\ c.key = k
               /\ \A d \in S : d.key = k =>
                     /\ Order = "latest" => d.stamp <= c.stamp
                     /\ Order = "first" => c.attr <= d.attr}

Init ==
    /\ content = [k \in {} |-> {}]
    /\ last = {}

Load(S) ==
    /\ \E kept \in [KeysOf(S) -> S] :
          /\ \A k \in KeysOf(S) : kept[k] \in Best(S, k)
          /\ content' = [k \in DOMAIN content \cup KeysOf(S) |->
                            IF k \in KeysOf(S)
                            THEN [key |-> k, stamp |-> kept[k].stamp, attr |-> kept[k].attr]
                            ELSE content[k]]
    /\ last' = S

Next == \E S \in SUBSET Copies : Load(S)

Spec == Init /\ [][Next]_<<content, last>>
=============================================================================
