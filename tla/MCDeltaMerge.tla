----------------------------- MODULE MCDeltaMerge -----------------------------
(* Two loaders, two staging paths, two keys with a revised copy of each.       *)
EXTENDS DeltaMerge, TLC

Copy(f, k, stamp, attr) == [file |-> f, key |-> k, stamp |-> stamp, attr |-> attr]

a1 == Copy("f1", "a", 1, 1)
a2 == Copy("f2", "a", 2, 2)     \* a, revised in a later run
a1too == Copy("f1", "a", 1, 3)  \* a second reading of the same instant, same run
b1 == Copy("f1", "b", 1, 1)
b2 == Copy("f2", "b", 2, 1)

Revised == {{a1, b1}, {a1, b1, a2}, {b2}}
Duplicates == {{a1, a1too, b1}, {a2}}

RevisedCopies == UNION Revised
DuplicateCopies == UNION Duplicates

\* Nothing tells one loader, or one staging path, from another.
Interchangeable == Permutations(Loaders) \cup Permutations(Paths)
=============================================================================
