----------------------------- MODULE ServingPublish -----------------------------
(***************************************************************************)
(* delta-views: publish the rulebook's reference dimensions, then its      *)
(* serving definitions, as Delta tables or, where the rulebook says so, as *)
(* views.  The platform has no atomic replace, so every table is dropped,  *)
(* created and filled by three statements; readers, loads of the fact      *)
(* table, a new rulebook and other publishers may come between any two,    *)
(* and each statement may fail.                                            *)
(***************************************************************************)
EXTENDS Integers, Sequences, FiniteSets

CONSTANTS
    Dimensions,   \* the reference dimensions in their order, a sequence
    Definitions,  \* the serving definitions in their order, a sequence
    Joins,        \* definition -> the dimensions its SELECT joins
    Publishers,
    ViewBooks,    \* the rulebook revisions whose serving_mode is "view", not "table"
    EmptyBooks,   \* the rulebook revisions whose vocabularies have no entry
    MaxLoads,     \* bound: commits to the fact table
    MaxRevisions, \* bound: changes of the rulebook
    MaxPublishes  \* bound: publishes started

VARIABLES
    fact,      \* how many loads the fact table has seen
    rulebook,  \* the revision of the rulebook on disk
    tables,    \* the objects that are in the catalog
    rows,      \* object -> the snapshots inserted into it, in order
    publishes, \* how many publishes have started
    pc,        \* publisher -> "idle", "prepare", "drop", "create", "insert", "done", "failed"
    at,        \* publisher -> its place in Order
    book,      \* publisher -> the revision its bundle was loaded from
    body,      \* publisher -> the revision of the definition it has read
    since      \* publisher -> the fact table's loads when it started (history)

world == <<fact, rulebook>>
publisher == <<pc, at, book, body, since>>
catalog == <<tables, rows>>
vars == <<world, catalog, publishes, publisher>>

\* What delta_views publishes, in the order it does: names of a mapping, in a schema of
\* its own the names of files
Order == Dimensions \o Definitions

ASSUME NamesAssumption ==
    /\ Dimensions \in Seq(STRING) /\ Definitions \in Seq(STRING)
    /\ \A i, j \in 1 .. Len(Order) : Order[i] = Order[j] => i = j
ASSUME JoinsAssumption ==
    \A i \in 1 .. Len(Definitions) :
        Joins[Definitions[i]] \subseteq {Dimensions[j] : j \in 1 .. Len(Dimensions)}
ASSUME LoadsAssumption == MaxLoads \in Nat

Objects == {Order[i] : i \in 1 .. Len(Order)}
IsDimension(o) == \E i \in 1 .. Len(Dimensions) : Dimensions[i] = o

Live == MaxLoads + 1   \* the fact table as a view shows it: whatever it holds when read

\* What one INSERT, or one view, puts into an object: the revision it was defined by,
\* the fact table it read, and the revisions of the dimensions it joined.
Snapshot(b, f, js) == [book |-> b, fact |-> f, joined |-> js]

\* The revisions found in the dimensions a definition joins
Joined(o) == UNION {{rows[d][i].book : i \in 1 .. Len(rows[d])} : d \in Joins[o]}

CanSelect(o) == Joins[o] \subseteq tables

\* serving_mode(bundle), of the bundle the command has loaded
ServingMode(p) == IF book[p] \in ViewBooks THEN "view" ELSE "table"

IsView(o) == o \in tables /\ \E i \in 1 .. Len(rows[o]) : rows[o][i].fact = Live

Init ==
    /\ fact = 0
    /\ rulebook = 1
    /\ tables = {}
    /\ rows = [o \in Objects |-> << >>]
    /\ publishes = 0
    /\ pc = [p \in Publishers |-> "idle"]
    /\ at = [p \in Publishers |-> 1]
    /\ book = [p \in Publishers |-> 0]
    /\ body = [p \in Publishers |-> 0]
    /\ since = [p \in Publishers |-> 0]

----------------------------------------------------------------------------
(* Around the publishers *)

\* A MERGE into the fact table commits.
Load ==
    /\ fact < MaxLoads
    /\ fact' = fact + 1
    /\ UNCHANGED <<rulebook, catalog, publishes, publisher>>

\* The metadata checkout moves to its next revision.
Revise ==
    /\ rulebook < MaxRevisions
    /\ rulebook' = rulebook + 1
    /\ UNCHANGED <<fact, catalog, publishes, publisher>>

----------------------------------------------------------------------------
(* A publisher *)

\* The object the publisher is at
Current(p) == Order[at[p]]

Statement(p, stage) ==
    /\ pc[p] = stage
    /\ UNCHANGED <<world, publishes, book, since>>

\* What a publisher does at a place in the order
Turn(i) == IF i > Len(Order) THEN "done" ELSE "prepare"

\* On to the next object after this one
Advance(p) ==
    /\ at' = [at EXCEPT ![p] = @ + 1]
    /\ pc' = [pc EXCEPT ![p] = Turn(at[p] + 1)]

\* The command loads the bundle and connects.
Start(p) ==
    /\ pc[p] \in {"idle", "done", "failed"}
    /\ publishes < MaxPublishes
    /\ publishes' = publishes + 1
    /\ pc' = [pc EXCEPT ![p] = Turn(1)]
    /\ at' = [at EXCEPT ![p] = 1]
    /\ book' = [book EXCEPT ![p] = rulebook]
    /\ since' = [since EXCEPT ![p] = fact]
    /\ UNCHANGED <<world, catalog, body>>

\* A dimension's rows come from the bundle; a definition's SQL is read from the checkout as
\* it is now, and in table mode analysed to learn its columns before anything is dropped.
PrepareDimension(p) ==
    /\ Statement(p, "prepare")
    /\ IsDimension(Current(p))
    /\ pc' = [pc EXCEPT ![p] = "drop"]
    /\ UNCHANGED <<catalog, at, body>>

PrepareTable(p) ==
    /\ Statement(p, "prepare")
    /\ ~IsDimension(Current(p))
    /\ ServingMode(p) = "table"
    /\ CanSelect(Current(p))
    /\ body' = [body EXCEPT ![p] = rulebook]
    /\ pc' = [pc EXCEPT ![p] = "drop"]
    /\ UNCHANGED <<catalog, at>>

\* CREATE OR REPLACE VIEW: one statement, which fails where a table is.
ReplaceView(p) ==
    /\ Statement(p, "prepare")
    /\ ~IsDimension(Current(p))
    /\ ServingMode(p) = "view"
    /\ CanSelect(Current(p))
    /\ Current(p) \notin tables \/ IsView(Current(p))
    /\ tables' = tables \cup {Current(p)}
    /\ rows' = [rows EXCEPT ![Current(p)] = <<Snapshot(rulebook, Live, {})>>]
    /\ Advance(p)
    /\ UNCHANGED body

\* A table that is there already is filled once more.
DropNothing(p) ==
    /\ Statement(p, "drop")
    /\ pc' = [pc EXCEPT ![p] = IF Current(p) \in tables THEN "insert" ELSE "create"]
    /\ UNCHANGED <<catalog, at, body>>

\* DROP TABLE IF EXISTS, which fails where a view is.
Drop(p) ==
    /\ Statement(p, "drop")
    /\ ~IsView(Current(p))
    /\ tables' = tables \ {Current(p)}
    /\ rows' = [rows EXCEPT ![Current(p)] = << >>]
    /\ pc' = [pc EXCEPT ![p] = "create"]
    /\ UNCHANGED <<at, body>>

\* The INSERT is left out when a dimension has no rows.
NothingToInsert(p) == IsDimension(Current(p)) /\ book[p] \in EmptyBooks

\* CREATE TABLE fails where a table is.
Create(p) ==
    /\ Statement(p, "create")
    /\ Current(p) \notin tables
    /\ tables' = tables \cup {Current(p)}
    /\ IF NothingToInsert(p)
       THEN Advance(p)
       ELSE pc' = [pc EXCEPT ![p] = "insert"] /\ UNCHANGED at
    /\ UNCHANGED <<rows, body>>

\* The vocabulary is read from the checkout again.
InsertedFromCheckout(p) ==
    LET o == Current(p)
    IN  IF IsDimension(o) THEN Snapshot(rulebook, 0, {})
                          ELSE Snapshot(body[p], fact, Joined(o))

\* What is inserted: the rows of the bundle's vocabulary, or the SELECT's result.
Inserted(p) ==
    LET o == Current(p)
    IN  IF IsDimension(o) THEN Snapshot(book[p], 0, {})
                          ELSE Snapshot(body[p], fact, Joined(o))

InsertRows(p) ==
    LET o == Current(p)
    IN  /\ Statement(p, "insert")
        /\ o \in tables
        /\ ~IsDimension(o) => CanSelect(o)
        /\ rows' = [rows EXCEPT ![o] = Append(@, Inserted(p))]
        /\ Advance(p)
        /\ UNCHANGED <<tables, body>>

\* A failure is swallowed and the loop goes on.
FailOnwards(p) ==
    /\ pc[p] \in {"prepare", "drop", "create", "insert"}
    /\ Advance(p)
    /\ UNCHANGED <<world, catalog, publishes, book, body, since>>

\* A statement fails, or the publisher is killed before it: nothing after it is done.
Fail(p) ==
    /\ pc[p] \in {"prepare", "drop", "create", "insert"}
    /\ pc' = [pc EXCEPT ![p] = "failed"]
    /\ UNCHANGED <<world, catalog, publishes, at, book, body, since>>

Publish(p) ==
    \/ Start(p) \/ PrepareDimension(p) \/ PrepareTable(p) \/ ReplaceView(p)
    \/ Drop(p) \/ Create(p) \/ InsertRows(p) \/ Fail(p)

Next == Load \/ Revise \/ \E p \in Publishers : Publish(p)

Spec == Init /\ [][Next]_vars

----------------------------------------------------------------------------
(* Properties *)

\* "Non-atomic (brief gap during refresh)": the gap is all that refreshing in three
\* statements costs a lone publisher, wherever it failed before; an object that has rows
\* has the rows of exactly one refresh.
OnlyAGap ==
    \A o \in Objects : Len(rows[o]) <= 1

\* An object as a publisher should have left it: a dimension is the vocabulary of its
\* bundle, a definition shows a fact table no older than the publish.
Fresh(p, o) ==
    /\ o \in tables
    /\ IF IsDimension(o)
       THEN rows[o] = IF book[p] \in EmptyBooks THEN << >> ELSE <<Snapshot(book[p], 0, {})>>
       ELSE /\ Len(rows[o]) = 1
            /\ rows[o][1].book >= book[p]
            /\ rows[o][1].fact >= since[p]

\* A publish refreshes the objects in their order, whatever was loaded or failed before and
\* whatever is loaded or revised meanwhile: at every moment, and for good where it fails,
\* every object before the one it is at is fresh; when it ends well, all of them are.
RefreshedSoFar ==
    \A p \in Publishers : \A i \in 1 .. at[p] - 1 : Fresh(p, Order[i])

\* "Dimensions first: serving definitions may join them": the rows of a finished publish
\* were joined to the dimensions of the very bundle that publish loaded, never to the ones
\* an earlier publish left behind.
JoinedToItsBundle ==
    \A p \in Publishers : pc[p] = "done" =>
        \A o \in Objects : ~IsDimension(o) /\ ServingMode(p) = "table" =>
            rows[o][1].joined =
                IF Joins[o] = {} \/ book[p] \in EmptyBooks THEN {} ELSE {book[p]}
=============================================================================
