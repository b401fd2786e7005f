-------------------------- MODULE ServingPublishProofs --------------------------
(* Proofs about ServingPublish: a publisher that is alone leaves every object with *)
(* the rows of one refresh, everything before its place fresh, and its definitions *)
(* joined to the dimensions of its own bundle; for any dimensions, definitions,    *)
(* loads and revisions, wherever it failed before.                                 *)
EXTENDS ServingPublish, TLAPS

\* "Two delta-views at once" are excluded: they may undo each other.
Alone == \A p, q \in Publishers : p = q

Revision == Nat
InsertedRows == [book : Revision, fact : Nat, joined : SUBSET Revision]

WorldInv ==
    /\ fact \in Nat /\ fact <= MaxLoads
    /\ rulebook \in Nat

\* What is not in the catalog has no rows, and no object has two refreshes in it.
CatalogInv ==
    /\ tables \subseteq Objects
    /\ rows \in [Objects -> Seq(InsertedRows)]
    /\ \A o \in Objects : o \notin tables => rows[o] = << >>
    /\ OnlyAGap

\* The control state of a publisher, and what its stage says of the object it is at
Working(p) == pc[p] \in {"prepare", "drop", "create", "insert"}

PlaceInv(p) ==
    /\ Working(p) \/ pc[p] \in {"idle", "done", "failed"}
    /\ at[p] \in Nat \ {0} /\ at[p] <= Len(Order) + 1
    /\ Working(p) => at[p] <= Len(Order)
    /\ pc[p] = "done" => at[p] = Len(Order) + 1

BundleInv(p) ==
    /\ book[p] \in Nat /\ body[p] \in Nat /\ since[p] \in Nat
    /\ book[p] <= rulebook /\ since[p] <= fact

StageInv(p) ==
    /\ pc[p] \in {"drop", "create", "insert"} /\ ~IsDimension(Current(p)) => book[p] <= body[p]
    /\ pc[p] = "create" => Current(p) \notin tables
    /\ pc[p] = "insert" => /\ Current(p) \in tables /\ rows[Current(p)] = << >>
                           /\ ~NothingToInsert(p)

\* The dimensions a definition was joined to are those of the publisher's bundle.
JoinedWell(p, o) ==
    ~IsDimension(o) /\ ServingMode(p) = "table" =>
        rows[o][1].joined = IF Joins[o] = {} \/ book[p] \in EmptyBooks THEN {} ELSE {book[p]}

Published(p, o) == Fresh(p, o) /\ JoinedWell(p, o)

\* What the publisher has been at already is published.
DoneInv(p) == \A i \in 1 .. at[p] - 1 : Published(p, Order[i])

PublisherInv(p) == PlaceInv(p) /\ BundleInv(p) /\ StageInv(p) /\ DoneInv(p)

SInv == WorldInv /\ CatalogInv /\ (\A p \in Publishers : PublisherInv(p))

Typed ==
    /\ DOMAIN pc = Publishers /\ DOMAIN at = Publishers /\ DOMAIN book = Publishers
    /\ DOMAIN body = Publishers /\ DOMAIN since = Publishers

PInv == SInv /\ Typed

(***************************************************************************)
(* The order                                                               *)
(***************************************************************************)

\* Dimensions come first, and are no definitions.
LEMMA OrderIs ==
    /\ Len(Order) \in Nat /\ Len(Dimensions) \in Nat /\ Len(Dimensions) <= Len(Order)
    /\ \A i \in 1 .. Len(Dimensions) : Order[i] = Dimensions[i]
    /\ \A i \in 1 .. Len(Order) : Order[i] \in Objects
    /\ \A i \in 1 .. Len(Order) : IsDimension(Order[i]) <=> i <= Len(Dimensions)
    /\ \A i \in 1 .. Len(Order) : ~IsDimension(Order[i]) =>
          Joins[Order[i]] \subseteq {Dimensions[j] : j \in 1 .. Len(Dimensions)}
<1>1. /\ Len(Order) = Len(Dimensions) + Len(Definitions)
      /\ Len(Dimensions) \in Nat /\ Len(Definitions) \in Nat
      /\ \A i \in 1 .. Len(Dimensions) : Order[i] = Dimensions[i]
      /\ \A i \in 1 .. Len(Order) : i > Len(Dimensions) =>
            Order[i] = Definitions[i - Len(Dimensions)]
    BY NamesAssumption DEF Order
<1>2. \A i \in 1 .. Len(Order) : IsDimension(Order[i]) <=> i <= Len(Dimensions)
    <2>1. ASSUME NEW i \in 1 .. Len(Order), i <= Len(Dimensions)  PROVE IsDimension(Order[i])
        BY <1>1, <2>1 DEF IsDimension
    <2>2. ASSUME NEW i \in 1 .. Len(Order), NEW j \in 1 .. Len(Dimensions), Dimensions[j] = Order[i]
          PROVE  i <= Len(Dimensions)
        <3>1. j \in 1 .. Len(Order) /\ Order[j] = Order[i]
            BY <1>1, <2>2
        <3>2. i = j
            BY <3>1, NamesAssumption
        <3> QED
            BY <3>2
    <2> QED
        BY <2>1, <2>2 DEF IsDimension
<1>3. ASSUME NEW i \in 1 .. Len(Order), ~IsDimension(Order[i])
      PROVE  Joins[Order[i]] \subseteq {Dimensions[j] : j \in 1 .. Len(Dimensions)}
    <2>1. i > Len(Dimensions)
        BY <1>1, <1>2, <1>3
    <2>2. i - Len(Dimensions) \in 1 .. Len(Definitions) /\ Order[i] = Definitions[i - Len(Dimensions)]
        BY <1>1, <2>1
    <2> QED
        BY <2>2, JoinsAssumption
<1> QED
    BY <1>1, <1>2, <1>3 DEF Objects

\* No object is at two places.
LEMMA PlacesDiffer ==
    ASSUME NEW i \in 1 .. Len(Order), NEW j \in 1 .. Len(Order), i # j  PROVE Order[i] # Order[j]
BY NamesAssumption

(***************************************************************************)
(* Publishing one object                                                   *)
(***************************************************************************)

\* What is published stays so while its rows are left alone.
LEMMA PublishedStays ==
    ASSUME NEW p, NEW o, Published(p, o), book'[p] = book[p], since'[p] = since[p],
           rows'[o] = rows[o], o \in tables'
    PROVE  Published(p, o)'
BY DEF Published, Fresh, JoinedWell, ServingMode, IsDimension, Snapshot

\* With the dimensions published, what a SELECT joins is the publisher's bundle.
LEMMA JoinsBundle ==
    ASSUME NEW p, NEW i \in 1 .. Len(Order), ~IsDimension(Order[i]),
           \A j \in 1 .. i - 1 : Fresh(p, Order[j])
    PROVE  Joined(Order[i]) =
              IF Joins[Order[i]] = {} \/ book[p] \in EmptyBooks THEN {} ELSE {book[p]}
<1> DEFINE o == Order[i]
<1>1. ASSUME NEW d \in Joins[o]
      PROVE  rows[d] = IF book[p] \in EmptyBooks THEN << >> ELSE <<Snapshot(book[p], 0, {})>>
    <2>1. PICK j \in 1 .. Len(Dimensions) : d = Dimensions[j]
        BY OrderIs
    <2>2. j \in 1 .. i - 1 /\ Order[j] = d /\ IsDimension(d)
        BY <2>1, OrderIs
    <2> QED
        BY <2>2 DEF Fresh
<1>2. ASSUME NEW d \in Joins[o]
      PROVE  {rows[d][k].book : k \in 1 .. Len(rows[d])} =
                IF book[p] \in EmptyBooks THEN {} ELSE {book[p]}
    <2>1. CASE book[p] \in EmptyBooks
        BY <1>1, <2>1
    <2>2. CASE book[p] \notin EmptyBooks
        <3>1. rows[d] = <<Snapshot(book[p], 0, {})>>
            BY <1>1, <2>2
        <3>2. Len(rows[d]) = 1 /\ rows[d][1].book = book[p]
            BY <3>1 DEF Snapshot
        <3>3. 1 .. Len(rows[d]) = {1}
            BY <3>2
        <3> QED
            BY <2>2, <3>2, <3>3
    <2> QED
        BY <2>1, <2>2
<1> DEFINE found(d) == {rows[d][k].book : k \in 1 .. Len(rows[d])}
<1>3. Joined(o) = UNION {found(d) : d \in Joins[o]}
    BY DEF Joined
<1>4. \A d \in Joins[o] : found(d) = IF book[p] \in EmptyBooks THEN {} ELSE {book[p]}
    BY <1>2
<1> HIDE DEF found, o
<1>5. ASSUME NEW x \in Joined(o)  PROVE Joins[o] # {} /\ book[p] \notin EmptyBooks /\ x = book[p]
    BY <1>3, <1>4
<1>6. ASSUME Joins[o] # {}, book[p] \notin EmptyBooks  PROVE book[p] \in Joined(o)
    BY <1>3, <1>4, <1>6
<1>7. Joined(o) = IF Joins[o] = {} \/ book[p] \in EmptyBooks THEN {} ELSE {book[p]}
    BY <1>5, <1>6
<1> QED
    BY <1>7 DEF o

\* The objects before a publisher's place are other ones than the one it is at.
LEMMA AtAnObject ==
    ASSUME NEW p, PlaceInv(p), Working(p)
    PROVE  /\ at[p] \in 1 .. Len(Order) /\ Current(p) \in Objects
           /\ \A i \in 1 .. at[p] - 1 : /\ i \in 1 .. Len(Order) /\ Order[i] \in Objects
                                        /\ Order[i] # Current(p)
<1>1. at[p] \in 1 .. Len(Order)
    BY OrderIs DEF PlaceInv
<1>2. \A i \in 1 .. at[p] - 1 : i \in 1 .. Len(Order) /\ i # at[p]
    BY <1>1, OrderIs
<1> QED
    BY <1>1, <1>2, OrderIs, PlacesDiffer DEF Current

\* Between two objects nothing is lost of what is done.
LEMMA DoneStays ==
    ASSUME NEW p, PlaceInv(p), Working(p), DoneInv(p), at'[p] = at[p],
           book'[p] = book[p], since'[p] = since[p],
           \A o \in Objects : o # Current(p) => rows'[o] = rows[o] /\ (o \in tables => o \in tables')
    PROVE  DoneInv(p)'
<1> SUFFICES ASSUME NEW i \in 1 .. at[p] - 1  PROVE Published(p, Order[i])'
    BY DEF DoneInv
<1>1. Published(p, Order[i]) /\ Order[i] \in Objects /\ Order[i] # Current(p)
    BY AtAnObject DEF DoneInv
<1>2. PICK o \in Objects : o = Order[i]
    BY <1>1
<1>3. Published(p, o) /\ o # Current(p) /\ o \in tables
    BY <1>1, <1>2 DEF Published, Fresh
<1>4. rows'[o] = rows[o] /\ o \in tables'
    BY <1>3
<1>5. Published(p, o)'
    BY <1>3, <1>4, PublishedStays
<1> QED
    BY <1>2, <1>5

\* The object is published, and the next one is due.
LEMMA Advances ==
    ASSUME NEW p \in Publishers, Typed, PlaceInv(p), Working(p), DoneInv(p), Advance(p),
           book'[p] = book[p], since'[p] = since[p],
           \A o \in Objects : o # Current(p) => rows'[o] = rows[o] /\ (o \in tables => o \in tables'),
           NEW c, c = Current(p), Published(p, c)'
    PROVE  PlaceInv(p)' /\ StageInv(p)' /\ DoneInv(p)'
<1>1. at[p] \in 1 .. Len(Order) /\ Len(Order) \in Nat
    BY AtAnObject, OrderIs
<1>2. /\ at'[p] = at[p] + 1
      /\ pc'[p] = IF at[p] + 1 > Len(Order) THEN "done" ELSE "prepare"
    BY DEF Advance, Turn, Typed
<1>3. PlaceInv(p)' /\ StageInv(p)'
    BY <1>1, <1>2 DEF PlaceInv, Working, StageInv
<1>4. ASSUME NEW i \in 1 .. at'[p] - 1  PROVE Published(p, Order[i])'
    <2>1. CASE i = at[p]
        BY <2>1 DEF Current
    <2>2. CASE i # at[p]
        <3>1. i \in 1 .. at[p] - 1
            BY <1>1, <1>2, <2>2
        <3>2. Published(p, Order[i]) /\ Order[i] \in Objects /\ Order[i] # Current(p)
            BY <3>1, AtAnObject DEF DoneInv
        <3>3. PICK o \in Objects : o = Order[i]
            BY <3>2
        <3>4. Published(p, o) /\ o # Current(p) /\ o \in tables
            BY <3>2, <3>3 DEF Published, Fresh
        <3>5. Published(p, o)'
            BY <3>4, PublishedStays
        <3> QED
            BY <3>3, <3>5
    <2> QED
        BY <2>1, <2>2
<1> QED
    BY <1>3, <1>4 DEF DoneInv

(***************************************************************************)
(* The steps                                                               *)
(***************************************************************************)

\* Nothing is published.
LEMMA InitHolds == Init => PInv
<1> SUFFICES ASSUME Init  PROVE PInv
    OBVIOUS
<1>1. Typed
    BY DEF Init, Typed
<1>2. WorldInv
    BY LoadsAssumption DEF Init, WorldInv
<1>3. \A o \in Objects : rows[o] = << >> /\ Len(rows[o]) = 0
    BY DEF Init
<1>4. CatalogInv
    BY <1>3 DEF Init, CatalogInv, OnlyAGap
<1>5. ASSUME NEW p \in Publishers  PROVE PublisherInv(p)
    BY OrderIs DEF Init, PublisherInv, PlaceInv, BundleInv, StageInv, DoneInv, Working
<1> QED
    BY <1>1, <1>2, <1>4, <1>5 DEF PInv, SInv

\* Loads and revisions go on under a publisher.
LEMMA WorldGoesOn ==
    ASSUME PInv, Load \/ Revise  PROVE PInv'
<1>1. /\ WorldInv' /\ fact <= fact' /\ rulebook <= rulebook'
      /\ UNCHANGED <<catalog, publishes, publisher>>
    BY LoadsAssumption DEF PInv, SInv, WorldInv, Load, Revise
<1>2. /\ tables' = tables /\ rows' = rows /\ pc' = pc /\ at' = at /\ book' = book
      /\ body' = body /\ since' = since
    BY <1>1 DEF catalog, publisher
<1>3. CatalogInv' /\ Typed'
    BY <1>2 DEF PInv, SInv, CatalogInv, OnlyAGap, Typed
<1>4. ASSUME NEW p \in Publishers  PROVE PublisherInv(p)'
    <2>1. PublisherInv(p) /\ WorldInv
        BY DEF PInv, SInv
    <2>2. PlaceInv(p)'
        BY <1>2, <2>1 DEF PublisherInv, PlaceInv, Working
    <2>3. BundleInv(p)'
        BY <1>1, <1>2, <2>1 DEF PublisherInv, BundleInv, WorldInv
    <2>4. StageInv(p)'
        BY <1>2, <2>1 DEF PublisherInv, StageInv, Current, NothingToInsert, IsDimension
    <2>5. ASSUME NEW i \in 1 .. at[p] - 1  PROVE Published(p, Order[i])'
        <3>1. Published(p, Order[i])
            BY <2>1 DEF PublisherInv, DoneInv
        <3>2. Order[i] \in tables'
            BY <1>2, <3>1 DEF Published, Fresh
        <3> QED
            BY <1>2, <3>1, <3>2, PublishedStays
    <2>6. DoneInv(p)'
        BY <1>2, <2>5 DEF DoneInv
    <2> QED
        BY <2>2, <2>3, <2>4, <2>6 DEF PublisherInv
<1> QED
    BY <1>1, <1>3, <1>4 DEF PInv, SInv


\* A step of the one publisher there is
LEMMA Closes ==
    ASSUME Alone, PInv, NEW p \in Publishers, UNCHANGED world, Typed', CatalogInv',
           PlaceInv(p)', BundleInv(p)', StageInv(p)', DoneInv(p)'
    PROVE  PInv'
<1>1. WorldInv'
    BY DEF PInv, SInv, WorldInv, world
<1>2. \A q \in Publishers : q = p
    BY DEF Alone
<1>3. PublisherInv(p)'
    BY DEF PublisherInv
<1>4. \A q \in Publishers : PublisherInv(q)'
    BY <1>2, <1>3
<1> QED
    BY <1>1, <1>4 DEF PInv, SInv

\* What every action of a publisher starts from
LEMMA Holds ==
    ASSUME PInv, NEW p \in Publishers
    PROVE  WorldInv /\ CatalogInv /\ Typed /\ PlaceInv(p) /\ BundleInv(p) /\ StageInv(p) /\ DoneInv(p)
BY DEF PInv, SInv, PublisherInv

\* A publish starts before the first object.
LEMMA Starts ==
    ASSUME Alone, PInv, NEW p \in Publishers, Start(p)  PROVE PInv'
<1>1. WorldInv /\ CatalogInv /\ Typed
    BY Holds
<1>2. /\ UNCHANGED <<world, catalog, body>> /\ Typed'
      /\ pc'[p] = IF 1 > Len(Order) THEN "done" ELSE "prepare"
      /\ at'[p] = 1 /\ book'[p] = rulebook /\ since'[p] = fact /\ body'[p] = body[p]
    BY <1>1 DEF Start, Typed, Turn
<1>3. CatalogInv'
    BY <1>1, <1>2 DEF CatalogInv, OnlyAGap, catalog
<1>4. PlaceInv(p)' /\ StageInv(p)' /\ DoneInv(p)'
    BY <1>2, OrderIs DEF PlaceInv, StageInv, DoneInv, Working
<1>5. BundleInv(p)'
    BY <1>1, <1>2, Holds DEF BundleInv, WorldInv, world
<1> QED
    BY <1>2, <1>3, <1>4, <1>5, Closes

\* A failure leaves everything where it was.
LEMMA Fails ==
    ASSUME Alone, PInv, NEW p \in Publishers, Fail(p)  PROVE PInv'
<1>1. WorldInv /\ CatalogInv /\ Typed /\ PlaceInv(p) /\ BundleInv(p) /\ StageInv(p) /\ DoneInv(p)
    BY Holds
<1>2. /\ UNCHANGED <<world, catalog, at, book, body, since>> /\ Typed' /\ pc'[p] = "failed" /\ Working(p)
    BY <1>1 DEF Fail, Typed, Working
<1>3. /\ tables' = tables /\ rows' = rows /\ at'[p] = at[p] /\ book'[p] = book[p]
      /\ body'[p] = body[p] /\ since'[p] = since[p] /\ rulebook' = rulebook /\ fact' = fact
    BY <1>2 DEF catalog, world
<1>4. CatalogInv' /\ PlaceInv(p)' /\ BundleInv(p)' /\ StageInv(p)'
    BY <1>1, <1>2, <1>3 DEF CatalogInv, OnlyAGap, PlaceInv, BundleInv, StageInv, Working
<1>5. DoneInv(p)'
    BY <1>1, <1>2, <1>3, DoneStays
<1> QED
    BY <1>2, <1>4, <1>5, Closes

\* A statement leaves the bundle of its publisher alone.
LEMMA StatementIs ==
    ASSUME PInv, NEW p \in Publishers, NEW stage \in {"prepare", "drop", "create", "insert"},
           Statement(p, stage)
    PROVE  /\ UNCHANGED world /\ rulebook' = rulebook /\ fact' = fact
           /\ pc[p] = stage /\ Working(p)
           /\ book'[p] = book[p] /\ since'[p] = since[p]
           /\ DOMAIN book' = Publishers /\ DOMAIN since' = Publishers
           /\ WorldInv /\ CatalogInv /\ Typed
           /\ PlaceInv(p) /\ BundleInv(p) /\ StageInv(p) /\ DoneInv(p)
           /\ Current(p) \in Objects
BY Holds, AtAnObject DEF Statement, world, Working, Typed

\* Nothing is read for a dimension.
LEMMA PreparesDimension ==
    ASSUME Alone, PInv, NEW p \in Publishers, PrepareDimension(p)  PROVE PInv'
<1>1. /\ UNCHANGED world /\ rulebook' = rulebook /\ fact' = fact
      /\ pc[p] = "prepare" /\ Working(p)
      /\ book'[p] = book[p] /\ since'[p] = since[p]
      /\ DOMAIN book' = Publishers /\ DOMAIN since' = Publishers
      /\ CatalogInv /\ Typed /\ PlaceInv(p) /\ BundleInv(p) /\ StageInv(p) /\ DoneInv(p)
    BY StatementIs DEF PrepareDimension
<1>2. /\ tables' = tables /\ rows' = rows /\ at' = at /\ body' = body
      /\ pc'[p] = "drop" /\ Typed' /\ IsDimension(Current(p))
    BY <1>1 DEF PrepareDimension, catalog, Typed
<1>3. CatalogInv' /\ PlaceInv(p)' /\ BundleInv(p)'
    BY <1>1, <1>2 DEF CatalogInv, OnlyAGap, PlaceInv, BundleInv, Working
<1>4. StageInv(p)'
    BY <1>2 DEF StageInv, Current, IsDimension
<1>5. DoneInv(p)'
    BY <1>1, <1>2, DoneStays
<1> QED
    BY <1>1, <1>2, <1>3, <1>4, <1>5, Closes

\* The SQL is of no older revision than the bundle.
LEMMA PreparesTable ==
    ASSUME Alone, PInv, NEW p \in Publishers, PrepareTable(p)  PROVE PInv'
<1>1. /\ UNCHANGED world /\ rulebook' = rulebook /\ fact' = fact
      /\ pc[p] = "prepare" /\ Working(p) /\ WorldInv
      /\ book'[p] = book[p] /\ since'[p] = since[p]
      /\ DOMAIN book' = Publishers /\ DOMAIN since' = Publishers
      /\ CatalogInv /\ Typed /\ PlaceInv(p) /\ BundleInv(p) /\ StageInv(p) /\ DoneInv(p)
    BY StatementIs DEF PrepareTable
<1>2. /\ tables' = tables /\ rows' = rows /\ at' = at /\ body'[p] = rulebook
      /\ pc'[p] = "drop" /\ Typed'
    BY <1>1 DEF PrepareTable, catalog, Typed
<1>3. CatalogInv' /\ PlaceInv(p)' /\ BundleInv(p)'
    BY <1>1, <1>2 DEF CatalogInv, OnlyAGap, PlaceInv, BundleInv, Working, WorldInv
<1>4. StageInv(p)'
    BY <1>1, <1>2 DEF StageInv, BundleInv
<1>5. DoneInv(p)'
    BY <1>1, <1>2, DoneStays
<1> QED
    BY <1>1, <1>2, <1>3, <1>4, <1>5, Closes

\* The object is gone, and its rows with it.
LEMMA Drops ==
    ASSUME Alone, PInv, NEW p \in Publishers, Drop(p)  PROVE PInv'
<1>1. /\ UNCHANGED world /\ rulebook' = rulebook /\ fact' = fact
      /\ pc[p] = "drop" /\ Working(p)
      /\ book'[p] = book[p] /\ since'[p] = since[p]
      /\ DOMAIN book' = Publishers /\ DOMAIN since' = Publishers
      /\ CatalogInv /\ Typed /\ PlaceInv(p) /\ BundleInv(p) /\ StageInv(p) /\ DoneInv(p)
      /\ Current(p) \in Objects
    BY StatementIs DEF Drop
<1>2. PICK c \in Objects : c = Current(p)
    BY <1>1
<1>3. /\ tables' = tables \ {c} /\ rows' = [rows EXCEPT ![c] = << >>] /\ at' = at /\ body' = body
      /\ pc'[p] = "create" /\ Typed'
    BY <1>1, <1>2 DEF Drop, Typed
<1>4. /\ rows \in [Objects -> Seq(InsertedRows)]
      /\ rows' \in [Objects -> Seq(InsertedRows)] /\ rows'[c] = << >>
      /\ \A o \in Objects : o # c => rows'[o] = rows[o]
    BY <1>1, <1>3 DEF CatalogInv
<1>5. CatalogInv'
    BY <1>1, <1>3, <1>4 DEF CatalogInv, OnlyAGap
<1>6. PlaceInv(p)' /\ BundleInv(p)'
    BY <1>1, <1>3 DEF PlaceInv, BundleInv, Working
<1>7. StageInv(p)'
    BY <1>1, <1>2, <1>3 DEF StageInv, Current, IsDimension
<1>8. DoneInv(p)'
    BY <1>1, <1>2, <1>3, <1>4, DoneStays
<1> QED
    BY <1>1, <1>3, <1>5, <1>6, <1>7, <1>8, Closes

\* The object is there again, empty.
LEMMA Creates ==
    ASSUME Alone, PInv, NEW p \in Publishers, Create(p)  PROVE PInv'
<1>1. /\ UNCHANGED world /\ rulebook' = rulebook /\ fact' = fact
      /\ pc[p] = "create" /\ Working(p)
      /\ book'[p] = book[p] /\ since'[p] = since[p]
      /\ DOMAIN book' = Publishers /\ DOMAIN since' = Publishers
      /\ CatalogInv /\ Typed /\ PlaceInv(p) /\ BundleInv(p) /\ StageInv(p) /\ DoneInv(p)
      /\ Current(p) \in Objects
    BY StatementIs DEF Create
<1>2. PICK c \in Objects : c = Current(p)
    BY <1>1
<1>3. /\ tables' = tables \cup {c} /\ rows' = rows /\ body' = body
      /\ c \notin tables /\ rows[c] = << >> /\ c \in tables'
    BY <1>1, <1>2 DEF Create, CatalogInv
<1>4. CatalogInv' /\ BundleInv(p)'
    BY <1>1, <1>3 DEF CatalogInv, OnlyAGap, BundleInv
<1>5. CASE NothingToInsert(p)
    <2>1. Advance(p) /\ Typed'
        BY <1>1, <1>3, <1>5 DEF Create, Advance, Typed
    <2>2. Published(p, c)'
        BY <1>1, <1>2, <1>3, <1>5
           DEF NothingToInsert, Published, Fresh, JoinedWell, IsDimension
    <2>3. \A o \in Objects : o # Current(p) => rows'[o] = rows[o] /\ (o \in tables => o \in tables')
        BY <1>3
    <2>4. PlaceInv(p)' /\ StageInv(p)' /\ DoneInv(p)'
        BY <1>1, <1>2, <2>1, <2>2, <2>3, Advances
    <2> QED
        BY <1>1, <1>4, <2>1, <2>4, Closes
<1>6. CASE ~NothingToInsert(p)
    <2>1. pc'[p] = "insert" /\ at' = at /\ Typed'
        BY <1>1, <1>3, <1>6 DEF Create, Typed
    <2>2. PlaceInv(p)'
        BY <1>1, <2>1 DEF PlaceInv, Working
    <2>3. StageInv(p)'
        BY <1>1, <1>2, <1>3, <1>6, <2>1 DEF StageInv, Current, NothingToInsert, IsDimension
    <2>4. DoneInv(p)'
        BY <1>1, <1>3, <2>1, DoneStays
    <2> QED
        BY <1>1, <1>4, <2>1, <2>2, <2>3, <2>4, Closes
<1> QED
    BY <1>5, <1>6


\* A view shows the fact table as it is when read.
LEMMA ReplacesView ==
    ASSUME Alone, PInv, NEW p \in Publishers, ReplaceView(p)  PROVE PInv'
<1>1. /\ UNCHANGED world /\ rulebook' = rulebook /\ fact' = fact
      /\ pc[p] = "prepare" /\ Working(p) /\ WorldInv
      /\ book'[p] = book[p] /\ since'[p] = since[p]
      /\ DOMAIN book' = Publishers /\ DOMAIN since' = Publishers
      /\ CatalogInv /\ Typed /\ PlaceInv(p) /\ BundleInv(p) /\ StageInv(p) /\ DoneInv(p)
      /\ Current(p) \in Objects
    BY StatementIs DEF ReplaceView
<1>2. PICK c \in Objects : c = Current(p)
    BY <1>1
<1> DEFINE view == Snapshot(rulebook, Live, {})
<1>3. /\ tables' = tables \cup {c} /\ rows' = [rows EXCEPT ![c] = <<view>>] /\ body' = body
      /\ Advance(p) /\ Typed' /\ ~IsDimension(c) /\ ServingMode(p) = "view"
    BY <1>1, <1>2 DEF ReplaceView, Advance, Typed
<1>4. /\ view \in InsertedRows /\ view.book >= book[p] /\ view.fact >= since[p]
    BY <1>1, LoadsAssumption DEF Snapshot, Live, InsertedRows, Revision, WorldInv, BundleInv
<1> HIDE DEF view
<1>5. /\ rows \in [Objects -> Seq(InsertedRows)] /\ <<view>> \in Seq(InsertedRows)
      /\ rows' \in [Objects -> Seq(InsertedRows)] /\ rows'[c] = <<view>>
      /\ \A o \in Objects : o # c => rows'[o] = rows[o]
    BY <1>1, <1>3, <1>4 DEF CatalogInv
<1>6. Len(rows'[c]) = 1 /\ rows'[c][1] = view
    BY <1>5
<1>7. CatalogInv'
    BY <1>1, <1>3, <1>5, <1>6 DEF CatalogInv, OnlyAGap
<1>8. Published(p, c)'
    BY <1>1, <1>3, <1>4, <1>6 DEF Published, Fresh, JoinedWell, ServingMode, IsDimension
<1>9. PlaceInv(p)' /\ StageInv(p)' /\ DoneInv(p)'
    <2>1. \A o \in Objects : o # Current(p) => rows'[o] = rows[o] /\ (o \in tables => o \in tables')
        BY <1>2, <1>3, <1>5
    <2> QED
        BY <1>1, <1>2, <1>3, <1>8, <2>1, Advances
<1>10. BundleInv(p)'
    BY <1>1, <1>3 DEF BundleInv
<1> QED
    BY <1>1, <1>3, <1>7, <1>9, <1>10, Closes

\* What is inserted: the bundle's vocabulary, or what the SELECT finds.
LEMMA InsertedIs ==
    ASSUME PInv, NEW p \in Publishers, pc[p] = "insert", NEW c, c = Current(p)
    PROVE  /\ Inserted(p) \in InsertedRows
           /\ IsDimension(c) =>
                 book[p] \notin EmptyBooks /\ Inserted(p) = Snapshot(book[p], 0, {})
           /\ ~IsDimension(c) =>
                 /\ Inserted(p).book >= book[p] /\ Inserted(p).fact >= since[p]
                 /\ Inserted(p).joined =
                       IF Joins[c] = {} \/ book[p] \in EmptyBooks THEN {} ELSE {book[p]}
<1>1. /\ WorldInv /\ PlaceInv(p) /\ BundleInv(p) /\ StageInv(p) /\ DoneInv(p) /\ Working(p)
    BY Holds DEF Working
<1>2. /\ fact \in Nat /\ book[p] \in Nat /\ body[p] \in Nat /\ since[p] <= fact
      /\ ~NothingToInsert(p)
    BY <1>1 DEF WorldInv, BundleInv, StageInv
<1>3. CASE IsDimension(c)
    <2>1. Inserted(p) = Snapshot(book[p], 0, {}) /\ book[p] \notin EmptyBooks
        BY <1>2, <1>3 DEF Inserted, NothingToInsert
    <2>2. Snapshot(book[p], 0, {}) \in InsertedRows
        BY <1>2 DEF Snapshot, InsertedRows, Revision
    <2> QED
        BY <1>3, <2>1, <2>2
<1>4. CASE ~IsDimension(c)
    <2>1. Inserted(p) = Snapshot(body[p], fact, Joined(c)) /\ book[p] <= body[p]
        BY <1>1, <1>4 DEF Inserted, StageInv
    <2>2. Joined(c) = IF Joins[c] = {} \/ book[p] \in EmptyBooks THEN {} ELSE {book[p]}
        <3>1. at[p] \in 1 .. Len(Order) /\ c = Order[at[p]]
            BY <1>1, AtAnObject DEF Current
        <3>2. \A j \in 1 .. at[p] - 1 : Fresh(p, Order[j])
            BY <1>1 DEF DoneInv, Published
        <3> QED
            BY <1>4, <3>1, <3>2, JoinsBundle
    <2>3. Joined(c) \in SUBSET Revision
        BY <1>2, <2>2 DEF Revision
    <2> QED
        BY <1>2, <1>4, <2>1, <2>2, <2>3 DEF Snapshot, InsertedRows, Revision
<1> QED
    BY <1>3, <1>4

\* The rows of one refresh.
LEMMA Inserts ==
    ASSUME Alone, PInv, NEW p \in Publishers, InsertRows(p)  PROVE PInv'
<1>1. /\ UNCHANGED world /\ rulebook' = rulebook /\ fact' = fact
      /\ pc[p] = "insert" /\ Working(p)
      /\ book'[p] = book[p] /\ since'[p] = since[p]
      /\ DOMAIN book' = Publishers /\ DOMAIN since' = Publishers
      /\ CatalogInv /\ Typed /\ PlaceInv(p) /\ BundleInv(p) /\ StageInv(p) /\ DoneInv(p)
      /\ Current(p) \in Objects
    BY StatementIs DEF InsertRows
<1>2. PICK c \in Objects : c = Current(p)
    BY <1>1
<1>3. /\ tables' = tables /\ c \in tables /\ rows' = [rows EXCEPT ![c] = Append(@, Inserted(p))]
      /\ body' = body /\ Advance(p) /\ Typed' /\ rows[c] = << >>
    BY <1>1, <1>2 DEF InsertRows, Advance, Typed, StageInv
<1>4. PICK new : new = Inserted(p)
    OBVIOUS
<1>5. /\ new \in InsertedRows
      /\ IsDimension(c) => book[p] \notin EmptyBooks /\ new = Snapshot(book[p], 0, {})
      /\ ~IsDimension(c) =>
            /\ new.book >= book[p] /\ new.fact >= since[p]
            /\ new.joined = IF Joins[c] = {} \/ book[p] \in EmptyBooks THEN {} ELSE {book[p]}
    BY <1>1, <1>2, <1>4, InsertedIs
<1>6. /\ rows \in [Objects -> Seq(InsertedRows)] /\ rows'[c] = <<new>>
      /\ rows' \in [Objects -> Seq(InsertedRows)]
      /\ \A o \in Objects : o # c => rows'[o] = rows[o]
    <2>1. Append(rows[c], new) = <<new>> /\ <<new>> \in Seq(InsertedRows)
        BY <1>3, <1>5
    <2> QED
        BY <1>1, <1>3, <1>4, <2>1 DEF CatalogInv
<1>7. Len(rows'[c]) = 1 /\ rows'[c][1] = new
    BY <1>6
<1>8. CatalogInv'
    BY <1>1, <1>3, <1>6, <1>7 DEF CatalogInv, OnlyAGap
<1>9. Published(p, c)'
    <2>1. CASE IsDimension(c)
        BY <1>1, <1>3, <1>5, <1>6, <2>1 DEF Published, Fresh, JoinedWell, IsDimension, Snapshot
    <2>2. CASE ~IsDimension(c)
        BY <1>1, <1>3, <1>5, <1>7, <2>2 DEF Published, Fresh, JoinedWell, ServingMode, IsDimension
    <2> QED
        BY <2>1, <2>2
<1>10. PlaceInv(p)' /\ StageInv(p)' /\ DoneInv(p)'
    <2>1. \A o \in Objects : o # Current(p) => rows'[o] = rows[o] /\ (o \in tables => o \in tables')
        BY <1>2, <1>3, <1>6
    <2> QED
        BY <1>1, <1>2, <1>3, <1>9, <2>1, Advances
<1>11. BundleInv(p)'
    BY <1>1, <1>3 DEF BundleInv
<1> QED
    BY <1>1, <1>3, <1>8, <1>10, <1>11, Closes

\* Every step of a lone publisher keeps the invariant.
LEMMA NextHolds == ASSUME Alone  PROVE PInv /\ [Next]_vars => PInv'
<1> SUFFICES ASSUME PInv, [Next]_vars  PROVE PInv'
    OBVIOUS
<1>1. CASE Load \/ Revise
    BY <1>1, WorldGoesOn
<1>2. ASSUME NEW p \in Publishers, Publish(p)  PROVE PInv'
    BY <1>2, Starts, PreparesDimension, PreparesTable, ReplacesView, Drops, Creates, Inserts, Fails
       DEF Publish
<1>3. CASE UNCHANGED vars
    <2>1. /\ fact' = fact /\ rulebook' = rulebook /\ tables' = tables /\ rows' = rows
          /\ pc' = pc /\ at' = at /\ book' = book /\ body' = body /\ since' = since
        BY <1>3 DEF vars, world, catalog, publisher
    <2>2. WorldInv' /\ CatalogInv' /\ Typed'
        BY <2>1 DEF PInv, SInv, WorldInv, CatalogInv, OnlyAGap, Typed
    <2>3. ASSUME NEW p \in Publishers  PROVE PublisherInv(p)'
        <3>1. PlaceInv(p)' /\ BundleInv(p)' /\ StageInv(p)'
            BY <2>1, Holds DEF PlaceInv, BundleInv, StageInv, Working, Current, NothingToInsert, IsDimension
        <3>2. \A i \in 1 .. at[p] - 1 : Published(p, Order[i]) /\ Order[i] \in tables
            BY Holds DEF DoneInv, Published, Fresh
        <3>3. \A i \in 1 .. at[p] - 1 : Published(p, Order[i])'
            BY <2>1, <3>2, PublishedStays
        <3>4. DoneInv(p)'
            BY <2>1, <3>3 DEF DoneInv
        <3> QED
            BY <3>1, <3>4 DEF PublisherInv
    <2> QED
        BY <2>2, <2>3 DEF PInv, SInv
<1> QED
    BY <1>1, <1>2, <1>3 DEF Next

(***************************************************************************)
(* The theorems                                                            *)
(***************************************************************************)

\* The catalog and the one publisher are in order at every step of delta_views.
THEOREM PublishInvariant == ASSUME Alone  PROVE Spec => []PInv
<1>1. Init => PInv
    BY InitHolds
<1>2. PInv /\ [Next]_vars => PInv'
    BY NextHolds
<1> QED
    BY <1>1, <1>2, PTL DEF Spec

\* An object that has rows has those of exactly one refresh, wherever a lone publisher's
\* statements have failed.
THEOREM GapIsAll == ASSUME Alone  PROVE Spec => []OnlyAGap
<1>1. PInv => OnlyAGap
    BY DEF PInv, SInv, CatalogInv
<1> QED
    BY <1>1, PublishInvariant, PTL

\* Everything before a lone publisher's place is fresh, whatever is loaded or revised
\* meanwhile and however earlier publishes have ended.
THEOREM RefreshedInOrder == ASSUME Alone  PROVE Spec => []RefreshedSoFar
<1>1. PInv => RefreshedSoFar
    BY DEF PInv, SInv, PublisherInv, DoneInv, Published, RefreshedSoFar
<1> QED
    BY <1>1, PublishInvariant, PTL

\* The serving tables of a finished publish are joined to the dimensions of its bundle.
THEOREM JoinsItsBundle == ASSUME Alone  PROVE Spec => []JoinedToItsBundle
<1>1. ASSUME PInv, NEW p \in Publishers, pc[p] = "done", NEW o \in Objects,
             ~IsDimension(o), ServingMode(p) = "table"
      PROVE  rows[o][1].joined = IF Joins[o] = {} \/ book[p] \in EmptyBooks THEN {} ELSE {book[p]}
    <2>1. PICK i \in 1 .. Len(Order) : o = Order[i]
        BY DEF Objects
    <2>2. at[p] = Len(Order) + 1 /\ DoneInv(p) /\ Len(Order) \in Nat
        BY <1>1, Holds, OrderIs DEF PlaceInv
    <2>3. Published(p, Order[i])
        BY <2>2 DEF DoneInv
    <2> QED
        BY <1>1, <2>1, <2>3 DEF Published, JoinedWell
<1>2. PInv => JoinedToItsBundle
    BY <1>1 DEF JoinedToItsBundle
<1> QED
    BY <1>2, PublishInvariant, PTL
=============================================================================
