------------------------------ MODULE DeltaMerge ------------------------------
(***************************************************************************)
(* `secha-transform delta-load`, run by several people against one table:  *)
(* each load lists the files of its staging path, counts what is staged,   *)
(* what its deduplication leaves and what the table holds, issues one      *)
(* MERGE and counts the table again.  Meanwhile staging paths are          *)
(* rewritten, connections drop, and loads of other people commit.          *)
(*                                                                         *)
(* Spark and Delta are external: a plan keeps the list of files it was     *)
(* made with but reads them when it is executed; a MERGE commits           *)
(* atomically, or fails if another commit came in between; a dropped       *)
(* connection leaves the server to commit the MERGE, or not.               *)
(***************************************************************************)
EXTENDS Integers, FiniteSets, StagedMerge

CONSTANTS
    Copies,     \* the row copies that can be staged: [file, key, stamp, attr]
    Stagings,   \* the contents a staging path can have, sets of copies
    Loaders,
    Paths       \* staging paths

ASSUME CopiesAssumption == \A c \in Copies : c.stamp \in Nat /\ c.attr \in Int
ASSUME StagingsAssumption == Stagings \subseteq SUBSET Copies /\ \A S \in Stagings : IsFiniteSet(S)

VARIABLES
    staged,   \* path -> the copies staged there now
    table,    \* the rows of the table
    pc,       \* loader -> the last thing its load has done, or "orphan": its client is
              \* gone, its MERGE is not
    path,     \* loader -> the staging path of its load
    files,    \* loader -> the files its plan lists
    offer,    \* loader -> the copies its MERGE reads
    report,   \* loader -> its MergeReport so far
    others,   \* loader -> "no" other MERGE has committed since this load counted the
              \* table, or one has "during" its own, or "aside" of it
    rewritten,  \* loader -> was its staging path rewritten between the listing and
                \* the MERGE? (history)
    last      \* the copies the last committed MERGE has read (history)

loads == <<pc, path, files, offer, report, others, rewritten>>
vars == <<staged, table, loads, last>>

FilesOf(S) == {c.file : c \in S}
Listed(l) == {c \in staged[path[l]] : c.file \in files[l]}

\* Are the files the plan lists still there?
Readable(l) == files[l] \subseteq FilesOf(staged[path[l]])

Steps == {"idle", "listed", "staged", "projected", "counted", "merging", "merged",
          "reported", "orphan"}

----------------------------------------------------------------------------

NoReport == [staged |-> 0, merged |-> 0, before |-> 0, after |-> 0]

Init ==
    /\ staged \in [Paths -> Stagings]
    /\ table = {}
    /\ pc = [l \in Loaders |-> "idle"]
    /\ path \in [Loaders -> Paths]
    /\ files = [l \in Loaders |-> {}]
    /\ offer = [l \in Loaders |-> {}]
    /\ report = [l \in Loaders |-> NoReport]
    /\ others = [l \in Loaders |-> "no"]
    /\ rewritten = [l \in Loaders |-> FALSE]
    /\ last = {}

\* The client ends, and takes its report with it.
Forget(l) ==
    /\ report' = [report EXCEPT ![l] = NoReport]
    /\ rewritten' = [rewritten EXCEPT ![l] = FALSE]

\* So does the load; seen is what each load has seen of the others by now.
End(l, seen) ==
    /\ Forget(l)
    /\ pc' = [pc EXCEPT ![l] = "idle"]
    /\ files' = [files EXCEPT ![l] = {}]
    /\ offer' = [offer EXCEPT ![l] = {}]
    /\ others' = [seen EXCEPT ![l] = "no"]

\* A run rewrites a staging path.
Restage(p) ==
    /\ \E S \in Stagings : staged' = [staged EXCEPT ![p] = S]
    /\ rewritten' = [l \in Loaders |->
          \/ rewritten[l]
          \/ path[l] = p /\ pc[l] \in {"listed", "staged", "projected", "counted"}]
    /\ UNCHANGED <<table, pc, path, files, offer, report, others, last>>

\* read.parquet lists the files; what reads the data frame later reads these.
ListStaging(l) ==
    /\ pc[l] = "idle"
    /\ \E p \in Paths :
          /\ staged[p] # {}
          /\ path' = [path EXCEPT ![l] = p]
          /\ files' = [files EXCEPT ![l] = FilesOf(staged[p])]
    /\ pc' = [pc EXCEPT ![l] = "listed"]
    /\ UNCHANGED <<staged, table, offer, report, others, rewritten, last>>

\* staged_rows
CountStaged(l) ==
    /\ pc[l] = "listed"
    /\ Readable(l)
    /\ report' = [report EXCEPT ![l].staged = Cardinality(Listed(l))]
    /\ pc' = [pc EXCEPT ![l] = "staged"]
    /\ UNCHANGED <<staged, table, path, files, offer, others, rewritten, last>>

\* merged_rows: a row of the projection for each key
CountMerged(l) ==
    /\ pc[l] = "staged"
    /\ Readable(l)
    /\ report' = [report EXCEPT ![l].merged = Cardinality(KeysOf(Listed(l)))]
    /\ pc' = [pc EXCEPT ![l] = "projected"]
    /\ UNCHANGED <<staged, table, path, files, offer, others, rewritten, last>>

CountBefore(l) ==
    /\ pc[l] = "projected"
    /\ report' = [report EXCEPT ![l].before = Cardinality(table)]
    /\ pc' = [pc EXCEPT ![l] = "counted"]
    /\ UNCHANGED <<staged, table, path, files, offer, others, rewritten, last>>

\* The server executes the MERGE: it reads the listed files as they are by now.
StartMerge(l) ==
    /\ pc[l] = "counted"
    /\ Readable(l)
    /\ offer' = [offer EXCEPT ![l] = Listed(l)]
    /\ pc' = [pc EXCEPT ![l] = "merging"]
    /\ UNCHANGED <<staged, table, path, files, report, others, rewritten, last>>

\* A listed file is gone: the statement that reads it fails, the command with it.
LoseFile(l) ==
    /\ pc[l] \in {"listed", "staged", "counted"}
    /\ ~Readable(l)
    /\ End(l, others)
    /\ UNCHANGED <<staged, table, path, last>>

\* What the other loads see of a commit of l, if they have counted the table
Overtaken(l) ==
    [m \in Loaders |->
        CASE m # l /\ pc[m] \in {"merging", "orphan"} -> "during"
          [] m # l /\ pc[m] \in {"counted", "merged", "reported"} -> "aside"
          [] OTHER -> others[m]]

\* Commit a MERGE no other commit has overtaken, for a client that may be gone.
CommitMerge(l) ==
    /\ pc[l] \in {"merging", "orphan"}
    /\ others[l] # "during"
    /\ \E W \in Dedupe(offer[l]) : table' = MergeInto(table, W)
    /\ last' = offer[l]
    /\ IF pc[l] = "merging"
       THEN /\ pc' = [pc EXCEPT ![l] = "merged"]
            /\ others' = Overtaken(l)
            /\ UNCHANGED <<files, offer, report, rewritten>>
       ELSE End(l, Overtaken(l))
    /\ UNCHANGED <<staged, path>>

\* Another commit came during this MERGE, or the server gave up on it.
FailMerge(l) ==
    /\ \/ pc[l] = "merging" /\ others[l] = "during"
       \/ pc[l] = "orphan"
    /\ End(l, others)
    /\ UNCHANGED <<staged, table, path, last>>

CountAfter(l) ==
    /\ pc[l] = "merged"
    /\ report' = [report EXCEPT ![l].after = Cardinality(table)]
    /\ pc' = [pc EXCEPT ![l] = "reported"]
    /\ UNCHANGED <<staged, table, path, files, offer, others, rewritten, last>>

EndLoad(l) ==
    /\ pc[l] = "reported"
    /\ End(l, others)
    /\ UNCHANGED <<staged, table, path, last>>

\* The connection drops, or the client is killed; a MERGE under way goes on without it.
Drop(l) ==
    /\ pc[l] \notin {"idle", "orphan"}
    /\ IF pc[l] = "merging"
       THEN pc' = [pc EXCEPT ![l] = "orphan"] /\ Forget(l) /\ UNCHANGED <<files, offer, others>>
       ELSE End(l, others)
    /\ UNCHANGED <<staged, table, path, last>>

Next ==
    \/ \E p \in Paths : Restage(p)
    \/ \E l \in Loaders :
          \/ ListStaging(l) \/ CountStaged(l) \/ CountMerged(l) \/ CountBefore(l)
          \/ StartMerge(l) \/ LoseFile(l)
          \/ CommitMerge(l) \/ FailMerge(l) \/ CountAfter(l) \/ EndLoad(l) \/ Drop(l)

Spec == Init /\ [][Next]_vars

----------------------------------------------------------------------------
(* Properties *)

\* However loads interleave, are overtaken, or lose their client, the table has one
\* row for each merge key.
UniqueKeys == \A t, u \in table : t.key = u.key => t = u

\* The table as a mapping, and what a load promises of it: each commit is one whole load
\* of the copies its MERGE has read, by the latest copy of each key.
Mapping(T) == [k \in {t.key : t \in T} |-> CHOOSE t \in T : t.key = k]
Content == Mapping(table)
Promise == INSTANCE MergedTable WITH content <- Content
KeepsPromise == Promise!Spec

\* delta_sink.py: "re-running the same load is idempotent"; scripts/phase3/README.md:
\* after a connection lost in the middle of a MERGE, "just re-run".  A MERGE of what
\* the last committed MERGE had read leaves the table as it is.
RerunChangesNothing ==
    [][\A l \in Loaders : CommitMerge(l) /\ offer[l] = last => table' = table]_vars

\* What a load reports of itself.  The keys its MERGE has read are in the table,
\* whatever has committed since.  If nobody rewrote its staging path before the MERGE,
\* staged_rows and merged_rows are the copies and the keys that MERGE has read.  If no
\* other load committed since its first count of the table, the second is the table's
\* size, and the table grew, by no more than the keys offered.
ReportsAddUp ==
    \A l \in Loaders : pc[l] = "reported" =>
        /\ KeysOf(offer[l]) \subseteq KeysOf(table)
        /\ ~rewritten[l] =>
              /\ report[l].staged = Cardinality(offer[l])
              /\ report[l].merged = Cardinality(KeysOf(offer[l]))
        /\ others[l] = "no" =>
              /\ report[l].after = Cardinality(table)
              /\ report[l].before <= report[l].after
              /\ report[l].after <= report[l].before + Cardinality(KeysOf(offer[l]))
=============================================================================
