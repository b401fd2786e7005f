------------------------------ MODULE MxElectrix ------------------------------
(***************************************************************************)
(* `secha-transform mx-electrix`: one date's measurements, of one meter or *)
(* of all, become rows scaled by the devices' factors; they overwrite the  *)
(* part files of that scope, one per event date, and `--sink delta` then   *)
(* MERGEs the whole canonical root, other scopes' files included.          *)
(*                                                                         *)
(* Several people may run it at once, any of them may be killed anywhere,  *)
(* and ingestion may land a snapshot between any two reads.  A MERGE is    *)
(* here what DeltaMerge shows of it, from its reading the root to its      *)
(* commit; which payload a read finds is LandingReader; what the engine    *)
(* makes of a record is TransformRecords.  A snapshot is the set of the    *)
(* measurement keys it has a reading for.                                  *)
(***************************************************************************)
EXTENDS Integers, Sequences, FiniteSets, FiniteSetsExt, StagedMerge

CONSTANTS
    Commands,
    Meters,      \* numbers, in the order of their partitions
    Readings,    \* meter -> the key sets of its successive snapshots
    DayOf,       \* key -> event date, which is part of the key's identity
    Scaled,      \* the keys of readings to be scaled by a device factor
    MaxFactors,  \* bound: snapshots of the device records
    MaxRuns      \* bound: calls of transform_records

Keys == DOMAIN DayOf
Everything == 0                       \* the scope without --meter
Scopes == Meters \cup {Everything}

ASSUME MetersAssumption == Meters \subseteq Nat \ {0}
ASSUME ReadingsAssumption ==
    /\ Readings \in [Meters -> Seq(SUBSET Keys)]
    /\ \A m, n \in Meters : \A i \in DOMAIN Readings[m], j \in DOMAIN Readings[n] :
          m # n => Readings[m][i] \cap Readings[n][j] = {}
ASSUME BoundsAssumption == MaxFactors \in Nat /\ MaxRuns \in Nat
ASSUME MeasurementsAssumption == Order = "latest"

VARIABLES
    landed,   \* meter -> the number of its newest snapshot, 0 before the first
    devices,  \* the number of the newest snapshot of the device records
    parts,    \* the copies in the whole part files: [file, key, stamp, attr]
    torn,     \* the part files left half written
    step,     \* command -> "idle", "start", "work" (read, then write), "merging",
              \* "merged", or "orphan": killed, its MERGE still running
    scope,    \* command -> its scope
    factors,  \* command -> the device snapshot its factors are of
    stamp,    \* command -> the ingested_at of its rows
    queue,    \* command -> the meters it has still to read
    got,      \* command -> meter -> the snapshot it has read there, 0 for none
    wrote,    \* command -> the event dates it has written its file for
    runs,     \* ingested_at -> the scope of that run; the time is the number of runs
    quiet,    \* the runs with no other command about since their ingested_at (history)
    table,    \* the rows of the table
    offer,    \* command -> the copies its MERGE reads
    overtaken \* the commands with a MERGE that another one has overtaken

zone == <<landed, devices>>
dataset == <<parts, torn>>
input == <<scope, factors, stamp, queue, got>>
sink == <<table, offer, overtaken>>
log == <<runs, quiet>>
vars == <<zone, dataset, step, input, wrote, log, sink>>

----------------------------------------------------------------------------
(* What a command makes of what it read *)

\* The day's part file of the scope's tag
FileOf(s, d) == <<s, d>>

\* The readings of a meter that come out as rows: a scaled one only with a factor
Emitted(c, m) ==
    IF got[c][m] = 0 THEN {}
    ELSE {k \in Readings[m][got[c][m]] : k \in Scaled => factors[c] # 0}

\* Each row with the snapshots its value comes from
RowOf(c, m, k) ==
    [file |-> FileOf(scope[c], DayOf[k]), key |-> k, stamp |-> stamp[c],
     attr |-> [snapshot |-> got[c][m], devices |-> IF k \in Scaled THEN factors[c] ELSE 0]]

RowsOf(c) == UNION {{RowOf(c, m, k) : k \in Emitted(c, m)} : m \in Meters}

InScope(s) == IF s = Everything THEN Meters ELSE {s}

----------------------------------------------------------------------------

Each(value) == [c \in Commands |-> value]
Nowhere == [m \in Meters |-> 0]

Init ==
    /\ landed = Nowhere
    /\ devices = 0
    /\ parts = {}
    /\ torn = {}
    /\ step = Each("idle")
    /\ scope = Each(Everything)
    /\ factors = Each(0)
    /\ stamp = Each(0)
    /\ queue = Each({})
    /\ got = Each(Nowhere)
    /\ wrote = Each({})
    /\ runs = <<>>
    /\ quiet = {}
    /\ table = {}
    /\ offer = Each({})
    /\ overtaken = {}

Land(m) ==
    /\ landed[m] < Len(Readings[m])
    /\ landed' = [landed EXCEPT ![m] = @ + 1]
    /\ UNCHANGED <<devices, dataset, step, input, wrote, log, sink>>

LandDevices ==
    /\ devices < MaxFactors
    /\ devices' = devices + 1
    /\ UNCHANGED <<landed, dataset, step, input, wrote, log, sink>>

\* The process is gone, and with it what it held; its files stay as they are.
Leave(c) ==
    /\ scope' = [scope EXCEPT ![c] = Everything]
    /\ factors' = [factors EXCEPT ![c] = 0]
    /\ stamp' = [stamp EXCEPT ![c] = 0]
    /\ queue' = [queue EXCEPT ![c] = {}]
    /\ got' = [got EXCEPT ![c] = Nowhere]
    /\ wrote' = [wrote EXCEPT ![c] = {}]

Exit(c) ==
    /\ step' = [step EXCEPT ![c] = "idle"]
    /\ Leave(c)

Running(c) == step[c] \notin {"idle", "orphan"}

\* read_records reads nothing before it is iterated: the device records come first.
Begin(c) ==
    /\ step[c] = "idle"
    /\ Len(runs) < MaxRuns
    /\ \E s \in Scopes : scope' = [scope EXCEPT ![c] = s]
    /\ factors' = [factors EXCEPT ![c] = devices]
    /\ step' = [step EXCEPT ![c] = "start"]
    /\ quiet' = quiet \ {stamp[d] : d \in Commands}
    /\ UNCHANGED <<zone, dataset, runs, stamp, queue, got, wrote, sink>>

\* transform_records takes its ingested_at; the first record asked for lists the meters.
StartTransform(c) ==
    /\ step[c] = "start"
    /\ Len(runs) < MaxRuns
    /\ runs' = Append(runs, scope[c])
    /\ stamp' = [stamp EXCEPT ![c] = Len(runs')]
    /\ quiet' = IF \A d \in Commands \ {c} : ~Running(d) THEN quiet \cup {Len(runs')} ELSE quiet
    /\ queue' = [queue EXCEPT ![c] = {m \in InScope(scope[c]) : landed[m] # 0}]
    /\ step' = [step EXCEPT ![c] = "work"]
    /\ UNCHANGED <<zone, dataset, scope, factors, got, wrote, sink>>

\* The newest snapshot of the next meter in order; read_partition keeps to it.
ReadMeter(c) ==
    /\ step[c] = "work"
    /\ queue[c] # {}
    /\ got' = [got EXCEPT ![c][Min(queue[c])] = landed[Min(queue[c])]]
    /\ queue' = [queue EXCEPT ![c] = @ \ {Min(@)}]
    /\ UNCHANGED <<zone, dataset, step, scope, factors, stamp, wrote, log, sink>>

\* The event dates there are rows for and no file yet, once all is read
ToWrite(c) ==
    IF step[c] = "work" /\ queue[c] = {} THEN {DayOf[r.key] : r \in RowsOf(c)} \ wrote[c] ELSE {}

Without(f) == {r \in parts : r.file # f}

\* A part file that is there is kept.
WrittenOnce(c, f) ==
    IF f \in {r.file : r \in parts} THEN parts ELSE parts \cup {r \in RowsOf(c) : r.file = f}
\* overwrite_or_ignore: whatever is there under that name is replaced.
Rewritten(c, f) == Without(f) \cup {r \in RowsOf(c) : r.file = f}

\* Two commands that write one file at once may spoil it.
WritePart(c, d) ==
    LET f == FileOf(scope[c], d)
    IN  /\ d \in ToWrite(c)
        /\ wrote' = [wrote EXCEPT ![c] = @ \cup {d}]
        /\ \/ /\ parts' = Rewritten(c, f)
              /\ torn' = torn \ {f}
           \/ /\ \E e \in Commands \ {c} : scope[e] = scope[c] /\ d \in ToWrite(e)
              /\ parts' = Without(f)
              /\ torn' = torn \cup {f}
        /\ UNCHANGED <<zone, step, input, log, sink>>

Written(c) == step[c] = "work" /\ queue[c] = {} /\ ToWrite(c) = {}

\* --sink parquet, or a sink that cannot be had, or a root that cannot be read: there is
\* no file in it, or one that is no whole Parquet file.
EndCommand(c) ==
    /\ Written(c)
    /\ Exit(c)
    /\ UNCHANGED <<zone, dataset, log, sink>>

\* --sink delta: the MERGE statement reads the files of the whole root.
StartMerge(c) ==
    /\ Written(c)
    /\ torn = {}
    /\ parts # {}
    /\ offer' = [offer EXCEPT ![c] = parts]
    /\ step' = [step EXCEPT ![c] = "merging"]
    /\ UNCHANGED <<zone, dataset, input, wrote, log, table, overtaken>>

\* No row of this load is left in the server.
Forget(c) == offer' = [offer EXCEPT ![c] = {}]

\* A commit that looks for no other
CommitUnseeing(c) ==
    /\ step[c] \in {"merging", "orphan"}
    /\ \E W \in Dedupe(offer[c]) : table' = MergeInto(table, W)
    /\ Forget(c)
    /\ overtaken' = {}
    /\ step' = [step EXCEPT ![c] = IF @ = "orphan" THEN "idle" ELSE "merged"]
    /\ UNCHANGED <<zone, dataset, input, wrote, log>>

\* Commit a MERGE no other commit has overtaken, for a client that may be gone.
CommitMerge(c) ==
    /\ step[c] \in {"merging", "orphan"}
    /\ c \notin overtaken
    /\ \E W \in Dedupe(offer[c]) : table' = MergeInto(table, W)
    /\ Forget(c)
    /\ overtaken' = {d \in Commands \ {c} : step[d] \in {"merging", "orphan"}}
    /\ step' = [step EXCEPT ![c] = IF @ = "orphan" THEN "idle" ELSE "merged"]
    /\ UNCHANGED <<zone, dataset, input, wrote, log>>

\* Another commit came during this MERGE, or the server gave up on it.
FailMerge(c) ==
    /\ \/ step[c] = "merging" /\ c \in overtaken
       \/ step[c] = "orphan"
    /\ Exit(c)
    /\ Forget(c)
    /\ overtaken' = overtaken \ {c}
    /\ UNCHANGED <<zone, dataset, log, table>>

EndLoad(c) ==
    /\ step[c] = "merged"
    /\ Exit(c)
    /\ UNCHANGED <<zone, dataset, log, sink>>

\* Killed, raising or cut off at any point.  pyarrow writes the files of a run in any
\* order, in place; a MERGE under way goes on without its client.
Kill(c) ==
    /\ Running(c)
    /\ \E days \in SUBSET ToWrite(c) :
          LET half == {FileOf(scope[c], d) : d \in days}
          IN  /\ parts' = {r \in parts : r.file \notin half}
              /\ torn' = torn \cup half
    /\ step' = [step EXCEPT ![c] = IF @ = "merging" THEN "orphan" ELSE "idle"]
    /\ Leave(c)
    /\ UNCHANGED <<zone, log, sink>>

Next ==
    \/ LandDevices
    \/ \E m \in Meters : Land(m)
    \/ \E c \in Commands :
          \/ Begin(c) \/ StartTransform(c) \/ ReadMeter(c)
          \/ \E d \in {DayOf[k] : k \in Keys} : WritePart(c, d)
          \/ EndCommand(c) \/ StartMerge(c)
          \/ CommitMerge(c) \/ FailMerge(c) \/ EndLoad(c) \/ Kill(c)

Spec == Init /\ [][Next]_vars

----------------------------------------------------------------------------
(* Properties *)

\* writer.py leaves stale part files to be "resolved for real by the Phase-3 MERGE".
\* Whatever files other scopes, earlier snapshots and killed commands have left in the
\* root, and whatever MERGE of a killed command is still running: once the MERGE of a
\* run has committed with no other command about, each row the run made is in the table
\* as the run made it.
QuietRunStands ==
    \A c \in Commands :
        step[c] = "merged" /\ stamp[c] \in quiet
        => \A r \in RowsOf(c) : Row(r) \in table

\* A MERGE may bring an older row back (a file of another scope still has it), but
\* runs of one scope do not undo each other: a row of a run no other command
\* disturbed is never replaced by a row of an earlier run of the same scope.
OlderRowsAreOfOtherScopes ==
    [][\A t \in table, u \in table' :
          t.key = u.key /\ u.stamp < t.stamp /\ t.stamp \in quiet
          => runs[u.stamp] # runs[t.stamp]]_vars
=============================================================================
