------------------------------- MODULE RunVendor -------------------------------
(***************************************************************************)
(* `secha-transform run`: the selected landing partitions are transformed  *)
(* one after the other, each in batches, and every batch writes part files *)
(* named after its partition and its number: one file per event date for   *)
(* the rows, then one file for the charging sessions not yet written by    *)
(* this partition.                                                         *)
(*                                                                         *)
(* Commands follow one another and may be killed anywhere; ingestion may   *)
(* land a new snapshot of a partition at any time.  A record is what the   *)
(* writer can tell apart: its event date, its session, and what the engine *)
(* makes of it: "row" (it survives with rows), "bare" (it survives, all    *)
(* its values dropped), "out" (rejected, unmapped or null) or "raise".     *)
(* The engine itself is TransformRecords.                                  *)
(***************************************************************************)
EXTENDS Integers, Sequences, SequencesExt, FiniteSets

CONSTANTS
    Identities,  \* the identity of each landing partition, a sequence of
                 \* characters; partitions are numbered in their sorted order
    Payloads,    \* partition -> the snapshots that can land in it
    Sizes,       \* the batch sizes a command can be given
    Days,        \* event dates
    SessionIds,
    NoSession,
    None,        \* no completed pass
    Torn         \* the content of a file whose writer was killed

Parts == DOMAIN Identities

Record == [day : Days, session : SessionIds \cup {NoSession},
           fate : {"row", "bare", "out", "raise"}]

\* What a reader of the dataset gets for a record; the columns are functions of it
Written == [part : Parts, pos : Nat \ {0}, rec : Record]

ASSUME IdentitiesAssumption == Identities \in Seq(Seq(STRING))
ASSUME PayloadsAssumption ==
    Payloads \in [Parts -> SUBSET Seq(Record)] /\ \A p \in Parts : Payloads[p] # {}
ASSUME SizesAssumption == Sizes \subseteq Nat \ {0}
ASSUME SessionsAssumption == NoSession \notin SessionIds

VARIABLES
    landed,       \* partition -> its newest snapshot
    pc,           \* "idle", "open", "batch" (to transform), "write"
    queue,        \* the selected partitions still to come
    part,         \* the partition in hand ...
    snap,         \* ... and the snapshot it was opened with
    size,         \* batch_size of this command
    batch,        \* the number of the batch in hand
    toWrite,      \* the event dates of this batch with no file written yet
    seen,         \* partition_sessions
    rowFiles,     \* <<tag, batch, day>> -> the rows in that part file
    sessionFiles, \* <<tag, batch>> -> the session rows in that part file
    done,         \* partition -> the pass that completed last, until it is reopened
    attempts      \* partition -> every pass begun on it (history)

command == <<pc, queue, part, snap, size, batch, toWrite, seen>>
files == <<rowFiles, sessionFiles>>
history == <<done, attempts>>
vars == <<landed, command, files, history>>

----------------------------------------------------------------------------
(* File names and batches *)

SafeCharacters ==
    {"a", "b", "c", "p", "-", "_", "0", "1", "2"}   \* those the instances use

\* _UNSAFE.sub('-', ...): each run of unsafe characters becomes one dash
Sanitise(name) ==
    FoldLeftDomain(
        LAMBDA out, i : CASE name[i] \in SafeCharacters -> Append(out, name[i])
                          [] name[i] \notin SafeCharacters /\ i > 1
                                /\ name[i - 1] \notin SafeCharacters -> out
                          [] OTHER -> Append(out, "-"),
        <<>>, name)

Tag == [p \in Parts |-> Sanitise(Identities[p])]

\* _batched without its last line, which yields what is left over
BatchFullOnly(s, z, b) ==
    {i \in DOMAIN s : b * z < i /\ i <= b * z + z /\ b * z + z <= Len(s)}

\* _batched: the records of the b-th batch, by position, b counted from 0
Batch(s, z, b) == {i \in DOMAIN s : b * z < i /\ i <= b * z + z}

Survives(s, i) == s[i].fate \in {"row", "bare"}
Item(p, s, i) == [part |-> p, pos |-> i, rec |-> s[i]]

\* Half a file reads as no whole one does, whichever records that holds
ASSUME TornAssumption ==
    \A p \in Parts : \A s \in Payloads[p] :
        \A some \in SUBSET DOMAIN s : Torn # {Item(p, s, i) : i \in some}

\* The rows of one batch that fall on one event date
RowsOn(p, s, z, b, d) ==
    {Item(p, s, i) : i \in {j \in Batch(s, z, b) : s[j].fate = "row" /\ s[j].day = d}}
DaysOf(s, z, b) == {s[i].day : i \in {j \in Batch(s, z, b) : s[j].fate = "row"}}

\* result.sessions: the sessions of a batch, each at its first surviving record
BatchSessions(s, z, b) ==
    {i \in Batch(s, z, b) :
        /\ Survives(s, i)
        /\ s[i].session # NoSession
        /\ \A j \in Batch(s, z, b) : Survives(s, j) /\ s[j].session = s[i].session => i <= j}

\* new_sessions with the filter missing, and as the code has it
UnfilteredSessions == BatchSessions(snap, size, batch)
NewSessions == {i \in BatchSessions(snap, size, batch) : snap[i].session \notin seen}

\* Overwrite one file, whatever else the dataset holds
Put(dataset, path, content) ==
    [k \in DOMAIN dataset \cup {path} |-> IF k = path THEN content ELSE dataset[k]]

----------------------------------------------------------------------------

Init ==
    /\ landed \in [Parts -> UNION {Payloads[p] : p \in Parts}]
    /\ \A p \in Parts : landed[p] \in Payloads[p]
    /\ pc = "idle"
    /\ queue = {}
    /\ part \in Parts
    /\ snap = <<>>
    /\ size \in Sizes
    /\ batch = 0
    /\ toWrite = {}
    /\ seen = {}
    /\ rowFiles = [k \in {} |-> {}]
    /\ sessionFiles = [k \in {} |-> {}]
    /\ done = [p \in Parts |-> None]
    /\ attempts = [p \in Parts |-> {}]

\* Ingestion lands a snapshot; a pass under way keeps the one it opened.
Land(p) ==
    /\ \E s \in Payloads[p] : landed' = [landed EXCEPT ![p] = s]
    /\ UNCHANGED <<command, files, history>>

StartCommand ==
    /\ pc = "idle"
    /\ queue' \in (SUBSET Parts) \ {{}}
    /\ size' \in Sizes
    /\ pc' = "open"
    /\ UNCHANGED <<landed, part, snap, batch, toWrite, seen, files, history>>

\* The sessions a partition starts with, per run and per partition
SeenPerRun == seen
SeenPerPartition == {}

\* The next partition in sorted order, with its newest snapshot.
OpenPartition ==
    /\ pc = "open"
    /\ \E p \in queue :
          /\ \A q \in queue : p <= q
          /\ part' = p
          /\ snap' = landed[p]
          /\ queue' = queue \ {p}
          /\ done' = [done EXCEPT ![p] = None]
          /\ attempts' = [attempts EXCEPT ![p] = @ \cup {[snap |-> landed[p], size |-> size]}]
    /\ batch' = 0
    /\ toWrite' = {}
    /\ seen' = SeenPerPartition
    /\ pc' = "batch"
    /\ UNCHANGED <<landed, size, files>>

\* The process is gone, and what it held in memory with it.
Exit ==
    /\ pc' = "idle"
    /\ queue' = {}
    /\ snap' = <<>>
    /\ batch' = 0
    /\ toWrite' = {}
    /\ seen' = {}
    /\ UNCHANGED <<landed, part, size, history>>

Raises == \E i \in Batch(snap, size, batch) : snap[i].fate = "raise"

TransformBatch ==
    /\ pc = "batch"
    /\ Batch(snap, size, batch) # {}
    /\ ~Raises
    /\ pc' = "write"
    /\ toWrite' = DaysOf(snap, size, batch)
    /\ UNCHANGED <<landed, queue, part, snap, size, batch, seen, files, history>>

\* A record that raises ends the command; the batches before it stay written.
AbortCommand ==
    /\ pc = "batch"
    /\ Raises
    /\ Exit
    /\ UNCHANGED files

WriteDay(d) ==
    /\ pc = "write"
    /\ d \in toWrite
    /\ rowFiles' = Put(rowFiles, <<Tag[part], batch, d>>, RowsOn(part, snap, size, batch, d))
    /\ toWrite' = toWrite \ {d}
    /\ UNCHANGED <<landed, pc, queue, part, snap, size, batch, seen, sessionFiles, history>>

\* Once the rows of the batch are written: its new sessions, if it has any.
WriteSessions ==
    /\ pc = "write"
    /\ toWrite = {}
    /\ sessionFiles' =
          IF NewSessions = {} THEN sessionFiles
          ELSE Put(sessionFiles, <<Tag[part], batch>>, {Item(part, snap, i) : i \in NewSessions})
    /\ seen' = seen \cup {snap[i].session : i \in NewSessions}
    /\ batch' = batch + 1
    /\ pc' = "batch"
    /\ UNCHANGED <<landed, queue, part, snap, size, toWrite, rowFiles, history>>

ClosePartition ==
    /\ pc = "batch"
    /\ Batch(snap, size, batch) = {}
    /\ done' = [done EXCEPT ![part] = [snap |-> snap, size |-> size]]
    /\ pc' = "open"
    /\ UNCHANGED <<landed, queue, part, snap, size, batch, toWrite, seen, files, attempts>>

EndCommand ==
    /\ pc = "open"
    /\ queue = {}
    /\ Exit
    /\ UNCHANGED files

\* The command is killed.  pyarrow writes the files of a batch in any order, so any
\* of those still to be written may be left half written, under their final name.
Crash ==
    /\ pc # "idle"
    /\ Exit
    /\ \E days \in SUBSET toWrite :
          rowFiles' = [k \in DOMAIN rowFiles \cup {<<Tag[part], batch, d>> : d \in days} |->
                          IF k \in {<<Tag[part], batch, d>> : d \in days}
                          THEN Torn ELSE rowFiles[k]]
    /\ \/ sessionFiles' = sessionFiles
       \/ /\ pc = "write" /\ toWrite = {} /\ NewSessions # {}
          /\ sessionFiles' = Put(sessionFiles, <<Tag[part], batch>>, Torn)

Next ==
    \/ \E p \in Parts : Land(p)
    \/ StartCommand \/ OpenPartition \/ TransformBatch \/ AbortCommand
    \/ \E d \in Days : WriteDay(d)
    \/ WriteSessions \/ ClosePartition \/ EndCommand \/ Crash

Spec == Init /\ [][Next]_vars

----------------------------------------------------------------------------
(* Properties *)

Pass == [snap : Seq(Record), size : Sizes]

TypeOK ==
    /\ landed \in [Parts -> Seq(Record)]
    /\ pc \in {"idle", "open", "batch", "write"}
    /\ queue \subseteq Parts
    /\ part \in Parts
    /\ snap \in Seq(Record)
    /\ size \in Sizes
    /\ batch \in Nat
    /\ toWrite \subseteq Days
    /\ seen \subseteq SessionIds
    /\ \A k \in DOMAIN rowFiles :
          /\ k \in {Tag[p] : p \in Parts} \X Nat \X Days
          /\ rowFiles[k] = Torn \/ rowFiles[k] \subseteq Written
    /\ \A k \in DOMAIN sessionFiles :
          /\ k \in {Tag[p] : p \in Parts} \X Nat
          /\ sessionFiles[k] = Torn \/ sessionFiles[k] \subseteq Written
    /\ done \in [Parts -> Pass \cup {None}]
    /\ attempts \in [Parts -> SUBSET Pass]

\* The identities stay different when they are made into file names.
TagsDiffer == \A p, q \in Parts : Tag[p] = Tag[q] => p = q

\* What a whole pass is meant to write in its b-th batch, said of the partition as
\* a whole: the session rows are those of sessions no earlier record has opened,
\* wherever the batches were cut.
FirstOf(s, i) ==
    /\ Survives(s, i)
    /\ s[i].session # NoSession
    /\ \A j \in DOMAIN s : Survives(s, j) /\ s[j].session = s[i].session => i <= j
SessionsIn(p, s, z, b) == {Item(p, s, i) : i \in {j \in Batch(s, z, b) : FirstOf(s, j)}}

OutputOfBatch(p, s, z, b) ==
    /\ \A d \in DaysOf(s, z, b) :
          /\ <<Tag[p], b, d>> \in DOMAIN rowFiles
          /\ rowFiles[<<Tag[p], b, d>>] = RowsOn(p, s, z, b, d)
    /\ SessionsIn(p, s, z, b) # {} =>
          /\ <<Tag[p], b>> \in DOMAIN sessionFiles
          /\ sessionFiles[<<Tag[p], b>>] = SessionsIn(p, s, z, b)

\* The batches leave no record out, and what each was to write is on disk.
OutputStands(p, pass) ==
    /\ \A i \in DOMAIN pass.snap :
          \E b \in 0 .. Len(pass.snap) : i \in Batch(pass.snap, pass.size, b)
    /\ \A b \in 0 .. Len(pass.snap) : OutputOfBatch(p, pass.snap, pass.size, b)

\* Once a pass over a partition has completed, and until the partition is reopened,
\* all it produced is on disk, file by file: no later pass over other partitions, no
\* crash of theirs and no earlier attempt shows through, and each session is written
\* once, from its first surviving record, however the batches cut the partition.
CompletedPassStands ==
    \A p \in Parts : done[p] # None => OutputStands(p, done[p])

\* The comment on partition_sessions: tracking sessions per partition "keeps a re-run
\* of one partition byte-identical".  If every attempt at a partition had the same
\* snapshot and batch size, however many were killed, its files are exactly those
\* of one clean pass: no other file, and none torn.
RerunsAreIdentical ==
    \A p \in Parts : done[p] # None /\ attempts[p] = {done[p]} =>
        LET s == done[p].snap
            z == done[p].size
        IN  /\ \A k \in DOMAIN rowFiles : k[1] = Tag[p] =>
                  k[3] \in DaysOf(s, z, k[2]) /\ rowFiles[k] = RowsOn(p, s, z, k[2], k[3])
            /\ \A k \in DOMAIN sessionFiles : k[1] = Tag[p] =>
                  SessionsIn(p, s, z, k[2]) # {} /\ sessionFiles[k] = SessionsIn(p, s, z, k[2])

Intact(dataset, p) == {k \in DOMAIN dataset : k[1] = Tag[p] /\ dataset[k] # Torn}

\* Rows are written before the sessions they belong to, and batch sizes differ
\* between attempts, so files of several passes can lie side by side.  Once one pass
\* has completed, if all attempts saw the same snapshot, every row still finds its
\* session row, and all session rows of a session say the same.
RowsJoinSessions ==
    \A p \in Parts : done[p] # None /\ (\A a \in attempts[p] : a.snap = done[p].snap) =>
        LET rowsOnDisk == UNION {rowFiles[k] : k \in Intact(rowFiles, p)}
            sessionRows == UNION {sessionFiles[k] : k \in Intact(sessionFiles, p)}
        IN  /\ \A r \in rowsOnDisk : r.rec.session # NoSession =>
                  \E w \in sessionRows : w.rec.session = r.rec.session
            /\ \A v, w \in sessionRows : v.rec.session = w.rec.session => v = w
=============================================================================
