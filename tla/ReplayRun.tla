-------------------------------- MODULE ReplayRun --------------------------------
(***************************************************************************)
(* harness.py replay: the gates, every registered program on every case,   *)
(* and then the results: what an earlier run left is renamed, file by      *)
(* file, and the run's own three files are written, one by one.  A run may *)
(* be stopped at any point, and a second one needs --rerun-reason.         *)
(***************************************************************************)
EXTENDS Integers, FiniteSets

CONSTANTS
    MaxRuns     \* bound: runs of the command, each with a number of its own

ASSUME RunsAssumption == MaxRuns \in Nat

VARIABLES
    current,    \* file -> the run that wrote it, None, or Torn
    archive,    \* number -> file -> the run that wrote it, None, or Torn
    gates,      \* the run whose gates gates.json holds, or None
    registered, \* are the registered programs still as the inventory has them?
    runs,
    phase,      \* "idle", "gates", "replay", "rename", "write"
    reason,     \* was --rerun-reason given?
    gatesOnly,  \* was --gates-only given?
    earlier,    \* the number the earlier files get
    at,         \* the place in Files of the next file to rename or to write
    whole,      \* the runs whose replay.json was written whole (history)
    finished,   \* the runs that wrote all three files (history)
    scattered   \* the runs of whose files only some were archived (history)

disk == <<current, archive, gates, registered>>
replaying == <<phase, reason, gatesOnly, earlier, at>>
history == <<whole, finished, scattered>>
replayVars == <<disk, runs, replaying, history>>

Files == <<"replay.json", "outputs.json.gz", "report.md">>
Names == {Files[i] : i \in 1 .. 3}
Numbers == 1 .. MaxRuns

None == 0
Torn == -1

Empty == [f \in Names |-> None]

ReplayInit ==
    /\ current = Empty
    /\ archive = [k \in Numbers |-> Empty]
    /\ gates = None
    /\ registered = TRUE
    /\ runs = 0
    /\ phase = "idle"
    /\ reason \in BOOLEAN
    /\ gatesOnly \in BOOLEAN
    /\ earlier = 0
    /\ at = 1
    /\ whole = {}
    /\ finished = {}
    /\ scattered = {}

RecordFile == "replay.json"

----------------------------------------------------------------------------

\* The replay has run if its record exists; then a second run needs a reason.
MayStart(r, g) == g \/ current[RecordFile] = None \/ r

StartReplay(r, g) ==
    /\ phase = "idle"
    /\ runs < MaxRuns
    /\ MayStart(r, g)
    /\ runs' = runs + 1
    /\ reason' = r
    /\ gatesOnly' = g
    /\ phase' = "gates"
    /\ UNCHANGED <<disk, earlier, at, history>>

\* G1 to G7 are checked and written down; the replay starts only if all of them passed.
Gates ==
    /\ phase = "gates"
    /\ gates' = runs
    /\ phase' \in IF gatesOnly THEN {"idle"} ELSE {"idle", "replay"}
    /\ UNCHANGED <<current, archive, registered, runs, reason, gatesOnly, earlier, at, history>>

\* A registered program is edited.
Edit ==
    /\ registered
    /\ registered' = FALSE
    /\ UNCHANGED <<current, archive, gates, runs, replaying, history>>

\* A program that differs from the inventory ends the run.
Differs ==
    /\ phase = "replay"
    /\ ~registered
    /\ phase' = "idle"
    /\ UNCHANGED <<disk, runs, reason, gatesOnly, earlier, at, history>>

\* len(glob("replay.run*.json")) + 1
NextNumber == Cardinality({k \in Numbers : archive[k][RecordFile] # None}) + 1

\* All programs are replayed and measured; then the earlier record, if any, is counted.
Replay ==
    /\ phase = "replay"
    /\ phase' = IF current[RecordFile] # None THEN "rename" ELSE "write"
    /\ earlier' = NextNumber
    /\ at' = 1
    /\ UNCHANGED <<disk, runs, reason, gatesOnly, history>>

\* Only the record gets its number.
RenameRecord ==
    /\ phase = "rename"
    /\ archive' = [archive EXCEPT ![earlier][RecordFile] = current[RecordFile]]
    /\ current' = [current EXCEPT ![RecordFile] = None]
    /\ at' = 1
    /\ phase' = "write"
    /\ UNCHANGED <<gates, registered, runs, reason, gatesOnly, earlier, history>>

\* Each file of the earlier run that exists gets its number.
Rename ==
    /\ phase = "rename"
    /\ LET f == Files[at]
       IN  IF current[f] = None THEN UNCHANGED <<current, archive>>
           ELSE /\ archive' = [archive EXCEPT ![earlier][f] = current[f]]
                /\ current' = [current EXCEPT ![f] = None]
    /\ IF at < 3 THEN at' = at + 1 /\ UNCHANGED phase
                 ELSE at' = 1 /\ phase' = "write"
    /\ UNCHANGED <<gates, registered, runs, reason, gatesOnly, earlier, history>>

\* replay.json, outputs.json.gz, report.md, in this order.
Write ==
    /\ phase = "write"
    /\ LET f == Files[at]
       IN  /\ current' = [current EXCEPT ![f] = runs]
           /\ whole' = IF f = RecordFile THEN whole \cup {runs} ELSE whole
    /\ IF at < 3 THEN at' = at + 1 /\ UNCHANGED <<phase, finished>>
                 ELSE at' = 1 /\ phase' = "idle" /\ finished' = finished \cup {runs}
    /\ UNCHANGED <<archive, gates, registered, runs, reason, gatesOnly, earlier, scattered>>

\* The run is stopped, perhaps in the middle of writing a file.
Stop ==
    /\ phase # "idle"
    /\ \/ UNCHANGED current
       \/ phase = "write" /\ current' = [current EXCEPT ![Files[at]] = Torn]
    /\ phase' = "idle"
    /\ scattered' = IF phase = "rename" /\ at > 1
                    THEN scattered \cup ({current[f] : f \in Names} \ {None, Torn})
                    ELSE scattered
    /\ UNCHANGED <<archive, gates, registered, runs, reason, gatesOnly, earlier, at,
                   whole, finished>>

ReplayNext ==
    \/ \E r, g \in BOOLEAN : StartReplay(r, g)
    \/ Gates \/ Edit \/ Differs \/ Replay \/ Rename \/ Write \/ Stop

ReplaySpec == ReplayInit /\ [][ReplayNext]_replayVars

----------------------------------------------------------------------------
(* Properties *)

Kept(f) == {current[f]} \cup {archive[k][f] : k \in Numbers}

\* "A second run keeps every file of the first": wherever later runs were stopped, every
\* replay.json that was written whole is on disk, overwritten neither in place nor by a
\* rename onto its number; and so are all three files of a run that wrote them, unless a
\* later run was stopped between two of its renames (the next run then finds no record,
\* archives nothing and overwrites what was left in place).
KeepsEveryFile ==
    /\ whole \subseteq Kept(RecordFile)
    /\ \A f \in Names : finished \ scattered \subseteq Kept(f)
=============================================================================
