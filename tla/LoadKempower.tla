------------------------------ MODULE LoadKempower ------------------------------
(***************************************************************************)
(* scripts/phase3/load_kempower.sh: copy the canonical files of the parts  *)
(* named on its command line to the cluster, one part at a time, MERGE     *)
(* each part into the measurement table, and at the end MERGE the sessions *)
(* of the same parts.  Every remote step may fail or the script be killed  *)
(* in it; the operator then runs it again with any parts.                  *)
(*                                                                         *)
(* What is copied stays on the cluster, and a MERGE reads all that is in   *)
(* its directory.  The local files may be written anew between two runs.   *)
(***************************************************************************)
EXTENDS Integers, Sequences, FiniteSets, SequencesExt

CONSTANTS
    Parts,          \* the parts the transform has written
    Unknown,        \* an argument with no canonical files
    Files,          \* part -> its measurement files' names
    SessionFiles,   \* part -> its session files' names
    MaxArguments,   \* bound: parts on a command line
    MaxRuns,        \* bound: runs of the script
    MaxVersions     \* bound: how often the transform writes the files

VARIABLES
    version,    \* which writing of the local files this is
    remote,     \* part, or Sessions -> file name -> what is on the cluster there
    loaded,     \* part, or Sessions -> file name -> the newest version merged, or 0
    runs,
    ids,        \* the parts of this run, a sequence
    pc,         \* "idle", "check", "stage", "merge", "exit"
    at,         \* how many parts have been loaded in this run; Len(ids) + 1: the sessions
    status      \* the exit status of the last run

vars == <<version, remote, loaded, runs, ids, pc, at, status>>

Sessions == "charging_session"
Directories == Parts \cup {Sessions}

AllSessionFiles == UNION {SessionFiles[p] : p \in Parts}
FilesOf(d) == IF d = Sessions THEN AllSessionFiles ELSE Files[d]

\* The name of a session file holds the number of its part.
ASSUME PartsAssumption ==
    /\ Sessions \notin Parts
    /\ \A p, q \in Parts : p # q => SessionFiles[p] \cap SessionFiles[q] = {}

Absent == 0
Torn == -1    \* a copy that was cut off

Init ==
    /\ version = 1
    /\ remote = [d \in Directories |-> [f \in FilesOf(d) |-> Absent]]
    /\ loaded = [d \in Directories |-> [f \in FilesOf(d) |-> Absent]]
    /\ runs = 0
    /\ ids = << >>
    /\ pc = "idle"
    /\ at = 0
    /\ status = 0

\* The transform writes the files of every part again, under the same names.
Transform ==
    /\ pc = "idle"
    /\ version < MaxVersions
    /\ version' = version + 1
    /\ UNCHANGED <<remote, loaded, runs, ids, pc, at, status>>

----------------------------------------------------------------------------
(* One run *)

Start(arguments) ==
    /\ pc = "idle"
    /\ runs < MaxRuns
    /\ runs' = runs + 1
    /\ ids' = arguments
    /\ at' = 0
    /\ pc' = "check"
    /\ UNCHANGED <<version, remote, loaded, status>>

Exit(code) ==
    /\ pc' = "exit"
    /\ status' = code

\* Every part has local files, or nothing is done at all.
Check ==
    /\ pc = "check"
    /\ IF \A i \in 1 .. Len(ids) : ids[i] \in Parts
       THEN pc' = "stage" /\ UNCHANGED status
       ELSE Exit(1)
    /\ UNCHANGED <<version, remote, loaded, runs, ids, at>>

\* The directory a run is at, and the local files that belong there; in the end the session
\* files of all its parts, not of the last one only
Here == IF at < Len(ids) THEN ids[at + 1] ELSE Sessions
LocalOfTheLast ==
    IF at < Len(ids) THEN Files[ids[at + 1]] ELSE SessionFiles[ids[Len(ids)]]
Local ==
    IF at < Len(ids) THEN Files[ids[at + 1]]
    ELSE UNION {SessionFiles[p] : p \in Range(ids)}

Copied(state, files, value) == [f \in DOMAIN state |-> IF f \in files THEN value ELSE state[f]]

\* stage: scp copies the files one by one, then the script counts the names that are there.
StageAll ==
    /\ pc = "stage"
    /\ Local # {}
    /\ remote' = [remote EXCEPT ![Here] = Copied(@, Local, version)]
    /\ pc' = "merge"
    /\ UNCHANGED <<version, loaded, runs, ids, at, status>>

\* Neither scp's status nor the count is looked at.
StageSomeUnseen ==
    /\ pc = "stage"
    /\ Local # {}
    /\ \E done \in SUBSET Local :
          remote' = [remote EXCEPT ![Here] = Copied(@, done, version)]
    /\ pc' = "merge"
    /\ UNCHANGED <<version, loaded, runs, ids, at, status>>

\* The copy stops at one file, which may be cut off; scp's status ends the script.
StageSome ==
    /\ pc = "stage"
    /\ Local # {}
    /\ \E done \in SUBSET Local : \E cut \in {{}} \cup {{f} : f \in Local \ done} :
          /\ done # Local
          /\ remote' = [remote EXCEPT ![Here] = Copied(Copied(@, done, version), cut, Torn)]
    /\ Exit(1)
    /\ UNCHANGED <<version, loaded, runs, ids, at>>

\* The script has no session files to load for any of its parts.
NoSessions ==
    /\ pc = "stage"
    /\ Local = {}
    /\ Exit(1)
    /\ UNCHANGED <<version, remote, loaded, runs, ids, at>>

\* What a MERGE of a directory makes of its rows: all files in it, the newest copy of a row
\* winning in the batch, and always replacing the table's.
Merged(d) ==
    [f \in FilesOf(d) |-> IF remote[d][f] > Absent THEN remote[d][f] ELSE loaded[d][f]]

\* A file that was cut off has no footer: the MERGE that reads it fails.
Readable(d) == \A f \in FilesOf(d) : remote[d][f] # Torn

\* delta-load: all of the directory, or nothing.
Merge ==
    /\ pc = "merge"
    /\ Readable(Here)
    /\ loaded' = [loaded EXCEPT ![Here] = Merged(Here)]
    /\ IF at < Len(ids) THEN at' = at + 1 /\ pc' = "stage" /\ UNCHANGED status
                        ELSE UNCHANGED at /\ Exit(0)
    /\ UNCHANGED <<version, remote, runs, ids>>

\* The pipe into grep hides that the MERGE failed.
MergeFailsUnseen ==
    /\ pc = "merge"
    /\ UNCHANGED loaded
    /\ IF at < Len(ids) THEN at' = at + 1 /\ pc' = "stage" /\ UNCHANGED status
                        ELSE UNCHANGED at /\ Exit(0)
    /\ UNCHANGED <<version, remote, runs, ids>>

\* The MERGE fails, or commits and the script is not told: it stops either way.
MergeFails ==
    /\ pc = "merge"
    /\ \/ UNCHANGED loaded
       \/ Readable(Here) /\ loaded' = [loaded EXCEPT ![Here] = Merged(Here)]
    /\ Exit(1)
    /\ UNCHANGED <<version, remote, runs, ids, at>>

\* The script is killed.
Kill ==
    /\ pc \in {"check", "stage", "merge"}
    /\ Exit(1)
    /\ UNCHANGED <<version, remote, loaded, runs, ids, at>>

Prompt ==
    /\ pc = "exit"
    /\ pc' = "idle"
    /\ UNCHANGED <<version, remote, loaded, runs, ids, at, status>>

CommandLines == UNION {[1 .. n -> Parts \cup {Unknown}] : n \in 1 .. MaxArguments}

Next ==
    \/ \E arguments \in CommandLines : Start(arguments)
    \/ Transform \/ Check \/ StageAll \/ StageSome \/ NoSessions
    \/ Merge \/ MergeFails \/ Kill \/ Prompt

Spec == Init /\ [][Next]_vars

----------------------------------------------------------------------------
(* Properties *)

\* Exit status 0 means what the header promises: every part named, and the sessions of
\* every one of them, are in the tables as the transform last wrote them, whatever was
\* left on the cluster by runs that failed.
SuccessLoadsAll ==
    pc = "exit" /\ status = 0 =>
        \A p \in Range(ids) :
            /\ \A f \in Files[p] : loaded[p][f] = version
            /\ \A f \in SessionFiles[p] : loaded[Sessions][f] = version

\* "Each staged file is checked on the NFS before its MERGE": the measurement table never
\* holds half a part, nor a part mixed from two runs of the transform.
WholeParts ==
    \A p \in Parts : \A f, g \in Files[p] : loaded[p][f] = loaded[p][g]

\* "MERGE each part, then MERGE the same parts' sessions": the session table never runs
\* ahead of the measurements, though its directory keeps the files of every earlier run.
RowsBeforeSessions ==
    \A p \in Parts : \A f \in Files[p], g \in SessionFiles[p] :
        loaded[Sessions][g] <= loaded[p][f]
=============================================================================
