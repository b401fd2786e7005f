--------------------------- MODULE LoadKempowerProofs ---------------------------
(* Proofs about LoadKempower: for any parts, files and command lines, and however  *)
(* often the script fails and is run again, the measurement table holds whole      *)
(* parts, the session table never runs ahead of it, and status 0 tells the truth.  *)
EXTENDS LoadKempower, TLAPS

\* Versions of files, and the control state of a run
TypeInv ==
    /\ version \in Nat \ {0}
    /\ DOMAIN remote = Directories /\ DOMAIN loaded = Directories
    /\ \A d \in Directories :
          /\ remote[d] \in [FilesOf(d) -> Int]
          /\ loaded[d] \in [FilesOf(d) -> Nat]
    /\ ids \in Seq(Parts \cup {Unknown})
    /\ at \in 0 .. Len(ids)
    /\ pc \in {"idle", "check", "stage", "merge", "exit"}

\* No copy is of a writing yet to come.
VersionsInv ==
    \A d \in Directories : \A f \in FilesOf(d) :
        remote[d][f] <= version /\ loaded[d][f] <= version

\* A run has merged the parts it has passed as the transform last wrote them.
PassedInv ==
    /\ pc \in {"check", "idle"} => pc = "idle" \/ at = 0
    /\ pc \in {"stage", "merge"} =>
          /\ \A i \in 1 .. Len(ids) : ids[i] \in Parts
          /\ \A i \in 1 .. at : \A f \in Files[ids[i]] : loaded[ids[i]][f] = version

\* Before a MERGE, all files of the run that belong in the directory are there, and whole.
StagedInv == pc = "merge" => \A f \in Local : remote[Here][f] = version

\* What the directory of the sessions holds of a part is no newer than the part's rows.
BehindInv ==
    \A p \in Parts : \A f \in Files[p], g \in SessionFiles[p] :
        remote[Sessions][g] <= loaded[p][f]

LInv ==
    /\ TypeInv /\ VersionsInv /\ PassedInv /\ StagedInv /\ BehindInv
    /\ WholeParts /\ RowsBeforeSessions /\ SuccessLoadsAll

(***************************************************************************)
(* Directories                                                             *)
(***************************************************************************)

\* A part has a directory of its own; its session files go into that of all sessions.
LEMMA PartIs ==
    ASSUME NEW p \in Parts
    PROVE  /\ p \in Directories /\ p # Sessions /\ FilesOf(p) = Files[p]
           /\ Sessions \in Directories
           /\ SessionFiles[p] \subseteq FilesOf(Sessions)
BY PartsAssumption DEF Directories, FilesOf, AllSessionFiles

\* Where a run is, and what it copies there
LEMMA HereIs ==
    ASSUME TypeInv, \A i \in 1 .. Len(ids) : ids[i] \in Parts
    PROVE  /\ at < Len(ids) => /\ Here \in Parts /\ Here # Sessions /\ Here = ids[at + 1]
                               /\ Local = Files[Here] /\ FilesOf(Here) = Files[Here]
           /\ ~(at < Len(ids)) => /\ Here = Sessions /\ at = Len(ids)
                                  /\ Local \subseteq FilesOf(Here)
                                  /\ \A f \in Local : \E i \in 1 .. at : f \in SessionFiles[ids[i]]
                                  /\ \A i \in 1 .. at : SessionFiles[ids[i]] \subseteq Local
           /\ Here \in Directories
           /\ Local \subseteq FilesOf(Here)
<1>1. Len(ids) \in Nat /\ at \in Nat
    BY DEF TypeInv
<1>2. CASE at < Len(ids)
    <2>1. at + 1 \in 1 .. Len(ids)
        BY <1>1, <1>2
    <2> QED
        BY <1>2, <2>1, PartsAssumption DEF Here, Local, FilesOf, Directories
<1>3. CASE ~(at < Len(ids))
    <2>1. at = Len(ids)
        BY <1>1, <1>3 DEF TypeInv
    <2>2. Local = UNION {SessionFiles[p] : p \in Range(ids)}
        BY <1>3 DEF Local
    <2>3. Range(ids) = {ids[i] : i \in 1 .. Len(ids)}
        BY DEF Range, TypeInv
    <2> QED
        BY <1>3, <2>1, <2>2, <2>3 DEF Here, FilesOf, Directories, AllSessionFiles
<1> QED
    BY <1>2, <1>3

\* What an action that copies files does to the directory it is at, and only there
CopiesFiles ==
    /\ DOMAIN remote' = DOMAIN remote
    /\ remote'[Here] \in [FilesOf(Here) -> Int]
    /\ \A d \in Directories \ {Here} : remote'[d] = remote[d]
    /\ \A f \in FilesOf(Here) :
          remote'[Here][f] = remote[Here][f] \/ (f \in Local /\ remote'[Here][f] \in {version, Torn})

\* What a MERGE does to the table of the directory it is at
MergesFiles == loaded' = [loaded EXCEPT ![Here] = Merged(Here)]

LEMMA LInit == ASSUME Init PROVE LInv
<1>1. TypeInv
    BY DEF Init, TypeInv, Absent
<1>2. VersionsInv
    BY DEF Init, VersionsInv, Absent
<1>3. PassedInv /\ StagedInv /\ SuccessLoadsAll
    BY DEF Init, PassedInv, StagedInv, SuccessLoadsAll
<1>4. BehindInv /\ WholeParts /\ RowsBeforeSessions
    BY PartIs DEF Init, BehindInv, WholeParts, RowsBeforeSessions, Absent
<1> QED
    BY <1>1, <1>2, <1>3, <1>4 DEF LInv

(***************************************************************************)
(* The steps                                                               *)
(***************************************************************************)

\* Copying: what lies in the directories is older than the rows it will replace, or as new.
LEMMA CopyNext ==
    ASSUME LInv, pc = "stage", CopiesFiles, UNCHANGED <<version, loaded, ids, at>>,
           \/ pc' = "merge" /\ \A f \in Local : remote'[Here][f] = version
           \/ pc' = "exit" /\ status' = 1
    PROVE  LInv'
<1> USE DEF LInv
<1>1. \A i \in 1 .. Len(ids) : ids[i] \in Parts
    BY DEF PassedInv
<1>2. UNCHANGED <<Local, Here>>
    BY DEF Local, Here
<1>3. TypeInv'
    BY HereIs, <1>1 DEF TypeInv, CopiesFiles
<1>4. VersionsInv'
    <2> SUFFICES ASSUME NEW d \in Directories, NEW f \in FilesOf(d)
                 PROVE  remote'[d][f] <= version
        BY DEF VersionsInv
    <2>1. remote[d][f] <= version /\ version \in Nat
        BY DEF VersionsInv, TypeInv
    <2>2. CASE d = Here
        BY <2>1, <2>2 DEF CopiesFiles, Torn
    <2>3. CASE d # Here
        BY <2>1, <2>3 DEF CopiesFiles
    <2> QED
        BY <2>2, <2>3
<1>5. PassedInv'
    BY DEF PassedInv
<1>6. StagedInv'
    BY <1>2 DEF StagedInv
<1>7. BehindInv'
    <2> SUFFICES ASSUME NEW p \in Parts, NEW f \in Files[p], NEW g \in SessionFiles[p]
                 PROVE  remote'[Sessions][g] <= loaded[p][f]
        BY DEF BehindInv
    <2>1. remote[Sessions][g] <= loaded[p][f] /\ loaded[p][f] \in Nat
        BY PartIs DEF BehindInv, TypeInv
    <2>2. CASE remote'[Sessions][g] = remote[Sessions][g]
        BY <2>1, <2>2
    <2>3. CASE remote'[Sessions][g] # remote[Sessions][g]
        <3>1. Here = Sessions /\ g \in Local /\ remote'[Sessions][g] \in {version, Torn}
            BY <2>3, PartIs, HereIs, <1>1 DEF CopiesFiles
        <3>2. PICK i \in 1 .. at : g \in SessionFiles[ids[i]]
            BY <3>1, HereIs, <1>1
        <3>3. ids[i] \in Parts
            BY <1>1, <3>2 DEF TypeInv
        <3>4. ids[i] = p
            BY <3>2, <3>3, PartsAssumption
        <3>5. loaded[p][f] = version
            BY <3>2, <3>4 DEF PassedInv
        <3> QED
            BY <2>1, <3>1, <3>5 DEF Torn
    <2> QED
        BY <2>2, <2>3
<1>8. WholeParts' /\ RowsBeforeSessions'
    BY DEF WholeParts, RowsBeforeSessions
<1>9. SuccessLoadsAll'
    BY DEF SuccessLoadsAll
<1> QED
    BY <1>3, <1>4, <1>5, <1>6, <1>7, <1>8, <1>9

\* A MERGE makes the whole of a part as new as the files; or the run's sessions, of which
\* those of parts it did not name are no newer than these parts' rows.
LEMMA MergeNext ==
    ASSUME LInv, pc = "merge", MergesFiles, UNCHANGED <<version, remote, ids>>,
           \/ at < Len(ids) /\ at' = at + 1 /\ pc' = "stage"
           \/ ~(at < Len(ids)) /\ UNCHANGED at /\ pc' = "exit"
           \/ UNCHANGED at /\ pc' = "exit" /\ status' = 1
    PROVE  LInv'
<1> USE DEF LInv
<1>1. \A i \in 1 .. Len(ids) : ids[i] \in Parts
    BY DEF PassedInv
<1>2. /\ version \in Nat \ {0} /\ at \in Nat /\ Len(ids) \in Nat
      /\ Here \in Directories
    BY HereIs, <1>1 DEF TypeInv
<1>3. /\ DOMAIN loaded' = Directories
      /\ \A d \in Directories \ {Here} : loaded'[d] = loaded[d]
      /\ loaded'[Here] = Merged(Here)
    BY <1>2 DEF MergesFiles, TypeInv
<1>4. \A f \in FilesOf(Here) :
          /\ loaded'[Here][f] \in {remote[Here][f], loaded[Here][f]}
          /\ loaded'[Here][f] \in Nat
          /\ f \in Local => loaded'[Here][f] = version
    <2> TAKE f \in FilesOf(Here)
    <2>1. remote[Here][f] \in Int /\ loaded[Here][f] \in Nat
        BY <1>2 DEF TypeInv
    <2>2. loaded'[Here][f]
            = IF remote[Here][f] > 0 THEN remote[Here][f] ELSE loaded[Here][f]
        BY <1>3 DEF Merged, Absent
    <2> QED
        BY <1>2, <2>1, <2>2 DEF StagedInv
<1>5. TypeInv'
    <2>1. loaded'[Here] \in [FilesOf(Here) -> Nat]
        BY <1>3, <1>4 DEF Merged
    <2>2. at' \in 0 .. Len(ids) /\ pc' \in {"stage", "exit"}
        BY <1>2 DEF TypeInv
    <2>3. \A d \in Directories : remote[d] \in [FilesOf(d) -> Int] /\ loaded'[d] \in [FilesOf(d) -> Nat]
        BY <1>3, <2>1 DEF TypeInv
    <2> QED
        BY <1>3, <2>2, <2>3 DEF TypeInv
<1>6. VersionsInv'
    BY <1>3, <1>4 DEF VersionsInv
<1>7. CASE at < Len(ids)
    <2>1. /\ Here \in Parts /\ Here # Sessions /\ Here = ids[at + 1]
          /\ Local = Files[Here] /\ FilesOf(Here) = Files[Here]
        BY <1>1, <1>7, HereIs
    <2>2. \A f \in Files[Here] : loaded'[Here][f] = version
        BY <1>4, <2>1
    <2>3. \A d \in Directories : \A f \in FilesOf(d) :
              loaded'[d][f] = loaded[d][f] \/ (d = Here /\ loaded'[d][f] = version)
        BY <1>3, <2>1, <2>2
    <2>4. PassedInv'
        <3>1. \A i \in 1 .. at + 1 : \A f \in Files[ids[i]] : loaded'[ids[i]][f] = version
            <4> TAKE i \in 1 .. at + 1
            <4>1. CASE ids[i] = Here
                BY <2>2, <4>1
            <4>2. CASE ids[i] # Here
                <5>1. i \in 1 .. at /\ ids[i] \in Parts
                    BY <1>1, <1>2, <1>7, <2>1, <4>2
                <5> QED
                    BY <1>3, <4>2, <5>1, PartIs DEF PassedInv
            <4> QED
                BY <4>1, <4>2
        <3> QED
            BY <1>1, <1>2, <3>1 DEF PassedInv
    <2>5. BehindInv' /\ RowsBeforeSessions'
        <3> SUFFICES ASSUME NEW p \in Parts, NEW f \in Files[p], NEW g \in SessionFiles[p]
                     PROVE  /\ remote[Sessions][g] <= loaded'[p][f]
                            /\ loaded'[Sessions][g] <= loaded'[p][f]
            BY DEF BehindInv, RowsBeforeSessions
        <3>1. loaded'[Sessions][g] = loaded[Sessions][g]
            BY <1>3, <2>1, PartIs
        <3>2. remote[Sessions][g] <= version /\ loaded[Sessions][g] <= version
            BY PartIs DEF VersionsInv
        <3>3. loaded'[p][f] \in {loaded[p][f], version}
            BY <2>3, PartIs
        <3> QED
            BY <3>1, <3>2, <3>3 DEF BehindInv, RowsBeforeSessions
    <2>6. WholeParts'
        <3> SUFFICES ASSUME NEW p \in Parts, NEW f \in Files[p], NEW g \in Files[p]
                     PROVE  loaded'[p][f] = loaded'[p][g]
            BY DEF WholeParts
        <3>1. CASE p = Here
            BY <2>2, <3>1
        <3>2. CASE p # Here
            BY <1>3, <3>2, PartIs DEF WholeParts
        <3> QED
            BY <3>1, <3>2
    <2>7. StagedInv' /\ SuccessLoadsAll'
        BY <1>7 DEF StagedInv, SuccessLoadsAll
    <2> QED
        BY <1>5, <1>6, <2>4, <2>5, <2>6, <2>7
<1>8. CASE ~(at < Len(ids))
    <2>1. /\ Here = Sessions /\ at = Len(ids) /\ pc' = "exit"
          /\ \A i \in 1 .. at : SessionFiles[ids[i]] \subseteq Local
        BY <1>1, <1>8, HereIs
    <2>2. \A p \in Parts : loaded'[p] = loaded[p]
        BY <1>3, <2>1, PartIs
    <2>3. BehindInv' /\ WholeParts'
        BY <2>2 DEF BehindInv, WholeParts
    <2>4. RowsBeforeSessions'
        BY <1>4, <2>1, <2>2, PartIs DEF BehindInv, RowsBeforeSessions
    <2>5. SuccessLoadsAll'
        <3> SUFFICES ASSUME NEW p \in Range(ids)
                     PROVE  /\ \A f \in Files[p] : loaded'[p][f] = version
                            /\ \A f \in SessionFiles[p] : loaded'[Sessions][f] = version
            BY DEF SuccessLoadsAll
        <3>1. PICK i \in 1 .. at : p = ids[i]
            BY <2>1 DEF Range, TypeInv
        <3>2. p \in Parts
            BY <1>1, <2>1, <3>1
        <3>3. \A f \in Files[p] : loaded'[p][f] = version
            BY <2>2, <3>1, <3>2 DEF PassedInv
        <3>4. \A f \in SessionFiles[p] : loaded'[Sessions][f] = version
            BY <1>4, <2>1, <3>1, <3>2, PartIs
        <3> QED
            BY <3>3, <3>4
    <2>6. PassedInv' /\ StagedInv'
        BY <2>1 DEF PassedInv, StagedInv
    <2> QED
        BY <1>5, <1>6, <2>3, <2>4, <2>5, <2>6
<1> QED
    BY <1>7, <1>8

\* A run starts with parts of any kind; an exit with status 1 promises nothing.
LEMMA RunNext ==
    ASSUME LInv, UNCHANGED <<remote, loaded>>,
           Transform \/ Check \/ NoSessions \/ Kill \/ Prompt
             \/ (\E arguments \in CommandLines : Start(arguments))
             \/ (MergeFails /\ UNCHANGED loaded)
    PROVE  LInv'
<1> USE DEF LInv
<1>1. WholeParts' /\ RowsBeforeSessions' /\ BehindInv'
    BY DEF WholeParts, RowsBeforeSessions, BehindInv
<1>2. CASE Transform
    <2>1. version' = version + 1 /\ pc = "idle" /\ UNCHANGED <<runs, ids, pc, at, status>>
        BY <1>2 DEF Transform
    <2>2. TypeInv'
        BY <2>1 DEF TypeInv
    <2>3. VersionsInv'
        <3> SUFFICES ASSUME NEW d \in Directories, NEW f \in FilesOf(d)
                     PROVE  remote[d][f] <= version + 1 /\ loaded[d][f] <= version + 1
            BY <2>1 DEF VersionsInv
        <3>1. remote[d][f] \in Int /\ loaded[d][f] \in Nat /\ version \in Nat
            BY DEF TypeInv
        <3> QED
            BY <3>1 DEF VersionsInv
    <2>4. PassedInv' /\ StagedInv' /\ SuccessLoadsAll'
        BY <2>1 DEF PassedInv, StagedInv, SuccessLoadsAll
    <2> QED
        BY <1>1, <2>2, <2>3, <2>4
<1>3. ASSUME UNCHANGED version PROVE VersionsInv'
    BY <1>3 DEF VersionsInv
<1>4. CASE \E arguments \in CommandLines : Start(arguments)
    <2>1. PICK arguments \in CommandLines : Start(arguments)
        BY <1>4
    <2>2. arguments \in Seq(Parts \cup {Unknown})
        BY DEF CommandLines
    <2>3. /\ ids' = arguments /\ at' = 0 /\ pc' = "check" /\ UNCHANGED <<version, status>>
        BY <2>1 DEF Start
    <2>4. TypeInv'
        BY <2>2, <2>3 DEF TypeInv
    <2>5. PassedInv' /\ StagedInv' /\ SuccessLoadsAll'
        BY <2>3 DEF PassedInv, StagedInv, SuccessLoadsAll
    <2> QED
        BY <1>1, <1>3, <2>3, <2>4, <2>5
<1>5. CASE Check
    <2>1. pc = "check" /\ at = 0 /\ UNCHANGED <<version, ids, at>>
        BY <1>5 DEF Check, PassedInv
    <2>2. \/ pc' = "stage" /\ UNCHANGED status /\ \A i \in 1 .. Len(ids) : ids[i] \in Parts
          \/ pc' = "exit" /\ status' = 1
        BY <1>5 DEF Check, Exit
    <2>3. TypeInv'
        BY <2>1, <2>2 DEF TypeInv
    <2>4. PassedInv' /\ StagedInv' /\ SuccessLoadsAll'
        BY <2>1, <2>2 DEF PassedInv, StagedInv, SuccessLoadsAll
    <2> QED
        BY <1>1, <1>3, <2>1, <2>3, <2>4
<1>6. CASE NoSessions \/ Kill \/ (MergeFails /\ UNCHANGED loaded)
    <2>1. pc' = "exit" /\ status' = 1 /\ UNCHANGED <<version, ids, at>>
        BY <1>6 DEF NoSessions, Kill, MergeFails, Exit
    <2>2. TypeInv'
        BY <2>1 DEF TypeInv
    <2>3. PassedInv' /\ StagedInv' /\ SuccessLoadsAll'
        BY <2>1 DEF PassedInv, StagedInv, SuccessLoadsAll
    <2> QED
        BY <1>1, <1>3, <2>1, <2>2, <2>3
<1>7. CASE Prompt
    <2>1. pc' = "idle" /\ UNCHANGED <<version, ids, at, status>>
        BY <1>7 DEF Prompt
    <2>2. TypeInv'
        BY <2>1 DEF TypeInv
    <2>3. PassedInv' /\ StagedInv' /\ SuccessLoadsAll'
        BY <2>1 DEF PassedInv, StagedInv, SuccessLoadsAll
    <2> QED
        BY <1>1, <1>3, <2>1, <2>2, <2>3
<1> QED
    BY <1>2, <1>4, <1>5, <1>6, <1>7

LEMMA StageAllCopies ==
    ASSUME LInv, StageAll
    PROVE  CopiesFiles /\ \A f \in Local : remote'[Here][f] = version
<1> USE DEF LInv
<1>1. pc = "stage" /\ remote' = [remote EXCEPT ![Here] = Copied(@, Local, version)]
    BY DEF StageAll
<1>2. Here \in Directories /\ Local \subseteq FilesOf(Here)
    BY HereIs, <1>1 DEF PassedInv
<1>3. remote[Here] \in [FilesOf(Here) -> Int] /\ version \in Int /\ DOMAIN remote = Directories
    BY <1>2 DEF TypeInv
<1>4. remote'[Here] = [f \in FilesOf(Here) |-> IF f \in Local THEN version ELSE remote[Here][f]]
    BY <1>1, <1>2, <1>3 DEF Copied
<1>5. remote'[Here] \in [FilesOf(Here) -> Int]
    BY <1>3, <1>4
<1> QED
    BY <1>1, <1>2, <1>3, <1>4, <1>5 DEF CopiesFiles

LEMMA StageSomeCopies ==
    ASSUME LInv, StageSome
    PROVE  CopiesFiles
<1> USE DEF LInv
<1>1. PICK done \in SUBSET Local : \E cut \in {{}} \cup {{f} : f \in Local \ done} :
          remote' = [remote EXCEPT ![Here] = Copied(Copied(@, done, version), cut, Torn)]
    BY DEF StageSome
<1>2. PICK cut \in {{}} \cup {{f} : f \in Local \ done} :
          remote' = [remote EXCEPT ![Here] = Copied(Copied(@, done, version), cut, Torn)]
    BY <1>1
<1>3. Here \in Directories /\ Local \subseteq FilesOf(Here) /\ cut \subseteq Local
    BY HereIs DEF PassedInv, StageSome
<1>4. remote[Here] \in [FilesOf(Here) -> Int] /\ version \in Int /\ DOMAIN remote = Directories
    BY <1>3 DEF TypeInv
<1>5. remote'[Here] = Copied(Copied(remote[Here], done, version), cut, Torn)
    BY <1>2, <1>3, <1>4
<1>6. remote'[Here] = [f \in FilesOf(Here) |->
          IF f \in cut THEN Torn ELSE IF f \in done THEN version ELSE remote[Here][f]]
    BY <1>4, <1>5 DEF Copied
<1>7. remote'[Here] \in [FilesOf(Here) -> Int]
    BY <1>4, <1>6 DEF Torn
<1> QED
    BY <1>2, <1>3, <1>4, <1>6, <1>7 DEF CopiesFiles

LEMMA LNext == ASSUME LInv, [Next]_vars PROVE LInv'
<1>1. CASE StageAll
    BY <1>1, StageAllCopies, CopyNext DEF StageAll
<1>2. CASE StageSome
    BY <1>2, StageSomeCopies, CopyNext DEF StageSome, Exit
<1>3. CASE Merge
    BY <1>3, MergeNext DEF Merge, MergesFiles, Exit
<1>4. CASE MergeFails
    <2>1. CASE UNCHANGED loaded
        BY <1>4, <2>1, RunNext DEF MergeFails
    <2>2. CASE MergesFiles
        BY <1>4, <2>2, MergeNext DEF MergeFails, Exit
    <2> QED
        BY <1>4, <2>1, <2>2 DEF MergeFails, MergesFiles
<1>5. CASE Transform \/ Check \/ NoSessions \/ Kill \/ Prompt
             \/ (\E arguments \in CommandLines : Start(arguments))
    BY <1>5, RunNext DEF Transform, Check, NoSessions, Kill, Prompt, Start
<1>6. CASE UNCHANGED vars
    BY <1>6 DEF vars, LInv, TypeInv, VersionsInv, PassedInv, StagedInv, BehindInv, WholeParts,
       RowsBeforeSessions, SuccessLoadsAll, Local, Here
<1> QED
    BY <1>1, <1>2, <1>3, <1>4, <1>5, <1>6 DEF Next

THEOREM LoadInvariant == Spec => []LInv
BY LInit, LNext, PTL DEF Spec

\* The measurement table never holds half a part, nor one mixed from two writings: a part is
\* merged only when all its files have landed, and a run that fails in between copies it anew.
THEOREM PartsAreWhole == Spec => []WholeParts
<1>1. LInv => WholeParts
    BY DEF LInv
<1> QED
    BY <1>1, LoadInvariant, PTL

\* No session gets into its table before, or newer than, the measurements of its part, though
\* the directory of the sessions keeps what every earlier run has left there.
THEOREM SessionsFollowRows == Spec => []RowsBeforeSessions
<1>1. LInv => RowsBeforeSessions
    BY DEF LInv
<1> QED
    BY <1>1, LoadInvariant, PTL

\* Status 0: all the command line named is loaded as last written, whatever failed before.
THEOREM SuccessIsTrue == Spec => []SuccessLoadsAll
<1>1. LInv => SuccessLoadsAll
    BY DEF LInv
<1> QED
    BY <1>1, LoadInvariant, PTL
=============================================================================
