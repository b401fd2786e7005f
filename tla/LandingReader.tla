----------------------------- MODULE LandingReader -----------------------------
(***************************************************************************)
(* How a command reads the landing zone while ingestion writes it.  A      *)
(* partition holds payloads, named after the hash of their content, and a  *)
(* sidecar for each that says when it was fetched; the command lists the   *)
(* partitions, then in each of them lists the payloads, looks their        *)
(* sidecars up one by one, and reads the payload fetched last.             *)
(*                                                                         *)
(* Ingestion is external: it writes a payload under a .tmp name, renames   *)
(* it, and writes the sidecar, in either order; it may be killed anywhere, *)
(* and content that comes back gets a new sidecar, not a new payload.      *)
(***************************************************************************)
EXTENDS Integers, FiniteSets, FiniteSetsExt

CONSTANTS
    Partitions,   \* numbers, in the order of their paths
    Names,        \* the payloads' names, numbers in the order of their paths
    MaxFetches    \* bound: how often ingestion fetches

ASSUME PartitionsAssumption == Partitions \subseteq Nat
ASSUME NamesAssumption == Names \subseteq Nat \ {0}

Never == 0   \* no sidecar, or no snapshot: older than every fetch

VARIABLES
    fetches,    \* how often ingestion has fetched: the time
    fetching,   \* partition -> the payload being landed there and when it was fetched
    payloads,   \* partition -> its payloads
    temporary,  \* partition -> its payloads still, or for ever, under a .tmp name
    sidecar,    \* partition -> name -> fetched_at, or Never
    reading,    \* "idle", "next" (partition), "look", "end"
    unread,     \* the partitions still to be read
    opened,     \* the partition being read
    listed,     \* its payloads whose recency is not known yet
    best,       \* the payload ahead so far, [at, name]
    read,       \* partition -> the payload this command reads there, [at, name]
    before,     \* partition -> the newest complete snapshot when the command began (history)
    lastRead    \* partition -> fetched_at of what was read there last (history)

zone == <<fetches, fetching, payloads, temporary, sidecar>>
reader == <<reading, unread, opened, listed, best, read, before, lastRead>>
readerVars == <<zone, reader>>

Nothing == [at |-> Never, name |-> 0]

----------------------------------------------------------------------------
(* _latest_payload *)

\* What a reader takes for payloads: a name ending in .tmp is none.
PayloadFiles(p) == payloads[p]

\* recency with the default of an empty fetched_at above every other
RecencyMissingLast(p, n) ==
    [at |-> IF sidecar[p][n] = Never THEN MaxFetches + 1 ELSE sidecar[p][n], name |-> n]
\* recency without the sidecar
RecencyByPath(p, n) == [at |-> Never, name |-> n]
\* recency: a payload without a sidecar counts as older than all others
Recency(p, n) == [at |-> sidecar[p][n], name |-> n]

\* max(paths, key=recency), the path breaking ties
Ahead(r, s) == r.at > s.at \/ (r.at = s.at /\ r.name > s.name)

----------------------------------------------------------------------------

Each(value) == [p \in Partitions |-> value]

ReaderInit ==
    /\ fetches = 0
    /\ fetching = Each(Nothing)
    /\ payloads = Each({})
    /\ temporary = Each({})
    /\ sidecar = Each([n \in Names |-> Never])
    /\ reading = "idle"
    /\ unread = {}
    /\ opened \in Partitions
    /\ listed = {}
    /\ best = Nothing
    /\ read = Each(Nothing)
    /\ before = Each(Never)
    /\ lastRead = Each(Never)

Complete(p) == {n \in payloads[p] : sidecar[p][n] # Never}
Newest(p) == Max({sidecar[p][n] : n \in Complete(p)} \cup {Never})

(* Ingestion, one payload at a time in a partition *)

Fetch(p, n) ==
    /\ fetching[p] = Nothing
    /\ fetches < MaxFetches
    /\ fetches' = fetches + 1
    /\ fetching' = [fetching EXCEPT ![p] = [at |-> fetches', name |-> n]]
    /\ temporary' = IF n \in payloads[p] THEN temporary
                    ELSE [temporary EXCEPT ![p] = @ \cup {n}]
    /\ UNCHANGED <<payloads, sidecar, reader>>

WriteSidecar(p) ==
    LET f == fetching[p]
    IN  /\ f # Nothing
        /\ sidecar[p][f.name] # f.at
        /\ sidecar' = [sidecar EXCEPT ![p][f.name] = f.at]
        /\ UNCHANGED <<fetches, fetching, payloads, temporary, reader>>

RenamePayload(p) ==
    LET f == fetching[p]
    IN  /\ f # Nothing
        /\ f.name \in temporary[p]
        /\ payloads' = [payloads EXCEPT ![p] = @ \cup {f.name}]
        /\ temporary' = [temporary EXCEPT ![p] = @ \ {f.name}]
        /\ UNCHANGED <<fetches, fetching, sidecar, reader>>

\* Ingestion is done with the payload, or is killed in the middle.
EndFetch(p) ==
    /\ fetching[p] # Nothing
    /\ fetching' = [fetching EXCEPT ![p] = Nothing]
    /\ UNCHANGED <<fetches, payloads, temporary, sidecar, reader>>

(* The command *)

\* iter_partitions: a directory is there as soon as there is a file in it.
Start ==
    /\ reading = "idle"
    /\ unread' = {p \in Partitions : payloads[p] \cup temporary[p] # {}}
    /\ read' = Each(Nothing)
    /\ before' = [p \in Partitions |-> Newest(p)]
    /\ reading' = "next"
    /\ UNCHANGED <<zone, opened, listed, best, lastRead>>

\* The next partition in sorted order: glob its payloads.
ListPayloads ==
    /\ reading = "next"
    /\ unread # {}
    /\ opened' = Min(unread)
    /\ unread' = unread \ {opened'}
    /\ listed' = PayloadFiles(opened')
    /\ best' = Nothing
    /\ reading' = "look"
    /\ UNCHANGED <<zone, read, before, lastRead>>

\* max() looks one sidecar up after the other.
LookUp ==
    /\ reading = "look"
    /\ listed # {}
    /\ LET r == Recency(opened, Min(listed))
       IN  best' = IF Ahead(r, best) THEN r ELSE best
    /\ listed' = listed \ {Min(listed)}
    /\ UNCHANGED <<zone, reading, unread, opened, read, before, lastRead>>

\* Open the payload ahead of the others, if there was any.
ReadPayload ==
    /\ reading = "look"
    /\ listed = {}
    /\ read' = [read EXCEPT ![opened] = best]
    /\ reading' = "next"
    /\ UNCHANGED <<zone, unread, opened, listed, best, before, lastRead>>

End ==
    /\ reading = "next"
    /\ unread = {}
    /\ reading' = "end"
    /\ UNCHANGED <<zone, unread, opened, listed, best, read, before, lastRead>>

\* The command is over; what it read is remembered.
Quit ==
    /\ reading = "end"
    /\ reading' = "idle"
    /\ lastRead' = [p \in Partitions |-> IF read[p] = Nothing THEN lastRead[p] ELSE read[p].at]
    /\ best' = Nothing
    /\ UNCHANGED <<zone, unread, opened, listed, read, before>>

ReaderNext ==
    \/ \E p \in Partitions :
          \/ \E n \in Names : Fetch(p, n)
          \/ WriteSidecar(p) \/ RenamePayload(p) \/ EndFetch(p)
    \/ Start \/ ListPayloads \/ LookUp \/ ReadPayload \/ End \/ Quit

ReaderSpec == ReaderInit /\ [][ReaderNext]_readerVars

----------------------------------------------------------------------------
(* Properties *)

\* "Only the latest (by the envelope's fetched_at) is read": whatever ingestion lands
\* while the command runs, the command reads every partition that had a complete
\* snapshot when it began, and in each a landed payload at least as new as that.
ReadsTheLatest ==
    reading = "end" => \A p \in Partitions :
        before[p] # Never =>
            /\ read[p].name \in payloads[p]
            /\ read[p].at >= before[p]

\* "No duplicates, no stale values": from one command to the next, a partition is never
\* read from a snapshot older than before, sidecars missing or late as they may be.
NeverBackwards ==
    [][\A p \in Partitions : lastRead'[p] >= lastRead[p]]_readerVars
=============================================================================
