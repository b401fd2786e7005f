----------------------------- MODULE MCRunVendor -----------------------------
(* Both halves of the run command, each by itself: how it reads the landing   *)
(* zone while ingestion writes it, and what it writes of the snapshots it     *)
(* opens while it is killed and given again.  Two partitions for each half.   *)
EXTENDS LandingReader, RunVendor

VARIABLE half   \* the half a behaviour is about

\* Two payloads in each partition, landed in either order of their names
TwoPartitions == 1 .. 2
TwoNames == 1 .. 2

Rec(day, session, fate) == [day |-> day, session |-> session, fate |-> fate]

\* The second snapshot of partition 1 begins on another day and has a record that
\* raises, in the first batch or the second; partition 2 shares a session with the
\* first snapshot and opens it with a record that has no rows, after one that is out
MCPayloads ==
    << { << Rec("d1", "s1", "row") >>,
         << Rec("d2", NoSession, "row"), Rec("d1", "s2", "raise") >> },
       { << Rec("d1", "s1", "out"), Rec("d1", "s1", "bare"), Rec("d2", "s1", "row") >> } >>

Apart == << <<"p", "=", "1">>, <<"p", "=", "2">> >>

MCSizes == 1 .. 2
MCDays == {"d1", "d2"}
MCSessionIds == {"s1", "s2"}

\* The half that is not looked at stays as it began, in one of its initial states.
HalvesInit ==
    /\ ReaderInit
    /\ Init
    /\ \/ half = "reads" /\ Len(landed[1]) = 1 /\ part = 1 /\ size = 1
       \/ half = "writes" /\ opened = 1

HalvesNext ==
    \/ half = "reads" /\ ReaderNext /\ UNCHANGED <<half, vars>>
    \/ half = "writes" /\ Next /\ UNCHANGED <<half, readerVars>>

HalvesSpec == HalvesInit /\ [][HalvesNext]_<<half, readerVars, vars>>
=============================================================================
