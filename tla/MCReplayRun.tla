------------------------------- MODULE MCReplayRun -------------------------------
(* Both halves of the replay command, each by itself: the files of its runs, and    *)
(* the score of one program's rows against the engine's.                            *)
(*                                                                                  *)
(* Keys 1 and 2 write the same instant differently; key 3 is the same reading with  *)
(* another aggregation; key 4 is that of key 1 with another row id.  Values 1 and 2 *)
(* are close, and 2 and 3, but not 1 and 3.                                         *)
EXTENDS ReplayRun, ReplayMeasures

VARIABLE half   \* the half a behaviour is about

FourKeys == 1 .. 4
SameInstant == [k \in FourKeys |-> IF k = 2 THEN 1 ELSE k]
SameReading == [k \in FourKeys |-> IF k = 4 THEN 4 ELSE 1]
SameRow == [k \in FourKeys |-> IF k = 4 THEN 1 ELSE k]
SameQuantity == [k \in FourKeys |-> IF k = 3 THEN 1 ELSE k]

EngineRows == [key : {1, 3}, value : 1 .. 3, id : {TRUE}]
\* Rows of each key, one with a wrong id, one whose value is no number
ProgramRows ==
    [key : {1, 3, 4}, value : 1 .. 3, id : {TRUE}]
    \cup [key : {2}, value : {2}, id : {TRUE}]
    \cup [key : {1}, value : {NotNumeric, 2}, id : {FALSE}]
    \cup {Malformed}

\* The half that is not looked at stays as it began, in one of its initial states.
HalvesInit ==
    /\ ReplayInit
    /\ \/ half = "files" /\ oracle = <<>> /\ output = <<>>
       \/ half = "scores" /\ ~reason /\ ~gatesOnly
    /\ ScoreInit

HalvesNext ==
    \/ half = "files" /\ ReplayNext /\ UNCHANGED <<half, scoreVars>>
    \/ half = "scores" /\ ScoreNext /\ UNCHANGED <<half, replayVars>>

HalvesSpec == HalvesInit /\ [][HalvesNext]_<<half, replayVars, scoreVars>>
=============================================================================
