----------------------------- MODULE MCExperimentRun -----------------------------
(* Two cells, one repair; a program that passes or crashes as it is run, and a      *)
(* reply without a program.                                                         *)
EXTENDS ExperimentRun

TwoCells == <<"c1", "c2">>
TwoTexts == {"flaky", "prose"}
TwoVerdicts == [flaky |-> {"pass", "crashed"}, prose |-> {"no_code"}]
TwoOuts == {"run", "again"}
=============================================================================
