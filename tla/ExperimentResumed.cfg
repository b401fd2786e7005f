\* Two results directories, the command given again for each until it is done.
CONSTANTS
    Cells <- TwoCells
    Texts <- TwoTexts
    Verdicts <- TwoVerdicts
    Repair = 1
    Outs <- TwoOuts
    MaxKills = 1

SPECIFICATION FairSpec

INVARIANTS
    RecordedOnce
    ScoredFromCache
PROPERTIES
    RescoreDrawsNothing
    PinnedProgramsStand
    Finishes

\* nothing starts any more once every raw.json is torn
CHECK_DEADLOCK FALSE
