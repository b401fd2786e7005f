\* Four runs of the command, stopped anywhere; and all outputs of up to three rows
\* against all expectations of up to three.
CONSTANTS
    MaxRuns = 4
    Keys <- FourKeys
    InstantOf <- SameInstant
    ReadingOf <- SameReading
    RowIdAside <- SameRow
    AggregationAside <- SameQuantity
    OracleRows <- EngineRows
    OutputRows <- ProgramRows
    MaxOracle = 3
    MaxOutput = 3

SPECIFICATION HalvesSpec

INVARIANTS
    KeepsEveryFile
    MissingIsTheShortfall
    ExactIsTheIntersection
    LenientForgives
    LevelOneIsThePass
    LevelsNest
    NoDifferencePasses

\* the runs are counted, and a score is made once
CHECK_DEADLOCK FALSE
