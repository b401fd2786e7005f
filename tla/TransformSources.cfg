\* Every sequence of at most three records of a wide source or of a long one, and of two
\* of a source that identifies its rows by position.
CONSTANTS
    Columns <- WideColumns
    RowsByKey <- LongRows
    RecordRules <- MCRecordRules
    QuantityRules <- MCQuantityRules
    DeviceFactors <- MCFactors
    Fields <- MCFields
    Numbers <- MCNumbers
    Aggregations <- MCAggregations
    DefaultAggregation <- MCDefault
    RowIds <- MCRowIds
    SessionIds <- MCSessionIds
    Inputs <- MCInputs
    Null = Null
    Junk = Junk
    NoSession = NoSession
    m1 = m1
    m2 = m2

SPECIFICATION Spec

INVARIANTS
    TypeOK
    AllOrNothing
    SessionsOfFirstSurvivor
    SuspectsCounted
    CountersExact
    OnlyUnscaledAreLost
    AgreesWithReference
    ControlIsExact

\* the call ends: it returns or raises
CHECK_DEADLOCK FALSE
