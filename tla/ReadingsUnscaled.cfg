\* The same inputs, and what README.md says of skipped data
CONSTANTS
    Columns <- WideColumns
    RowsByKey <- LongRows
    RecordRules <- MCRecordRules
    QuantityRules <- MCQuantityRules
    DeviceFactors <- MCFactors
    Fields <- MCFields
    Numbers <- MCNumbers
    Aggregations <- MCAggregations
    DefaultAggregation <- MCDefault
    RowIds <- MCRowIds
    SessionIds <- MCSessionIds
    Inputs <- MCInputs
    Null = Null
    Junk = Junk
    NoSession = NoSession
    m1 = m1
    m2 = m2

SPECIFICATION Spec

INVARIANT NeverDroppedInvisibly

\* the call ends: it returns or raises
CHECK_DEADLOCK FALSE
