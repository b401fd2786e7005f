\* Three parts, one of them without sessions, given two at a time in three runs.
CONSTANTS
    Parts <- ThreeParts
    Unknown = "p99"
    Files <- MCFiles
    SessionFiles <- MCSessionFiles
    MaxArguments = 2
    MaxRuns = 3
    MaxVersions = 2

SPECIFICATION Spec

INVARIANTS
    SuccessLoadsAll
    WholeParts
    RowsBeforeSessions

\* the operator may stop running the script
CHECK_DEADLOCK FALSE
