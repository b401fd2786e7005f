\* Commands that read two partitions of two payloads each while they are landed and
\* fetched again; and commands of two batch sizes that write the snapshots they open.
CONSTANTS
    Partitions <- TwoPartitions
    Names <- TwoNames
    MaxFetches = 4
    Identities <- Apart
    Payloads <- MCPayloads
    Sizes <- MCSizes
    Days <- MCDays
    SessionIds <- MCSessionIds
    NoSession = NoSession
    None = None
    Torn = Torn

SPECIFICATION HalvesSpec

INVARIANTS
    ReadsTheLatest
    CompletedPassStands
    RerunsAreIdentical
    RowsJoinSessions
PROPERTY
    NeverBackwards
