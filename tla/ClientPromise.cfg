\* Prompts that the small windows cut, noticeably or not.
CONSTANTS
    Requests <- Long
    Tokens <- LongTokens
    Chars <- LongChars
    Texts = {"good", "bad"}
    Windows <- ThreeWindows
    RetryAfters <- Pauses
    Retries = 2
    TruncationRetries = 1
    BusyWait = 60

SPECIFICATION FairSpec

INVARIANT
    CutsCachedAreSlight
PROPERTIES
    KeepsPromise
    CallsEnd
