\* A prompt a quarter longer than a common window size.
CONSTANTS
    Requests <- Long
    Tokens <- LongTokens
    Chars <- LongChars
    Texts = {"good", "bad"}
    Windows <- TwoWindows
    RetryAfters <- Pauses
    Retries = 2
    TruncationRetries = 1
    BusyWait = 60

SPECIFICATION Spec

INVARIANT
    NeverCachesTruncated
