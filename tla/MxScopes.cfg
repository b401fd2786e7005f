\* Runs for all meters and for one of them, at most two at once.
CONSTANTS
    Commands = {c1, c2}
    Meters <- TwoMeters
    Readings <- Snapshots
    DayOf <- TwoDays
    Scaled = {"a", "c"}
    MaxFactors = 1
    MaxRuns = 3
    Order = "latest"

SYMMETRY Interchangeable

SPECIFICATION Spec

INVARIANT
    QuietRunStands
PROPERTY
    OlderRowsAreOfOtherScopes

\* Nobody has to run the command again.
CHECK_DEADLOCK FALSE
