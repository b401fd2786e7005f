\* Two loads of measurements, with revised copies, against one table.
CONSTANTS
    Copies <- RevisedCopies
    Stagings <- Revised
    Order = "latest"
    Loaders = {l1, l2}
    Paths = {p1, p2}

SYMMETRY Interchangeable

SPECIFICATION Spec

INVARIANTS
    UniqueKeys
    ReportsAddUp
PROPERTIES
    KeepsPromise
    RerunChangesNothing
