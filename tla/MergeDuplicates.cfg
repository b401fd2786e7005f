\* Two readings of the same instant in one run.
CONSTANTS
    Copies <- DuplicateCopies
    Stagings <- Duplicates
    Order = "latest"
    Loaders = {l1, l2}
    Paths = {p1}

SYMMETRY Interchangeable

SPECIFICATION Spec

PROPERTY
    RerunChangesNothing
