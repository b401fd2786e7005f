\* One publisher; the second revision has views, the third an empty vocabulary.
CONSTANTS
    Dimensions <- QuantitiesAndUnits
    Definitions <- HourlyAndWide
    Joins <- WideJoinsQuantity
    Publishers = {p1}
    ViewBooks <- TheSecond
    EmptyBooks <- TheThird
    MaxLoads = 2
    MaxRevisions = 3
    MaxPublishes = 3

SPECIFICATION Spec

INVARIANTS
    OnlyAGap
    RefreshedSoFar
    JoinedToItsBundle

\* nothing is left to do once the bounds are reached
CHECK_DEADLOCK FALSE
