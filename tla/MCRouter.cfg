CONSTANTS
    N = 2
    Callers = {c1, c2}
    Strategies <- SomeStrategies
    Outcomes = {"ok", "transient", "permanent", "other"}
    OpenFor = 3
    MaxLag = 1
    NoInstant = NoInstant
    MaxTime = 3
    MaxCalls = 3
SPECIFICATION Spec
SYMMETRY Symmetry
CHECK_DEADLOCK FALSE
INVARIANT TypeOK
INVARIANT InFlightBalance
INVARIANT HintIsSoonest
INVARIANT PicksBalanced
PROPERTY ImplementsFailover
