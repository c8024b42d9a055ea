CONSTANTS
    Callers = {c1, c2, c3}
    Scale = 5
    Deposit = 2
    Burst = 2
    MaxCalls = 6
SPECIFICATION Spec
INVARIANT TypeOK
INVARIANT RetriesBounded
PROPERTY ImplementsBucket
