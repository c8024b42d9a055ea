CONSTANTS
    Calls = {c1, c2, c3}
    TripKind = "Consecutive"
    Threshold = 2
    RatioNum = 1
    RatioDen = 2
    MinThroughput = 1
    Span = 1
    BucketWidth = 1
    NoInstant = NoInstant
    OpenFor = 2
    HalfOpenMaxCalls = 3
    Outcomes = {"success", "failure", "novote"}
    MaxTime = 4
    MaxVotes = 1
SPECIFICATION Spec
SYMMETRY Symmetry
INVARIANT TypeOK
INVARIANT ProbesPerPeriod
PROPERTY ImplementsCircuit
PROPERTY EveryChangeIsReported
