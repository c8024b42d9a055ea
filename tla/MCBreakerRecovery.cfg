CONSTANTS
    Calls = {c1, c2}
    TripKind = "FailureRatio"
    Threshold = 1
    RatioNum = 1
    RatioDen = 2
    MinThroughput = 2
    Span = 3
    BucketWidth = 2
    NoInstant = NoInstant
    OpenFor = 2
    HalfOpenMaxCalls = 2
    Outcomes = {"success", "failure"}
    MaxTime = 5
    MaxVotes = 2
SPECIFICATION FairSpec
INVARIANT OutageTrips
INVARIANT WindowShape
INVARIANT NoSlotLeak
PROPERTY RecoversFromOpen
PROPERTY HalfOpenResolves
