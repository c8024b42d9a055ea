CONSTANTS
    Calls = {c1, c2}
    TripKind = "Consecutive"
    Threshold = 1
    RatioNum = 1
    RatioDen = 2
    MinThroughput = 1
    Span = 1
    BucketWidth = 1
    NoInstant = NoInstant
    OpenFor = 1
    HalfOpenMaxCalls = 1
    Outcomes = {"success", "failure", "novote"}
    MaxTime = 2
    MaxVotes = 1
SPECIFICATION FairSpec
PROPERTY HalfOpenResolves
