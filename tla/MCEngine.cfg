CONSTANTS
    NoValue = NoValue
    Plans <- AllPlans
    Outcomes <- AllOutcomes
    MaxShift = 3
    MaxFactor = 3
    MaxDuration = 7
    NanosRange = 6
    SampleRange = 2
    Samples = {0, 1}
    MaxTime = 4
SPECIFICATION FairSpec
INVARIANT TypeOK
INVARIANT OneStory
INVARIANT DeadlinesHonoured
INVARIANT PermitForWorkOnly
PROPERTY HintIsFloor
PROPERTY DelayWithinSchedule
PROPERTY ImplementsCall
PROPERTY CallEnds
