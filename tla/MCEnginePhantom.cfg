CONSTANTS
    NoValue = NoValue
    Plans <- AllPlans
    Outcomes <- AllOutcomes
    MaxShift = 4
    MaxFactor = 7
    MaxDuration = 7
    NanosRange = 6
    SampleRange = 2
    Samples = {0, 1}
    MaxTime = 3
SPECIFICATION Spec
INVARIANT AttemptTimeoutIsReal
