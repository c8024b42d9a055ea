CONSTANTS
    s1 = s1
    s2 = s2
    Sleepers = {s1, s2}
    Budget = 2
    Scenarios <- TwoOrOne
    Steps = {1, 2}
    NoTimer = NoTimer
    MaxTime = 6
SPECIFICATION FairSpec
INVARIANT TypeOK
PROPERTY SilenceOnly
INVARIANT SleepersWoken
PROPERTY SilenceEnds
