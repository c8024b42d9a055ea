CONSTANTS
    Tasks = {t1, t2, t3, t4}
    Permits = 2
    MaxQueued = 2
    Scenarios <- EveryScenario
    MaxWakers = 3
SPECIFICATION FairSpec
INVARIANT TypeOK
INVARIANT PermitConservation
INVARIANT WakerRegistered
INVARIANT NoLostWakeup
PROPERTY EverySleeperWakes
PROPERTY ImplementsPool
