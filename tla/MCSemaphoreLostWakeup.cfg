CONSTANTS
    Tasks = {t1, t2, t3}
    Permits = 1
    MaxQueued = 3
    Scenarios <- DropsOnly
    MaxWakers = 3
SPECIFICATION Spec
INVARIANT PermitNeverIdle
