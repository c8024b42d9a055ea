CONSTANTS
    Calls = {c1, c2, c3}
    Policies <- AllPolicies
    Permits = 2
    Threshold = 2
    HalfOpenMaxCalls = 2
    MaxTokens = 2
    Deposit = 1
    RetryCost = 2
    MaxOutages = 1
    MaxDrops = 1
SPECIFICATION FairSpec
INVARIANT TypeOK
INVARIANT ConcurrencyCapped
INVARIANT TokenPerRetry
INVARIANT LoadShed
PROPERTY Recovers
