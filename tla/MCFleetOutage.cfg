CONSTANTS
    Calls = {c1, c2}
    Policies <- Budgeted
    Permits = 1
    Threshold = 1
    HalfOpenMaxCalls = 1
    MaxTokens = 2
    Deposit = 1
    RetryCost = 2
    MaxOutages = 1
    MaxDrops = 0
SPECIFICATION FairSpec
PROPERTY OutageShed
