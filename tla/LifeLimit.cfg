SPECIFICATION FairSpec
CONSTANTS
    Total = 1
    Stacks = {1, 2}
    OwnIngress = {1, 2}
    Limit = 1
    TTL = 1
    MaxEdits = 0
    MaxFailures = 0
    MaxLag = 0
    MaxSlow = 0
PROPERTY EnforcesLimit
