SPECIFICATION FairSpec
CONSTANTS
    Stacks = {1, 2}
    Total = 3
    HasIngress = {1, 2}
    HasRouteGroup = {}
    Splits <- AllSplits
    MaxSwitches = 1
    MaxFailures = 0
INVARIANT GrowingFirst
