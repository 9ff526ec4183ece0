SPECIFICATION FairSpec
CONSTANTS
    Stacks = {1, 2, 3}
    Total = 3
    HasIngress = {1, 2, 3}
    HasRouteGroup = {1, 2}
    Splits <- AllSplits
    MaxSwitches = 2
    MaxFailures = 2
INVARIANTS TypeOK PlanSound KeepsPosition CleanPassExact StaysInSync
PROPERTIES Converges
