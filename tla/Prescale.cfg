SPECIFICATION FairSpec
CONSTANTS
    Stacks = {1, 2}
    Total = 2
    Splits <- AllSplits
    StackReplicas = 1
    SpecMin = 1
    SpecMax = 3
    Timeout = 1
    MaxEdits = 1
    MaxScalings = 1
    MaxFailures = 1
INVARIANTS TypeOK HeldUntilTimeout
PROPERTIES SwitchesWithCapacity SwitchEnds
