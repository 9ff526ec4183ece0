SPECIFICATION FairSpec
CONSTANTS
    Total = 100
    Stacks = {1, 2}
    MaxWeight = 2
    MaxEdits = 3
    MaxFailures = 1
INVARIANTS TypeOK RequestKept
PROPERTIES Settles
