SPECIFICATION FairSpec
CONSTANTS
    Controllers = {"", "dev"}
    UIDs = {1, 2}
    MaxEdits = 1
    MaxLag = 0
    MaxFailures = 1
INVARIANTS TypeOK StoreCoherent ObservedUnlessStray
PROPERTIES EndsWithOwner
CHECK_DEADLOCK FALSE
