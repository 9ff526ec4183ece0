SPECIFICATION FairSpec
CONSTANTS
    Versions = {v1, v2}
    NoVersion = NoVersion
    MaxEdits = 3
    MaxLag = 2
    MaxFailures = 2
INVARIANTS TypeOK ObservedWasCreated
PROPERTIES ImplementsRollout ObservedMovesOn FirstCreation
