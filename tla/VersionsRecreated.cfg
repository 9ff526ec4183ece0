SPECIFICATION FairSpec
CONSTANTS
    Versions = {v1, v2}
    NoVersion = NoVersion
    MaxEdits = 2
    MaxLag = 0
    MaxFailures = 0
PROPERTY NotRecreated
