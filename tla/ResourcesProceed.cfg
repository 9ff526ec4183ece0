SPECIFICATION ResourcesSpec
CONSTANTS
    Stacks = {1, 2}
    HasIngress = {1}
    HasRouteGroup = {2}
    HasHostname = {1}
    HasCredentials = {2}
    Templates <- Mistaken
    Initial <- AllPlain
    Configs = {}
    Named <- Everyone
    MaxReplicas = 2
    MaxEdits = 1
    MaxFaults = 0
PROPERTIES ProceedsOnErrors
