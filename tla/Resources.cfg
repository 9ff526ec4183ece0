SPECIFICATION FairSpec
CONSTANTS
    Stacks = {1, 2}
    HasIngress = {1}
    HasRouteGroup = {2}
    HasHostname = {1}
    HasCredentials = {2}
    Templates <- Mixed
    Initial <- AllConfigured
    Configs = {"app"}
    Named <- Everyone
    MaxReplicas = 2
    MaxEdits = 1
    MaxFaults = 1
INVARIANTS TypeOK
PROPERTIES KeepsAutoscaled OwnerKept DeployedWithConfigs SwitchesToUpdated Converges
