SPECIFICATION FairSpec
CONSTANTS
    Total = 2
    Stacks = {1, 2, 3}
    OwnIngress = {1, 2, 3}
    Limit = 1
    TTL = 1
    MaxEdits = 1
    MaxFailures = 1
    MaxLag = 1
    MaxSlow = 0
INVARIANTS TypeOK
PROPERTIES RoutesToReady ScaleDownWaits LimitKept ScalesDownUnrouted SwitchSettles
