SPECIFICATION FairSpec
CONSTANTS
    Job = {j1,j2}
    Slot = {s1,s2,s3}
    Permits = 2
    QueueMax = 1
    MaxStops = 1
INVARIANTS TypeOK QueuedIsOnItsWay NoneAbandoned
PROPERTIES KeepsLifecycle VpsSettles
CHECK_DEADLOCK FALSE
