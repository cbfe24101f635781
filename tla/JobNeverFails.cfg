SPECIFICATION FairSpec
CONSTANTS
    Job = {j1}
    Slot = {s1,s2}
    Permits = 1
    QueueMax = 2
    MaxStops = 0
PROPERTIES JobEnds
CHECK_DEADLOCK FALSE
