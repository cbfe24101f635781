SPECIFICATION FairSpec
CONSTANTS
    User = {u1}
    Vps = {v1,v2}
    Console = {c1,c2}
    Local = {v2}
    MaxPerUser = 1
    MaxStops = 1
    NoUser = NoUser
    NoVps = NoVps
INVARIANTS CounterCounts CapOnlyRaced
PROPERTIES LostRightsClose LifetimeIsBounded NoOrphanShell
CHECK_DEADLOCK FALSE
