SPECIFICATION FairSpec
CONSTANTS
    Vps = {v1}
    Addr = {a1}
    Task = {t1,t2}
    NoVps = NoVps
    NoAddr = NoAddr
    Capacity = 2
    ForUpdate = FALSE
    MaxLate = 2
    Env = {"create","provision","delete","timeout"}
PROPERTIES EveryTaskEnds
CHECK_DEADLOCK FALSE
