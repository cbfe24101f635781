SPECIFICATION Spec
CONSTANTS
    Vps = {v1,v2}
    Addr = {a1}
    Task = {t1,t2}
    NoVps = NoVps
    NoAddr = NoAddr
    Capacity = 2
    ForUpdate = TRUE
    MaxLate = 0
    Env = {"create","provision","delete","crash","timeout"}
SYMMETRY Symmetry
INVARIANTS PoolConsistent SucceededWasCreated
PROPERTIES KeepsLifecycle FailureFreesAddresses DeletedAfterNode
CHECK_DEADLOCK FALSE
