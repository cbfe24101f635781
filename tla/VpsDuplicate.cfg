SPECIFICATION Spec
CONSTANTS
    Vps = {v1,v2}
    Addr = {a1}
    Task = {t1}
    NoVps = NoVps
    NoAddr = NoAddr
    Capacity = 2
    ForUpdate = TRUE
    MaxLate = 1
    Env = {"create","provision","delete","heartbeat"}
INVARIANTS LiveAddressesDistinct
CHECK_DEADLOCK FALSE
