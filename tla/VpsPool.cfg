SPECIFICATION Spec
CONSTANTS
    Vps = {v1,v2}
    Addr = {a1,a2}
    Task = {t1,t2}
    NoVps = NoVps
    NoAddr = NoAddr
    Capacity = 2
    ForUpdate = FALSE
    MaxLate = 0
    Env = {"create","delete","provision","reserve","release"}
SYMMETRY Symmetry
INVARIANTS TypeOK OwnerAgrees DeletedHoldsNoAddress
PROPERTIES KeepsPool
CHECK_DEADLOCK FALSE
