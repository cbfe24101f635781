SPECIFICATION FairSpec
CONSTANTS
    Vps = {v1}
    Addr = {a1}
    Task = {t1}
    NoVps = NoVps
    NoAddr = NoAddr
    Capacity = 2
    ForUpdate = FALSE
    MaxLate = 4
    Env = {"create","provision","delete","start","stop","heartbeat","age","timeout"}
PROPERTIES ReconcileSparesFresh DeletedStaysSettled ProvisioningEnds DriftHeals
