SPECIFICATION FairSpec
CONSTANTS
    Token = {k1,k2}
    Cred = {c1,c2}
    NoToken = NoToken
    NoCred = NoCred
    Task = {t1,t2}
    Manual = TRUE
INVARIANTS TypeOK SingleUse
PROPERTIES RetiredStaysDead ClaimHolds PendingHeals
CHECK_DEADLOCK FALSE
