SPECIFICATION Spec
CONSTANTS
    User = {u1,u2}
    First = u1
    Sess = {s1,s2}
    Key = {k1}
    Password = {p1,p2}
    MaxFields = 1
    Task = {t1,t2}
    NoUser = NoUser
    NoCred = NoCred
    NoPassword = NoPassword
    Keep = Keep
SYMMETRY Symmetry
PROPERTIES ChangeEndsOlderSessions OwnersLostOnlyByRace OwnershipIsGranted PasswordUndoneOnlyByRace KeepsPromise
CHECK_DEADLOCK FALSE
