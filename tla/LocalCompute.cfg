SPECIFICATION Spec
CONSTANTS
    Task = {t1,t2}
    NoTask = NoTask
INVARIANTS RefreshHolds NoLostWakeUp
PROPERTIES EveryRequestEnds
