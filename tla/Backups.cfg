SPECIFICATION Spec
CONSTANTS
    Vps = {v1,v2}
    Name = {n1,n2}
    Row = {r1,r2,r3}
    Task = {t1,t2}
    MaxLate = 1
    NoVps = NoVps
    NoName = NoName
    NoRow = NoRow
SYMMETRY Symmetry
CONSTRAINT NamesUnique
INVARIANTS BackedUntilDeleted OwnData ArchivesListed
CHECK_DEADLOCK FALSE
