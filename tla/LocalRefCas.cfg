SPECIFICATION FairSpec
CONSTANTS
    Clients = {p, q}
    Branches = {main, dev}
    Commits = {c1, c2}
    None = None
    Absent = Absent
    Free = Free
    TempNames = {t1, t2}
    MaxLitter = 1
INVARIANTS LockDiscipline ComparedValueStands
PROPERTIES ImplementsRefCas LockIsReleased
