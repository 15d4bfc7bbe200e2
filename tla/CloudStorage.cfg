SPECIFICATION FairSpec
CONSTANTS
    Procs = {p1, p2}
    Hashes = {a, b}
    Inodes = {i1, i2}
    None = None
INVARIANTS TypeOK StaleOnlyWhenSpoiled
PROPERTIES LockIsExclusive CallEnds
CHECK_DEADLOCK FALSE
