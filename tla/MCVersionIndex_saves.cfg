\* Three runs, two of them one after the other on one file and the third on a
\* file of its own, while the staging repositories change once.
SPECIFICATION Spec
CHECK_DEADLOCK FALSE

CONSTANTS
    r1 = r1
    r2 = r2
    r3 = r3
    one = one
    two = two
    Runs = {r1, r2, r3}
    Caches = {one, two}
    CacheOf <- Apart
    Overlap = FALSE
    N = 3
    Size = 2
    Earlier <- Earliers
    Missing = Missing
    MaxMoves = 1

INVARIANTS
    OwnEvidence

PROPERTIES
    RecordExtends
