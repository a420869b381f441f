\* Two runs of one machine overlap on one index file.
SPECIFICATION Spec
CHECK_DEADLOCK FALSE

CONSTANTS
    r1 = r1
    r2 = r2
    r3 = r3
    one = one
    two = two
    Runs = {r1, r2, r3}
    Caches = {one}
    CacheOf <- Shared
    Overlap = TRUE
    N = 4
    Size = 2
    Earlier <- Earliers
    Missing = Missing
    MaxMoves = 0

PROPERTIES
    RecordExtends
