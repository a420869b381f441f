\* Two plans on one cache, of one process or of two, a crash and an upstream move.
SPECIFICATION FairSpec

CONSTANTS
    before = before
    base = base
    next = next
    Plan = {a, b}
    Process = {one, two}
    Commit <- MCCommit
    Descends <- MCDescends
    Anchor = base
    None = None
    MaxMoves = 1
    MaxCrashes = 1

INVARIANTS
    ResolvedStaysReachable
    WorkUndisturbed
    LeftoversExplained

PROPERTIES
    SerializedWithin
    EveryPlanEnds
