\* One plan alone, cancelled at any moment.
SPECIFICATION Spec

CONSTANTS
    before = before
    base = base
    next = next
    Plan = {a}
    Process = {one}
    Commit <- MCCommit
    Descends <- MCDescends
    Anchor = base
    None = None
    MaxMoves = 0
    MaxCrashes = 0

INVARIANT
    CancelLeavesNothing
