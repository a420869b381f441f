\* Every shape of history a release of four commits can take, chunked at one
\* or at three commits, with a run lost at any point.
SPECIFICATION Spec
CHECK_DEADLOCK FALSE

CONSTANTS
    root = root
    dep = dep
    Shapes = {"line", "side", "longside", "fromBelow", "mergedTwice", "octopus", "root", "anchorMerged"}
    N = 5
    Histories <- MCHistories
    Closure <- MCClosure
    Profile = {root}
    Sizes = {1, 3}
    MaxLost = 1

INVARIANTS
    OneImage
    AncestryKept
    Prefiltered
    NothingSkipped
