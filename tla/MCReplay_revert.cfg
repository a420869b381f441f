\* A side line changes a watched package and takes the change back, and is
\* merged into a mainline that did not change.
SPECIFICATION Spec
CHECK_DEADLOCK FALSE

CONSTANTS
    root = root
    dep = dep
    Shapes = {"longside"}
    N = 5
    Histories <- MCHistories
    Closure <- MCClosure
    Profile = {root}
    Sizes = {5}
    MaxLost = 0

INVARIANTS
    CollapsedOrWritten
