CONSTANTS
    Runs = {p1, p2}
    c0 = c0
    c1 = c1
    d1 = d1
    e1 = e1
    w1 = w1
    x0 = x0
    x1 = x1
    t1 = t1
    u1 = u1
    s1 = s1
    r1 = r1
    s2 = s2
    main = main
    state = state
    progress = progress
    v1 = v1
    None = None
    StateRef = state
    Asked = {"first", "rival", "retag", "reconcile", "checkpoint", "misnamed"}
    Moved = TRUE
    Lossy = TRUE
    MaxFaults = 1
    HeadRefs <- MCHeadRefs
    TagRefs <- MCTagRefs
    ProgressRefs <- MCProgressRefs
    Objects <- MCObjects
    TagObjects <- MCTagObjects
    Anc <- MCAnc
    Destinations <- MCDestinations
    Requests <- MCRequests
    Stores <- MCStores
    Outside <- MCOutside
SPECIFICATION Spec
CHECK_DEADLOCK FALSE
SYMMETRY Symmetric
CONSTRAINT Focused
INVARIANTS
    ReportedIsThere
    OneWinner
    TagInBranch
PROPERTIES
    MovesAsApproved
    BookkeepingFirst
    AppendOnly
