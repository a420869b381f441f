SPECIFICATION Spec
CONSTANTS
    Runs = {r1, r2}
    N = 6
    Side = {5,6}
    ReleasedAt = {1, 4, 6}
    Commits <- MCCommits
    Above <- MCAbove
    Relevant = {1, 3, 5}
    Contextual = {2, 3}
    Releases <- MCReleases
    At <- MCAt
    ChunkSize = 1
    AtFirst = "setup"
    FirstTags = {1, 2}
    Backports = TRUE
    MidTrack = TRUE
    MaxCrashes = 1
    MaxOperator = 1
SYMMETRY Symmetric
INVARIANTS
    RecordIsTrue
    TagsAreReplays
    NothingUnaccounted
PROPERTIES
    OneReleaseAtATime
