\* One operator commit while a release is being replayed.
SPECIFICATION FairSpec

CONSTANTS
    Runs = {r1}
    N = 4
    Side = {}
    ReleasedAt = {1, 4}
    Commits <- MCCommits
    Above <- MCAbove
    Relevant = {1, 3}
    Contextual = {}
    Releases <- MCReleases
    At <- MCAt
    ChunkSize = 1
    AtFirst = "recorded"
    FirstTags = {1, 2}
    Backports = FALSE
    MidTrack = TRUE
    MaxCrashes = 0
    MaxOperator = 1

PROPERTIES
    Converges
