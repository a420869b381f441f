\* Two runs at once, with a crash and an operator commit while nothing is due:
\* they do not keep each other from finishing.
SPECIFICATION FairSpec

CONSTANTS
    Runs = {r1, r2}
    N = 4
    Side = {}
    ReleasedAt = {1, 4}
    Commits <- MCCommits
    Above <- MCAbove
    Relevant = {1, 3}
    Contextual = {}
    Releases <- MCReleases
    At <- MCAt
    ChunkSize = 1
    AtFirst = "first release"
    FirstTags = {1}
    Backports = FALSE
    MidTrack = FALSE
    MaxCrashes = 1
    MaxOperator = 1

INVARIANT
    NeverBroken
PROPERTIES
    Converges
