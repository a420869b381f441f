\* One crash while the very first release is published.
SPECIFICATION FairSpec

CONSTANTS
    Runs = {r1}
    N = 4
    Side = {}
    ReleasedAt = {1, 4}
    Commits <- MCCommits
    Above <- MCAbove
    Relevant = {1, 3}
    Contextual = {}
    Releases <- MCReleases
    At <- MCAt
    ChunkSize = 1
    AtFirst = "setup"
    FirstTags = {1, 2}
    Backports = FALSE
    MidTrack = FALSE
    MaxCrashes = 1
    MaxOperator = 0

PROPERTIES
    Converges
