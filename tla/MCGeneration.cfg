\* Every profile, one move of the upstream tag and one killed run.
SPECIFICATION Spec
CHECK_DEADLOCK FALSE
SYMMETRY Symmetric

CONSTANTS
    c1 = c1
    c2 = c2
    apiserver = apiserver
    helpers = helpers
    extra = extra
    other = other
    None = None
    Commits = {c1, c2}
    Apiserver = apiserver
    Staged = helpers
    MaxRetags = 1
    MaxKills = 1
    Deps <- MCDeps
    Raises <- MCRaises
    Profiles <- MCProfiles

INVARIANTS
    OutputIsProved
    OneCommit
    EndsClean
