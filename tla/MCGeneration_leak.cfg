\* A pass that fails at run time, after its work tree exists, reports nothing to clean up.
SPECIFICATION Spec
CHECK_DEADLOCK FALSE


CONSTANTS
    c1 = c1
    c2 = c2
    apiserver = apiserver
    helpers = helpers
    extra = extra
    other = other
    None = None
    Commits = {c1, c2}
    Apiserver = apiserver
    Staged = helpers
    MaxRetags = 1
    MaxKills = 1
    Deps <- MCDeps
    Raises <- MCRaises
    Profiles <- MCProfiles

INVARIANTS CacheIsClean
