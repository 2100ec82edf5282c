SPECIFICATION Spec
CONSTANTS
    Hashes = {a, b}
    None = None
    CacheEntries = 1
    MaxStep = 2
    MaxCrashes = 1
    MaxFailures = 0
    MaxCommits = 2
INVARIANT StoredIsLoadable
CHECK_DEADLOCK FALSE
