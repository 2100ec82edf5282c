\* One verdict and one measurement are enough for a commit that fails.
SPECIFICATION Spec
CONSTANTS
    Verdicts = {v}
    MaxTime = 1
    Lasting = {}
    Ttl = 1
    InitialBackoff = 1
    MaxBackoff = 1
    Multiplier = 2
    MaxFailures = 1
PROPERTY VisibleOnlyCommitted
