SPECIFICATION LiveSpec
CONSTANTS
    Iterations <- Opening
    None = None
    K = 5
    CAP = 2
    MaxTurns = 0
    MaxPublished = 2
    MaxRestores = 1
PROPERTY WalkEnds
CHECK_DEADLOCK FALSE
