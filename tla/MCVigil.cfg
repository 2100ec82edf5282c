SPECIFICATION VigilSpec
CONSTANTS
    STORE = 5
    QUEUE = 1
    N = 4
    CACHE = 1
    NOT_LEFT = NOT_LEFT
    None = None
    MaxRegions = 6
    MaxWrites = 2
INVARIANTS
    RegionInv
    DetectorInv
    ReplayInv
    PlanInv
    ObjectsStayWhole
    RecoveredIsHistory
    LookupInv
PROPERTIES
    ImplementsStack
    ChecksAreSound
