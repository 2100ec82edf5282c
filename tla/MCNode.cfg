SPECIFICATION NodeSpec
CONSTANTS
    Ops = {o1, o2}
    Arrays = {entries, meta_starts}
    CAPACITY = 4
    NoOp = NoOp
    BATCH = 3
    MaxHead = 6
INVARIANTS
    RingInv
    MpscInv
    SwimInv
    LifeguardInv
    PlumtreeInv
    ScuttlebuttInv
    ReplicaIsItsWrites
    StampsFollowCausality
    SwapInv
    PoolInv
    CreditsInv
PROPERTIES
    ImplementsQueue
    ImplementsWorkDeque
    ViewsSound
    QuarantineSound
