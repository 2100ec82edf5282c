\* A ring and a batch of two ops, channels of one message and a window of
\* one op: every channel fills, a batch is split over a boundary, and a square
\* of one op is complete after three.
\* The ops have none or two tensors: a log of five refuses a third pair with
\* one slot free.
SPECIFICATION FairSpec
CONSTANTS
    RING = 2
    METAS = 5
    BATCH = 2
    DEPTH = 1
    K = 1
    HISTORY = 6
    Tensors = {0, 2}
    NoMeta = NoMeta
    None = None
    MaxOps = 4
    MaxSignals = 1
INVARIANTS
    MetaLogInv
PROPERTIES
    FlushReturns
    StopReturns
CHECK_DEADLOCK FALSE
