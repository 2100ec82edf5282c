\* A ring and a batch of two ops, channels of one message and a window of
\* one op: every channel fills, a batch is split over a boundary, and a square
\* of one op is complete after three.
\* The log of two records is full after two ops of one tensor.
SPECIFICATION Spec
CONSTANTS
    RING = 2
    METAS = 2
    BATCH = 2
    DEPTH = 1
    K = 1
    HISTORY = 6
    Tensors = {1}
    NoMeta = NoMeta
    None = None
    MaxOps = 5
    MaxSignals = 0
INVARIANT
    FullLogDrains
CHECK_DEADLOCK FALSE
