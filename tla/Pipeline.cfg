\* A ring and a batch of two ops, channels of one message and a window of
\* one op: every channel fills, a batch is split over a boundary, and a square
\* of one op is complete after three.
\* Six ops reach two iterations and a divergence between them, a history of
\* six ops makes the detector forget, and the log of four records fills.
SPECIFICATION Spec
CONSTANTS
    RING = 2
    METAS = 4
    BATCH = 2
    DEPTH = 1
    K = 1
    HISTORY = 6
    Tensors = {1}
    NoMeta = NoMeta
    None = None
    MaxOps = 6
    MaxSignals = 1
INVARIANTS
    MetaLogInv
    FlushedMeansPublished
    EveryOpCounted
    WorksAreIterations
CHECK_DEADLOCK FALSE
