\* The smallest transaction log, a cache and a compile queue of one region,
\* and six regions: enough for a region to leave the log, the queue and the
\* cache and be freed, and for a store of five to fill.  Three writes of the
\* held regions are a write before, one during and one after a sweep.
SPECIFICATION Spec
CONSTANTS
    STORE = 5
    QUEUE = 1
    N = 4
    CACHE = 1
    NOT_LEFT = NOT_LEFT
    None = None
    MaxRegions = 6
    MaxWrites = 3
INVARIANT ReaderRegionLive
CHECK_DEADLOCK FALSE
