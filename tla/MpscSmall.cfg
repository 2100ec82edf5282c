\* A ring with fewer cells than a word has bits, filled by one batch.
SPECIFICATION Spec
CONSTANTS
  Producers = {p1}
  Capacity = 2
  WordBits = 4
  PushSizes = {2}
  PopSizes = {1, 2}
  MaxItems = 4
INVARIANT DrainsStayBehindHead
CHECK_DEADLOCK FALSE
