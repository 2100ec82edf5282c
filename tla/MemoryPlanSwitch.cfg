SPECIFICATION Spec
CONSTANTS
    Ptrs = {1, 2}
    NoPtr = 0
    Sizes = {1, 2}
    SlotCap = 5
    MaxFree = 2
    MaxPerOp = 1
    MaxOps = 4
    MaxAlternate = 3
INVARIANT OutputsSurviveSwitch
CHECK_DEADLOCK FALSE
