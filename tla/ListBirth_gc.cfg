\* One birth with files beside one sweep, no fault.
SPECIFICATION BirthSpec
CONSTANTS
    Lists = {"l1", "l2"}
    BirthFaults = {}
    MaxBirthFaults = 0
    MaxSweeps = 1
INVARIANT ContentIsKept
CHECK_DEADLOCK FALSE
