SPECIFICATION Spec
CONSTANTS
    Addrs = {a, b}
    Lanes = {low, high}
    Bytes = {zero, x, y}
    Data <- MCData
    Zero = zero
    Timeout = 2
    Pauses = {TRUE, FALSE}
    Options <- MCOptions
    MaxOps = 3
    MaxAfter = 1
    MaxQueued = 1
INVARIANTS WritesOnceInOrder OwnResponse ReadsLastWrite
SYMMETRY SameNames
CHECK_DEADLOCK FALSE
