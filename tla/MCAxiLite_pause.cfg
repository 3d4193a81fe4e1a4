SPECIFICATION Spec
CONSTANTS
    Addrs = {a, b}
    Lanes = {low, high}
    Bytes = {zero, x, y}
    Data <- MCData
    Zero = zero
    Timeout = 3
    Pauses = {TRUE, FALSE}
    Options <- PlainOptions
    MaxOps = 2
    MaxAfter = 0
    MaxQueued = 1
INVARIANT ValidHeld
CHECK_DEADLOCK FALSE
