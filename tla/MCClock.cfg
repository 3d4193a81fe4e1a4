SPECIFICATION Spec
CONSTANTS
    fast = fast
    slow = slow
    None = None
    Signals = {fast, slow}
    High <- MCHigh
    Low <- MCLow
    MaxTime = 8
    MaxCalls = 7
INVARIANTS OneWaveform RunHearsAll
CHECK_DEADLOCK FALSE
