SPECIFICATION Spec
CONSTANTS
    MaxWidth = 3
    MaxCount = 2
INVARIANTS TypeOK KnownStaysTrue XOnlyIfOpen
