SPECIFICATION Spec
CONSTANTS
    narrow = narrow
    tidy = tidy
    wide = wide
    bad = bad
    None = None
    NFiles = 2
    Texts <- MCTexts
    Broken = {bad}
    Signature <- MCSignature
    Warns <- MCWarns
    Disks <- MCDisks
    Edited = {1}
    MaxMessages = 4
    MaxRestarts = 1
INVARIANTS TypeOK ShownCurrent SavedModelUnraced
PROPERTY BufferChecked
CHECK_DEADLOCK FALSE
