SPECIFICATION Spec
CONSTANTS
    Sigs <- Sigs_
    InitSigs <- InitSigs_
    NCA = 3
    CALhs <- CALhs_
    CAReads <- CAReads_
    CARhs <- CARhs_
    Combos <- Combos_
    StartCombos = {1}
    Sens <- Sens_
    SelfSens <- SelfSens_
    Seqs <- Seqs_
    Edges <- Edges_
    TimedSeqs = {}
    Initials <- Initials_
    Timers <- Timers_
    Toggles <- Toggles_
    Exec <- Exec_
    MaxPc = 0
    DeltaLimit = 6
    MaxRun = 2
    MaxDelay = 0
    MaxCalls = 4
    Inputs = {"d", "rst"}
    CallbackInputs = {}
    Api = {"drive", "settle", "run"}
    Disciplined = TRUE
INVARIANTS DrivenEdgeNotDoubled
