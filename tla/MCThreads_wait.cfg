SPECIFICATION BenchSpec
CONSTANTS
    Sigs <- Sigs_
    InitSigs <- InitSigs_
    NCA = 1
    CALhs <- CALhs_
    CAReads <- CAReads_
    CARhs <- CARhs_
    Combos <- Combos_
    StartCombos = {1}
    Sens <- Sens_
    SelfSens <- SelfSens_
    Seqs <- Seqs_
    Edges <- Edges_
    TimedSeqs = {}
    Initials <- Initials_
    Timers <- Timers_
    Toggles <- Toggles_
    Exec <- Exec_
    MaxPc = 3
    DeltaLimit = 4
    MaxRun = 3
    MaxDelay = 1
    MaxCalls = 4
    Inputs = {"e", "en", "ring"}
    CallbackInputs = {"ring"}
    Api = {"drive", "run", "run_step", "settle", "schedule"}
    Disciplined = FALSE
INVARIANTS SuspensionsRecorded
CHECK_DEADLOCK FALSE
