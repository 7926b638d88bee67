SPECIFICATION LiveSpec
CONSTANTS
    c1 = c1
    c2 = c2
    v1 = v1
    v2 = v2
    v3 = v3
    v4 = v4
    v5 = v5
    v6 = v6
    NoVol = NoVol
    Claims = {c1, c2}
    Vols = {v1, v2, v3, v4, v5, v6}
    Orig <- TwoClaims
    Replicas = 2
    Prompt = {"revert", "sts", "pods", "pvc", "pv"}
    Finalizer = FALSE
    MaxSnaps = 1
    KeepStatus = 0
    FaultyCalls = {"pause", "delete", "avail", "create", "undoDelete", "undoCreate", "put"}
    SwitchMidway = FALSE
    MaxFaults = 0
    MaxRequests = 2
PROPERTIES UndoCompletes
