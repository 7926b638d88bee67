SPECIFICATION Spec
CONSTANTS
    c1 = c1
    c2 = c2
    v1 = v1
    v2 = v2
    v3 = v3
    v4 = v4
    v5 = v5
    v6 = v6
    NoVol = NoVol
    Claims = {c1}
    Vols = {v1, v2, v3, v4, v5}
    Orig <- OneClaim
    Replicas = 1
    Prompt = {"revert", "sts", "pods", "pvc", "pv"}
    Finalizer = TRUE
    MaxSnaps = 1
    KeepStatus = 2
    FaultyCalls = {"pause", "delete", "avail", "create", "undoDelete", "undoCreate", "put"}
    SwitchMidway = FALSE
    MaxFaults = 2
    MaxRequests = 3
INVARIANTS FinishedMeansUp OldVolumesKept
PROPERTIES UndoRestores
