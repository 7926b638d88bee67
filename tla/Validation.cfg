CONSTANTS
    c1 = c1  c2 = c2  r1 = r1  r2 = r2
    Claims = {c1}
    Runs = {r1, r2}
    Nobody = Nobody
    Hooks = {"init", "validation"}
    FaultyCalls = {"claim", "objects", "job", "label", "deleteRun", "deleteClaim", "put", "create", "ask", "pause"}
    MaxSnaps = 1
    MaxFaults = 1
    MaxRequests = 1

SPECIFICATION LiveSpec
PROPERTIES
    CleanupEnds
    ValidationEnds
CHECK_DEADLOCK FALSE
