CONSTANTS
    c1 = c1  c2 = c2  r1 = r1  r2 = r2
    Claims = {c1}
    Runs = {r1, r2}
    Nobody = Nobody
    Hooks = {"validation"}
    FaultyCalls = {"claim", "objects", "job", "label", "deleteRun", "deleteClaim", "put", "create", "ask", "pause"}
    MaxSnaps = 2
    MaxFaults = 1
    MaxRequests = 2

SPECIFICATION Spec
CONSTRAINT OneMore
INVARIANTS
    TypeOK
    LabelsEarned
    ValidatedBefore
PROPERTIES
    NothingLost
    CleanupsDue
CHECK_DEADLOCK FALSE
