CONSTANTS
    c1 = c1  c2 = c2  r1 = r1  r2 = r2
    Claims = {c1, c2}
    Runs = {r1, r2}
    Nobody = Nobody
    Hooks = {"validation"}
    FaultyCalls = {}
    MaxSnaps = 2
    MaxFaults = 0
    MaxRequests = 2

SPECIFICATION Spec
PROPERTIES InitBindsClaims
CHECK_DEADLOCK FALSE
