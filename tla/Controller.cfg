SPECIFICATION LiveSpec
CONSTANTS
    r1 = r1  n1 = n1
    t1 = t1  t2 = t2
    NoKey = NoKey
    Reverts = {r1}
    Runs = {n1}
    Snaps = {}
    Threads = {t1, t2}
    Together <- Lists
    MaxChanges = 1
    MaxFaults = 1
INVARIANTS TypeOK OneWorkerPerKey Remembered
PROPERTIES KeepsPromise Handled
CHECK_DEADLOCK FALSE
