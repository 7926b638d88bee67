SPECIFICATION Spec
CONSTANTS
    c1 = c1
    c2 = c2
    s1 = s1
    s2 = s2
    s3 = s3
    st = st
    r1 = r1
    r2 = r2
    None = None
    Claims = {c1, c2}
    Snaps = {s1, s2, s3}
    ClaimOf <- Volumes
    Strategies = {st}
    Selects <- Both
    Runs = {r1, r2}
    Threads = 2
INVARIANTS TypeOK OneRun LabelsEarned
PROPERTIES EntriesKept
SYMMETRY Alike
CHECK_DEADLOCK FALSE
