SPECIFICATION LiveSpec
CONSTANTS
    s0 = s0
    s1 = s1
    t0 = t0
    None = None
    OldClaims <- Both
    Name <- Web
    Template = "data"
    NamePrefix <- Prefix
    AdditionalResources <- Services
    VolumeSource <- Volumes
    Snaps = {s0, t0, s1}
    Of <- Owners
    Foreign = {t0}
    Windows <- BeforeAndAfter
    MaxLabel = 3
    MaxTime = 3
    MaxFaults = 1
INVARIANTS TypeOK OneSet RestoresValidated LabelsTested
PROPERTIES PickNewest LiveKept Ends
CHECK_DEADLOCK FALSE
