SPECIFICATION FairSpec
CONSTANTS
    a1 = a1
    a2 = a2
    Addr = {a1}
    NoAddr = NoAddr
    NoStatus = NoStatus
    BindErrorCount = 2
    MaxFailures = 3
    Faults = {"kill"}
PROPERTY PauseReleases
