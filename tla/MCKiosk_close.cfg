SPECIFICATION KFairSpec
CONSTANTS
    a1 = a1
    a2 = a2
    Addr = {a1, a2}
    NoAddr = NoAddr
    NoStatus = NoStatus
    BindErrorCount = 1
    MaxFailures = 1
    Faults = {"bind", "status"}
    Mishaps = {"spawn", "forget", "external"}
    ElderAt = {}
INVARIANTS
    LockIsInstalled
    LastStatusIsOnDisk
    BoundIsGuarded
    NothingLeftBehind
    PairScreenIsAlone
PROPERTIES
    PauseReleases
    StatusCatchesUp
    PinFollowsPeer
    BindRecovers
    CloseCompletes
