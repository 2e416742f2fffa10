SPECIFICATION KSpec
CONSTANTS
    a1 = a1
    a2 = a2
    Addr = {a1, a2}
    NoAddr = NoAddr
    NoStatus = NoStatus
    BindErrorCount = 1
    MaxFailures = 1
    Faults = {"unbind", "lock", "stale", "unlock", "inhibit", "clear", "kill"}
    Mishaps = {"grace", "drop", "refused"}
    ElderAt = {"publish"}
SYMMETRY MCSymmetry
INVARIANTS
    KTypeOK
    GuardsEndWithBinding
    StatusIsCoherent
    LockHeldAlone
    StatusHeldAlone
    NoStrayDaemon
PROPERTY ImplementsDeck
CONSTRAINT MCBounds
