SPECIFICATION USpec
CONSTANTS
    acc1 = acc1
    g1 = g1
    ours = ours
    Account = {acc1}
    NoAccount = NoAccount
    Game = {g1}
    Ours = ours
    Faults = {"modules", "desktop"}
    DiskFaults = {}
    MaxJobs = 2
INVARIANT NoPartialRule
CHECK_DEADLOCK FALSE
