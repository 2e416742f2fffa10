SPECIFICATION UFairSpec
CONSTANTS
    acc1 = acc1
    g1 = g1
    ours = ours
    Account = {acc1}
    NoAccount = NoAccount
    Game = {g1}
    Ours = ours
    Faults = {"usbip", "unlock", "pacman", "relock", "units", "copy", "copying", "secure", "sudoers", "modules", "desktop", "legacy", "mode", "visudo", "disable", "rmsudoers", "rmmodules", "rmdir", "rmdesktop", "rmlegacy", "kill"}
    DiskFaults = {"read", "tmp", "rename"}
    MaxJobs = 2
INVARIANTS
    GrantIsBacked
    
    OneShortcut
PROPERTIES
    DoneIsComplete
    ShortcutsKept
    InstallingEnds
CHECK_DEADLOCK FALSE
