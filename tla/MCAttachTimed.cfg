SPECIFICATION TFairSpec
CONSTANTS
    h1 = h1
    h2 = h2
    Host = {h1, h2}
    NoHost = NoHost
    BaseBackoff = 1
    MaxBackoff = 4
    CacheTtl = 3
    Faults = {"list", "attach", "port", "bind"}
INVARIANTS
    ReattachIsPrompt
    LossIsNoticed
PROPERTIES
    GivesUpForAReason
    Reattaches
