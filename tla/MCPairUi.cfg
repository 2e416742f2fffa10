SPECIFICATION FairSpec
CONSTANTS
    k1 = k1
    k2 = k2
    k3 = k3
    Key = {k1, k2, k3}
    NoPeer = NoPeer
    Fronts = {"kiosk", "dialog"}
INVARIANTS
    OnlyAcceptedIsTrusted
    SuccessIsSaved
PROPERTIES
    PromptIsShown
    CloseReturns
CHECK_DEADLOCK FALSE
