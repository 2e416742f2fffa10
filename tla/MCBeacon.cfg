SPECIFICATION BFairSpec
CONSTANTS
    a1 = a1
    a2 = a2
    Addr = {a1, a2}
    NoAddr = NoAddr
    ClockSize = 4
    Window = 1
    StaleAfter = 1
    MaxSkew = 1
    MaxDelay = 1
    Room = 2
INVARIANT PresenceIsEarned
PROPERTY AddressHeals
