SPECIFICATION Spec
CONSTANTS
    deck = deck
    pc = pc
    other = other
    NoPeer = NoPeer
    Node = {deck, pc}
    Stranger = {other}
    Courted = {deck, pc}
    Room = 1
    Faults = {"loss", "age", "save", "giveup"}
SYMMETRY MCSymmetry
INVARIANTS
    TrustIsMutual
PROPERTY ImplementsConsent
