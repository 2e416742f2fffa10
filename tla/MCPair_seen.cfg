SPECIFICATION FairSpec
CONSTANTS
    deck = deck
    pc = pc
    other = other
    NoPeer = NoPeer
    Node = {deck, pc}
    Stranger = {other}
    Courted = {}
    Room = 8
    Faults = {"age"}
PROPERTY EveryPeerIsOffered
