SPECIFICATION FSpec
CONSTANTS
    a1 = a1
    a2 = a2
    a3 = a3
    Addr = {a1, a2, a3}
    NoAddr = NoAddr
    Anyone = Anyone
    Others <- MCOthers
    Backends = {"nft", "iptables"}
    Faults = {"command", "kill"}
    MaxRules = 7
SYMMETRY MCSymmetry
INVARIANTS
    LockHolds
    NothingLeft
