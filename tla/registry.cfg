CONSTANTS
    Addrs = {a1, a2, a3, a4, a5}
    Places = {p1, p2, p3, p4, p5}
    NoAddr = NoAddr
    NoPlace = NoPlace
SPECIFICATION Spec
PROPERTY RegistryIsASet
SYMMETRY Symmetry
INVARIANTS TypeOK CountMatchesLive ExactWhileOrderly NoSharedPlaceWhileOrderly
