CONSTANTS
    Addrs = {a1, a2, a3}
    Places = {p1, p2, p3}
    NoAddr = NoAddr
    NoPlace = NoPlace
SPECIFICATION Spec
SYMMETRY Symmetry
INVARIANT DeviceIsOpenAsDocumented
