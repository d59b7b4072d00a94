CONSTANTS
    u1 = u1
    u2 = u2
    other = other
    Procs = {m1, m2}
    Units = {u1, u2, other}
    DeviceUnits <- TwoDevices
    FireWireUnits = {u1, u2}
    Phantoms = {u1, u2}
    NumChannels = 4
    NumBits = 4
    FreeOnBus = {0, 2}
    Alone = {m1}
    Shaky = {u1}
SPECIFICATION Spec
INVARIANTS TypeOK ChannelsOfProcessDistinct UnitsInUse
PROPERTY MacCallsReturn
\* isoIterate of the only process never ends while data keeps arriving.
CHECK_DEADLOCK FALSE
