CONSTANTS
    s1 = s1
    s2 = s2
    d1 = d1
    d2 = d2
    Sessions = {s1}
    Devices = {d1}
    DeviceOf <- OneSession
    NumChannels = 4
    NumHigh = 2
    Foreign <- NoneForeign
    InitialControls <- Quiet
    Faults = {}
    DtorThrow = {"propagates", "terminates"}
SPECIFICATION Spec
INVARIANT StoppedDeviceQuiet
