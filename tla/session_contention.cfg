CONSTANTS
    s1 = s1
    s2 = s2
    d1 = d1
    d2 = d2
    Sessions = {s1, s2}
    Devices = {d1, d2}
    DeviceOf <- OwnDevice
    NumChannels = 4
    NumHigh = 2
    Foreign <- LastForeign
    InitialControls <- Quiet
    Faults = {}
    DtorThrow = {"propagates", "terminates"}
SPECIFICATION Spec
INVARIANTS TypeOK ChannelsPartitioned NoChannelLeak RunningDeviceConfigured RunningIterates
PROPERTY AllocatesChannels
