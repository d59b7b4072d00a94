CONSTANTS
    NumNodes = 2
    PortOf <- OnePort
    NumChannels = 4
    Foreign = {0, 3}
    Samples <- HandsOff
    MaxResets = 1
    Faults = {"fail", "silent", "timeout"}
SPECIFICATION FairSpec
CONSTRAINT OneDeviceGoesOn
INVARIANTS
    TypeOK
    ChannelsAreOwn
    DataFromOwnDevice
    CleanExit
PROPERTIES
    ForeignStaysTaken
    SetupAndCleanupEnd
CHECK_DEADLOCK FALSE
