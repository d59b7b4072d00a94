CONSTANTS
    NumNodes = 1
    PortOf <- OnePort
    NumChannels = 3
    Foreign = {1}
    Samples <- MCSamples
    MaxResets = 1
    Faults = {"silent"}
SPECIFICATION Spec
INVARIANT ForceNeedsButton
CHECK_DEADLOCK FALSE
