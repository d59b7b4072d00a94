CONSTANTS
    Images <- MCImages
    SENSABLE = 2
    MAGIC = 1
    MaxRootDir = 3
    MaxResets = 2
    ReadsFail = TRUE
SPECIFICATION FairProbeSpec
INVARIANTS
    TypeOK
    ValidRomIsTheNodes
    UnreadableOnlyByMagic
    ProbeAgreesWithLibrary
    LostReadsOnlyHide
PROPERTIES
    CachedRomIsStable
    SensableIsPresent
    GettersReturn
