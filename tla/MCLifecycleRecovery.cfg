SPECIFICATION FairSpec
CONSTANTS
    Units <- MCUnits
    Directories <- MCDirectories
    Old <- MCOld
    New <- MCNew
    Cache <- MCCache
    MaxCrashes = 3
    MaxEdits = 1
CHECK_DEADLOCK FALSE
INVARIANTS
    DiskSound
    RecordsSound
    NeverSelfBlocked
PROPERTIES
    ImplementsContract
    EventuallyCertified
