SPECIFICATION FirmwareSpec
CONSTANTS
    Servers = {s1, s2}
    Delay = 2
    MaxTries = 1
    MaxTimeout = 1
    MaxForeign = 1
    MaxDrops = 1
    Word <- MCWord
    Calls <- MCCalls
INVARIANTS TestTypeOK LibraryCorrect  WireCorrect PhyReady BoundSound
PROPERTIES Binds
