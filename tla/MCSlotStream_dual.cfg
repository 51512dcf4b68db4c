SPECIFICATION Spec
CONSTANTS
    BankSize = 8
    SectorSize = 4
    WriteSize = 2
    DualBank = TRUE
    LaunchLoads = TRUE
    AwaitReset = TRUE
    Erased = Erased
    Junk = Junk
    Pad = Pad
    SlotHalves = {1}
    TableSize = 2
    MaxGiven = 11
    MaxSessions = 2
    MaxFaults = 1
    Contents <- MCContents
    Chunks <- MCChunks
    Tables <- MCTables
INVARIANTS TypeOK InOrder
PROPERTIES StreamOnly
