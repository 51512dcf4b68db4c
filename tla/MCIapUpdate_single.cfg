SPECIFICATION Spec
CONSTANTS
    BankSize = 12
    SectorSize = 4
    WriteSize = 2
    DualBank = FALSE
    LaunchLoads = TRUE
    Erased = Erased
    Junk = Junk
    Pad = Pad
    HeaderSize = 2
    BufferSize = 4
    TagSize = 2
    UpdateSlot <- MCUpdateSlot
    Images <- MCImages
    SlotSectors = 3
    PayloadLengths = {3, 6, 8, 9}
    DamagedUnits = {0, 7}
    Trailing = 1
    Lengths = {1, 3, 6}
    AwaitReset = TRUE
    Orderly = TRUE
    MaxSessions = 2
    MaxFaults = 1
INVARIANTS ReadyIsWhole RefusedHasNoHeader
PROPERTIES CallEnds
