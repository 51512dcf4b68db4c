SPECIFICATION Spec
CONSTANTS
    BankSize = 12
    SectorSize = 4
    WriteSize = 2
    DualBank = TRUE
    LaunchLoads = TRUE
    Erased = Erased
    Junk = Junk
    Pad = Pad
    HeaderSize = 2
    BufferSize = 4
    TagSize = 2
    UpdateSlot <- MCUpdateSlot
    Images <- MCImages
    SlotSectors = 2
    PayloadLengths = {5, 7, 8, 9}
    DamagedUnits = {0, 1, 9}
    Trailing = 1
    Lengths = {1, 3, 6}
    AwaitReset = TRUE
    Orderly = FALSE
    MaxSessions = 2
    MaxFaults = 2
INVARIANTS TypeOK NextBootIsWhole ReadyIsWhole ReadyIsNext SoundIsAccepted
PROPERTIES OnlySlotChanges
