SPECIFICATION Spec
CONSTANTS
    NbSlots = 2
    Chunks = 3
    FirstChunks = 1
    ShortTail = TRUE
    IndexSize = 16
    FirstIndices = {1, 2}
    MaxDownloads = 4
    MaxFaults = 2
INVARIANTS TypeOK JumpsOnlyWhole SecondStageSomewhere RunsNewest
PROPERTIES OnlyNewer BootEnds
