SPECIFICATION Spec
CONSTANTS
    Byte <- MCByte
    Erased = "ff"
    Junk = "junk"
    GoodSp <- MCGoodSp
    GoodPc <- MCGoodPc
    QuadWord = 2
    QuadsPerSector = 2
    AppStartSector = 1
    AppNumSectors = 2
    BankSectors = 4
    Images <- MCImages
    AppImage = "app"
    Crc <- MCCrc
    CounterSize = 2
    MaxFaults = 2
    FlashErrors = TRUE
    PowerLosses = TRUE
INVARIANTS TypeOK ProgramOnlyErased SuccessIsInstalled
PROPERTIES ProtectedSectors WriteOnlyValidated HandoverClearsRequest
CHECK_DEADLOCK FALSE
