SPECIFICATION Spec
CONSTANTS
    MaxIndex = 3
    MaxAttempts = 3
    CounterSize = 5
    RuntimeCheck = FALSE
    MaxFaults = 2
    Resets = TRUE
    PowerLosses = TRUE
    FlashErrors = TRUE
    DownloadResets = FALSE
INVARIANTS TypeOK SomeImageWhole AppHasCopy ConfirmationIsOwn
PROPERTIES RevertedStaysReverted ConfirmedAppKept BootEnds StagedUpdateInstalled
