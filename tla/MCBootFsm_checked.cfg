SPECIFICATION Spec
CONSTANTS
    MaxIndex = 3
    MaxAttempts = 3
    CounterSize = 5
    RuntimeCheck = TRUE
    MaxFaults = 2
    Resets = TRUE
    PowerLosses = TRUE
    FlashErrors = TRUE
    DownloadResets = FALSE
INVARIANT RunsWholeImage
