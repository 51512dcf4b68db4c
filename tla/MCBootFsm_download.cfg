SPECIFICATION Spec
CONSTANTS
    MaxIndex = 3
    MaxAttempts = 3
    CounterSize = 5
    RuntimeCheck = FALSE
    MaxFaults = 0
    Resets = FALSE
    PowerLosses = FALSE
    FlashErrors = FALSE
    DownloadResets = TRUE
INVARIANT InstallsOnlyComplete
