SPECIFICATION Spec
CONSTANTS
    Fields = {0, 1}
    NbSlots = 2
    IndexSize = 8
    MaxIndex = 5
    FirstIndex = 1
    UpdateGate = TRUE
    BootGate = FALSE
PROPERTIES AcceptedIsInstalled NoRollback CopyKept
