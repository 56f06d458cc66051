SPECIFICATION LiveSpec
CONSTANTS
    Chunks = 2
    MaxAttempts = 3
    MaxSequence = 5
    Installed <- Devices
    FlashFails = FALSE
INVARIANT
    TrialBudget
PROPERTIES
    ImplementsContract
    RollbackHappens
    ResetsRollBack
