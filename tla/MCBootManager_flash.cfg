SPECIFICATION Spec
CONSTANTS
    Chunks = 2
    MaxAttempts = 3
    MaxSequence = 6
    Installed <- Devices
    FlashFails = TRUE
INVARIANTS
    TypeOK
    UnprovenRunsWatched
    UploadIsPrefix
PROPERTY
    KnownGoodKept
