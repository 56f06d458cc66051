SPECIFICATION Spec
CONSTANTS
    HostOps <- RateOps
    QueueCap = 2
    MaxUnderruns = 1
    RelayRelease = 1
    OscillatorSettle = 1
    DmaStartLimit = 1
    StableAudio = 1
    DacSettle = 1
    ArmWindow = 1
    MaxElapsed = 1
INVARIANTS
    AppMatchesStep
    LatestRateWins
    FeedbackMatchesStream
    HostMuteHonoured
PROPERTY
    ImplementsOutputPath
