SPECIFICATION Spec
CONSTANTS
    HostOps <- RateOps
    QueueCap = 1
    MaxUnderruns = 0
    RelayRelease = 1
    OscillatorSettle = 1
    DmaStartLimit = 1
    StableAudio = 1
    DacSettle = 1
    ArmWindow = 1
    MaxElapsed = 1
INVARIANT
    OscillatorMatchesRate
