SPECIFICATION LiveSpec
CONSTANTS
    HostOps <- LiveOps
    QueueCap = 1
    MaxUnderruns = 3
    RelayRelease = 1
    OscillatorSettle = 1
    DmaStartLimit = 1
    StableAudio = 1
    DacSettle = 1
    ArmWindow = 1
    MaxElapsed = 1
PROPERTIES
    BrokenAudioEnds
    StartSettles
