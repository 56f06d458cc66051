SPECIFICATION TimedSpec
CONSTANTS
    MaxAge = 6
    HostOps <- TimingOps
    QueueCap = 1
    MaxUnderruns = 0
    RelayRelease = 2
    OscillatorSettle = 2
    DmaStartLimit = 1
    StableAudio = 2
    DacSettle = 2
    ArmWindow = 1
    MaxElapsed = 2
PROPERTIES
    QuietSwitch
    RelayClosesSettled
