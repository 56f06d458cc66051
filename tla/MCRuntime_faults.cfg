SPECIFICATION Spec
CONSTANTS
    HostOps <- FaultOps
    QueueCap = 1
    MaxUnderruns = 3
    RelayRelease = 1
    OscillatorSettle = 1
    DmaStartLimit = 1
    StableAudio = 1
    DacSettle = 1
    ArmWindow = 1
    MaxElapsed = 1
INVARIANTS
    TypeOK
    RelaySafe
    ClockValidIsTrue
    RingReadOnlyWhenJoined
    FaultIsQuiet
    HostStopHonoured
