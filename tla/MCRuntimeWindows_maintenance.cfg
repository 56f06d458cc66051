SPECIFICATION WindowSpec
CONSTANTS
    MaxArmAge = 2
    Wrap = 8
    HostOps <- MaintenanceOps
    QueueCap = 1
    MaxUnderruns = 0
    RelayRelease = 1
    OscillatorSettle = 1
    DmaStartLimit = 1
    StableAudio = 1
    DacSettle = 1
    ArmWindow = 2
    MaxElapsed = 1
INVARIANTS
    DeadlinesSurviveWrap
    HostStopHonoured
PROPERTY
    LeavesOnlyOnSecondRequest
