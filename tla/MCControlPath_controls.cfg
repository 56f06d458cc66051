SPECIFICATION Spec
CONSTANTS
    ResetAssert = 2
    ResetRelease = 2
    ChipSelectSetup = 1
    InterWrite = 1
    EventCapacity = 2
    HistorySize = 2
    HostVolumes <- TwoVolumes
    HostReports <- TwoReports
    MaxElapsed = 1
INVARIANTS
    TypeOK
    DriverKnowsChip
    VolumeFollowsHost
    ReportNotForgotten
PROPERTY
    ImplementsEventLog
