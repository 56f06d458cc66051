SPECIFICATION Spec
CONSTANTS
    Rates <- BothRates
    Drifts <- ThreeDrifts
    DmaPhases <- TwoPhases
    PauseTimes <- Pauses
    GapTimes <- Gaps
    GapLength = 40
    SettleTime = 8000
    Band = 640
    Horizon = 11000
INVARIANTS
    NoGlitch
    ReadyToClose
    Centred
    FitsEndpoint
