SPECIFICATION LiveSpec
CONSTANTS
    Samples <- TwoSamples
    Silence = 0
    Capacity = 3
    TransferSize = 2
    MaxPacket = 2
    MaxUnderruns = 1
INVARIANTS
    TypeOK
    OneTransfer
    TransmitterFed
PROPERTIES
    ImplementsPipe
    KeepsSending
