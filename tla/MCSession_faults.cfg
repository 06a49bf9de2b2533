CONSTANTS
    Suite = {"768", "1024"}
    Psk = {"k1", "k2"}
    NoPsk = "no psk"
    Configs <- FaultConfigs
    MaxSend = 2
    MaxChunks = 2
    SockCap = 4
    PullMax = 2
    TxCap = 2
    RxCap = 2
    PlainCap = 2
    MaxCounter = 2
    MaxFaults = 1
SPECIFICATION Spec
INVARIANTS
    DeliveredInOrder
    KeyAgreement
    FallbackIsLocal
PROPERTIES
    FailedIsTerminal
    
CHECK_DEADLOCK FALSE
