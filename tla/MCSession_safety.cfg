CONSTANTS
    Suite = {"768", "1024"}
    Psk = {"k1", "k2"}
    NoPsk = "no psk"
    Configs <- AllConfigs
    MaxSend = 3
    MaxChunks = 2
    SockCap = 3
    PullMax = 2
    TxCap = 4
    RxCap = 3
    PlainCap = 2
    MaxCounter = 3
    MaxFaults = 0
SPECIFICATION Spec
INVARIANTS
    TypeOK
    NonceUnique
    DeliveredInOrder
    
CHECK_DEADLOCK FALSE
