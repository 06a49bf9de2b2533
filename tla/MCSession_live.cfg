CONSTANTS
    Suite = {"768", "1024"}
    Psk = {"k1", "k2"}
    NoPsk = "no psk"
    Configs <- BlockingConfigs
    MaxSend = 2
    MaxChunks = 2
    SockCap = 6
    PullMax = 2
    TxCap = 4
    RxCap = 3
    PlainCap = 2
    MaxCounter = 3
    MaxFaults = 0
SPECIFICATION LiveSpec
PROPERTIES
    HandshakeCompletes
    AllDelivered
CHECK_DEADLOCK FALSE
