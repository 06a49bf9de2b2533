CONSTANTS
    Suite = {"768", "1024"}
    Psk = {"k1", "k2"}
    NoPsk = "no psk"
    Configs <- NonblockingConfigs
    MaxSend = 2
    MaxChunks = 2
    SockCap = 3
    PullMax = 2
    TxCap = 4
    RxCap = 3
    PlainCap = 2
    MaxCounter = 3
    MaxFaults = 0
SPECIFICATION LiveSpec
PROPERTIES
    BacklogDrains
CHECK_DEADLOCK FALSE
