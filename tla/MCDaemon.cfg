CONSTANTS
    k1 = k1
    k2 = k2
    c1 = c1
    c2 = c2
    j1 = j1
    j2 = j2
    n1 = n1
    n2 = n2
    Suite = {"768", "1024"}
    NoSuite = "none"
    MaxRecords = 2
    MaxFaults = 2
    Conn = {k1, k2}
    Cpu = {c1, c2}
    Job = {j1, j2}
    Number = {n1, n2}
    RingCap = 1
    MaxRepeats = 1
    MaxKtlsFaults = 1
    MaxPassed = 3
SPECIFICATION DaemonLiveSpec
INVARIANTS
    DaemonTypeOK
    SocketAccounted
    BridgedAgree
    NoRecordLost
    LossShows
    OwnSocketOnly
    OkMeansEnforced
PROPERTIES
    DaemonSettles
    EventsAnswered
CHECK_DEADLOCK FALSE
