CONSTANTS
    Absent = Absent
    Submitted <- Pods
    MaxReviews = 3
    MaxOthers = 2
    Iov <- Iovs
    MaxIovCopy = 4
    RecordLen = 2
    MaxPeer = 3
    MaxWritten = 3
SPECIFICATION Spec

    
    
PROPERTIES
    PatchIsMinimal
CHECK_DEADLOCK FALSE
