CONSTANTS
    t1 = t1
    t2 = t2
    f1 = f1
    f2 = f2
    Thread = {t1, t2}
    Fd = {f1}
    MaxPanics = 0
SPECIFICATION LiveSpec
PROPERTIES
    SendCompletes
CHECK_DEADLOCK FALSE
