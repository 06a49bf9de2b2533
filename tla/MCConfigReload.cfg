CONSTANTS
    f1 = f1
    f2 = f2
    Fd = {f1}
    Suite = {"768", "1024"}
    Default = "768"
    Identity = {"id1", "id2"}
    MaxWrites = 2
SPECIFICATION LiveSpec
INVARIANTS
    TypeOK
    EpochNamesConfig
PROPERTIES
    ReloadSparesBusy
    
    OldSessionsRetired
