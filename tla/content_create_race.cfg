SPECIFICATION Spec
CONSTANTS
    Clients = {"c1"}
    Server = "server"
    Paths = {1, 2}
    Data = {"x", "y", "yy", "e"}
    PythonClients = {}
    Edits = {"x", "y"}
    Ascii = {"x"}
    ToStr <- MCToStr
    ToBytes <- MCToBytes
    Unencodable = "unencodable"
    Cut = "cut"
    SizeOf <- MCSizeOf
    Perms = {"rw", "rx"}
    DefaultPerms = "rw"
    Initial <- MCInitial
    Tasks = {"t1", "t2", "t3"}
    Plans <- UploadPlans
    RescanInterval = 3
    SameSecond = FALSE
    MaxEvents = 0
    MaxClock = 0
PROPERTY CreateNeverOverwrites
CHECK_DEADLOCK FALSE
