SPECIFICATION Spec
CONSTANTS
    Clients = {"c1", "c2"}
    Server = "server"
    Paths = {1, 2}
    Data = {"x", "y", "yy", "e"}
    PythonClients = {"c2"}
    Edits = {"x", "y"}
    Ascii = {"x"}
    ToStr <- MCToStr
    ToBytes <- MCToBytes
    Unencodable = "unencodable"
    Cut = "cut"
    SizeOf <- MCSizeOf
    Perms = {"rw", "rx"}
    DefaultPerms = "rw"
    Initial <- MCInitial
    Tasks = {"t1", "t2", "t3"}
    Plans <- AllPlans
    RescanInterval = 2
    SameSecond = FALSE
    MaxEvents = 1
    MaxClock = 1
INVARIANTS TypeOK ManifestHonest CompletedMeansEqual FailsOnlyWhenDisturbed
CHECK_DEADLOCK FALSE
