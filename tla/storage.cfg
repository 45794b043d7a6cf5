SPECIFICATION StorageSpec
CONSTANTS
    Plugins <- MCPlugins
    Provides <- MCProvides
    StubType = "queue_manager_service_stub"
    Packages <- MCPackages
    Work = 3
    MaxFaults = 2
INVARIANTS StorageTypeOK CacheMatchesFiles
PROPERTY EventuallyAnswered
CHECK_DEADLOCK FALSE
