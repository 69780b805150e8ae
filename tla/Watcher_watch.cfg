SPECIFICATION WatcherFairSpec
CONSTANTS
    Jobs = {j1, j2}
    Floor = 1
    Ceiling = 2
    Editable = {j2}
    MaxPause = 2
    NoJob = NoJob
    MayRefuse = TRUE
INVARIANTS
    WatcherTypeOK
PROPERTIES
    WidensOnlyWhenQuiet
    KeepsWatching
