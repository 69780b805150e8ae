SPECIFICATION FairSpec
CONSTANTS
    Jobs = {j1}
    ContinuousJobs = {j1}
    ArchiveJobs = {j1}
    LiveWorkers = {w1, w2}
    PlanWorkers = {d1}
    Requests = {r1}
    Modes = {"live", "plan"}
    MaxRuns = 2
    HistoryKeep = 2
    MayCancel = TRUE
    DeletePaths = {"form", "api"}
    MayFault = FALSE
    NoJob = NoJob
    NoWorker = NoWorker
INVARIANTS
    TypeOK
    OneActivePerJob
    
    ActiveRowOwned
PROPERTIES
    EveryRunEnds
    RegistryDrains
