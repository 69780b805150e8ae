SPECIFICATION Spec
CONSTANTS
    Jobs = {j1, j2}
    ContinuousJobs = {j1}
    ArchiveJobs = {j2}
    LiveWorkers = {w1, w2}
    PlanWorkers = {}
    Requests = {r1, r2}
    Modes = {"live"}
    MaxRuns = 3
    HistoryKeep = 2
    MayCancel = TRUE
    DeletePaths = {}
    MayFault = FALSE
    NoJob = NoJob
    NoWorker = NoWorker
SYMMETRY Symmetry
INVARIANT
    NeverDoubleRuns
