SPECIFICATION Spec
CONSTANTS
    Jobs = {j1, j2}
    ContinuousJobs = {j1}
    ArchiveJobs = {j2}
    LiveWorkers = {w1, w2}
    PlanWorkers = {d1}
    Requests = {r1, r2}
    Modes = {"live", "plan"}
    MaxRuns = 3
    HistoryKeep = 2
    MayCancel = FALSE
    DeletePaths = {}
    MayFault = TRUE
    NoJob = NoJob
    NoWorker = NoWorker
SYMMETRY Symmetry
INVARIANTS
    SlotHeldWhileSyncing
    NeverDoubleRuns
PROPERTIES
    FinishedIsFinal
