SPECIFICATION Spec
CONSTANTS
    MaxJobs = 2
    Crons = {c1}
    Editors = {e1, e2}
    Unusable = Unusable
    NoCron = NoCron
    MayRestart = TRUE
INVARIANTS
    TypeOK
    ScheduleLagExplained
    MaintenanceKept
SYMMETRY Symmetry
