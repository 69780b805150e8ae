SPECIFICATION FairSpec
CONSTANTS
    Jobs = {"j1", "j2"}
    Roots = {"r1", "r2", "r3"}
    First = "r2"
    Files = {f1}
    Runners = {"j1", "j2"}
    Shifts <- MCShifts
    Configs <- MCConfigs
    NoBase = "beside"
    Deleted = Deleted
    Keep = 1
    MaxTime = 3
    MaxVersion = 2
INVARIANTS
    TypeOK
PROPERTIES
    NothingLost
    RestoredHome
    ExpiredGoes
