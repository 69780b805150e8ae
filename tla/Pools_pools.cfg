SPECIFICATION FairSpec
CONSTANTS
    Runs = {r1, r2}
    Pools = {g1, g2, g3}
    EnvCap = 2
    MaxCap = 2
    NoPool = NoPool
    MayStop = TRUE
INVARIANTS
    TypeOK
    PoolFollowsSetting
PROPERTIES
    CreatedRunsBegin
    WithinCapInTheEnd
    StopsInTheEnd
