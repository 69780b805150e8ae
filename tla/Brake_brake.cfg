SPECIFICATION Spec
CONSTANTS
    Kinds = {"sync", "copy", "bisync"}
    Pcts = {20, 60}
    MaxFiles = 2
    Capture = 2
    MayTimeOut = TRUE
    None = None
INVARIANTS
    TypeOK
    WithinAgreed
    CapturedExcessRefused
    CopyNeverRefused
    InitialisedMeansSynced
