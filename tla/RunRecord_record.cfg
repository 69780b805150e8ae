SPECIFICATION Spec
CONSTANTS
    f1 = f1
    f2 = f2
    Files = {f1, f2}
    Large = {f1}
    Kinds = {"copy", "mirror", "archive", "both", "imported"}
    MaxChanges = 2
    MaxEdits = 1
    MaxBurst = 1
INVARIANTS
    
    SessionNeverInflated
PROPERTIES
    QuietMovedNothing
CHECK_DEADLOCK FALSE
