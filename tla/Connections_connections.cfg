SPECIFICATION Spec
CONSTANTS
    server = server
    remote1 = remote1
    remote2 = remote2
    rsa = rsa
    ed = ed
    Ids = {c1}
    Places <- MCPlaces
    Identity <- MCIdentity
    Offered <- MCOffered
    Keys = {rsa, ed}
    Credentials = {k1}
    Presets = {p1}
    Jobs = {j1}
    Requests = {r1, r2}
    None = None
SYMMETRY Symmetry
INVARIANTS
    TypeOK
    
PROPERTIES
    PinnedAsReviewed
    
