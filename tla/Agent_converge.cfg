SPECIFICATION FairSpec
CONSTANTS
    h1 = h1
    h2 = h2
    s1 = s1
    s2 = s2
    sBad = sBad
    Missing = Missing
    Down = Down
    None = None
    Http = {h1, h2}
    Server = {s1, s2, sBad}
    Bad = {sBad}
    Faults = {"crash", "fetch", "enroll", "state", "write", "reload", "revoke", "stop"}
    MaxChanges = 3
    MaxFaults = 2
INVARIANT TypeOK
INVARIANT RestIsValid
PROPERTY Converges
