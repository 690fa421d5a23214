SPECIFICATION Spec
CONSTANTS
    root = root
    ann = ann
    near = near
    far = far
    User = {root, ann}
    Ip = {near, far}
    Root = root
    MaxFails = 2
    MaxUserFails = 3
    Window = 2
    Ttl = 2
    MaxTime = 5
    MaxRequests = 5
    MaxRestarts = 1
SYMMETRY Addresses
INVARIANT TypeOK
INVARIANT AdminRemains
INVARIANT RevocationIsFinal
INVARIANT GuessesBounded
PROPERTY CodeOnce
\* The bounds on time and requests end the run.
CHECK_DEADLOCK FALSE
