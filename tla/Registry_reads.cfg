SPECIFICATION FairSpec
CONSTANTS
    n1 = n1
    n2 = n2
    r1 = r1
    r2 = r2
    Node = {n1, n2}
    Reader = {r1, r2}
    Faults = {"save", "restart"}
    MaxWrites = 3
    MaxFaults = 1
INVARIANT TypeOK
PROPERTY ReadsConverge
\* The bound on the calls ends the run.
CHECK_DEADLOCK FALSE
