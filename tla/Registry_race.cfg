SPECIFICATION Spec
CONSTANTS
    n1 = n1
    n2 = n2
    r1 = r1
    r2 = r2
    Node = {n1, n2}
    Reader = {r1}
    Faults = {}
    MaxWrites = 3
    MaxFaults = 0
INVARIANT AcksKept
\* The bound on the calls ends the run.
CHECK_DEADLOCK FALSE
