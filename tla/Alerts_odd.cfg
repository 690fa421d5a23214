SPECIFICATION Spec
CONSTANTS
    n1 = n1
    Unset = Unset
    ops = ops
    team = team
    prod = prod
    Env = {prod}
    Channel = {ops, team}
    Rules <- TwoRulesForOps
    Node = {n1}
    OfflineAfter = 2
    Shortest = 1
    MaxTurns = 2
    MaxFaults = 1
INVARIANT SafetyNet
