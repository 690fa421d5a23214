SPECIFICATION Spec
CONSTANTS
    c1 = c1
    c2 = c2
    l1 = l1
    l2 = l2
    d1 = d1
    d2 = d2
    t1 = t1
    t2 = t2
    p = p
    Unset = Unset
    Cidr = {c1, c2}
    Pattern = {p}
    Wants <- MCWants
    List = {l1, l2}
    Desc = {d1, d2}
    Token = {t1, t2}
    First <- MCFirst
    Saves <- MCSaves
    Globals <- MCGlobals
    Theirs = {c1}
    MaxApplies = 2
    MaxChanges = 2
    MaxFaults = 1
INVARIANT TypeOK
INVARIANT OthersKept
INVARIANT OneRule
INVARIANT BroughtIsBlocked
PROPERTY Converges
