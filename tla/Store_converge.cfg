SPECIFICATION FairSpec
CONSTANTS
    ingress = ingress
    cf = cf
    prod = prod
    stale = stale
    none = none
    p1 = p1
    Target = {ingress, cf}
    Group = {prod, stale}
    NoGroup = none
    BanGroups <- ProdIsIngress
    EnvOf <- EdgeIsStale
    Proc = {p1}
    Cidr <- BothFamilies
    V6 <- SecondFamily
    Allowlist = {}
    Ttl = {0, 1}
    Routes <- RoutesTwo
    Configured = {ingress}
    Enrolled = {ingress, cf}
    Dormant = {cf}
    Faults = {"crash", "save", "torn", "down", "wipe", "registry", "token", "read"}
    MaxTime = 1
    MaxRequests = 2
    MaxFaults = 1
INVARIANT SavedRenders
PROPERTY AtomicStore
PROPERTY Converges
