SPECIFICATION Spec
CONSTANTS
    ingress = ingress
    cf = cf
    prod = prod
    stale = stale
    none = none
    p1 = p1
    Target = {ingress, cf}
    Group = {prod, stale}
    NoGroup = none
    BanGroups <- ProdIsIngress
    EnvOf <- NoEnvs
    Proc = {p1}
    Cidr <- NestedNets
    V6 = {}
    Allowlist = {4}
    Ttl = {0, 1}
    Routes <- RoutesWide
    Configured = {ingress}
    Enrolled = {ingress, cf}
    Dormant = {}
    Faults = {"down"}
    MaxTime = 1
    MaxRequests = 3
    MaxFaults = 1
INVARIANT TypeOK
INVARIANT AppliedMatchesStore
INVARIANT AllowlistSpared
INVARIANT BanHonoured
INVARIANT ReleaseHonoured
