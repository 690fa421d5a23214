SPECIFICATION FairSpec
CONSTANTS
    ingress = ingress
    vm = vm
    prod = prod
    scan = scan
    probe = probe
    admin = admin
    Target = {ingress, vm}
    Group = {prod}
    NoGroup = none
    BanGroups <- ProdIsIngress
    EnvOf <- NoEnvs
    Part = {scan, probe, admin}
    Id = {1, 2, 3}
    SeedName = seed
    Custom = custom
    Type <- Backends
    Pulled = {"nginx-file"}
    Benign = {admin}
    Protected = {admin}
    Attachments <- TwoAttachments
    Stored <- Documents
    Seedings <- OneOrTwo
    Faults = {"down", "save", "read", "crash", "lost"}
    MaxRequests = 2
    MaxFaults = 1
INVARIANT TypeOK
INVARIANT AppliedMatchesRules
INVARIANT SeededOnce
PROPERTY Converges
