SPECIFICATION Spec
CONSTANTS
    cluster = cluster
    homeHost = homeHost
    clusterHost = clusterHost
    prod = prod
    Home = home
    HomeHost = homeHost
    Host = {homeHost, clusterHost}
    Unset = unset
    Name = {prod}
    At <- Urls
    Owns <- Groups
    twin = twin
    Backend = {cluster, twin}
    Preset <- AtFirst
    ip = ip
    trusted = trusted
    Ip = {ip, trusted}
    Refuses <- Rails
    Batches <- OneOrBoth
    Writer = {"loop", "executor"}
    MaxRequests = 3
    MaxChanges = 3
    MaxFaults = 1
    MaxEvents = 4
INVARIANT TypeOK
INVARIANT RestartKeeps
INVARIANT NotStranded
INVARIANT UnblockIsEverywhere
INVARIANT BroadcastIsEverywhere
\* The bounds on requests, changes and faults end the run.
CHECK_DEADLOCK FALSE
