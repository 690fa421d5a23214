SPECIFICATION AutobanSpec
CONSTANTS
    cluster = cluster
    homeHost = homeHost
    clusterHost = clusterHost
    prod = prod
    Home = home
    HomeHost = homeHost
    Host = {homeHost, clusterHost}
    Unset = unset
    Name = {prod}
    At <- Urls
    Owns <- Groups
    Refuses <- NoRails
    Batches = {}
    Backend = {cluster}
    Preset <- AtFirst
    scanner = scanner
    listed = listed
    Ip = {scanner, listed}
    Writer = {"loop", "executor"}
    MaxRequests = 0
    MaxChanges = 1
    MaxFaults = 2
    MaxEvents = 2
    Rule = {1, 2}
    NewRules <- RuleForms
    FirstRules <- TwoOrNone
    Matches <- Requests
    Ladder <- LadderOfTwo
    Cap = 1
    Listed = {listed}
    FeedNames = {prod}
INVARIANT AutobanTypeOK
PROPERTY OffenderBanned
PROPERTY FeedBanned
CHECK_DEADLOCK FALSE
