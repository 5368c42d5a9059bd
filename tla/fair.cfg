SPECIFICATION MCFairSpec
CONSTANTS
    n1 = n1
    n2 = n2
    s1 = s1
    s2 = s2
    h1 = h1
    h2 = h2
    Nodes = {n1}
    Servers = {s1}
    Hosts = {h1}
    Identities = {i1}
    Workers = {w1, w2}
    Configs = {c1}
    EntryOf <- LoneEntry
    ExitOf <- LoneExit
    Budget <- FairBudget
    NoServer = NoServer
    NoHost = NoHost
    NoId = NoId
    NoConfig = NoConfig
    Nobody = Nobody
PROPERTIES JobsSettle DeletionEnds
CHECK_DEADLOCK FALSE
