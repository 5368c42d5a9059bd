SPECIFICATION Spec
CONSTANTS
    n1 = n1
    n2 = n2
    s1 = s1
    s2 = s2
    h1 = h1
    h2 = h2
    Nodes = {n1}
    Servers = {s1}
    Hosts = {h1, h2}
    Identities = {i1, i2}
    Workers = {w1, w2}
    Configs = {c1, c2}
    EntryOf <- LoneEntry
    ExitOf <- LoneExit
    Budget <- LoneBudget
    NoServer = NoServer
    NoHost = NoHost
    NoId = NoId
    NoConfig = NoConfig
    Nobody = Nobody
INVARIANTS NoOrphan PinnedArtifacts
PROPERTIES ApprovedRemoval HostPinned
ACTION_CONSTRAINT OneMisfortune
SYMMETRY HandlerSymmetry
CHECK_DEADLOCK FALSE
