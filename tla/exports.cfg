SPECIFICATION MCSpec
CONSTANTS
    Nodes = {a, b}
    Kept = Kept
    Forms <- PageForms
    Editors = {e1, e2}
    Start <- AtFirst
    Becomes <- Drifts
    MaxProtected = 2
    MaxWrites = 2
    Dns = Dns
    a = a
    b = b
    ip = ip
    e1 = e1
    e2 = e2
    k1 = k1
    k2 = k2
    Unused = Unused
INVARIANTS
    SubscriptionSafe
    ConfigsSafe
    LinksSafe
    GroupsSafe
PROPERTIES
    StrictForGood
    EditsSafe
SYMMETRY Alike
CHECK_DEADLOCK FALSE
