SPECIFICATION MCSpec
CONSTANTS
    n1 = n1
    n2 = n2
    s1 = s1
    s2 = s2
    EntryOf <- CrossEntry
    ExitOf <- CrossExit
    GraphOf <- CrossGraph
    Order <- ById
    Calls <- MCCalls
    Keys <- MCKeys
    Rank <- MCRank
    Listed <- MCListed
    Within <- MCWithin
    Request <- MCRequest
    MaxBroken = 2
    NoServer = NoServer
    NoCall = NoCall
    Nobody = Nobody
INVARIANTS NoCircularWait ResultsWereFenced
PROPERTIES TakenTogether
