SPECIFICATION MCSpec
CONSTANTS
    Grants = {"g1", "g2"}
    Ids = {1, 2, 3}
    Limit = 2
    MaxFaults = 2
    Nothing = Nothing
    Unused = Unused
INVARIANTS
    IdentitiesSafe
    CountedOnce
    WayBack
PROPERTIES
    LateChangesNothing
