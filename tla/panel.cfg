SPECIFICATION MCSpec
CONSTANTS
    Nothing = Nothing
    Unused = Unused
    Tokens = {t1, t2}
    Requests = {r1, r2}
    MaxVersion = 1
    MaxStates = 1
INVARIANTS
    PresentPasswordOnly
    ConsumedOnce
    RowsFollow
    StreamsSafe
    ProbesSafe
PROPERTIES
    EndedStaysEnded
    MeasuredSafe
VIEW View
CHECK_DEADLOCK FALSE
