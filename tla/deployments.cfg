SPECIFICATION MCSpec
CONSTANTS
    Nothing = Nothing
    n1 = n1
    n2 = n2
    Unused = Unused
    Handlers = {n1, n2}
    Nobody = Nobody
    MaxFaults = 1
INVARIANTS
    DeploymentsSafe
    CoresKept
    ExitReached
    PortsApart
    OriginSafe
PROPERTIES
    Atomic
    CertsServe
SYMMETRY Alike
CHECK_DEADLOCK FALSE
