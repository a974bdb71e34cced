SPECIFICATION DetectorSpec
CONSTANTS
    h1 = h1
    h2 = h2
    h3 = h3
    h4 = h4
    ip1 = ip1
    Handler = {h1, h2, h3, h4}
    IP = {ip1}
    MaxAttempts = 2
    Window = 2
    BlockDuration = 1
    TicksPerSecond = 2
    DiskErrors = TRUE
    MaxTime = 6
    None = None
SYMMETRY HandlerSymmetry
INVARIANTS DetectorTypeOK FileCurrent OvershootBounded
PROPERTIES EscalationKept
CHECK_DEADLOCK FALSE
