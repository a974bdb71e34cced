SPECIFICATION DetectorSpec
CONSTANTS
    h1 = h1
    h2 = h2
    h3 = h3
    h4 = h4
    ip1 = ip1
    Handler = {h1, h2}
    IP = {ip1}
    MaxAttempts = 2
    Window = 2
    BlockDuration = 1
    TicksPerSecond = 2
    DiskErrors = FALSE
    MaxTime = 4
    None = None
SYMMETRY HandlerSymmetry
PROPERTIES PersistsAcrossRestarts
CHECK_DEADLOCK FALSE
