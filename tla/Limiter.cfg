SPECIFICATION Spec
CONSTANTS
    h1 = h1
    h2 = h2
    h3 = h3
    c1 = c1
    ip1 = ip1
    s1 = s1
    None = None
    Handler = {h1, h2, h3}
    Cleaner = {c1}
    Address = {ip1}
    Connection = {s1}
    KeyOf <- SharedAddress
    MaxEvents = 2
    Window = 2
    MaxDelay = 1
    MaxTime = 3
SYMMETRY HandlerSymmetry
INVARIANTS LimiterTypeOK RateBound RefusalsJustified NothingKept
CHECK_DEADLOCK FALSE
