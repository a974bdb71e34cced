SPECIFICATION Spec
CONSTANTS
    h = h
    t1 = t1
    t2 = t2
    Handler = h
    Others = {t1}
    Broadcasters = {}
    Kickers = {t1}
    QueueSize = 3
    MaxChat = 0
    PeerStalls = FALSE
    PeerTalks = TRUE
INVARIANT OnlyQueuedLines
CHECK_DEADLOCK FALSE
