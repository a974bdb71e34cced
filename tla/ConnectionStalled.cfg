SPECIFICATION Spec
CONSTANTS
    h = h
    t1 = t1
    t2 = t2
    Handler = h
    Others = {t1}
    Broadcasters = {}
    Kickers = {t1}
    QueueSize = 3
    MaxChat = 0
    PeerStalls = TRUE
    PeerTalks = FALSE
PROPERTY HandlerEnds
CHECK_DEADLOCK FALSE
