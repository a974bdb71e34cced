SPECIFICATION Spec
CONSTANTS
    h = h
    t1 = t1
    t2 = t2
    Handler = h
    Others = {t1, t2}
    Broadcasters = {t1, t2}
    Kickers = {t2}
    QueueSize = 2
    MaxChat = 2
    PeerStalls = TRUE
    PeerTalks = TRUE
INVARIANTS ConnectionTypeOK DeliveredInOrder StopOnce
PROPERTY WriterEnds
CHECK_DEADLOCK FALSE
