SPECIFICATION Spec
CONSTANTS
    t1 = t1
    t2 = t2
    t3 = t3
    alice = alice
    bob = bob
    eve = eve
    None = None
    Partial = Partial
    Thread = {t1, t2, t3}
    Username = {alice, bob, eve}
    Nickname = {alice, bob}
    Role = {"admin", "moderator", "user"}
    Request <- Requests
    InitialUsers <- LegacyAlice
    DiskErrors = TRUE
    MaxCalls = 3
INVARIANTS StoreTypeOK CopyCurrent
PROPERTIES Linearizable CallsReturn
CHECK_DEADLOCK FALSE
