SPECIFICATION Spec
CONSTANTS
    alice = alice
    bob = bob
    Alice_ = Alice_
    alice_ = alice_
    bob_ = bob_
    None = None
    Username = {alice, bob}
    Spelling = {Alice_, alice_, bob_}
    Account <- AccountOf
    MaxRetries = 3
    BaseDelay = 1
    MaxDelay = 3
    MaxChat = 2
INVARIANTS ClientTypeOK LoginGenuine
PROPERTIES ConnectEnds AnsweredBeforeLogin LossIsNoticed
CHECK_DEADLOCK FALSE
