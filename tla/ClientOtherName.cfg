SPECIFICATION Spec
CONSTANTS
    alice = alice
    bob = bob
    Alice_ = Alice_
    alice_ = alice_
    bob_ = bob_
    None = None
    Username = {alice, bob}
    Spelling = {Alice_, alice_, bob_}
    Account <- AccountOf
    MaxRetries = 1
    BaseDelay = 1
    MaxDelay = 3
    MaxChat = 1
INVARIANT NicknameAgrees
CHECK_DEADLOCK FALSE
