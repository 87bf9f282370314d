SPECIFICATION Spec
CONSTANTS
    None = None
    Alice = Alice
    Bob = Bob
    Senders = {Alice, Bob}
    RekeyMsgBound = 2
    RekeyAge = 1
    KAM_REPEAT = 2
    DamageKinds = {}
    StaleRestore = FALSE
    EncryptMayFail = FALSE
    MaxDraws = 8
    MaxClock = 0
    MaxKeys = 1
INVARIANT SeenEpochOpens
