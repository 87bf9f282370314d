SPECIFICATION Spec
CONSTANTS
    None = None
    Alice = Alice
    Bob = Bob
    Senders = {Alice}
    RekeyMsgBound = 2
    RekeyAge = 1
    KAM_REPEAT = 2
    DamageKinds = {"body", "index", "kam_ct", "kam_len"}
    StaleRestore = FALSE
    EncryptMayFail = TRUE
    MaxDraws = 11
    MaxClock = 1
    MaxKeys = 2
INVARIANT TypeOK
INVARIANT SeenEpochOpens
INVARIANT EpochBudget
INVARIANT OneFramePerKey
INVARIANT KamMatchesBody
PROPERTY PromiseKept
