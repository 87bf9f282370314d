SPECIFICATION FairSpec
CONSTANTS
    None = None
    Alice = Alice
    Bob = Bob
    Senders = {Alice}
    RekeyMsgBound = 4
    RekeyAge = 1
    KAM_REPEAT = 3
    DamageKinds = {"body", "kam_ct", "kam_len"}
    StaleRestore = FALSE
    EncryptMayFail = FALSE
    MaxDraws = 18
    MaxClock = 0
    MaxKeys = 1
    MaxEpoch = 1
    MaxIndex = 3
    MayLose <- MCMayLose
PROPERTY LateFramesOpen
INVARIANT AnyBindingReads
INVARIANT AnyBindingWraps
