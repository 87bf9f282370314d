SPECIFICATION Spec
CONSTANTS
    None = None
    Alice = Alice
    Bob = Bob
    Senders = {Alice, Bob}
    RekeyMsgBound = 2
    RekeyAge = 1
    KAM_REPEAT = 2
    DamageKinds = {"epoch"}
    StaleRestore = TRUE
    EncryptMayFail = FALSE
    MaxDraws = 9
    MaxClock = 0
    MaxKeys = 2
INVARIANT EpochIndependence
INVARIANT RestoreIsExact
INVARIANT KamMatchesBody
