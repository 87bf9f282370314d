SPECIFICATION Spec
CONSTANTS
    None = None
    DEFAULT_REKEY_MSG_BOUND = 2
    DEFAULT_REKEY_AGE_SECONDS = 1
    NHosts = 2
    DamageKinds = {"len", "ct", "wrapped"}
    MaxEpoch = 2
    MaxMessages = 3
    MaxClock = 1
    MaxKeys = 3
INVARIANT TypeOK
INVARIANT RosterOnly
INVARIANT MembersAgree
INVARIANT SenderKeysOnce
INVARIANT GroupBudget
