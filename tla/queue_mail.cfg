SPECIFICATION Spec
CONSTANTS
    None = None
    Base64Url <- MCBase64
    QUEUE_ID_LEN = 2
    queue_id <- MCQueueId
    Name <- MCName
    HybridHosts = {1, 2}
    Relays <- MCRelays
    StrayChars = {"A", "/", "*"}
    MaxDraws = 8
    MaxQueues = 2
    MaxAltered = 1
    MaxSent = 2
    MaxHops = 2
INVARIANT AcceptedAsSent
INVARIANT IntactMailOpens
INVARIANT AddressesExact
CHECK_DEADLOCK FALSE
