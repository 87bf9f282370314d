SPECIFICATION Spec
CONSTANTS
    None = None
    Dests = {1, 2}
    Headers <- MCHeaders
    Metas <- MCMetas
    Contents <- MCContents
    MaxSent = 2
    MaxHops = 2
INVARIANT OpenedAsSealed
INVARIANT SameHeaderOpens
CHECK_DEADLOCK FALSE
