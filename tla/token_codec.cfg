SPECIFICATION Spec
CONSTANTS
    None = None
    Byte = 4
    U64_LEN = 1
    U32_LEN = 2
    U64_RANGE = 4
    U32_RANGE = 16
    u64_bytes <- MCu64
    u32_bytes <- MCu32
    UsizeRange = 256
    Frames <- MCFrames
    MaxDamage = 2
INVARIANT RoundTripExact
INVARIANT AcceptedIsCanonical
INVARIANT NeverCrashes
CHECK_DEADLOCK FALSE
