SPECIFICATION Spec
CONSTANTS
    Keys <- MCKeys
    Values <- MCValues
    MaxMembers = 2
INVARIANT SameBytesSameObject
INVARIANT StringsSurvive
CHECK_DEADLOCK FALSE
