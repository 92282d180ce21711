SPECIFICATION Spec
CONSTANTS
    Sockets = {s1, s2, s3}
    Calls = {c1, c2}
    MaxRequests = 2
    MaxIncidents = 0
    None = None
INVARIANTS
    NewestIsKept
CHECK_DEADLOCK FALSE
