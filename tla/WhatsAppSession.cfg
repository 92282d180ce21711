SPECIFICATION Spec
CONSTANTS
    Sockets = {s1, s2, s3}
    Calls = {c1, c2}
    MaxRequests = 2
    MaxIncidents = 1
    None = None
INVARIANTS
    MapNamesSocket
    RestIsReported
    DisconnectSticks
CHECK_DEADLOCK FALSE
PROPERTIES
    DialsEnd
