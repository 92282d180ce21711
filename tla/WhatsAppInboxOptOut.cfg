CONSTANTS
    Messages = {m1, m2, stop}
    Stops = {stop}
    Web = {m2}
    Jobs = {j1, j2}
    Limit = 2
    MaxDeliveries = 2
    MaxRequests = 2
    MaxIncidents = 0
SPECIFICATION Spec
CHECK_DEADLOCK FALSE
INVARIANTS OptOutStands
