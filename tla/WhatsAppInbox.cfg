CONSTANTS
    Messages = {m1, m2, stop}
    Stops = {stop}
    Web = {m2}
    Jobs = {j1, j2}
    Limit = 2
    MaxDeliveries = 2
    MaxRequests = 2
    MaxIncidents = 1
SPECIFICATION Spec
CHECK_DEADLOCK FALSE
INVARIANTS OneWriter AnsweredOnce AckedIsStored ForPeopleStartsNone BurstAnswered
PROPERTIES WriterFinishes
