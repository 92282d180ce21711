CONSTANTS
    Tabs = {t1, t2}
    Requests = {r1, r2}
    Calls = {c1, c2}
    MaxLogins = 1
    MaxChanges = 2
    MaxPairs = 4
    MaxIncidents = 1
    None = None
SPECIFICATION Spec
CHECK_DEADLOCK FALSE
INVARIANTS SingleUse SilentRefresh ServerAgrees
PROPERTIES Settles
