SPECIFICATION Spec
CONSTANTS
    AutoRuns = {a1, a2}
    ManualRuns = {m1}
    Contact = {"whatsapp", "email"}
    LastDay = 1
    MaxIncidents = 2
INVARIANTS
    NoDoubleReminder
    RecordTruthful
PROPERTIES
    NoRepeat
    ClaimResolved
CHECK_DEADLOCK FALSE
