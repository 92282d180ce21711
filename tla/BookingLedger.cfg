SPECIFICATION Spec
CONSTANTS
    Requests = {r1, r2, r3, r4}
    Creator = r1
    Amounts = {0, 2}
    Advances = {1}
    Members = {1}
    Prices = {2}
    FirstStatuses = {"Confirming"}
    Edits <- MCEdits
    NoBooking = NoBooking
    Nobody = Nobody
    Unset = Unset
INVARIANTS
    HistoryExplainsStatus
    CompletedWasBooked
PROPERTIES
    OnlyStaleEditsUnbalance
    OnlySyncOrStaleRevives
    ImplementsAccount
    Answered
