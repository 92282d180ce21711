SPECIFICATION Spec
CONSTANTS
    Requests = {r1, r2, r3, r4}
    Members = {m1, m2}
    Stages = {"New", "Contacted", "Won"}
    FirstStage = "New"
    Updates <- MCUpdates
    Nobody = Nobody
    Unset = Unset
SYMMETRY Symmetry
INVARIANTS
    ClaimKept
    LinkIsBooked
    OneBooking
    TimelineTellsStage
CHECK_DEADLOCK FALSE
