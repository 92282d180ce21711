CONSTANTS
    Requests = {r1, r2, r3}
    Other = other
    Party = 2
    Capacities = {1, 2}
    None = None
SPECIFICATION Spec
SYMMETRY Symmetry
CHECK_DEADLOCK FALSE
INVARIANTS OneBookingEach UsedIsKept SeatsFit
