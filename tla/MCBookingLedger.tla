-------------------------- MODULE MCBookingLedger --------------------------
(* Bounds for BookingLedger: values for its constants. *)
EXTENDS BookingLedger

Change(field, value) == [NoEdit EXCEPT ![field] = value]

\* A price change, the status changes and the soft delete.
MCEdits ==
    {Change("price", 3), Change("deleted", TRUE)}
        \cup {Change("travelStatus", s) : s \in {"Booked", "Completed", "Cancelled"}}
=============================================================================
