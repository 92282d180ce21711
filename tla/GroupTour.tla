----------------------------- MODULE GroupTour -----------------------------
(***************************************************************************)
(* One itinerary (a row of quotations), the bookings made from it, by its  *)
(* acceptance or by the booking form, one booking that was there before,   *)
(* and one group departure (a row of tour_batches) with its seats.         *)
(*                                                                         *)
(* A request runs one handler, cut at its awaits. updateBooking and        *)
(* updateBatch read a row, merge, and write every column back, so that a   *)
(* request may write back what it read long before. Of bookings: deleted,  *)
(* travel_status, batch_id, source_quotation_id and members are modelled;  *)
(* amounts, the timeline and the confirmation are in BookingLedger.        *)
(*                                                                         *)
(* Left out: customers and the warning of a duplicate booking, leads of a  *)
(* departure, the match of trip and date, which linked bookings pass.      *)
(***************************************************************************)
EXTENDS Naturals, FiniteSets

CONSTANTS
    Requests,     \* requests; a booking is named by the request that made it
    Other,        \* the booking that was there before
    Party,        \* the most travellers of a booking: a bound
    Capacities,   \* the numbers of seats a departure may have
    None

ASSUME TourConstants ==
    /\ IsFiniteSet(Requests) /\ Other \notin Requests
    /\ None \notin Requests \cup {Other} \cup {"Draft", "Accepted"}
    /\ Party \in Nat \ {0} /\ Capacities \subseteq Nat

VARIABLES
    quote,     \* the row of the itinerary: is it there, and its status
    booking,   \* the rows of bookings
    tour,      \* the row of the departure
    req,       \* each request: the handler it runs, where it is and what it holds
    overlap,   \* history: a booking was made, or was about to be, while an acceptance made one
    again,     \* history: an acceptance made a booking of an itinerary that had one
    detached,  \* history: the itinerary was entered as accepted, or lost a booking to the form
    late,      \* history: a use of the itinerary appeared after it was counted
    checked    \* history: bookings that were linked on free seats and took no more since

told == <<overlap, again, detached, late, checked>>
vars == <<quote, booking, tour, req, told>>

Bookings == Requests \cup {Other}
Statuses == {"Draft", "Accepted"}
Travel   == {"Booked", "Cancelled"}
Rows     == [there : BOOLEAN, live : BOOLEAN, travel : Travel, linked : BOOLEAN, source : BOOLEAN,
             members : 1 .. Party]
Tours    == [there : BOOLEAN, deleted : BOOLEAN, source : BOOLEAN, capacity : Nat]
Points   == {"new", "finding", "creating", "archiving", "withdrawing", "restoring",
             "writingBooking", "writingStatus", "counting", "countingTours", "countingBookings",
             "deleting", "seating", "assigning", "writingTour", "done"}

NoRow  == [there |-> FALSE, live |-> FALSE, travel |-> "Booked", linked |-> FALSE,
           source |-> FALSE, members |-> 1]
NoTour == [there |-> FALSE, deleted |-> FALSE, source |-> FALSE, capacity |-> 0]

\* to: the status a request wants, or None to keep what it read; target: the
\* booking it is about; row, tour: what it read or will write; left: the seats it
\* saw. History: taken, room: the seats that were really taken then, of how many.
NewRequest == [at |-> "new", to |-> None, status |-> "Draft", target |-> None, row |-> NoRow,
               tour |-> NoTour, force |-> FALSE, left |-> 0, taken |-> 0, room |-> 0]

RequestStates ==
    [at : Points, to : Statuses \cup {None}, status : Statuses, target : Bookings \cup {None},
     row : Rows, tour : Tours, force : BOOLEAN, left : Nat, taken : Nat, room : Nat]

TypeOK ==
    /\ quote \in [there : BOOLEAN, status : Statuses]
    /\ booking \in [Bookings -> Rows]
    /\ tour \in Tours
    /\ req \in [Requests -> RequestStates]
    /\ overlap \in BOOLEAN /\ again \in BOOLEAN /\ detached \in BOOLEAN /\ late \in BOOLEAN
    /\ checked \subseteq Bookings

\* createQuotation writes the status it is given. The departure is still to come,
\* or is there.
Init ==
    /\ quote \in [there : {TRUE}, status : Statuses]
    /\ \E members \in 1 .. Party :
          booking = [[b \in Bookings |-> NoRow]
                        EXCEPT ![Other] = [NoRow EXCEPT !.there = TRUE, !.live = TRUE, !.members = members]]
    /\ \/ tour = NoTour
       \/ tour \in [there : {TRUE}, deleted : {FALSE}, source : BOOLEAN, capacity : Capacities]
    /\ req = [r \in Requests |-> NewRequest]
    /\ overlap = FALSE /\ again = FALSE /\ detached = (quote.status = "Accepted") /\ late = FALSE
    /\ checked = {}

----------------------------------------------------------------------------

At(r, point) == req[r].at = point
Moves(r, to) == req' = [req EXCEPT ![r].at = to]

FromQuote(bs) == {b \in Bookings : bs[b].there /\ bs[b].source}
LiveFrom(bs) == {b \in FromQuote(bs) : bs[b].live}
TourLive(t) == t.there /\ ~t.deleted /\ t.source

\* The itinerary is used where it was not, when the count of such uses is taken.
Appears(bs, t) ==
    \/ /\ ~(LiveFrom(bs) \subseteq LiveFrom(booking))
       /\ ~quote.there \/ \E r \in Requests : req[r].at \in {"countingTours", "deleting"}
    \/ /\ TourLive(t) /\ ~TourLive(tour)
       /\ ~quote.there \/ \E r \in Requests : req[r].at \in {"countingBookings", "deleting"}

\* What a write of a row of bookings does to the histories: `keeps` are the
\* bookings that had their seats before.
Writes(bs, keeps) ==
    /\ overlap' = (overlap \/ (/\ ~(FromQuote(bs) \subseteq FromQuote(booking))
                               /\ \E q \in Requests : At(q, "creating")))
    /\ detached' = (detached \/ ~(FromQuote(booking) \subseteq FromQuote(bs)))
    /\ late' = (late \/ Appears(bs, tour))
    /\ checked' = checked \cap keeps

Aboard(b) == b.linked /\ b.live /\ b.travel = "Booked"

\* The travellers of some bookings who take a seat of the departure.
Passengers(bs, some) == {p \in some \X (1 .. Party) : Aboard(bs[p[1]]) /\ p[2] <= bs[p[1]].members}
\* What the departure really carries, whatever the query says.
Carries(bs) == Cardinality(Passengers(bs, Bookings))

SeatsByBooking(bs) ==                            \* mutant: a booking is one seat
    Cardinality({x \in Bookings : bs[x].linked /\ bs[x].live /\ bs[x].travel # "Cancelled"})
\* confirmed_seats: the members of bookings that are not archived or cancelled.
Seats(bs) == Cardinality({p \in Bookings \X (1 .. Party) :
                LET b == bs[p[1]]
                IN  b.linked /\ b.live /\ b.travel # "Cancelled" /\ p[2] <= b.members})

----------------------------------------------------------------------------
(* Itineraries: acceptQuotation, updateQuotation *)

\* Accept, or an edit that may set the status. The row is read.
Begin(r, to) ==
    /\ At(r, "new") /\ quote.there
    /\ req' = [req EXCEPT ![r].to = to, ![r].status = quote.status,
                          ![r].at = IF to # None /\ to # quote.status
                                      THEN IF to = "Accepted" THEN "finding" ELSE "withdrawing"
                                      ELSE "writingStatus"]
    /\ UNCHANGED <<quote, booking, tour, told>>

\* acceptQuotation looks for the booking whatever the status is.
Accept(r) ==
    /\ At(r, "new") /\ quote.there
    /\ req' = [req EXCEPT ![r].to = "Accepted", ![r].status = quote.status, ![r].at = "finding"]
    /\ UNCHANGED <<quote, booking, tour, told>>

FoundLive == LiveFrom(booking)                   \* mutant: archived bookings are not seen
\* getBookingBySourceQuotation: archived ones too; which one, if there are two,
\* nothing says.
Found == FromQuote(booking)

\* syncBookingForQuotation, up to updateBooking or createBooking.
Find(r) ==
    /\ At(r, "finding")
    /\ IF Found = {}
         THEN /\ Moves(r, "creating")
              /\ overlap' = (overlap \/ \E q \in Requests \ {r} : At(q, "creating"))
         ELSE /\ \E b \in Found :
                    req' = [req EXCEPT ![r].at = "restoring", ![r].target = b,
                                       ![r].row = [booking[b] EXCEPT !.live = TRUE, !.travel = "Booked"]]
              /\ UNCHANGED overlap
    /\ UNCHANGED <<quote, booking, tour, again, detached, late, checked>>

\* One traveller, whatever was asked for.
Create(r) ==
    /\ At(r, "creating")
    /\ booking' = [booking EXCEPT ![r] = [NoRow EXCEPT !.there = TRUE, !.live = TRUE, !.source = TRUE]]
    /\ again' = (again \/ FromQuote(booking) # {})
    /\ late' = (late \/ Appears(booking', tour))
    /\ Moves(r, "writingStatus")
    /\ UNCHANGED <<quote, tour, overlap, detached, checked>>

\* updateBooking reads the row again, and then takes all of the row above.
Restore(r) ==
    /\ At(r, "restoring")
    /\ Moves(r, "writingBooking")
    /\ UNCHANGED <<quote, booking, tour, told>>

\* Accepted before, and no more: softDeleteBooking, which reads the row again.
Withdraw(r) ==
    /\ At(r, "withdrawing")
    /\ IF Found = {}
         THEN Moves(r, "writingStatus")
         ELSE \E b \in Found : req' = [req EXCEPT ![r].at = "archiving", ![r].target = b]
    /\ UNCHANGED <<quote, booking, tour, told>>

Archive(r) ==
    /\ At(r, "archiving")
    /\ req' = [req EXCEPT ![r].at = "writingBooking",
                          ![r].row = [booking[req[r].target] EXCEPT !.live = FALSE]]
    /\ UNCHANGED <<quote, booking, tour, told>>

\* UPDATE bookings: every column, batch_id and source_quotation_id too; nobody
\* looks at the seats.
WriteBooking(r) ==
    /\ At(r, "writingBooking")
    /\ LET b == req[r].target
           row == req[r].row
       IN  /\ booking' = [booking EXCEPT ![b] = row]
           /\ Writes(booking', IF Aboard(booking[b]) /\ row.members <= booking[b].members
                                 THEN Bookings ELSE Bookings \ {b})
    /\ Moves(r, IF req[r].to = None THEN "done" ELSE "writingStatus")
    /\ UNCHANGED <<quote, tour, again>>

\* UPDATE quotations: every column, or no row when it has been deleted.
WriteStatus(r) ==
    /\ At(r, "writingStatus")
    /\ quote' = IF quote.there
                  THEN [quote EXCEPT !.status = IF req[r].to = None THEN req[r].status ELSE req[r].to]
                  ELSE quote
    /\ Moves(r, "done")
    /\ UNCHANGED <<booking, tour, told>>

----------------------------------------------------------------------------
(* Itineraries: deleteQuotation *)

BeginDelete(r) ==
    /\ At(r, "new") /\ quote.there
    /\ Moves(r, "counting")
    /\ UNCHANGED <<quote, booking, tour, told>>

UsedByBookingsNot == FALSE                       \* mutant: bookings are not looked at
\* countBySourceQuotation, of bookings and of departures.
UsedByBookings == LiveFrom(booking) # {}
UsedByTour == TourLive(tour)

\* Both are counted at once, each by a query of its own, in either order; an
\* itinerary in use is refused.
CountUses(r) ==
    /\ \/ At(r, "counting") /\ Moves(r, IF UsedByTour THEN "done" ELSE "countingBookings")
       \/ At(r, "counting") /\ Moves(r, IF UsedByBookings THEN "done" ELSE "countingTours")
       \/ At(r, "countingBookings") /\ Moves(r, IF UsedByBookings THEN "done" ELSE "deleting")
       \/ At(r, "countingTours") /\ Moves(r, IF UsedByTour THEN "done" ELSE "deleting")
    /\ UNCHANGED <<quote, booking, tour, told>>

Delete(r) ==
    /\ At(r, "deleting")
    /\ quote' = [quote EXCEPT !.there = FALSE]
    /\ Moves(r, "done")
    /\ UNCHANGED <<booking, tour, told>>

----------------------------------------------------------------------------
(* Bookings, made and edited by agents *)

\* What the booking form may say: any itinerary, any departure there is. A PUT
\* cannot set `deleted`, so nobody restores a booking by hand.
Forms == {row \in Rows : row.there /\ row.live /\ (row.linked => tour.there)}

\* createBooking, for POST /bookings and a converted lead: one INSERT.
Enter(r) ==
    /\ At(r, "new")
    /\ booking' \in {[booking EXCEPT ![r] = row] : row \in Forms}
    /\ Writes(booking', Bookings \ {r})
    /\ Moves(r, "done")
    /\ UNCHANGED <<quote, tour, again>>

\* updateBooking: the row is read; it is archived, or the form is merged over it.
EditBooking(r, b) ==
    /\ At(r, "new") /\ booking[b].there
    /\ \E row \in {[booking[b] EXCEPT !.live = FALSE]}
                 \cup {[form EXCEPT !.live = booking[b].live] : form \in Forms} :
          /\ row # booking[b]
          /\ req' = [req EXCEPT ![r].at = "writingBooking", ![r].target = b, ![r].row = row]
    /\ UNCHANGED <<quote, booking, tour, told>>

----------------------------------------------------------------------------
(* Departures *)

\* createBatch, from the itinerary or not.
CreateTour(r) ==
    /\ At(r, "new") /\ ~tour.there
    /\ tour' \in [there : {TRUE}, deleted : {FALSE}, source : BOOLEAN, capacity : Capacities]
    /\ late' = (late \/ Appears(booking, tour'))
    /\ Moves(r, "done")
    /\ UNCHANGED <<quote, booking, overlap, again, detached, checked>>

\* updateBatch and softDeleteBatch: the row is read, and written back.
EditTour(r) ==
    LET Merge(row) == req' = [req EXCEPT ![r].at = "writingTour", ![r].tour = row]
    IN  /\ At(r, "new") /\ tour.there
        /\ \/ Merge([tour EXCEPT !.deleted = TRUE])
           \/ \E source \in BOOLEAN, capacity \in Capacities :
                 Merge([tour EXCEPT !.source = source, !.capacity = capacity])
        /\ UNCHANGED <<quote, booking, tour, told>>

\* Fewer seats than before are not held against the bookings that have them.
WriteTour(r) ==
    /\ At(r, "writingTour")
    /\ tour' = req[r].tour
    /\ late' = (late \/ Appears(booking, tour'))
    /\ checked' = IF tour'.capacity < tour.capacity THEN {} ELSE checked
    /\ Moves(r, "done")
    /\ UNCHANGED <<quote, booking, overlap, again, detached>>

LeftFor(taken, capacity) == IF taken < capacity THEN capacity - taken ELSE 0

\* linkBooking: the departure is read with its seats.
Link(r, b, force) ==
    /\ At(r, "new") /\ tour.there /\ booking[b].there
    /\ req' = [req EXCEPT ![r].at = "seating", ![r].target = b, ![r].force = force,
                          ![r].left = LeftFor(Seats(booking), tour.capacity),
                          ![r].taken = Carries(booking), ![r].room = tour.capacity]
    /\ UNCHANGED <<quote, booking, tour, told>>

\* The booking is read, and refused when it does not fit, unless it is forced.
Seat(r) ==
    /\ At(r, "seating")
    /\ LET row == booking[req[r].target]
       IN  req' = [req EXCEPT ![r].row = row,
                              ![r].at = IF ~req[r].force /\ row.members > req[r].left
                                          THEN "done" ELSE "assigning"]
    /\ UNCHANGED <<quote, booking, tour, told>>

\* assignBookingToBatch: one column. The seats may have changed since they were
\* looked at.
Assign(r) ==
    /\ At(r, "assigning")
    /\ LET b == req[r].target
           asSeen == /\ Carries(booking) = req[r].taken /\ tour.capacity = req[r].room
                     /\ booking[b].members = req[r].row.members
       IN  /\ booking' = [booking EXCEPT ![b].linked = TRUE]
           /\ checked' = IF ~req[r].force /\ asSeen THEN checked \cup {b}
                         ELSE IF Aboard(booking[b]) THEN checked ELSE checked \ {b}
    /\ Moves(r, "done")
    /\ UNCHANGED <<quote, tour, overlap, again, detached, late>>

Unlink(r, b) ==
    /\ At(r, "new") /\ tour.there /\ booking[b].there
    /\ booking' = [booking EXCEPT ![b].linked = FALSE]
    /\ Moves(r, "done")
    /\ UNCHANGED <<quote, tour, told>>

----------------------------------------------------------------------------

\* A query fails or the process stops: the rest of the handler is not run.
Die(r) ==
    /\ ~At(r, "new") /\ ~At(r, "done")
    /\ Moves(r, "done")
    /\ UNCHANGED <<quote, booking, tour, told>>

Next ==
    \E r \in Requests :
        \/ Accept(r) \/ \E to \in Statuses \cup {None} : Begin(r, to)
        \/ Find(r) \/ Create(r) \/ Restore(r) \/ Withdraw(r) \/ Archive(r)
        \/ WriteBooking(r) \/ WriteStatus(r)
        \/ Enter(r)
        \/ BeginDelete(r) \/ CountUses(r) \/ Delete(r)
        \/ CreateTour(r) \/ EditTour(r) \/ WriteTour(r) \/ Seat(r) \/ Assign(r)
        \/ \E b \in Bookings : \/ EditBooking(r, b) \/ Unlink(r, b)
                               \/ \E force \in BOOLEAN : Link(r, b, force)
        \/ Die(r)

Spec == Init /\ [][Next]_vars

----------------------------------------------------------------------------
(* Properties *)

\* An itinerary has one booking of its acceptances, however often it is accepted,
\* withdrawn and accepted again: an acceptance makes no second one, by whatever
\* way the first was made, unless that one came after it had looked. And an
\* accepted itinerary has a booking, whatever fails on the way, as the status is
\* written last; unless it was entered as accepted, or the form took the booking
\* away from it.
OneBookingEach ==
    /\ TypeOK
    /\ again => overlap
    /\ quote.status = "Accepted" => FromQuote(booking) # {} \/ detached

\* "An itinerary that's still powering a live Group Tour batch or a booking can't
\* be silently deleted": unless the use appeared behind the count's back.
UsedIsKept == ~quote.there /\ ~late => LiveFrom(booking) = {} /\ ~TourLive(tour)

\* linkBooking overbooks nobody: a departure carries more than it has seats for
\* only while someone is aboard whose link was forced, crossed by another change
\* of the seats, or not made by linkBooking (the booking form, a booking that is
\* restored), or who was there when the capacity was lowered.
SeatsFit ==
    (\A b \in Bookings : Aboard(booking[b]) => b \in checked) => Carries(booking) <= tour.capacity
=============================================================================
