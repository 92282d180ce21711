-------------------------- MODULE GroupTourProofs --------------------------
(***************************************************************************)
(* What GroupTour promises for any number of requests, any party and any   *)
(* capacities, checked by the TLA+ proof system.                           *)
(***************************************************************************)
EXTENDS GroupTour, FiniteSetTheorems, TLAPS

\* A request that will write to a booking found it there, and writes it as one
\* that is there. What an acceptance writes to a booking is a booking of the
\* itinerary. One that has not begun wants nothing.
Targets ==
    \A r \in Requests :
        /\ At(r, "new") => req[r].to = None
        /\ At(r, "finding") => req[r].to = "Accepted"
        /\ req[r].at \in {"withdrawing", "archiving"} => req[r].to = "Draft"
        /\ req[r].at \in {"restoring", "archiving", "writingBooking", "seating", "assigning"} =>
              req[r].target \in Bookings /\ booking[req[r].target].there
        /\ req[r].at \in {"restoring", "writingBooking"} => req[r].row.there
        /\ At(r, "restoring") \/ (At(r, "writingBooking") /\ req[r].to = "Accepted") => req[r].row.source
        /\ At(r, "writingTour") => req[r].tour.there

WritesStatus(r) == IF req[r].to = None THEN req[r].status ELSE req[r].to

\* The status is written last: whoever writes "Accepted" left a booking behind.
StatusLast ==
    detached \/ FromQuote(booking) # {} \/
        /\ quote.status # "Accepted"
        /\ \A r \in Requests : At(r, "writingStatus") => WritesStatus(r) # "Accepted"

\* Unless a booking came in between, one acceptance at a time makes a booking,
\* and the itinerary has none.
OneCreates ==
    ~overlap =>
        /\ ~again
        /\ \A q, r \in Requests : At(q, "creating") /\ At(r, "creating") => q = r
        /\ \A r \in Requests : At(r, "creating") => FromQuote(booking) = {}

\* Nobody deletes an itinerary that is in use; what one count has seen stays.
DeletesUnused ==
    ~late =>
        /\ ~quote.there \/ (\E r \in Requests : At(r, "deleting")) => LiveFrom(booking) = {} /\ ~TourLive(tour)
        /\ (\E r \in Requests : At(r, "countingTours")) => LiveFrom(booking) = {}
        /\ (\E r \in Requests : At(r, "countingBookings")) => ~TourLive(tour)

\* A link that is made was forced, or fits the seats that were seen.
SeesSeats ==
    \A r \in Requests : req[r].at \in {"seating", "assigning"} =>
        /\ req[r].left = LeftFor(req[r].taken, req[r].room)
        /\ At(r, "assigning") => req[r].force \/ req[r].row.members <= req[r].left

\* Those who were linked on free seats have them.
SeatsHeld ==
    /\ Cardinality(Passengers(booking, checked)) <= tour.capacity
    /\ ~tour.there => tour.capacity = 0

IInv == TypeOK /\ Targets /\ StatusLast /\ OneCreates /\ DeletesUnused /\ SeesSeats /\ SeatsHeld

----------------------------------------------------------------------------
(* Lemmas about seats *)

\* The passengers of some bookings can be counted.
LEMMA PassengersNat ==
    ASSUME NEW bs, NEW some \in SUBSET Bookings
    PROVE  IsFiniteSet(Passengers(bs, some)) /\ Cardinality(Passengers(bs, some)) \in Nat
<1>1. IsFiniteSet(Bookings)
  BY TourConstants, FS_AddElement DEF Bookings
<1>2. IsFiniteSet(1 .. Party)
  BY TourConstants, FS_Interval
<1>3. IsFiniteSet(Bookings \X (1 .. Party))
  BY <1>1, <1>2, FS_Product
<1>4. Passengers(bs, some) \in SUBSET (Bookings \X (1 .. Party))
  BY DEF Passengers
<1>5. IsFiniteSet(Passengers(bs, some))
  BY <1>3, <1>4, FS_Subset
<1> QED
  BY <1>5, FS_CardinalityType

\* The query counts what the departure carries.
LEMMA SeatsCarries ==
    ASSUME NEW bs \in [Bookings -> Rows]
    PROVE  Seats(bs) = Carries(bs) /\ Carries(bs) \in Nat
<1>1. \A b \in Bookings : bs[b].travel \in {"Booked", "Cancelled"}
  BY DEF Rows, Travel
<1>2. {p \in Bookings \X (1 .. Party) :
          LET b == bs[p[1]]
          IN  b.linked /\ b.live /\ b.travel # "Cancelled" /\ p[2] <= b.members} = Passengers(bs, Bookings)
  BY <1>1 DEF Passengers, Aboard
<1> QED
  BY <1>2, PassengersNat DEF Seats, Carries

\* Fewer aboard, with no larger parties, are no more passengers.
LEMMA PassengersLess ==
    ASSUME NEW bs \in [Bookings -> Rows], NEW cs \in [Bookings -> Rows],
           NEW many \in SUBSET Bookings, NEW some \in SUBSET Bookings,
           \A x \in some : Aboard(cs[x]) => x \in many /\ Aboard(bs[x]) /\ cs[x].members <= bs[x].members
    PROVE  Cardinality(Passengers(cs, some)) <= Cardinality(Passengers(bs, many))
<1>1. \A x \in Bookings : bs[x].members \in Nat /\ cs[x].members \in Nat
  BY TourConstants DEF Rows
<1>2. Passengers(cs, some) \in SUBSET Passengers(bs, many)
  <2> SUFFICES ASSUME NEW p \in Passengers(cs, some)
               PROVE  p \in Passengers(bs, many)
    OBVIOUS
  <2>1. /\ p \in some \X (1 .. Party) /\ Aboard(cs[p[1]]) /\ p[2] <= cs[p[1]].members
        /\ p[1] \in some /\ p[2] \in 1 .. Party
    BY DEF Passengers
  <2>2. /\ p[1] \in many /\ Aboard(bs[p[1]]) /\ cs[p[1]].members <= bs[p[1]].members
        /\ p[2] \in Nat /\ bs[p[1]].members \in Nat /\ cs[p[1]].members \in Nat
    BY <2>1, <1>1, TourConstants
  <2>3. p[2] <= bs[p[1]].members
    BY <2>1, <2>2
  <2>4. p \in many \X (1 .. Party)
    BY <2>1, <2>2
  <2> QED
    BY <2>2, <2>3, <2>4 DEF Passengers
<1> QED
  BY <1>2, PassengersNat, FS_Subset

\* Linking a booking takes the seats of its travellers at most.
LEMMA PassengersOne ==
    ASSUME NEW bs \in [Bookings -> Rows], NEW b \in Bookings
    PROVE  Carries([bs EXCEPT ![b].linked = TRUE]) <= Carries(bs) + bs[b].members
<1> DEFINE cs   == [bs EXCEPT ![b].linked = TRUE]
           had  == Passengers(bs, Bookings)
           has  == Passengers(cs, Bookings)
           more == {b} \X (1 .. bs[b].members)
<1>0. bs[b].members \in Nat /\ bs[b].members <= Party /\ Party \in Nat
  BY TourConstants DEF Rows
<1>1. IsFiniteSet({b}) /\ Cardinality({b}) = 1
  BY FS_Singleton
<1>2. IsFiniteSet(1 .. bs[b].members) /\ Cardinality(1 .. bs[b].members) = bs[b].members
  <2>1. \A m \in Nat : IsFiniteSet(1 .. m) /\ Cardinality(1 .. m) = m
    BY FS_Interval
  <2> QED
    BY <1>0, <2>1
<1>3. IsFiniteSet(more) /\ Cardinality(more) = bs[b].members
  <2>1. IsFiniteSet(more) /\ Cardinality(more) = Cardinality({b}) * Cardinality(1 .. bs[b].members)
    BY <1>1, <1>2, FS_Product
  <2> QED
    BY <2>1, <1>1, <1>2, <1>0
<1>4. has \in SUBSET (had \cup more)
  <2> SUFFICES ASSUME NEW p \in has, p \notin had
               PROVE  p \in more
    OBVIOUS
  <2>1. /\ p \in Bookings \X (1 .. Party) /\ p[1] \in Bookings /\ p[2] \in 1 .. Party
        /\ Aboard(cs[p[1]]) /\ p[2] <= cs[p[1]].members
    BY DEF Passengers
  <2>2. p[1] # b => cs[p[1]] = bs[p[1]]
    BY <2>1
  <2>3. p[1] = b
    BY <2>1, <2>2 DEF Passengers
  <2>4. cs[b].members = bs[b].members
    BY DEF Rows
  <2>5. p[2] \in 1 .. bs[b].members
    BY <2>1, <2>3, <2>4, <1>0
  <2> QED
    BY <2>1, <2>3, <2>5
<1>5. /\ IsFiniteSet(had) /\ Cardinality(had) \in Nat
      /\ IsFiniteSet(has) /\ Cardinality(has) \in Nat
  BY PassengersNat
<1>6. /\ IsFiniteSet(had \cup more) /\ IsFiniteSet(had \cap more)
      /\ Cardinality(had \cup more) = Cardinality(had) + Cardinality(more) - Cardinality(had \cap more)
  BY <1>5, <1>3, FS_Union, FS_Intersection
<1>7. Cardinality(had \cap more) \in Nat /\ Cardinality(had \cup more) \in Nat
  BY <1>6, FS_CardinalityType
<1>8. Cardinality(has) <= Cardinality(had \cup more)
  BY <1>4, <1>6, FS_Subset
<1>9. Cardinality(has) <= Cardinality(had) + bs[b].members
  BY <1>0, <1>3, <1>5, <1>6, <1>7, <1>8
<1> QED
  BY <1>9 DEF Carries

----------------------------------------------------------------------------
(* Steps *)

\* The types are kept.
LEMMA TypeNext ==
    ASSUME TypeOK, Targets, [Next]_vars
    PROVE  TypeOK'
<1>1. ASSUME NEW r \in Requests, NEW to \in Statuses \cup {None}, Begin(r, to)
      PROVE  TypeOK'
  <2> DEFINE at == IF to # None /\ to # quote.status
                     THEN IF to = "Accepted" THEN "finding" ELSE "withdrawing"
                     ELSE "writingStatus"
             rec == [req[r] EXCEPT !.to = to, !.status = quote.status, !.at = at]
  <2>1. quote.status \in Statuses /\ req[r] \in RequestStates
    BY DEF TypeOK
  <2>2. at \in Points
    BY DEF Points
  <2>3. rec \in RequestStates
    BY <2>1, <2>2 DEF RequestStates
  <2>4. req' = [req EXCEPT ![r] = rec]
    BY <1>1 DEF Begin, TypeOK
  <2>5. req' \in [Requests -> RequestStates]
    BY <2>3, <2>4 DEF TypeOK
  <2> QED
    BY <1>1, <2>5 DEF Begin, TypeOK, told
<1>2. ASSUME NEW r \in Requests, Accept(r)
      PROVE  TypeOK'
  <2>1. req' = [req EXCEPT ![r].to = "Accepted", ![r].status = quote.status, ![r].at = "finding"]
    BY <1>2 DEF Accept
  <2> DEFINE rec == [req[r] EXCEPT !.to = "Accepted", !.status = quote.status, !.at = "finding"]
  <2>2. req[r] \in RequestStates /\ quote.status \in Statuses
    BY DEF TypeOK
  <2>3. rec \in RequestStates
    BY <2>1, <2>2 DEF RequestStates, Points, Statuses
  <2>4. req' = [req EXCEPT ![r] = rec]
    BY <2>1 DEF TypeOK
  <2>5. req' \in [Requests -> RequestStates]
    BY <2>3, <2>4 DEF TypeOK
  <2>6. UNCHANGED <<quote, booking, tour, overlap, again, detached, late, checked>>
    BY <1>2 DEF Accept, told
  <2> QED
    BY <2>5, <2>6 DEF TypeOK
<1>3. ASSUME NEW r \in Requests, Find(r)
      PROVE  TypeOK'
  <2>1. \/ Moves(r, "creating")
        \/ \E b \in Bookings, row \in Rows :
              req' = [req EXCEPT ![r].at = "restoring", ![r].target = b, ![r].row = row]
    <3>1. Found \subseteq Bookings
      BY DEF Found, FromQuote
    <3>2. \A b \in Bookings : [booking[b] EXCEPT !.live = TRUE, !.travel = "Booked"] \in Rows
      BY DEF TypeOK, Rows, Travel
    <3> QED
      BY <1>3, <3>1, <3>2 DEF Find
  <2>2. req' \in [Requests -> RequestStates]
    <3>1. CASE Moves(r, "creating")
      BY <3>1 DEF Moves, TypeOK, RequestStates, Points
    <3>2. ASSUME NEW b \in Bookings, NEW row \in Rows,
                 req' = [req EXCEPT ![r].at = "restoring", ![r].target = b, ![r].row = row]
          PROVE  req' \in [Requests -> RequestStates]
      <4>1. req[r] \in RequestStates
        BY DEF TypeOK
      <4>2. req' = [req EXCEPT ![r] = [req[r] EXCEPT !.at = "restoring", !.target = b, !.row = row]]
        BY <3>2 DEF TypeOK
      <4>3. [req[r] EXCEPT !.at = "restoring", !.target = b, !.row = row] \in RequestStates
        BY <3>2, <4>1 DEF RequestStates, Points
      <4> QED
        BY <4>2, <4>3 DEF TypeOK
    <3> QED
      BY <2>1, <3>1, <3>2
  <2>3. UNCHANGED <<quote, booking, tour, again, detached, late, checked>> /\ overlap' \in BOOLEAN
    BY <1>3 DEF Find, TypeOK
  <2> QED
    BY <2>2, <2>3 DEF TypeOK
<1>4. ASSUME NEW r \in Requests, Create(r)
      PROVE  TypeOK'
  <2>1. req' \in [Requests -> RequestStates]
    BY <1>4 DEF Create, Moves, TypeOK, RequestStates, Points
  <2>2. booking' \in [Bookings -> Rows]
      <3>1. NoRow \in Rows
      BY TourConstants DEF NoRow, Rows, Travel
    <3>2. [NoRow EXCEPT !.there = TRUE, !.live = TRUE, !.source = TRUE] \in Rows
      BY <3>1 DEF Rows
    <3> QED
      BY <1>4, <3>2 DEF Create, TypeOK, Bookings
  <2>3. quote' \in [there : BOOLEAN, status : Statuses]
    BY <1>4 DEF Create, TypeOK
  <2>4. tour' \in Tours
    BY <1>4 DEF Create, TypeOK
  <2>5. /\ overlap' \in BOOLEAN /\ again' \in BOOLEAN /\ detached' \in BOOLEAN /\ late' \in BOOLEAN
        /\ checked' \subseteq Bookings
    BY <1>4 DEF Create, Writes, TypeOK
  <2> QED
    BY <2>1, <2>2, <2>3, <2>4, <2>5 DEF TypeOK
<1>5. ASSUME NEW r \in Requests, Restore(r)
      PROVE  TypeOK'
  BY <1>5 DEF Restore, Moves, TypeOK, RequestStates, Points, told
<1>6. ASSUME NEW r \in Requests, Withdraw(r)
      PROVE  TypeOK'
  <2>1. \/ Moves(r, "writingStatus")
        \/ \E b \in Bookings : req' = [req EXCEPT ![r].at = "archiving", ![r].target = b]
    BY <1>6 DEF Withdraw, Found, FromQuote
  <2>2. req' \in [Requests -> RequestStates]
    BY <2>1 DEF Moves, TypeOK, RequestStates, Points
  <2> QED
    BY <1>6, <2>2 DEF Withdraw, TypeOK, told
<1>7. ASSUME NEW r \in Requests, Archive(r)
      PROVE  TypeOK'
  <2>1. PICK row \in Rows :
           req' = [req EXCEPT ![r].at = "writingBooking", ![r].row = row]
    <3>1. [booking[req[r].target] EXCEPT !.live = FALSE] \in Rows
      BY <1>7 DEF Archive, At, Targets, TypeOK, Rows
    <3> QED
      BY <1>7, <3>1 DEF Archive
  <2> DEFINE rec == [req[r] EXCEPT !.at = "writingBooking", !.row = row]
  <2>2. req[r] \in RequestStates
    BY DEF TypeOK
  <2>3. rec \in RequestStates
    BY <2>1, <2>2 DEF RequestStates, Points, Statuses
  <2>4. req' = [req EXCEPT ![r] = rec]
    BY <2>1 DEF TypeOK
  <2>5. req' \in [Requests -> RequestStates]
    BY <2>3, <2>4 DEF TypeOK
  <2>6. UNCHANGED <<quote, booking, tour, overlap, again, detached, late, checked>>
    BY <1>7 DEF Archive, told
  <2> QED
    BY <2>5, <2>6 DEF TypeOK
<1>8. ASSUME NEW r \in Requests, WriteBooking(r)
      PROVE  TypeOK'
  <2>1. req' \in [Requests -> RequestStates]
    BY <1>8 DEF WriteBooking, Moves, TypeOK, RequestStates, Points
  <2>2. booking' \in [Bookings -> Rows]
    BY <1>8 DEF WriteBooking, TypeOK, RequestStates
  <2>3. quote' \in [there : BOOLEAN, status : Statuses]
    BY <1>8 DEF WriteBooking, TypeOK
  <2>4. tour' \in Tours
    BY <1>8 DEF WriteBooking, TypeOK
  <2>5. /\ overlap' \in BOOLEAN /\ again' \in BOOLEAN /\ detached' \in BOOLEAN /\ late' \in BOOLEAN
        /\ checked' \subseteq Bookings
    BY <1>8 DEF WriteBooking, Writes, TypeOK
  <2> QED
    BY <2>1, <2>2, <2>3, <2>4, <2>5 DEF TypeOK
<1>9. ASSUME NEW r \in Requests, WriteStatus(r)
      PROVE  TypeOK'
  <2>1. req' \in [Requests -> RequestStates]
    BY <1>9 DEF WriteStatus, Moves, TypeOK, RequestStates, Points
  <2>2. booking' \in [Bookings -> Rows]
    BY <1>9 DEF WriteStatus, TypeOK
  <2>3. quote' \in [there : BOOLEAN, status : Statuses]
    BY <1>9 DEF WriteStatus, TypeOK, RequestStates, Statuses
  <2>4. tour' \in Tours
    BY <1>9 DEF WriteStatus, TypeOK
  <2>5. /\ overlap' \in BOOLEAN /\ again' \in BOOLEAN /\ detached' \in BOOLEAN /\ late' \in BOOLEAN
        /\ checked' \subseteq Bookings
    BY <1>9 DEF WriteStatus, TypeOK, told
  <2> QED
    BY <2>1, <2>2, <2>3, <2>4, <2>5 DEF TypeOK
<1>10. ASSUME NEW r \in Requests, Enter(r)
      PROVE  TypeOK'
  <2>1. req' \in [Requests -> RequestStates]
    BY <1>10 DEF Enter, Moves, TypeOK, RequestStates, Points
  <2>2. booking' \in [Bookings -> Rows]
    BY <1>10 DEF Enter, TypeOK, Forms
  <2>3. quote' \in [there : BOOLEAN, status : Statuses]
    BY <1>10 DEF Enter, TypeOK
  <2>4. tour' \in Tours
    BY <1>10 DEF Enter, TypeOK
  <2>5. /\ overlap' \in BOOLEAN /\ again' \in BOOLEAN /\ detached' \in BOOLEAN /\ late' \in BOOLEAN
        /\ checked' \subseteq Bookings
    BY <1>10 DEF Enter, Writes, TypeOK
  <2> QED
    BY <2>1, <2>2, <2>3, <2>4, <2>5 DEF TypeOK
<1>11. ASSUME NEW r \in Requests, BeginDelete(r)
      PROVE  TypeOK'
  BY <1>11 DEF BeginDelete, Moves, TypeOK, RequestStates, Points, told
<1>12. ASSUME NEW r \in Requests, CountUses(r)
      PROVE  TypeOK'
  BY <1>12 DEF CountUses, Moves, TypeOK, RequestStates, Points, told
<1>13. ASSUME NEW r \in Requests, Delete(r)
      PROVE  TypeOK'
  <2>1. req' \in [Requests -> RequestStates]
    BY <1>13 DEF Delete, Moves, TypeOK, RequestStates, Points
  <2>2. booking' \in [Bookings -> Rows]
    BY <1>13 DEF Delete, TypeOK
  <2>3. quote' \in [there : BOOLEAN, status : Statuses]
    BY <1>13 DEF Delete, TypeOK
  <2>4. tour' \in Tours
    BY <1>13 DEF Delete, TypeOK
  <2>5. /\ overlap' \in BOOLEAN /\ again' \in BOOLEAN /\ detached' \in BOOLEAN /\ late' \in BOOLEAN
        /\ checked' \subseteq Bookings
    BY <1>13 DEF Delete, TypeOK, told
  <2> QED
    BY <2>1, <2>2, <2>3, <2>4, <2>5 DEF TypeOK
<1>14. ASSUME NEW r \in Requests, CreateTour(r)
      PROVE  TypeOK'
  <2>1. req' \in [Requests -> RequestStates]
    BY <1>14 DEF CreateTour, Moves, TypeOK, RequestStates, Points
  <2>2. booking' \in [Bookings -> Rows]
    BY <1>14 DEF CreateTour, TypeOK
  <2>3. quote' \in [there : BOOLEAN, status : Statuses]
    BY <1>14 DEF CreateTour, TypeOK
  <2>4. tour' \in Tours
    BY <1>14, TourConstants DEF CreateTour, Tours
  <2>5. /\ overlap' \in BOOLEAN /\ again' \in BOOLEAN /\ detached' \in BOOLEAN /\ late' \in BOOLEAN
        /\ checked' \subseteq Bookings
    BY <1>14 DEF CreateTour, TypeOK
  <2> QED
    BY <2>1, <2>2, <2>3, <2>4, <2>5 DEF TypeOK
<1>15. ASSUME NEW r \in Requests, EditTour(r)
      PROVE  TypeOK'
  <2>1. PICK row \in Tours :
           req' = [req EXCEPT ![r].at = "writingTour", ![r].tour = row]
    <3>1. [tour EXCEPT !.deleted = TRUE] \in Tours
      BY DEF TypeOK, Tours
    <3>2. ASSUME NEW source \in BOOLEAN, NEW capacity \in Capacities
          PROVE  [tour EXCEPT !.source = source, !.capacity = capacity] \in Tours
      BY TourConstants DEF TypeOK, Tours
    <3> QED
      BY <1>15, <3>1, <3>2 DEF EditTour
  <2> DEFINE rec == [req[r] EXCEPT !.at = "writingTour", !.tour = row]
  <2>2. req[r] \in RequestStates
    BY DEF TypeOK
  <2>3. rec \in RequestStates
    BY <2>1, <2>2 DEF RequestStates, Points, Statuses
  <2>4. req' = [req EXCEPT ![r] = rec]
    BY <2>1 DEF TypeOK
  <2>5. req' \in [Requests -> RequestStates]
    BY <2>3, <2>4 DEF TypeOK
  <2>6. UNCHANGED <<quote, booking, tour, overlap, again, detached, late, checked>>
    BY <1>15 DEF EditTour, told
  <2> QED
    BY <2>5, <2>6 DEF TypeOK
<1>16. ASSUME NEW r \in Requests, WriteTour(r)
      PROVE  TypeOK'
  <2>1. req' \in [Requests -> RequestStates]
    BY <1>16 DEF WriteTour, Moves, TypeOK, RequestStates, Points
  <2>2. booking' \in [Bookings -> Rows]
    BY <1>16 DEF WriteTour, TypeOK
  <2>3. quote' \in [there : BOOLEAN, status : Statuses]
    BY <1>16 DEF WriteTour, TypeOK
  <2>4. tour' \in Tours
    BY <1>16 DEF WriteTour, TypeOK, RequestStates
  <2>5. /\ overlap' \in BOOLEAN /\ again' \in BOOLEAN /\ detached' \in BOOLEAN /\ late' \in BOOLEAN
        /\ checked' \subseteq Bookings
    BY <1>16 DEF WriteTour, TypeOK
  <2> QED
    BY <2>1, <2>2, <2>3, <2>4, <2>5 DEF TypeOK
<1>17. ASSUME NEW r \in Requests, Seat(r)
      PROVE  TypeOK'
  <2> DEFINE row == booking[req[r].target]
             at  == IF ~req[r].force /\ row.members > req[r].left THEN "done" ELSE "assigning"
             rec == [req[r] EXCEPT !.row = row, !.at = at]
  <2>1. req[r] \in RequestStates /\ row \in Rows
    BY <1>17 DEF Seat, At, Targets, TypeOK
  <2>2. at \in Points
    BY DEF Points
  <2>3. rec \in RequestStates
    BY <2>1, <2>2 DEF RequestStates
  <2>4. req' = [req EXCEPT ![r] = rec]
    BY <1>17 DEF Seat, TypeOK
  <2>5. req' \in [Requests -> RequestStates]
    BY <2>3, <2>4 DEF TypeOK
  <2> QED
    BY <1>17, <2>5 DEF Seat, TypeOK, told
<1>18. ASSUME NEW r \in Requests, Assign(r)
      PROVE  TypeOK'
  <2>1. req' \in [Requests -> RequestStates]
    BY <1>18 DEF Assign, Moves, TypeOK, RequestStates, Points
  <2>2. booking' \in [Bookings -> Rows]
    BY <1>18 DEF Assign, TypeOK, Rows
  <2>3. quote' \in [there : BOOLEAN, status : Statuses]
    BY <1>18 DEF Assign, TypeOK
  <2>4. tour' \in Tours
    BY <1>18 DEF Assign, TypeOK
  <2>5. /\ overlap' \in BOOLEAN /\ again' \in BOOLEAN /\ detached' \in BOOLEAN /\ late' \in BOOLEAN
        /\ checked' \subseteq Bookings
    BY <1>18 DEF Assign, At, Targets, TypeOK
  <2> QED
    BY <2>1, <2>2, <2>3, <2>4, <2>5 DEF TypeOK
<1>19. ASSUME NEW r \in Requests, NEW b \in Bookings, EditBooking(r, b)
      PROVE  TypeOK'
  <2>1. PICK row \in Rows :
           req' = [req EXCEPT ![r].at = "writingBooking", ![r].target = b, ![r].row = row]
    <3>1. [booking[b] EXCEPT !.live = FALSE] \in Rows
      BY DEF TypeOK, Rows
    <3>2. \A form \in Forms : [form EXCEPT !.live = booking[b].live] \in Rows
      BY DEF TypeOK, Forms, Rows
    <3> QED
      BY <1>19, <3>1, <3>2 DEF EditBooking
  <2> DEFINE rec == [req[r] EXCEPT !.at = "writingBooking", !.target = b, !.row = row]
  <2>2. req[r] \in RequestStates
    BY DEF TypeOK
  <2>3. rec \in RequestStates
    BY <2>1, <2>2 DEF RequestStates, Points, Statuses
  <2>4. req' = [req EXCEPT ![r] = rec]
    BY <2>1 DEF TypeOK
  <2>5. req' \in [Requests -> RequestStates]
    BY <2>3, <2>4 DEF TypeOK
  <2>6. UNCHANGED <<quote, booking, tour, overlap, again, detached, late, checked>>
    BY <1>19 DEF EditBooking, told
  <2> QED
    BY <2>5, <2>6 DEF TypeOK
<1>20. ASSUME NEW r \in Requests, NEW b \in Bookings, Unlink(r, b)
      PROVE  TypeOK'
  <2>1. req' \in [Requests -> RequestStates]
    BY <1>20 DEF Unlink, Moves, TypeOK, RequestStates, Points
  <2>2. booking' \in [Bookings -> Rows]
    BY <1>20 DEF Unlink, TypeOK, Rows
  <2>3. quote' \in [there : BOOLEAN, status : Statuses]
    BY <1>20 DEF Unlink, TypeOK
  <2>4. tour' \in Tours
    BY <1>20 DEF Unlink, TypeOK
  <2>5. /\ overlap' \in BOOLEAN /\ again' \in BOOLEAN /\ detached' \in BOOLEAN /\ late' \in BOOLEAN
        /\ checked' \subseteq Bookings
    BY <1>20 DEF Unlink, TypeOK, told
  <2> QED
    BY <2>1, <2>2, <2>3, <2>4, <2>5 DEF TypeOK
<1>21. ASSUME NEW r \in Requests, NEW b \in Bookings, NEW force \in BOOLEAN, Link(r, b, force)
      PROVE  TypeOK'
  <2>1. PICK left \in Nat, taken \in Nat, room \in Nat :
           req' = [req EXCEPT ![r].at = "seating", ![r].target = b, ![r].force = force,
                              ![r].left = left, ![r].taken = taken, ![r].room = room]
    <3>1. LeftFor(Seats(booking), tour.capacity) \in Nat /\ Carries(booking) \in Nat /\ tour.capacity \in Nat
      BY SeatsCarries DEF TypeOK, Tours, LeftFor
    <3> QED
      BY <1>21, <3>1 DEF Link
  <2> DEFINE rec == [req[r] EXCEPT !.at = "seating", !.target = b, !.force = force,
                                   !.left = left, !.taken = taken, !.room = room]
  <2>2. req[r] \in RequestStates
    BY DEF TypeOK
  <2>3. rec \in RequestStates
    BY <2>1, <2>2 DEF RequestStates, Points, Statuses
  <2>4. req' = [req EXCEPT ![r] = rec]
    BY <2>1 DEF TypeOK
  <2>5. req' \in [Requests -> RequestStates]
    BY <2>3, <2>4 DEF TypeOK
  <2>6. UNCHANGED <<quote, booking, tour, overlap, again, detached, late, checked>>
    BY <1>21 DEF Link, told
  <2> QED
    BY <2>5, <2>6 DEF TypeOK
<1>22. ASSUME NEW r \in Requests, Die(r)
      PROVE  TypeOK'
  BY <1>22 DEF Die, Moves, TypeOK, RequestStates, Points, told
<1>23. CASE UNCHANGED vars
  BY <1>23 DEF vars, told, TypeOK, RequestStates, Points
<1> QED
  BY <1>1, <1>2, <1>3, <1>4, <1>5, <1>6, <1>7, <1>8, <1>9, <1>10, <1>11, <1>12, <1>13, <1>14,
     <1>15, <1>16, <1>17, <1>18, <1>19, <1>20, <1>21, <1>22, <1>23 DEF Next

\* Requests stay true of the bookings they are about: no booking goes away.
LEMMA TargetsNext ==
    ASSUME TypeOK, Targets, [Next]_vars
    PROVE  Targets'
<1>1. ASSUME NEW r \in Requests, NEW to \in Statuses \cup {None}, Begin(r, to)
      PROVE  Targets'
  BY <1>1 DEF Begin, TypeOK, RequestStates, At, Moves, Targets, Statuses
<1>2. ASSUME NEW r \in Requests, Accept(r)
      PROVE  Targets'
  BY <1>2 DEF Accept, TypeOK, RequestStates, At, Moves, Targets
<1>3. ASSUME NEW r \in Requests, Find(r)
      PROVE  Targets'
  <2>1. CASE Found = {}
    BY <1>3, <2>1, TourConstants DEF Find, Moves, At, TypeOK, RequestStates, Targets
  <2>2. CASE Found # {}
    <3>1. PICK b \in Found :
            req' = [req EXCEPT ![r].at = "restoring", ![r].target = b,
                               ![r].row = [booking[b] EXCEPT !.live = TRUE, !.travel = "Booked"]]
      BY <1>3, <2>2 DEF Find
    <3>2. b \in Bookings /\ booking[b].there /\ booking[b].source
      BY DEF Found, FromQuote
    <3>3. UNCHANGED <<quote, booking, tour, overlap, again, detached, late, checked>>
      BY <1>3, <2>2 DEF Find
    <3>4. /\ [booking[b] EXCEPT !.live = TRUE, !.travel = "Booked"].there
          /\ [booking[b] EXCEPT !.live = TRUE, !.travel = "Booked"].source
      BY <3>2 DEF TypeOK, Rows, Travel
    <3>5. /\ \A q \in Requests \ {r} : req'[q] = req[q]
          /\ req'[r].at = "restoring" /\ req'[r].target = b /\ req'[r].to = req[r].to
          /\ req'[r].row.there /\ req'[r].row.source
      BY <3>1, <3>4 DEF TypeOK, RequestStates
    <3>6. req[r].to = "Accepted"
      BY <1>3 DEF Find, At, Targets
    <3> QED
      BY <3>2, <3>3, <3>5, <3>6 DEF At, Targets
  <2> QED
    BY <2>1, <2>2
<1>4. ASSUME NEW r \in Requests, Create(r)
      PROVE  Targets'
  BY <1>4 DEF Create, TypeOK, RequestStates, At, Moves, Targets, NoRow, Bookings
<1>5. ASSUME NEW r \in Requests, Restore(r)
      PROVE  Targets'
  BY <1>5 DEF Restore, TypeOK, RequestStates, At, Moves, Targets
<1>6. ASSUME NEW r \in Requests, Withdraw(r)
      PROVE  Targets'
  BY <1>6, TourConstants DEF Withdraw, TypeOK, RequestStates, At, Moves, Targets, Found,
     FromQuote
<1>7. ASSUME NEW r \in Requests, Archive(r)
      PROVE  Targets'
  <2>1. /\ \A q \in Requests \ {r} : req'[q] = req[q]
        /\ req'[r].to = "Draft" /\ req'[r].at = "writingBooking" /\ req'[r].target = req[r].target
        /\ req'[r].row.there
    BY <1>7 DEF Archive, At, TypeOK, RequestStates, Rows, Targets
  <2>2. At(r, "archiving") /\ booking' = booking
    BY <1>7 DEF Archive
  <2> QED
    BY <2>1, <2>2 DEF At, Targets
<1>8. ASSUME NEW r \in Requests, WriteBooking(r)
      PROVE  Targets'
  BY <1>8, TourConstants DEF WriteBooking, TypeOK, RequestStates, At, Moves, Targets, Statuses
<1>9. ASSUME NEW r \in Requests, WriteStatus(r)
      PROVE  Targets'
  BY <1>9 DEF WriteStatus, TypeOK, RequestStates, At, Moves, Targets
<1>10. ASSUME NEW r \in Requests, Enter(r)
      PROVE  Targets'
  BY <1>10 DEF Enter, TypeOK, RequestStates, At, Moves, Targets, Forms, Bookings
<1>11. ASSUME NEW r \in Requests, BeginDelete(r)
      PROVE  Targets'
  BY <1>11 DEF BeginDelete, TypeOK, RequestStates, At, Moves, Targets
<1>12. ASSUME NEW r \in Requests, CountUses(r)
      PROVE  Targets'
  BY <1>12 DEF CountUses, TypeOK, RequestStates, At, Moves, Targets
<1>13. ASSUME NEW r \in Requests, Delete(r)
      PROVE  Targets'
  BY <1>13 DEF Delete, TypeOK, RequestStates, At, Moves, Targets
<1>14. ASSUME NEW r \in Requests, CreateTour(r)
      PROVE  Targets'
  BY <1>14 DEF CreateTour, TypeOK, RequestStates, At, Moves, Targets
<1>15. ASSUME NEW r \in Requests, EditTour(r)
      PROVE  Targets'
  <2>1. /\ \A q \in Requests \ {r} : req'[q] = req[q]
        /\ req'[r].at = "writingTour" /\ req'[r].tour.there
    <3>1. PICK row : row.there /\ req' = [req EXCEPT ![r].at = "writingTour", ![r].tour = row]
      <4>1. [tour EXCEPT !.deleted = TRUE].there
        BY <1>15 DEF EditTour, TypeOK, Tours
      <4>2. ASSUME NEW source \in BOOLEAN, NEW capacity \in Capacities
            PROVE  [tour EXCEPT !.source = source, !.capacity = capacity].there
        BY <1>15 DEF EditTour, TypeOK, Tours
      <4> QED
        BY <1>15, <4>1, <4>2 DEF EditTour
    <3> QED
      BY <3>1 DEF TypeOK, RequestStates
  <2> QED
    BY <1>15, <2>1 DEF EditTour, At, Targets
<1>16. ASSUME NEW r \in Requests, WriteTour(r)
      PROVE  Targets'
  BY <1>16 DEF WriteTour, TypeOK, RequestStates, At, Moves, Targets
<1>17. ASSUME NEW r \in Requests, Seat(r)
      PROVE  Targets'
  <2>1. /\ \A q \in Requests \ {r} : req'[q] = req[q]
        /\ req'[r].at \in {"done", "assigning"} /\ req'[r].target = req[r].target
    BY <1>17 DEF Seat, TypeOK, RequestStates
  <2>2. At(r, "seating") /\ booking' = booking
    BY <1>17 DEF Seat
  <2> QED
    BY <2>1, <2>2 DEF At, Targets
<1>18. ASSUME NEW r \in Requests, Assign(r)
      PROVE  Targets'
  BY <1>18 DEF Assign, TypeOK, RequestStates, At, Moves, Targets, Rows
<1>19. ASSUME NEW r \in Requests, NEW b \in Bookings, EditBooking(r, b)
      PROVE  Targets'
  <2>1. PICK row \in Rows :
           row.there /\ req' = [req EXCEPT ![r].at = "writingBooking", ![r].target = b, ![r].row = row]
    <3>1. [booking[b] EXCEPT !.live = FALSE] \in Rows /\ [booking[b] EXCEPT !.live = FALSE].there
      BY <1>19 DEF EditBooking, TypeOK, Rows
    <3>2. \A form \in Forms : /\ [form EXCEPT !.live = booking[b].live] \in Rows
                              /\ [form EXCEPT !.live = booking[b].live].there
      BY DEF TypeOK, Forms, Rows
    <3> QED
      BY <1>19, <3>1, <3>2 DEF EditBooking
  <2>2. req'[r].to = None
    BY <1>19, <2>1 DEF EditBooking, At, TypeOK, RequestStates, Targets
  <2>3. UNCHANGED booking /\ booking[b].there
    BY <1>19 DEF EditBooking
  <2>4. /\ \A q \in Requests \ {r} : req'[q] = req[q]
        /\ req'[r].at = "writingBooking" /\ req'[r].target = b /\ req'[r].row.there
    BY <2>1 DEF TypeOK, RequestStates
  <2> QED
    BY <2>2, <2>3, <2>4, TourConstants DEF At, Statuses, Targets
<1>20. ASSUME NEW r \in Requests, NEW b \in Bookings, Unlink(r, b)
      PROVE  Targets'
  BY <1>20 DEF Unlink, TypeOK, RequestStates, At, Moves, Targets, Rows
<1>21. ASSUME NEW r \in Requests, NEW b \in Bookings, NEW force \in BOOLEAN, Link(r, b, force)
      PROVE  Targets'
  BY <1>21 DEF Link, TypeOK, RequestStates, At, Moves, Targets
<1>22. ASSUME NEW r \in Requests, Die(r)
      PROVE  Targets'
  BY <1>22 DEF Die, TypeOK, RequestStates, At, Moves, Targets
<1>23. CASE UNCHANGED vars
  BY <1>23 DEF vars, told, TypeOK, RequestStates, At, Targets
<1> QED
  BY <1>1, <1>2, <1>3, <1>4, <1>5, <1>6, <1>7, <1>8, <1>9, <1>10, <1>11, <1>12, <1>13, <1>14,
     <1>15, <1>16, <1>17, <1>18, <1>19, <1>20, <1>21, <1>22, <1>23 DEF Next

\* The status stays behind the booking.
LEMMA StatusNext ==
    ASSUME TypeOK, Targets, StatusLast, [Next]_vars
    PROVE  StatusLast'
<1>1. ASSUME NEW r \in Requests, NEW to \in Statuses \cup {None}, Begin(r, to)
      PROVE  StatusLast'
  BY <1>1 DEF Begin, TypeOK, RequestStates, At, Moves, told, StatusLast, WritesStatus, Statuses
<1>2. ASSUME NEW r \in Requests, Accept(r)
      PROVE  StatusLast'
  BY <1>2 DEF Accept, TypeOK, RequestStates, At, Moves, told, StatusLast, WritesStatus
<1>3. ASSUME NEW r \in Requests, Find(r)
      PROVE  StatusLast'
  <2>1. CASE Found = {}
    BY <1>3, <2>1, TourConstants DEF Find, Moves, At, TypeOK, RequestStates, StatusLast, WritesStatus
  <2>2. CASE Found # {}
    <3>1. PICK b \in Found :
            req' = [req EXCEPT ![r].at = "restoring", ![r].target = b,
                               ![r].row = [booking[b] EXCEPT !.live = TRUE, !.travel = "Booked"]]
      BY <1>3, <2>2 DEF Find
    <3>2. b \in Bookings /\ booking[b].there /\ booking[b].source
      BY DEF Found, FromQuote
    <3>3. UNCHANGED <<quote, booking, tour, overlap, again, detached, late, checked>>
      BY <1>3, <2>2 DEF Find
    <3>4. /\ [booking[b] EXCEPT !.live = TRUE, !.travel = "Booked"].there
          /\ [booking[b] EXCEPT !.live = TRUE, !.travel = "Booked"].source
      BY <3>2 DEF TypeOK, Rows, Travel
    <3>5. /\ \A q \in Requests \ {r} : req'[q] = req[q]
          /\ req'[r].at = "restoring" /\ req'[r].target = b /\ req'[r].to = req[r].to
          /\ req'[r].row.there /\ req'[r].row.source
      BY <3>1, <3>4 DEF TypeOK, RequestStates
    <3>6. req[r].to = "Accepted"
      BY <1>3 DEF Find, At, Targets
    <3> QED
      BY <3>2, <3>3, <3>5, <3>6 DEF At, StatusLast, WritesStatus
  <2> QED
    BY <2>1, <2>2
<1>4. ASSUME NEW r \in Requests, Create(r)
      PROVE  StatusLast'
  <2>1. r \in FromQuote(booking')
    BY <1>4 DEF Create, TypeOK, NoRow, FromQuote, Bookings
  <2> QED
    BY <2>1 DEF StatusLast
<1>5. ASSUME NEW r \in Requests, Restore(r)
      PROVE  StatusLast'
  BY <1>5 DEF Restore, TypeOK, RequestStates, At, Moves, told, StatusLast, WritesStatus
<1>6. ASSUME NEW r \in Requests, Withdraw(r)
      PROVE  StatusLast'
  <2>1. req[r].to = "Draft"
    BY <1>6 DEF Withdraw, At, Targets
  <2>2. req'[r].to = "Draft" /\ \A q \in Requests \ {r} : req'[q] = req[q]
    BY <1>6, <2>1 DEF Withdraw, Moves, TypeOK, RequestStates
  <2>3. WritesStatus(r)' # "Accepted"
    BY <2>2, TourConstants DEF WritesStatus
  <2> QED
    BY <1>6, <2>2, <2>3 DEF Withdraw, told, StatusLast, At, WritesStatus
<1>7. ASSUME NEW r \in Requests, Archive(r)
      PROVE  StatusLast'
  BY <1>7 DEF Archive, TypeOK, RequestStates, At, Moves, told, StatusLast, WritesStatus
<1>8. ASSUME NEW r \in Requests, WriteBooking(r)
      PROVE  StatusLast'
  <2>1. CASE detached'
    BY <2>1 DEF StatusLast
  <2>2. CASE ~detached'
    <3>1. ~detached /\ FromQuote(booking) \subseteq FromQuote(booking')
      BY <1>8, <2>2 DEF WriteBooking, Writes, TypeOK
    <3>2. CASE req[r].to = "Accepted"
      <4>1. req[r].target \in FromQuote(booking')
        BY <1>8, <3>2 DEF WriteBooking, At, Targets, TypeOK, FromQuote
      <4> QED
        BY <4>1 DEF StatusLast
    <3>3. CASE req[r].to # "Accepted"
      <4>1. /\ UNCHANGED quote /\ \A q \in Requests \ {r} : req'[q] = req[q]
            /\ req'[r].to = req[r].to /\ req'[r].at = (IF req[r].to = None THEN "done" ELSE "writingStatus")
        BY <1>8 DEF WriteBooking, Moves, TypeOK, RequestStates
      <4> QED
        BY <3>1, <3>3, <4>1 DEF StatusLast, At, WritesStatus
    <3> QED
      BY <3>2, <3>3
  <2> QED
    BY <2>1, <2>2
<1>9. ASSUME NEW r \in Requests, WriteStatus(r)
      PROVE  StatusLast'
  BY <1>9 DEF WriteStatus, TypeOK, RequestStates, At, Moves, told, StatusLast, WritesStatus,
     Statuses
<1>10. ASSUME NEW r \in Requests, Enter(r)
      PROVE  StatusLast'
  <2>1. detached' \/ (~detached /\ FromQuote(booking) \subseteq FromQuote(booking'))
    BY <1>10 DEF Enter, Writes, TypeOK
  <2>2. UNCHANGED quote /\ req'[r].at = "done" /\ \A q \in Requests \ {r} : req'[q] = req[q]
    BY <1>10 DEF Enter, Moves, TypeOK, RequestStates
  <2> QED
    BY <2>1, <2>2 DEF StatusLast, At, WritesStatus
<1>11. ASSUME NEW r \in Requests, BeginDelete(r)
      PROVE  StatusLast'
  BY <1>11 DEF BeginDelete, TypeOK, RequestStates, At, Moves, told, StatusLast, WritesStatus
<1>12. ASSUME NEW r \in Requests, CountUses(r)
      PROVE  StatusLast'
  BY <1>12 DEF CountUses, TypeOK, RequestStates, At, Moves, told, StatusLast, WritesStatus
<1>13. ASSUME NEW r \in Requests, Delete(r)
      PROVE  StatusLast'
  BY <1>13 DEF Delete, TypeOK, RequestStates, At, Moves, told, StatusLast, WritesStatus
<1>14. ASSUME NEW r \in Requests, CreateTour(r)
      PROVE  StatusLast'
  BY <1>14 DEF CreateTour, TypeOK, RequestStates, At, Moves, told, StatusLast, WritesStatus
<1>15. ASSUME NEW r \in Requests, EditTour(r)
      PROVE  StatusLast'
  <2>1. req'[r].at = "writingTour" /\ \A q \in Requests \ {r} : req'[q] = req[q]
    <3>1. PICK row : req' = [req EXCEPT ![r].at = "writingTour", ![r].tour = row]
      BY <1>15 DEF EditTour
    <3> QED
      BY <3>1 DEF TypeOK, RequestStates
  <2> QED
    BY <1>15, <2>1 DEF EditTour, told, StatusLast, WritesStatus, At
<1>16. ASSUME NEW r \in Requests, WriteTour(r)
      PROVE  StatusLast'
  BY <1>16 DEF WriteTour, TypeOK, RequestStates, At, Moves, told, StatusLast, WritesStatus
<1>17. ASSUME NEW r \in Requests, Seat(r)
      PROVE  StatusLast'
  <2>1. req'[r].at \in {"done", "assigning"} /\ \A q \in Requests \ {r} : req'[q] = req[q]
    BY <1>17 DEF Seat, TypeOK, RequestStates
  <2> QED
    BY <1>17, <2>1 DEF Seat, told, StatusLast, At, WritesStatus
<1>18. ASSUME NEW r \in Requests, Assign(r)
      PROVE  StatusLast'
  BY <1>18 DEF Assign, TypeOK, RequestStates, At, Moves, told, StatusLast, WritesStatus,
     FromQuote, Rows
<1>19. ASSUME NEW r \in Requests, NEW b \in Bookings, EditBooking(r, b)
      PROVE  StatusLast'
  BY <1>19 DEF EditBooking, TypeOK, RequestStates, At, Moves, told, StatusLast, WritesStatus
<1>20. ASSUME NEW r \in Requests, NEW b \in Bookings, Unlink(r, b)
      PROVE  StatusLast'
  BY <1>20 DEF Unlink, TypeOK, RequestStates, At, Moves, told, StatusLast, WritesStatus,
     FromQuote, Rows
<1>21. ASSUME NEW r \in Requests, NEW b \in Bookings, NEW force \in BOOLEAN, Link(r, b, force)
      PROVE  StatusLast'
  BY <1>21 DEF Link, TypeOK, RequestStates, At, Moves, told, StatusLast, WritesStatus
<1>22. ASSUME NEW r \in Requests, Die(r)
      PROVE  StatusLast'
  BY <1>22 DEF Die, TypeOK, RequestStates, At, Moves, told, StatusLast, WritesStatus
<1>23. CASE UNCHANGED vars
  BY <1>23 DEF vars, told, TypeOK, RequestStates, At, told, StatusLast, WritesStatus
<1> QED
  BY <1>1, <1>2, <1>3, <1>4, <1>5, <1>6, <1>7, <1>8, <1>9, <1>10, <1>11, <1>12, <1>13, <1>14,
     <1>15, <1>16, <1>17, <1>18, <1>19, <1>20, <1>21, <1>22, <1>23 DEF Next

\* One creates, unless a booking came in between.
LEMMA CreatesNext ==
    ASSUME TypeOK, Targets, OneCreates, [Next]_vars
    PROVE  OneCreates'
<1>1. ASSUME NEW r \in Requests, NEW to \in Statuses \cup {None}, Begin(r, to)
      PROVE  OneCreates'
  BY <1>1 DEF Begin, TypeOK, RequestStates, At, Moves, told, OneCreates
<1>2. ASSUME NEW r \in Requests, Accept(r)
      PROVE  OneCreates'
  BY <1>2 DEF Accept, TypeOK, RequestStates, At, Moves, told, OneCreates
<1>3. ASSUME NEW r \in Requests, Find(r)
      PROVE  OneCreates'
  <2>1. CASE Found = {}
    <3>1. /\ \A q \in Requests \ {r} : req'[q] = req[q]
          /\ UNCHANGED <<booking, again>>
          /\ ~overlap' => ~overlap /\ \A q \in Requests \ {r} : ~At(q, "creating")
      BY <1>3, <2>1 DEF Find, Moves, TypeOK
    <3> QED
      BY <3>1, <2>1 DEF OneCreates, At, Found
  <2>2. CASE Found # {}
    <3>1. PICK b \in Found :
            req' = [req EXCEPT ![r].at = "restoring", ![r].target = b,
                               ![r].row = [booking[b] EXCEPT !.live = TRUE, !.travel = "Booked"]]
      BY <1>3, <2>2 DEF Find
    <3>2. b \in Bookings /\ booking[b].there /\ booking[b].source
      BY DEF Found, FromQuote
    <3>3. UNCHANGED <<quote, booking, tour, overlap, again, detached, late, checked>>
      BY <1>3, <2>2 DEF Find
    <3>4. /\ [booking[b] EXCEPT !.live = TRUE, !.travel = "Booked"].there
          /\ [booking[b] EXCEPT !.live = TRUE, !.travel = "Booked"].source
      BY <3>2 DEF TypeOK, Rows, Travel
    <3>5. /\ \A q \in Requests \ {r} : req'[q] = req[q]
          /\ req'[r].at = "restoring" /\ req'[r].target = b /\ req'[r].to = req[r].to
          /\ req'[r].row.there /\ req'[r].row.source
      BY <3>1, <3>4 DEF TypeOK, RequestStates
    <3>6. req[r].to = "Accepted"
      BY <1>3 DEF Find, At, Targets
    <3> QED
      BY <3>2, <3>3, <3>5, <3>6 DEF At, OneCreates, Found
  <2> QED
    BY <2>1, <2>2
<1>4. ASSUME NEW r \in Requests, Create(r)
      PROVE  OneCreates'
  <2>1. UNCHANGED overlap /\ again' = (again \/ FromQuote(booking) # {})
    BY <1>4 DEF Create
  <2>2. /\ At(r, "creating") /\ req'[r].at # "creating"
        /\ \A q \in Requests \ {r} : req'[q] = req[q]
    BY <1>4 DEF Create, Moves, TypeOK, RequestStates
  <2> QED
    BY <2>1, <2>2 DEF OneCreates, At
<1>5. ASSUME NEW r \in Requests, Restore(r)
      PROVE  OneCreates'
  BY <1>5 DEF Restore, TypeOK, RequestStates, At, Moves, told, OneCreates
<1>6. ASSUME NEW r \in Requests, Withdraw(r)
      PROVE  OneCreates'
  BY <1>6 DEF Withdraw, TypeOK, RequestStates, At, Moves, told, OneCreates
<1>7. ASSUME NEW r \in Requests, Archive(r)
      PROVE  OneCreates'
  BY <1>7 DEF Archive, TypeOK, RequestStates, At, Moves, told, OneCreates
<1>8. ASSUME NEW r \in Requests, WriteBooking(r)
      PROVE  OneCreates'
  <2>1. ~overlap' => /\ ~overlap
                     /\ FromQuote(booking') \subseteq FromQuote(booking) \/ \A q \in Requests : ~At(q, "creating")
    BY <1>8 DEF WriteBooking, Writes, TypeOK
  <2>2. /\ UNCHANGED again /\ req'[r].at # "creating"
        /\ \A q \in Requests \ {r} : req'[q] = req[q]
    BY <1>8 DEF WriteBooking, Moves, TypeOK, RequestStates
  <2> QED
    BY <2>1, <2>2 DEF OneCreates, At
<1>9. ASSUME NEW r \in Requests, WriteStatus(r)
      PROVE  OneCreates'
  BY <1>9 DEF WriteStatus, TypeOK, RequestStates, At, Moves, told, OneCreates
<1>10. ASSUME NEW r \in Requests, Enter(r)
      PROVE  OneCreates'
  <2>1. ~overlap' => /\ ~overlap
                     /\ FromQuote(booking') \subseteq FromQuote(booking) \/ \A q \in Requests : ~At(q, "creating")
    BY <1>10 DEF Enter, Writes, TypeOK
  <2>2. /\ UNCHANGED again /\ req'[r].at # "creating"
        /\ \A q \in Requests \ {r} : req'[q] = req[q]
    BY <1>10 DEF Enter, Moves, TypeOK, RequestStates
  <2> QED
    BY <2>1, <2>2 DEF OneCreates, At
<1>11. ASSUME NEW r \in Requests, BeginDelete(r)
      PROVE  OneCreates'
  BY <1>11 DEF BeginDelete, TypeOK, RequestStates, At, Moves, told, OneCreates
<1>12. ASSUME NEW r \in Requests, CountUses(r)
      PROVE  OneCreates'
  BY <1>12 DEF CountUses, TypeOK, RequestStates, At, Moves, told, OneCreates
<1>13. ASSUME NEW r \in Requests, Delete(r)
      PROVE  OneCreates'
  BY <1>13 DEF Delete, TypeOK, RequestStates, At, Moves, told, OneCreates
<1>14. ASSUME NEW r \in Requests, CreateTour(r)
      PROVE  OneCreates'
  BY <1>14 DEF CreateTour, TypeOK, RequestStates, At, Moves, told, OneCreates
<1>15. ASSUME NEW r \in Requests, EditTour(r)
      PROVE  OneCreates'
  <2>1. req'[r].at = "writingTour" /\ \A q \in Requests \ {r} : req'[q] = req[q]
    <3>1. PICK row : req' = [req EXCEPT ![r].at = "writingTour", ![r].tour = row]
      BY <1>15 DEF EditTour
    <3> QED
      BY <3>1 DEF TypeOK, RequestStates
  <2> QED
    BY <1>15, <2>1 DEF EditTour, told, OneCreates, At
<1>16. ASSUME NEW r \in Requests, WriteTour(r)
      PROVE  OneCreates'
  BY <1>16 DEF WriteTour, TypeOK, RequestStates, At, Moves, told, OneCreates
<1>17. ASSUME NEW r \in Requests, Seat(r)
      PROVE  OneCreates'
  BY <1>17 DEF Seat, TypeOK, RequestStates, At, Moves, told, OneCreates
<1>18. ASSUME NEW r \in Requests, Assign(r)
      PROVE  OneCreates'
  BY <1>18 DEF Assign, TypeOK, RequestStates, At, Moves, told, OneCreates, FromQuote, Rows
<1>19. ASSUME NEW r \in Requests, NEW b \in Bookings, EditBooking(r, b)
      PROVE  OneCreates'
  BY <1>19 DEF EditBooking, TypeOK, RequestStates, At, Moves, told, OneCreates
<1>20. ASSUME NEW r \in Requests, NEW b \in Bookings, Unlink(r, b)
      PROVE  OneCreates'
  BY <1>20 DEF Unlink, TypeOK, RequestStates, At, Moves, told, OneCreates, FromQuote, Rows
<1>21. ASSUME NEW r \in Requests, NEW b \in Bookings, NEW force \in BOOLEAN, Link(r, b, force)
      PROVE  OneCreates'
  BY <1>21 DEF Link, TypeOK, RequestStates, At, Moves, told, OneCreates
<1>22. ASSUME NEW r \in Requests, Die(r)
      PROVE  OneCreates'
  BY <1>22 DEF Die, TypeOK, RequestStates, At, Moves, told, OneCreates
<1>23. CASE UNCHANGED vars
  BY <1>23 DEF vars, told, TypeOK, RequestStates, At, told, OneCreates
<1> QED
  BY <1>1, <1>2, <1>3, <1>4, <1>5, <1>6, <1>7, <1>8, <1>9, <1>10, <1>11, <1>12, <1>13, <1>14,
     <1>15, <1>16, <1>17, <1>18, <1>19, <1>20, <1>21, <1>22, <1>23 DEF Next

\* A use that appears behind the count is noted.
LEMMA DeletesNext ==
    ASSUME TypeOK, Targets, DeletesUnused, [Next]_vars
    PROVE  DeletesUnused'
<1>1. ASSUME NEW r \in Requests, NEW to \in Statuses \cup {None}, Begin(r, to)
      PROVE  DeletesUnused'
  BY <1>1 DEF Begin, TypeOK, RequestStates, At, Moves, told, DeletesUnused
<1>2. ASSUME NEW r \in Requests, Accept(r)
      PROVE  DeletesUnused'
  BY <1>2 DEF Accept, TypeOK, RequestStates, At, Moves, told, DeletesUnused
<1>3. ASSUME NEW r \in Requests, Find(r)
      PROVE  DeletesUnused'
  <2>1. CASE Found = {}
    BY <1>3, <2>1, TourConstants DEF Find, Moves, At, TypeOK, RequestStates, DeletesUnused
  <2>2. CASE Found # {}
    <3>1. PICK b \in Found :
            req' = [req EXCEPT ![r].at = "restoring", ![r].target = b,
                               ![r].row = [booking[b] EXCEPT !.live = TRUE, !.travel = "Booked"]]
      BY <1>3, <2>2 DEF Find
    <3>2. b \in Bookings /\ booking[b].there /\ booking[b].source
      BY DEF Found, FromQuote
    <3>3. UNCHANGED <<quote, booking, tour, overlap, again, detached, late, checked>>
      BY <1>3, <2>2 DEF Find
    <3>4. /\ [booking[b] EXCEPT !.live = TRUE, !.travel = "Booked"].there
          /\ [booking[b] EXCEPT !.live = TRUE, !.travel = "Booked"].source
      BY <3>2 DEF TypeOK, Rows, Travel
    <3>5. /\ \A q \in Requests \ {r} : req'[q] = req[q]
          /\ req'[r].at = "restoring" /\ req'[r].target = b /\ req'[r].to = req[r].to
          /\ req'[r].row.there /\ req'[r].row.source
      BY <3>1, <3>4 DEF TypeOK, RequestStates
    <3>6. req[r].to = "Accepted"
      BY <1>3 DEF Find, At, Targets
    <3> QED
      BY <3>2, <3>3, <3>5, <3>6 DEF At, DeletesUnused
  <2> QED
    BY <2>1, <2>2
<1>4. ASSUME NEW r \in Requests, Create(r)
      PROVE  DeletesUnused'
  <2>1. /\ \A q \in Requests \ {r} : req'[q] = req[q]
        /\ req'[r].at \notin {"counting", "countingTours", "countingBookings", "deleting"}
        /\ UNCHANGED <<quote, tour>>
    BY <1>4 DEF Create, Moves, TypeOK, RequestStates
  <2>2. ~late' => /\ ~late
                  /\ \/ LiveFrom(booking') \subseteq LiveFrom(booking)
                     \/ quote.there /\ \A q \in Requests : req[q].at \notin {"countingTours", "deleting"}
    BY <1>4 DEF Create, Writes, Appears, TypeOK
  <2> QED
    BY <2>1, <2>2 DEF DeletesUnused, At
<1>5. ASSUME NEW r \in Requests, Restore(r)
      PROVE  DeletesUnused'
  BY <1>5 DEF Restore, TypeOK, RequestStates, At, Moves, told, DeletesUnused
<1>6. ASSUME NEW r \in Requests, Withdraw(r)
      PROVE  DeletesUnused'
  BY <1>6 DEF Withdraw, TypeOK, RequestStates, At, Moves, told, DeletesUnused
<1>7. ASSUME NEW r \in Requests, Archive(r)
      PROVE  DeletesUnused'
  BY <1>7 DEF Archive, TypeOK, RequestStates, At, Moves, told, DeletesUnused
<1>8. ASSUME NEW r \in Requests, WriteBooking(r)
      PROVE  DeletesUnused'
  <2>1. /\ \A q \in Requests \ {r} : req'[q] = req[q]
        /\ req'[r].at \notin {"counting", "countingTours", "countingBookings", "deleting"}
        /\ UNCHANGED <<quote, tour>>
    BY <1>8 DEF WriteBooking, Moves, TypeOK, RequestStates
  <2>2. ~late' => /\ ~late
                  /\ \/ LiveFrom(booking') \subseteq LiveFrom(booking)
                     \/ quote.there /\ \A q \in Requests : req[q].at \notin {"countingTours", "deleting"}
    BY <1>8 DEF WriteBooking, Writes, Appears, TypeOK
  <2> QED
    BY <2>1, <2>2 DEF DeletesUnused, At
<1>9. ASSUME NEW r \in Requests, WriteStatus(r)
      PROVE  DeletesUnused'
  BY <1>9 DEF WriteStatus, TypeOK, RequestStates, At, Moves, told, DeletesUnused
<1>10. ASSUME NEW r \in Requests, Enter(r)
      PROVE  DeletesUnused'
  <2>1. /\ \A q \in Requests \ {r} : req'[q] = req[q]
        /\ req'[r].at \notin {"counting", "countingTours", "countingBookings", "deleting"}
        /\ UNCHANGED <<quote, tour>>
    BY <1>10 DEF Enter, Moves, TypeOK, RequestStates
  <2>2. ~late' => /\ ~late
                  /\ \/ LiveFrom(booking') \subseteq LiveFrom(booking)
                     \/ quote.there /\ \A q \in Requests : req[q].at \notin {"countingTours", "deleting"}
    BY <1>10 DEF Enter, Writes, Appears, TypeOK
  <2> QED
    BY <2>1, <2>2 DEF DeletesUnused, At
<1>11. ASSUME NEW r \in Requests, BeginDelete(r)
      PROVE  DeletesUnused'
  BY <1>11 DEF BeginDelete, TypeOK, RequestStates, At, Moves, told, DeletesUnused
<1>12. ASSUME NEW r \in Requests, CountUses(r)
      PROVE  DeletesUnused'
  <2>1. UNCHANGED <<quote, booking, tour, late>> /\ \A q \in Requests \ {r} : req'[q] = req[q]
    BY <1>12 DEF CountUses, Moves, TypeOK, told
  <2>2. \/ req'[r].at = "done"
        \/ req'[r].at = "countingBookings" /\ ~TourLive(tour)
        \/ req'[r].at = "countingTours" /\ LiveFrom(booking) = {}
        \/ req'[r].at = "deleting" /\ At(r, "countingBookings") /\ LiveFrom(booking) = {}
        \/ req'[r].at = "deleting" /\ At(r, "countingTours") /\ ~TourLive(tour)
    BY <1>12 DEF CountUses, Moves, TypeOK, RequestStates, UsedByTour, UsedByBookings
  <2> QED
    BY <2>1, <2>2 DEF DeletesUnused, At
<1>13. ASSUME NEW r \in Requests, Delete(r)
      PROVE  DeletesUnused'
  BY <1>13 DEF Delete, TypeOK, RequestStates, At, Moves, told, DeletesUnused
<1>14. ASSUME NEW r \in Requests, CreateTour(r)
      PROVE  DeletesUnused'
  <2>1. /\ \A q \in Requests \ {r} : req'[q] = req[q]
        /\ req'[r].at \notin {"counting", "countingTours", "countingBookings", "deleting"}
        /\ UNCHANGED <<quote, booking>>
    BY <1>14 DEF CreateTour, Moves, TypeOK, RequestStates
  <2>2. ~late' => /\ ~late
                  /\ \/ ~TourLive(tour') \/ TourLive(tour)
                     \/ quote.there /\ \A q \in Requests : req[q].at \notin {"countingBookings", "deleting"}
    BY <1>14 DEF CreateTour, Appears, TypeOK
  <2> QED
    BY <2>1, <2>2 DEF DeletesUnused, At
<1>15. ASSUME NEW r \in Requests, EditTour(r)
      PROVE  DeletesUnused'
  <2>1. req'[r].at = "writingTour" /\ \A q \in Requests \ {r} : req'[q] = req[q]
    <3>1. PICK row : req' = [req EXCEPT ![r].at = "writingTour", ![r].tour = row]
      BY <1>15 DEF EditTour
    <3> QED
      BY <3>1 DEF TypeOK, RequestStates
  <2> QED
    BY <1>15, <2>1 DEF EditTour, told, DeletesUnused, At
<1>16. ASSUME NEW r \in Requests, WriteTour(r)
      PROVE  DeletesUnused'
  <2>1. /\ \A q \in Requests \ {r} : req'[q] = req[q]
        /\ req'[r].at \notin {"counting", "countingTours", "countingBookings", "deleting"}
        /\ UNCHANGED <<quote, booking>>
    BY <1>16 DEF WriteTour, Moves, TypeOK, RequestStates
  <2>2. ~late' => /\ ~late
                  /\ \/ ~TourLive(tour') \/ TourLive(tour)
                     \/ quote.there /\ \A q \in Requests : req[q].at \notin {"countingBookings", "deleting"}
    BY <1>16 DEF WriteTour, Appears, TypeOK
  <2> QED
    BY <2>1, <2>2 DEF DeletesUnused, At
<1>17. ASSUME NEW r \in Requests, Seat(r)
      PROVE  DeletesUnused'
  <2>1. req'[r].at \in {"done", "assigning"} /\ \A q \in Requests \ {r} : req'[q] = req[q]
    BY <1>17 DEF Seat, TypeOK, RequestStates
  <2> QED
    BY <1>17, <2>1 DEF Seat, told, DeletesUnused, At
<1>18. ASSUME NEW r \in Requests, Assign(r)
      PROVE  DeletesUnused'
  BY <1>18 DEF Assign, TypeOK, RequestStates, At, Moves, told, DeletesUnused, LiveFrom,
     FromQuote, Rows
<1>19. ASSUME NEW r \in Requests, NEW b \in Bookings, EditBooking(r, b)
      PROVE  DeletesUnused'
  BY <1>19 DEF EditBooking, TypeOK, RequestStates, At, Moves, told, DeletesUnused
<1>20. ASSUME NEW r \in Requests, NEW b \in Bookings, Unlink(r, b)
      PROVE  DeletesUnused'
  BY <1>20 DEF Unlink, TypeOK, RequestStates, At, Moves, told, DeletesUnused, LiveFrom,
     FromQuote, Rows
<1>21. ASSUME NEW r \in Requests, NEW b \in Bookings, NEW force \in BOOLEAN, Link(r, b, force)
      PROVE  DeletesUnused'
  BY <1>21 DEF Link, TypeOK, RequestStates, At, Moves, told, DeletesUnused
<1>22. ASSUME NEW r \in Requests, Die(r)
      PROVE  DeletesUnused'
  BY <1>22 DEF Die, TypeOK, RequestStates, At, Moves, told, DeletesUnused
<1>23. CASE UNCHANGED vars
  BY <1>23 DEF vars, told, TypeOK, RequestStates, At, told, DeletesUnused
<1> QED
  BY <1>1, <1>2, <1>3, <1>4, <1>5, <1>6, <1>7, <1>8, <1>9, <1>10, <1>11, <1>12, <1>13, <1>14,
     <1>15, <1>16, <1>17, <1>18, <1>19, <1>20, <1>21, <1>22, <1>23 DEF Next

\* A link knows what it saw.
LEMMA SeesNext ==
    ASSUME TypeOK, Targets, SeesSeats, [Next]_vars
    PROVE  SeesSeats'
<1>1. ASSUME NEW r \in Requests, NEW to \in Statuses \cup {None}, Begin(r, to)
      PROVE  SeesSeats'
  BY <1>1 DEF Begin, TypeOK, RequestStates, At, Moves, SeesSeats
<1>2. ASSUME NEW r \in Requests, Accept(r)
      PROVE  SeesSeats'
  BY <1>2 DEF Accept, TypeOK, RequestStates, At, Moves, SeesSeats
<1>3. ASSUME NEW r \in Requests, Find(r)
      PROVE  SeesSeats'
  <2>1. CASE Found = {}
    BY <1>3, <2>1, TourConstants DEF Find, Moves, At, TypeOK, RequestStates, SeesSeats
  <2>2. CASE Found # {}
    <3>1. PICK b \in Found :
            req' = [req EXCEPT ![r].at = "restoring", ![r].target = b,
                               ![r].row = [booking[b] EXCEPT !.live = TRUE, !.travel = "Booked"]]
      BY <1>3, <2>2 DEF Find
    <3>2. b \in Bookings /\ booking[b].there /\ booking[b].source
      BY DEF Found, FromQuote
    <3>3. UNCHANGED <<quote, booking, tour, overlap, again, detached, late, checked>>
      BY <1>3, <2>2 DEF Find
    <3>4. /\ [booking[b] EXCEPT !.live = TRUE, !.travel = "Booked"].there
          /\ [booking[b] EXCEPT !.live = TRUE, !.travel = "Booked"].source
      BY <3>2 DEF TypeOK, Rows, Travel
    <3>5. /\ \A q \in Requests \ {r} : req'[q] = req[q]
          /\ req'[r].at = "restoring" /\ req'[r].target = b /\ req'[r].to = req[r].to
          /\ req'[r].row.there /\ req'[r].row.source
      BY <3>1, <3>4 DEF TypeOK, RequestStates
    <3>6. req[r].to = "Accepted"
      BY <1>3 DEF Find, At, Targets
    <3> QED
      BY <3>2, <3>3, <3>5, <3>6 DEF At, SeesSeats
  <2> QED
    BY <2>1, <2>2
<1>4. ASSUME NEW r \in Requests, Create(r)
      PROVE  SeesSeats'
  BY <1>4 DEF Create, TypeOK, RequestStates, At, Moves, SeesSeats
<1>5. ASSUME NEW r \in Requests, Restore(r)
      PROVE  SeesSeats'
  BY <1>5 DEF Restore, TypeOK, RequestStates, At, Moves, SeesSeats
<1>6. ASSUME NEW r \in Requests, Withdraw(r)
      PROVE  SeesSeats'
  BY <1>6 DEF Withdraw, TypeOK, RequestStates, At, Moves, SeesSeats
<1>7. ASSUME NEW r \in Requests, Archive(r)
      PROVE  SeesSeats'
  BY <1>7 DEF Archive, TypeOK, RequestStates, At, Moves, SeesSeats
<1>8. ASSUME NEW r \in Requests, WriteBooking(r)
      PROVE  SeesSeats'
  BY <1>8 DEF WriteBooking, TypeOK, RequestStates, At, Moves, SeesSeats
<1>9. ASSUME NEW r \in Requests, WriteStatus(r)
      PROVE  SeesSeats'
  BY <1>9 DEF WriteStatus, TypeOK, RequestStates, At, Moves, SeesSeats
<1>10. ASSUME NEW r \in Requests, Enter(r)
      PROVE  SeesSeats'
  BY <1>10 DEF Enter, TypeOK, RequestStates, At, Moves, SeesSeats
<1>11. ASSUME NEW r \in Requests, BeginDelete(r)
      PROVE  SeesSeats'
  BY <1>11 DEF BeginDelete, TypeOK, RequestStates, At, Moves, SeesSeats
<1>12. ASSUME NEW r \in Requests, CountUses(r)
      PROVE  SeesSeats'
  BY <1>12 DEF CountUses, TypeOK, RequestStates, At, Moves, SeesSeats
<1>13. ASSUME NEW r \in Requests, Delete(r)
      PROVE  SeesSeats'
  BY <1>13 DEF Delete, TypeOK, RequestStates, At, Moves, SeesSeats
<1>14. ASSUME NEW r \in Requests, CreateTour(r)
      PROVE  SeesSeats'
  BY <1>14 DEF CreateTour, TypeOK, RequestStates, At, Moves, SeesSeats
<1>15. ASSUME NEW r \in Requests, EditTour(r)
      PROVE  SeesSeats'
  <2>1. req'[r].at = "writingTour" /\ \A q \in Requests \ {r} : req'[q] = req[q]
    <3>1. PICK row : req' = [req EXCEPT ![r].at = "writingTour", ![r].tour = row]
      BY <1>15 DEF EditTour
    <3> QED
      BY <3>1 DEF TypeOK, RequestStates
  <2> QED
    BY <1>15, <2>1 DEF EditTour, told, SeesSeats, At
<1>16. ASSUME NEW r \in Requests, WriteTour(r)
      PROVE  SeesSeats'
  BY <1>16 DEF WriteTour, TypeOK, RequestStates, At, Moves, SeesSeats
<1>17. ASSUME NEW r \in Requests, Seat(r)
      PROVE  SeesSeats'
  <2>1. /\ \A q \in Requests \ {r} : req'[q] = req[q]
        /\ req'[r].left = req[r].left /\ req'[r].taken = req[r].taken /\ req'[r].room = req[r].room
        /\ req'[r].force = req[r].force /\ req'[r].row = booking[req[r].target]
        /\ req'[r].at = IF ~req[r].force /\ booking[req[r].target].members > req[r].left
                          THEN "done" ELSE "assigning"
    BY <1>17 DEF Seat, TypeOK, RequestStates
  <2>2. req[r].left = LeftFor(req[r].taken, req[r].room) /\ req[r].left \in Nat
    BY <1>17 DEF Seat, At, SeesSeats, TypeOK, RequestStates
  <2>3. booking[req[r].target].members \in Nat
    BY <1>17, TourConstants DEF Seat, At, Targets, TypeOK, Rows
  <2>4. At(r, "assigning")' => req[r].force \/ booking[req[r].target].members <= req[r].left
    BY <2>1, <2>2, <2>3 DEF At
  <2>5. \A q \in Requests \ {r} : (req[q].at \in {"seating", "assigning"} =>
          /\ req[q].left = LeftFor(req[q].taken, req[q].room)
          /\ At(q, "assigning") => req[q].force \/ req[q].row.members <= req[q].left)'
    BY <2>1 DEF SeesSeats, At
  <2> QED
    BY <2>1, <2>2, <2>4, <2>5 DEF SeesSeats, At
<1>18. ASSUME NEW r \in Requests, Assign(r)
      PROVE  SeesSeats'
  BY <1>18 DEF Assign, TypeOK, RequestStates, At, Moves, SeesSeats
<1>19. ASSUME NEW r \in Requests, NEW b \in Bookings, EditBooking(r, b)
      PROVE  SeesSeats'
  BY <1>19 DEF EditBooking, TypeOK, RequestStates, At, Moves, SeesSeats
<1>20. ASSUME NEW r \in Requests, NEW b \in Bookings, Unlink(r, b)
      PROVE  SeesSeats'
  BY <1>20 DEF Unlink, TypeOK, RequestStates, At, Moves, SeesSeats
<1>21. ASSUME NEW r \in Requests, NEW b \in Bookings, NEW force \in BOOLEAN, Link(r, b, force)
      PROVE  SeesSeats'
  BY <1>21, SeatsCarries DEF Link, TypeOK, RequestStates, At, Moves, SeesSeats
<1>22. ASSUME NEW r \in Requests, Die(r)
      PROVE  SeesSeats'
  BY <1>22 DEF Die, TypeOK, RequestStates, At, Moves, SeesSeats
<1>23. CASE UNCHANGED vars
  BY <1>23 DEF vars, told, TypeOK, RequestStates, At, SeesSeats
<1> QED
  BY <1>1, <1>2, <1>3, <1>4, <1>5, <1>6, <1>7, <1>8, <1>9, <1>10, <1>11, <1>12, <1>13, <1>14,
     <1>15, <1>16, <1>17, <1>18, <1>19, <1>20, <1>21, <1>22, <1>23 DEF Next

\* Who was linked on free seats keeps them.
LEMMA SeatsNext ==
    ASSUME TypeOK, TypeOK', Targets, SeesSeats, SeatsHeld, [Next]_vars
    PROVE  SeatsHeld'
<1>1. ASSUME NEW r \in Requests, NEW to \in Statuses \cup {None}, Begin(r, to)
      PROVE  SeatsHeld'
  BY <1>1 DEF Begin, told, SeatsHeld
<1>2. ASSUME NEW r \in Requests, Accept(r)
      PROVE  SeatsHeld'
  BY <1>2 DEF Accept, told, SeatsHeld
<1>3. ASSUME NEW r \in Requests, Find(r)
      PROVE  SeatsHeld'
  BY <1>3 DEF Find, told, SeatsHeld
<1>4. ASSUME NEW r \in Requests, Create(r)
      PROVE  SeatsHeld'
  <2>1. \A x \in checked : Aboard(booking'[x]) => Aboard(booking[x]) /\ booking'[x].members <= booking[x].members
    BY <1>4, TourConstants DEF Create, TypeOK, Rows, Aboard, NoRow, Bookings
  <2>2. Cardinality(Passengers(booking', checked)) <= Cardinality(Passengers(booking, checked))
    BY <2>1, PassengersLess DEF TypeOK
  <2>3. UNCHANGED <<tour, checked>>
    BY <1>4 DEF Create, told
  <2> QED
    BY <2>2, <2>3, PassengersNat DEF SeatsHeld, TypeOK, Tours
<1>5. ASSUME NEW r \in Requests, Restore(r)
      PROVE  SeatsHeld'
  BY <1>5 DEF Restore, told, SeatsHeld
<1>6. ASSUME NEW r \in Requests, Withdraw(r)
      PROVE  SeatsHeld'
  BY <1>6 DEF Withdraw, told, SeatsHeld
<1>7. ASSUME NEW r \in Requests, Archive(r)
      PROVE  SeatsHeld'
  BY <1>7 DEF Archive, told, SeatsHeld
<1>8. ASSUME NEW r \in Requests, WriteBooking(r)
      PROVE  SeatsHeld'
  <2>1. \A x \in checked' : Aboard(booking'[x]) =>
           x \in checked /\ Aboard(booking[x]) /\ booking'[x].members <= booking[x].members
    <3> DEFINE b == req[r].target
    <3>1. /\ booking' = [booking EXCEPT ![b] = req[r].row]
          /\ checked' = checked \cap (IF Aboard(booking[b]) /\ req[r].row.members <= booking[b].members
                                        THEN Bookings ELSE Bookings \ {b})
      BY <1>8 DEF WriteBooking, Writes
    <3>2. \A x \in Bookings : booking[x].members \in Nat
      BY TourConstants DEF TypeOK, Rows
    <3> QED
      BY <3>1, <3>2 DEF TypeOK
  <2>2. Cardinality(Passengers(booking', checked')) <= Cardinality(Passengers(booking, checked))
    BY <2>1, PassengersLess DEF TypeOK
  <2>3. UNCHANGED tour
    BY <1>8 DEF WriteBooking
  <2> QED
    BY <2>2, <2>3, PassengersNat DEF SeatsHeld, TypeOK, Tours
<1>9. ASSUME NEW r \in Requests, WriteStatus(r)
      PROVE  SeatsHeld'
  BY <1>9 DEF WriteStatus, told, SeatsHeld
<1>10. ASSUME NEW r \in Requests, Enter(r)
      PROVE  SeatsHeld'
  <2>1. \A x \in checked' : Aboard(booking'[x]) =>
           x \in checked /\ Aboard(booking[x]) /\ booking'[x].members <= booking[x].members
    <3>1. \A x \in checked' : x \in checked /\ booking'[x] = booking[x]
      BY <1>10 DEF Enter, Writes, TypeOK
    <3>2. \A x \in Bookings : booking[x].members \in Nat
      BY TourConstants DEF TypeOK, Rows
    <3> QED
      BY <3>1, <3>2 DEF TypeOK
  <2>2. Cardinality(Passengers(booking', checked')) <= Cardinality(Passengers(booking, checked))
    BY <2>1, PassengersLess DEF TypeOK
  <2>3. UNCHANGED tour
    BY <1>10 DEF Enter
  <2> QED
    BY <2>2, <2>3, PassengersNat DEF SeatsHeld, TypeOK, Tours
<1>11. ASSUME NEW r \in Requests, BeginDelete(r)
      PROVE  SeatsHeld'
  BY <1>11 DEF BeginDelete, told, SeatsHeld
<1>12. ASSUME NEW r \in Requests, CountUses(r)
      PROVE  SeatsHeld'
  BY <1>12 DEF CountUses, told, SeatsHeld
<1>13. ASSUME NEW r \in Requests, Delete(r)
      PROVE  SeatsHeld'
  BY <1>13 DEF Delete, told, SeatsHeld
<1>14. ASSUME NEW r \in Requests, CreateTour(r)
      PROVE  SeatsHeld'
  <2>1. tour.capacity = 0 /\ tour'.capacity \in Nat /\ tour'.there
    BY <1>14, TourConstants DEF CreateTour, SeatsHeld
  <2>2. UNCHANGED <<booking, checked>>
    BY <1>14 DEF CreateTour
  <2> QED
    BY <2>1, <2>2, PassengersNat DEF SeatsHeld, TypeOK
<1>15. ASSUME NEW r \in Requests, EditTour(r)
      PROVE  SeatsHeld'
  BY <1>15 DEF EditTour, told, SeatsHeld
<1>16. ASSUME NEW r \in Requests, WriteTour(r)
      PROVE  SeatsHeld'
  <2>1. tour'.there /\ tour'.capacity \in Nat /\ tour.capacity \in Nat /\ UNCHANGED booking
    BY <1>16 DEF WriteTour, At, Targets, TypeOK, RequestStates, Tours
  <2>2. CASE checked' = {}
    <3>1. Passengers(booking, {}) = {}
      BY DEF Passengers
    <3> QED
      BY <2>1, <2>2, <3>1, FS_EmptySet DEF SeatsHeld
  <2>3. CASE checked' = checked /\ ~(tour'.capacity < tour.capacity)
    BY <2>1, <2>3, PassengersNat DEF SeatsHeld, TypeOK
  <2> QED
    BY <1>16, <2>2, <2>3 DEF WriteTour
<1>17. ASSUME NEW r \in Requests, Seat(r)
      PROVE  SeatsHeld'
  BY <1>17 DEF Seat, told, SeatsHeld
<1>18. ASSUME NEW r \in Requests, Assign(r)
      PROVE  SeatsHeld'
  <2> DEFINE b == req[r].target
  <2>1. b \in Bookings /\ booking' = [booking EXCEPT ![b].linked = TRUE] /\ UNCHANGED tour
    BY <1>18 DEF Assign, At, Targets
  <2>2. \A x \in Bookings : booking[x].members \in Nat /\ booking'[x].members = booking[x].members
    BY <2>1, TourConstants DEF TypeOK, Rows
  <2>3. /\ tour.capacity \in Nat /\ Carries(booking) \in Nat
        /\ Cardinality(Passengers(booking', checked')) \in Nat
        /\ Cardinality(Passengers(booking, checked)) \in Nat
    BY SeatsCarries, PassengersNat DEF TypeOK, Tours
  <2>4. CASE ~req[r].force /\ Carries(booking) = req[r].taken /\ tour.capacity = req[r].room
             /\ booking[b].members = req[r].row.members
    <3>1. req[r].left = LeftFor(req[r].taken, req[r].room) /\ req[r].row.members <= req[r].left
      BY <1>18, <2>4 DEF Assign, At, SeesSeats
    <3>2. booking[b].members >= 1
      BY <2>1, TourConstants DEF TypeOK, Rows
    <3>3. Carries(booking) + booking[b].members <= tour.capacity
      BY <2>1, <2>2, <2>3, <2>4, <3>1, <3>2 DEF LeftFor
    <3>4. Carries(booking') <= Carries(booking) + booking[b].members
      BY <2>1, PassengersOne DEF TypeOK
    <3>5. Cardinality(Passengers(booking', checked')) <= Carries(booking')
      <4>1. \A x \in checked' : x \in Bookings /\ booking'[x].members <= booking'[x].members
        BY <2>2 DEF TypeOK
      <4> QED
        BY <4>1, PassengersLess DEF TypeOK, Carries
    <3>6. Carries(booking') \in Nat
      BY SeatsCarries DEF TypeOK
    <3>7. Cardinality(Passengers(booking', checked')) <= tour'.capacity
      BY <2>1, <2>2, <2>3, <3>3, <3>4, <3>5, <3>6
    <3> QED
      BY <2>1, <3>7 DEF SeatsHeld
  <2>5. CASE checked' = IF Aboard(booking[b]) THEN checked ELSE checked \ {b}
    <3>1. \A x \in checked' : Aboard(booking'[x]) =>
             x \in checked /\ Aboard(booking[x]) /\ booking'[x].members <= booking[x].members
      <4> SUFFICES ASSUME NEW x \in checked', Aboard(booking'[x])
                   PROVE  x \in checked /\ Aboard(booking[x]) /\ booking'[x].members <= booking[x].members
        OBVIOUS
      <4>1. x \in checked /\ x \in Bookings /\ (x = b => Aboard(booking[b]))
        BY <2>5 DEF TypeOK
      <4>2. x # b => booking'[x] = booking[x]
        BY <2>1, <4>1 DEF TypeOK
      <4> QED
        BY <2>2, <4>1, <4>2
    <3>2. Cardinality(Passengers(booking', checked')) <= Cardinality(Passengers(booking, checked))
      BY <3>1, PassengersLess DEF TypeOK
    <3>3. Cardinality(Passengers(booking', checked')) <= tour'.capacity
      BY <2>1, <2>3, <3>2 DEF SeatsHeld
    <3> QED
      BY <2>1, <3>3 DEF SeatsHeld
  <2> QED
    BY <1>18, <2>4, <2>5 DEF Assign
<1>19. ASSUME NEW r \in Requests, NEW b \in Bookings, EditBooking(r, b)
      PROVE  SeatsHeld'
  BY <1>19 DEF EditBooking, told, SeatsHeld
<1>20. ASSUME NEW r \in Requests, NEW b \in Bookings, Unlink(r, b)
      PROVE  SeatsHeld'
  <2>1. \A x \in checked : Aboard(booking'[x]) => Aboard(booking[x]) /\ booking'[x].members <= booking[x].members
    BY <1>20, TourConstants DEF Unlink, TypeOK, Rows, Aboard, NoRow, Bookings
  <2>2. Cardinality(Passengers(booking', checked)) <= Cardinality(Passengers(booking, checked))
    BY <2>1, PassengersLess DEF TypeOK
  <2>3. UNCHANGED <<tour, checked>>
    BY <1>20 DEF Unlink, told
  <2> QED
    BY <2>2, <2>3, PassengersNat DEF SeatsHeld, TypeOK, Tours
<1>21. ASSUME NEW r \in Requests, NEW b \in Bookings, NEW force \in BOOLEAN, Link(r, b, force)
      PROVE  SeatsHeld'
  BY <1>21 DEF Link, told, SeatsHeld
<1>22. ASSUME NEW r \in Requests, Die(r)
      PROVE  SeatsHeld'
  BY <1>22 DEF Die, told, SeatsHeld
<1>23. CASE UNCHANGED vars
  BY <1>23 DEF vars, told, told, SeatsHeld
<1> QED
  BY <1>1, <1>2, <1>3, <1>4, <1>5, <1>6, <1>7, <1>8, <1>9, <1>10, <1>11, <1>12, <1>13, <1>14,
     <1>15, <1>16, <1>17, <1>18, <1>19, <1>20, <1>21, <1>22, <1>23 DEF Next

----------------------------------------------------------------------------
(* Theorems *)

\* The strengthened invariant holds in every state: each conjunct is kept by each
\* step of the handlers, by the lemmas above.
THEOREM Inductive == Spec => []IInv
<1>1. Init => IInv
  <2> SUFFICES ASSUME Init
               PROVE  IInv
    OBVIOUS
  <2>1. booking \in [Bookings -> Rows] /\ \A b \in Bookings : ~booking[b].linked /\ ~booking[b].source
    <3>1. PICK members \in 1 .. Party :
             booking = [[b \in Bookings |-> NoRow]
                          EXCEPT ![Other] = [NoRow EXCEPT !.there = TRUE, !.live = TRUE, !.members = members]]
      BY DEF Init
    <3>2. NoRow \in Rows /\ ~NoRow.linked /\ ~NoRow.source
      BY TourConstants DEF NoRow, Rows, Travel
    <3>3. /\ [NoRow EXCEPT !.there = TRUE, !.live = TRUE, !.members = members] \in Rows
          /\ ~[NoRow EXCEPT !.there = TRUE, !.live = TRUE, !.members = members].linked
          /\ ~[NoRow EXCEPT !.there = TRUE, !.live = TRUE, !.members = members].source
      BY DEF NoRow, Rows, Travel
    <3> QED
      BY <3>1, <3>2, <3>3 DEF Bookings
  <2>2. tour \in Tours /\ (~tour.there => tour.capacity = 0)
    <3>1. CASE tour = NoTour
      BY <3>1 DEF NoTour, Tours
    <3>2. CASE tour \in [there : {TRUE}, deleted : {FALSE}, source : BOOLEAN, capacity : Capacities]
      BY <3>2, TourConstants DEF Tours
    <3> QED
      BY <3>1, <3>2 DEF Init
  <2>3. NewRequest \in RequestStates
    BY TourConstants DEF NewRequest, RequestStates, Points, Statuses, NoRow, NoTour, Rows, Tours, Travel
  <2>4. TypeOK
    BY <2>1, <2>2, <2>3 DEF Init, TypeOK
  <2>5. FromQuote(booking) = {} /\ \A r \in Requests : req[r] = NewRequest
    BY <2>1 DEF Init, FromQuote
  <2>6. Targets /\ StatusLast /\ OneCreates /\ DeletesUnused /\ SeesSeats
    BY <2>5 DEF Init, NewRequest, At, Targets, StatusLast, OneCreates, DeletesUnused, SeesSeats
  <2>7. Passengers(booking, checked) = {}
    BY DEF Init, Passengers
  <2>8. SeatsHeld
    BY <2>2, <2>7, FS_EmptySet DEF SeatsHeld, Tours
  <2> QED
    BY <2>4, <2>6, <2>8 DEF IInv
<1>2. IInv /\ [Next]_vars => IInv'
  <2> SUFFICES ASSUME IInv, [Next]_vars
               PROVE  IInv'
    OBVIOUS
  <2> USE DEF IInv
  <2>1. TypeOK'
    BY TypeNext
  <2> QED
    BY <2>1, TargetsNext, StatusNext, CreatesNext, DeletesNext, SeesNext, SeatsNext
<1> QED
  BY <1>1, <1>2, PTL DEF Spec

\* An acceptance makes no second booking of the itinerary, unless one came in
\* after it looked; and an accepted itinerary has a booking, however often
\* requests die on the way, unless it was entered as accepted or the booking form
\* took the booking away.
THEOREM AcceptedIsBooked == Spec => []OneBookingEach
<1>1. IInv => OneBookingEach
  BY DEF IInv, StatusLast, OneCreates, OneBookingEach
<1> QED
  BY <1>1, Inductive, PTL

\* An itinerary that was deleted is used by no live booking and no departure,
\* unless the use appeared after the count.
THEOREM DeletedIsUnused == Spec => []UsedIsKept
<1>1. IInv => UsedIsKept
  BY DEF IInv, DeletesUnused, UsedIsKept
<1> QED
  BY <1>1, Inductive, PTL

\* A departure all of whose passengers were linked on free seats, and took no more
\* since, has a seat for each.
THEOREM NotOverbooked == Spec => []SeatsFit
<1>1. IInv => SeatsFit
  <2> SUFFICES ASSUME IInv, \A b \in Bookings : Aboard(booking[b]) => b \in checked
               PROVE  Carries(booking) <= tour.capacity
    BY DEF SeatsFit
  <2>1. Passengers(booking, Bookings) = Passengers(booking, checked)
    <3>1. checked \subseteq Bookings
      BY DEF IInv, TypeOK
    <3> QED
      BY <3>1 DEF Passengers
  <2> QED
    BY <2>1 DEF IInv, SeatsHeld, Carries
<1> QED
  BY <1>1, Inductive, PTL
=============================================================================
