--------------------------- MODULE BookingLedger ---------------------------
(***************************************************************************)
(* One booking of one tenant: its row in bookings, the rows of             *)
(* booking_payments behind it, and the HTTP requests that change them.     *)
(*                                                                         *)
(* Every request runs one handler of bookingController / bookingService:   *)
(*   create  createBooking: insert the row, log, confirm                   *)
(*   add     addPayment: a transaction that holds the row's lock           *)
(*   remove  removePayment: a transaction that holds the row's lock        *)
(*   edit    updateBooking (also the soft delete): read the row, write     *)
(*           EVERY column of it back later, then log and confirm           *)
(*   sync    syncBookingForQuotation on an existing booking: an edit       *)
(*           whose updates are a whole row read before the edit's own read *)
(* Each await between two queries is a point where another request runs,   *)
(* so a handler is one action per query.                                   *)
(*                                                                         *)
(* Amounts are whole rupees. A payment is named by the request that added  *)
(* it. The expenses a Booked booking generates, its batch, the link between *)
(* it and a WhatsApp chat and the columns that play no part in money,      *)
(* status or archiving are left out.                                       *)
(***************************************************************************)
EXTENDS Naturals, FiniteSets

CONSTANTS
    Requests,     \* HTTP requests; each runs at most one handler
    Creator,      \* the one of them that creates the booking
    Amounts,      \* amounts a payment request may carry
    Advances,     \* advance taken when the booking is created
    Members,      \* head counts
    Prices,       \* prices per person
    FirstStatuses, \* travel statuses a booking may be created with
    Edits,        \* updates that PUT and DELETE /bookings/:id may carry
    NoBooking,    \* the row does not exist yet
    Nobody,       \* the row is not locked
    Unset         \* the field is absent from the updates (undefined)

TravelStatuses == {"Confirming", "Booked", "Completed", "Cancelled"}

Optional(S) == S \cup {Unset}

Edit == [members : Optional(Nat), price : Optional(Nat), paid : Optional(Nat),
         refunded : Optional(Nat), travelStatus : Optional(TravelStatuses),
         deleted : Optional(BOOLEAN)]

Row == [members : Nat, price : Nat, total : Nat, paid : Nat, remaining : Nat,
        refunded : Nat, travelStatus : TravelStatuses, deleted : BOOLEAN]

NoEdit == [members |-> Unset, price |-> Unset, paid |-> Unset,
           refunded |-> Unset, travelStatus |-> Unset, deleted |-> Unset]

\* The controller strips `paid` and `deleted` from the body of a PUT; a DELETE
\* carries nothing but `deleted`.
UserEdits ==
    {e \in Edit : /\ e.paid = Unset
                  /\ e.deleted # Unset => e = [NoEdit EXCEPT !.deleted = TRUE]}

ASSUME BookingConstants ==
    /\ IsFiniteSet(Requests) /\ Creator \in Requests
    /\ Amounts \subseteq Nat /\ Advances \subseteq Nat
    /\ Members \subseteq Nat /\ Prices \subseteq Nat
    /\ FirstStatuses \subseteq TravelStatuses
    /\ Edits \subseteq UserEdits
    /\ NoBooking \notin Row
    /\ Nobody \notin Requests
    /\ Unset \notin Nat \cup TravelStatuses \cup BOOLEAN

VARIABLES
    booking,      \* the row of bookings, or NoBooking
    ledger,       \* booking_payments: amount of each payment, 0 when no such row
    origin,       \* what createBooking stored first: advance and travel status
    lock,         \* holder of the row lock taken by SELECT ... FOR UPDATE
    history,      \* travel statuses follow_up_logs says the booking reached
    confirmed,    \* requests that had a booking confirmation sent
    pc,           \* where each request's handler is
    seen,         \* the row a handler read and still holds
    edit,         \* the updates of an edit or sync
    amount,       \* the amount of an add
    target        \* the payment a remove deletes

vars == <<booking, ledger, origin, lock, history, confirmed,
          pc, seen, edit, amount, target>>
request == <<seen, edit, amount, target>>

Locking   == {"adding", "removing"}
BeforeWrite == Locking \cup {"syncing", "editing"}
AfterWrite  == {"created", "written", "confirming"}
Phases    == {"idle", "done", "died"} \cup BeforeWrite \cup AfterWrite

TypeOK ==
    /\ booking \in Row \cup {NoBooking}
    /\ ledger \in [Requests -> Nat]
    /\ origin \in [paid : Nat, travelStatus : TravelStatuses]
    /\ lock \in Requests \cup {Nobody}
    /\ history \subseteq TravelStatuses
    /\ confirmed \subseteq Requests
    /\ pc \in [Requests -> Phases]
    /\ seen \in [Requests -> Row \cup {NoBooking}]
    /\ edit \in [Requests -> Edit]
    /\ amount \in [Requests -> Nat]
    /\ target \in [Requests -> Requests]

Init ==
    /\ booking = NoBooking
    /\ ledger = [r \in Requests |-> 0]
    /\ origin = [paid |-> 0, travelStatus |-> "Confirming"]
    /\ lock = Nobody
    /\ history = {}
    /\ confirmed = {}
    /\ pc = [r \in Requests |-> "idle"]
    /\ seen = [r \in Requests |-> NoBooking]
    /\ edit = [r \in Requests |-> NoEdit]
    /\ amount = [r \in Requests |-> 0]
    /\ target = [r \in Requests |-> r]

----------------------------------------------------------------------------
(* computeAmounts, totalsAfter and the merge of updates over a row *)

Owed(total, paid) == IF paid >= total THEN 0 ELSE total - paid

Pick(update, old) == IF update = Unset THEN old ELSE update

MergedReviving(row, e) ==                        \* mutant: `deleted` not carried over
    LET members == Pick(e.members, row.members)
        price   == Pick(e.price, row.price)
        paid    == Pick(e.paid, row.paid)
    IN [row EXCEPT !.members = members, !.price = price, !.paid = paid,
                   !.total = members * price,
                   !.remaining = Owed(members * price, paid),
                   !.travelStatus = Pick(e.travelStatus, @), !.deleted = (e.deleted = TRUE)]

\* { ...existing, ...updates } with total and remaining recomputed.
Merged(row, e) ==
    LET members == Pick(e.members, row.members)
        price   == Pick(e.price, row.price)
        paid    == Pick(e.paid, row.paid)
    IN [members |-> members, price |-> price, paid |-> paid,
        total |-> members * price, remaining |-> Owed(members * price, paid),
        refunded |-> Pick(e.refunded, row.refunded),
        travelStatus |-> Pick(e.travelStatus, row.travelStatus),
        deleted |-> Pick(e.deleted, row.deleted)]

AcceptableAnyStatus(row, e) ==                   \* mutant: no Completed guard
    e.refunded # Unset => e.refunded <= Pick(e.paid, row.paid)

\* updateBooking's two refusals: Completed needs Booked, a refund needs money.
Acceptable(row, e) ==
    /\ e.travelStatus = "Completed" => row.travelStatus \in {"Booked", "Completed"}
    /\ e.refunded # Unset => e.refunded <= Pick(e.paid, row.paid)

\* What syncBookingForQuotation passes as updates: the row it read, priced by
\* the quotation, Booked and not deleted.
SyncUpdates(row, price) ==
    [members |-> row.members, price |-> price, paid |-> row.paid,
     refunded |-> row.refunded, travelStatus |-> "Booked", deleted |-> FALSE]

StatusChangedToBooked(e, row) ==                 \* mutant: other statuses unlogged
    e.travelStatus = "Booked" /\ row.travelStatus # "Booked"
StatusChanged(e, row) == e.travelStatus \notin {Unset, row.travelStatus}
Archives(e, row) == e.deleted = TRUE /\ ~row.deleted

LockIgnored == TRUE                              \* mutant: no FOR UPDATE
LockFree == lock = Nobody

Goto(r, phase) == pc' = [pc EXCEPT ![r] = phase]
Hold(r, row)   == seen' = [seen EXCEPT ![r] = row]

\* The handler ends: its locals are gone.
Finish(r, phase) ==
    /\ Goto(r, phase)
    /\ Hold(r, NoBooking)
    /\ edit' = [edit EXCEPT ![r] = NoEdit]
    /\ amount' = [amount EXCEPT ![r] = 0]
    /\ target' = [target EXCEPT ![r] = r]

----------------------------------------------------------------------------
(* createBooking *)

\* INSERT INTO bookings; the id is new, so nobody else can name the row yet.
Create(r, members, price, paid, status) ==
    /\ r = Creator /\ pc[r] = "idle"
    /\ booking' = [members |-> members, price |-> price, paid |-> paid,
                   total |-> members * price,
                   remaining |-> Owed(members * price, paid),
                   refunded |-> 0, travelStatus |-> status, deleted |-> FALSE]
    /\ origin' = [paid |-> paid, travelStatus |-> status]
    /\ Goto(r, "created")
    /\ Hold(r, booking')
    /\ UNCHANGED <<ledger, lock, history, confirmed, edit, amount, target>>

\* Log the first status.
AfterCreate(r) ==
    /\ pc[r] = "created"
    /\ history' = history \cup {seen[r].travelStatus}
    /\ IF seen[r].travelStatus = "Booked"
         THEN Goto(r, "confirming") /\ UNCHANGED request
         ELSE Finish(r, "done")
    /\ UNCHANGED <<booking, ledger, origin, lock, confirmed>>

----------------------------------------------------------------------------
(* addPayment and removePayment: one transaction each *)

\* BEGIN; SELECT ... FOR UPDATE. A request whose amount is 0 was refused before.
BeginAdd(r, a) ==
    /\ pc[r] = "idle" /\ booking # NoBooking
    /\ a > 0
    /\ LockFree
    /\ lock' = r
    /\ Goto(r, "adding")
    /\ Hold(r, booking)
    /\ amount' = [amount EXCEPT ![r] = a]
    /\ UNCHANGED <<booking, ledger, origin, history, confirmed, edit, target>>

\* INSERT the payment, UPDATE the booking, COMMIT.
CommitAdd(r) ==
    /\ pc[r] = "adding"
    /\ ledger' = [ledger EXCEPT ![r] = amount[r]]
    /\ LET paid == seen[r].paid + amount[r]
       IN booking' = [booking EXCEPT !.paid = paid,
                                     !.remaining = Owed(seen[r].total, paid)]
    /\ lock' = Nobody
    /\ Finish(r, "done")
    /\ UNCHANGED <<origin, history, confirmed>>

BeginRemove(r, p) ==
    /\ pc[r] = "idle" /\ booking # NoBooking
    /\ pc[p] = "done"
    /\ LockFree
    /\ lock' = r
    /\ Goto(r, "removing")
    /\ Hold(r, booking)
    /\ target' = [target EXCEPT ![r] = p]
    /\ UNCHANGED <<booking, ledger, origin, history, confirmed, edit, amount>>

\* DELETE ... RETURNING amount, UPDATE the booking, COMMIT; with no such
\* payment nothing is written and the answer is 404.
CommitRemove(r) ==
    /\ pc[r] = "removing"
    /\ LET gone == ledger[target[r]]
           paid == Owed(seen[r].paid, gone)      \* max(paid - amount, 0)
       IN IF gone = 0
            THEN UNCHANGED <<booking, ledger>>
            ELSE /\ ledger' = [ledger EXCEPT ![target[r]] = 0]
                 /\ booking' = [booking EXCEPT !.paid = paid,
                                     !.remaining = Owed(seen[r].total, paid)]
    /\ lock' = Nobody
    /\ Finish(r, "done")
    /\ UNCHANGED <<origin, history, confirmed>>

RollbackKeepingLock(r) ==                        \* mutant: no ROLLBACK sent
    /\ pc[r] \in Locking
    /\ Finish(r, "done")
    /\ UNCHANGED <<booking, ledger, origin, lock, history, confirmed>>

\* A query fails or the connection drops: ROLLBACK, release the client.
Rollback(r) ==
    /\ pc[r] \in Locking
    /\ lock' = Nobody
    /\ Finish(r, "done")
    /\ UNCHANGED <<booking, ledger, origin, history, confirmed>>

----------------------------------------------------------------------------
(* updateBooking *)

\* Read the row and judge the updates against what was read.
ReadForEdit(r, e) ==
    /\ Hold(r, booking)
    /\ edit' = [edit EXCEPT ![r] = e]
    /\ Goto(r, "editing")
    /\ Acceptable(booking, e)
    /\ UNCHANGED <<booking, ledger, origin, lock, history, confirmed,
                   amount, target>>

BeginEdit(r, e) ==
    /\ pc[r] = "idle" /\ booking # NoBooking
    /\ ReadForEdit(r, e)

\* acceptQuotation found a booking of the quotation, perhaps an archived one.
BeginSync(r) ==
    /\ pc[r] = "idle" /\ booking # NoBooking
    /\ Goto(r, "syncing")
    /\ Hold(r, booking)
    /\ UNCHANGED <<booking, ledger, origin, lock, history, confirmed,
                   edit, amount, target>>

\* The edit the sync makes reads the row a second time; it may refuse, 400.
ContinueSync(r, price) ==
    /\ pc[r] = "syncing"
    /\ IF Acceptable(booking, SyncUpdates(seen[r], price))
         THEN ReadForEdit(r, SyncUpdates(seen[r], price))
         ELSE /\ Finish(r, "done")
              /\ UNCHANGED <<booking, ledger, origin, lock, history, confirmed>>

\* UPDATE bookings SET every column; waits for a transaction that holds the row.
WriteEdit(r) ==
    /\ pc[r] = "editing"
    /\ LockFree
    /\ booking' = Merged(seen[r], edit[r])
    /\ Goto(r, "written")
    /\ UNCHANGED <<ledger, origin, lock, history, confirmed>>
    /\ UNCHANGED request

\* The follow-up entry. An archiving edit logs no status.
AfterWriteEdit(r) ==
    /\ pc[r] = "written"
    /\ history' = IF StatusChanged(edit[r], seen[r]) /\ ~Archives(edit[r], seen[r])
                    THEN history \cup {edit[r].travelStatus} ELSE history
    /\ IF StatusChanged(edit[r], seen[r]) /\ edit[r].travelStatus = "Booked"
         THEN Goto(r, "confirming") /\ UNCHANGED request
         ELSE Finish(r, "done")
    /\ UNCHANGED <<booking, ledger, origin, lock, confirmed>>

\* sendBookingConfirmation hands the message to both channels; one that fails
\* is only logged.
Confirm(r) ==
    /\ pc[r] = "confirming"
    /\ confirmed' = confirmed \cup {r}
    /\ Finish(r, "done")
    /\ UNCHANGED <<booking, ledger, origin, lock, history>>

\* The handler throws or the process stops: what it wrote stays written.
Die(r) ==
    /\ pc[r] \in {"syncing", "editing"} \cup AfterWrite
    /\ Finish(r, IF pc[r] \in AfterWrite THEN "died" ELSE "done")
    /\ UNCHANGED <<booking, ledger, origin, lock, history, confirmed>>

----------------------------------------------------------------------------

Arrive(r) ==
    \/ \E m \in Members, p \in Prices, a \in Advances, s \in FirstStatuses :
          Create(r, m, p, a, s)
    \/ \E a \in Amounts : BeginAdd(r, a)
    \/ \E p \in Requests : BeginRemove(r, p)
    \/ \E e \in Edits : BeginEdit(r, e)
    \/ BeginSync(r)

Advance(r) ==
    \/ AfterCreate(r) \/ CommitAdd(r) \/ CommitRemove(r)
    \/ \E p \in Prices : ContinueSync(r, p)
    \/ WriteEdit(r) \/ AfterWriteEdit(r) \/ Confirm(r)

Quiet == \A r \in Requests : pc[r] \in {"idle", "done", "died"}

\* Every request of the bounded run has been answered.
Rest == (\A r \in Requests : pc[r] \in {"done", "died"}) /\ UNCHANGED vars

Next ==
    \/ \E r \in Requests : Arrive(r) \/ Advance(r) \/ Rollback(r) \/ Die(r)
    \/ Rest

\* An awaited query is answered in the end; no request has to arrive, and no
\* transaction or process has to fail.
Fairness == \A r \in Requests : WF_vars(Advance(r))

Spec == Init /\ [][Next]_vars /\ Fairness
----------------------------------------------------------------------------
(* Properties *)

\* The ledger in unit coins: coin <<p, i>> is the i-th rupee of payment p.
Coins(l) == UNION {{p} \X (1 .. l[p]) : p \in Requests}
Total(l) == Cardinality(Coins(l))

Consistent(row) ==
    /\ row.total = row.members * row.price
    /\ row.remaining = Owed(row.total, row.paid)

\* The row's derived amounts agree with each other whatever runs at the same
\* time: total_amount is members x price_per_person and remaining is what of it
\* is unpaid. A payment computes `remaining` from a total_amount it read, an
\* edit recomputes both; the row lock is what keeps the two from crossing.
\* (Every state of an account agrees so: ImplementsAccount, below, says this and more.)
RowConsistent == booking # NoBooking => Consistent(booking)

\* "The transaction keeps the ledger row and the total together": what the
\* booking counts as paid is its advance plus every payment of the ledger.
\* Not an invariant of the code: an edit writes back the `paid` it read.
LedgerBalanced ==
    booking # NoBooking => booking.paid = origin.paid + Total(ledger)

\* An edit that is about to overwrite a `paid` it no longer agrees with.
StaleWrite(r) ==
    /\ pc[r] = "editing"
    /\ Pick(edit[r].paid, seen[r].paid) # booking.paid

\* The only step that takes a balanced booking out of balance is such an edit:
\* no interleaving of payments, reversals, rollbacks and crashes does.
OnlyStaleEditsUnbalance ==
    [][LedgerBalanced => LedgerBalanced' \/ \E r \in Requests : StaleWrite(r) /\ WriteEdit(r)]_vars

\* Once every handler has ended, and none died between its write and its log
\* entry, follow_up_logs holds an entry for the status the booking has, even
\* when an edit put an older status back; and the customer is told "your booking
\* is confirmed" only after the entry that says so.
HistoryExplainsStatus ==
    /\ (/\ Quiet /\ booking # NoBooking
        /\ \A r \in Requests : pc[r] # "died"
        => booking.travelStatus \in history)
    /\ confirmed # {} => "Booked" \in history

\* A booking is only ever Completed if it was created so or has been Booked:
\* updateBooking checks this on the row it read, so the check must survive a
\* status change between the read and the write.
CompletedWasBooked ==
    /\ Quiet /\ booking # NoBooking
    /\ \A r \in Requests : pc[r] # "died"
    /\ booking.travelStatus = "Completed"
    => "Booked" \in history \/ origin.travelStatus = "Completed"

\* An archived booking comes back only by accepting its quotation again, or by
\* an edit that read the row before it was archived.
OnlySyncOrStaleRevives ==
    [][booking # NoBooking /\ booking.deleted /\ ~booking'.deleted
         => \E r \in Requests :
               /\ pc[r] = "editing" /\ pc'[r] = "written"
               /\ edit[r].deleted = FALSE \/ ~seen[r].deleted]_vars

\* A row as its account shows it.
Statement(row) ==
    IF row = NoBooking THEN NoBooking
    ELSE [members |-> row.members, price |-> row.price, total |-> row.total,
          paid |-> row.paid, due |-> row.remaining, archived |-> row.deleted]

\* What a handler between its first read and its write is to make of `paid` and
\* `deleted`.
Draft(r) ==
    CASE pc[r] = "syncing" -> [paid |-> seen[r].paid, archived |-> FALSE]
      [] pc[r] = "editing" -> [paid |-> Pick(edit[r].paid, seen[r].paid),
                               archived |-> Pick(edit[r].deleted, seen[r].deleted)]
      [] OTHER -> NoBooking

Drafts == [r \in Requests |-> Draft(r)]

Account == INSTANCE BookingAccount
    WITH None <- NoBooking, account <- Statement(booking), receipts <- ledger, drafts <- Drafts

\* Seen from outside, a payment or a reversal happens at once, on the amount the
\* booking has then, however its transaction is interleaved, rolled back or cut
\* short; only an edit puts back what it read before, and then every column of one
\* reading, or the sync's.
ImplementsAccount == Account!Spec

\* Every request that arrived is answered: a transaction never keeps the lock.
Answered ==
    \A r \in Requests : pc[r] # "idle" ~> pc[r] \in {"done", "died"}
=============================================================================
