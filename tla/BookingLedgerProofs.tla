------------------------ MODULE BookingLedgerProofs ------------------------
(***************************************************************************)
(* What BookingLedger promises for every number of requests, every amount  *)
(* and every set of edits, checked by the TLA+ proof system.               *)
(***************************************************************************)
EXTENDS BookingLedger, FiniteSetTheorems, TLAPS

----------------------------------------------------------------------------
(* The inductive invariant *)

\* A transaction owns the row: what it read is what the row still is.
LockHeld ==
    \A r \in Requests : pc[r] \in Locking => lock = r /\ seen[r] = booking

\* A handler past its first read holds a row.
HoldsRow ==
    \A r \in Requests :
        pc[r] \in {"syncing", "editing"} \cup AfterWrite => seen[r] \in Row

\* Before the row exists no handler has started and no payment is recorded.
NothingBefore ==
    booking = NoBooking => \A r \in Requests : pc[r] = "idle" /\ ledger[r] = 0

\* The row is inserted once, by the creating request.
CreatedOnce == pc[Creator] = "idle" => booking = NoBooking

\* A request's payment is recorded only when its transaction commits.
NotYetPaid ==
    \A r \in Requests : pc[r] \in {"idle", "adding"} => ledger[r] = 0

IInv ==
    /\ TypeOK /\ RowConsistent
    /\ LockHeld /\ HoldsRow /\ NothingBefore /\ CreatedOnce /\ NotYetPaid

----------------------------------------------------------------------------
(* Lemmas about the operators *)

\* Arithmetic the SMT backend needs to be told: a product of naturals.
LEMMA ProductIsNat ==
    ASSUME NEW m \in Nat, NEW n \in Nat
    PROVE  m * n \in Nat
  OBVIOUS

\* What is left to pay is a natural number.
LEMMA OwedIsNat ==
    ASSUME NEW total \in Nat, NEW paid \in Nat
    PROVE  Owed(total, paid) \in Nat
  BY DEF Owed

\* An absent field leaves the old value, a present one replaces it.
LEMMA PickType ==
    ASSUME NEW S, NEW update \in Optional(S), NEW old \in S
    PROVE  Pick(update, old) \in S
  BY DEF Pick, Optional

\* Writing an edit over a row gives a row.
LEMMA MergedIsRow ==
    ASSUME NEW row \in Row, NEW e \in Edit
    PROVE  Merged(row, e) \in Row
<1> DEFINE m == Pick(e.members, row.members)
           p == Pick(e.price, row.price)
           d == Pick(e.paid, row.paid)
<1>1. /\ m \in Nat /\ p \in Nat /\ d \in Nat
      /\ Pick(e.refunded, row.refunded) \in Nat
      /\ Pick(e.travelStatus, row.travelStatus) \in TravelStatuses
      /\ Pick(e.deleted, row.deleted) \in BOOLEAN
  BY PickType DEF Row, Edit
<1>2. m * p \in Nat
  BY <1>1, ProductIsNat
<1>3. Owed(m * p, d) \in Nat
  BY <1>1, <1>2, OwedIsNat
<1> HIDE DEF m, p, d
<1>4. Merged(row, e) =
        [members |-> m, price |-> p, paid |-> d, total |-> m * p,
         remaining |-> Owed(m * p, d),
         refunded |-> Pick(e.refunded, row.refunded),
         travelStatus |-> Pick(e.travelStatus, row.travelStatus),
         deleted |-> Pick(e.deleted, row.deleted)]
  BY DEF Merged, m, p, d
<1> QED
  BY <1>1, <1>2, <1>3, <1>4 DEF Row

\* ... whose derived amounts agree.
LEMMA MergedIsConsistent ==
    ASSUME NEW row, NEW e
    PROVE  Consistent(Merged(row, e))
  BY DEF Merged, Consistent

\* A sync's updates are a possible edit.
LEMMA SyncUpdatesIsEdit ==
    ASSUME NEW row \in Row, NEW price \in Nat
    PROVE  SyncUpdates(row, price) \in Edit
  BY DEF SyncUpdates, Row, Edit, Optional, TravelStatuses

\* A payment or a reversal changes two columns of the row and keeps it consistent.
LEMMA PaidIsRow ==
    ASSUME NEW row \in Row, Consistent(row), NEW paid \in Nat, NEW w,
           w = [row EXCEPT !.paid = paid, !.remaining = Owed(row.total, paid)]
    PROVE  /\ w \in Row
           /\ Consistent(w)
           /\ w.paid = paid
<1>1. Owed(row.total, paid) \in Nat
  BY OwedIsNat DEF Row
<1>2. w \in Row
  BY <1>1 DEF Row
<1>3. /\ w.total = row.total /\ w.members = row.members /\ w.price = row.price
      /\ w.paid = paid /\ w.remaining = Owed(row.total, paid)
  BY DEF Row
<1>4. Consistent(w)
  BY <1>3 DEF Consistent
<1> QED
  BY <1>2, <1>3, <1>4

----------------------------------------------------------------------------
(* What a step of one request does *)

Step(r) == Arrive(r) \/ Advance(r) \/ Rollback(r) \/ Die(r)

\* The row a transaction works on, and the row a handler still holds.
LEMMA RowExists ==
    ASSUME IInv, NEW r \in Requests, pc[r] # "idle"
    PROVE  /\ booking \in Row
           /\ pc[r] \in Locking => seen[r] = booking
  BY DEF IInv, TypeOK, NothingBefore, LockHeld

\* INSERT INTO bookings writes a consistent row.
LEMMA CreateWrites ==
    ASSUME IInv, NEW r \in Requests, NEW m \in Members, NEW p \in Prices,
           NEW a \in Advances, NEW s \in FirstStatuses, Create(r, m, p, a, s)
    PROVE  booking' \in Row /\ Consistent(booking') /\ booking'.paid = origin'.paid
<1>1. m \in Nat /\ p \in Nat /\ a \in Nat /\ s \in TravelStatuses /\ m * p \in Nat
  BY BookingConstants, ProductIsNat
<1>2. Owed(m * p, a) \in Nat
  BY <1>1, OwedIsNat
<1> QED
  BY <1>1, <1>2 DEF Create, Row, Consistent

\* A payment moves paid up and recomputes remaining, nothing else of the row.
LEMMA AddWrites ==
    ASSUME IInv, NEW r \in Requests, CommitAdd(r)
    PROVE  /\ booking' \in Row /\ Consistent(booking')
           /\ booking'.paid = booking.paid + amount[r]
<1>1. booking \in Row /\ seen[r] = booking
  BY RowExists DEF CommitAdd, Locking
<1>2. PICK paid \in Nat : paid = booking.paid + amount[r]
  BY <1>1 DEF IInv, TypeOK, Row
<1>3. booking' = [booking EXCEPT !.paid = paid, !.remaining = Owed(booking.total, paid)]
  BY <1>1, <1>2 DEF CommitAdd
<1>4. Consistent(booking)
  BY <1>1, BookingConstants DEF IInv, RowConsistent
<1>5. booking' \in Row /\ Consistent(booking') /\ booking'.paid = paid
  BY <1>1, <1>3, <1>4, PaidIsRow
<1> QED
  BY <1>2, <1>5

\* A reversal moves paid down, never below zero; a payment that is not there
\* moves it nowhere.
LEMMA RemoveWrites ==
    ASSUME IInv, NEW r \in Requests, CommitRemove(r)
    PROVE  /\ booking' \in Row /\ Consistent(booking')
           /\ booking'.paid = Owed(booking.paid, ledger[target[r]])
           /\ ledger' = [ledger EXCEPT ![target[r]] = 0]
<1> DEFINE gone == ledger[target[r]]
<1>1. booking \in Row /\ seen[r] = booking
  BY RowExists DEF CommitRemove, Locking
<1>2. gone \in Nat /\ target[r] \in Requests /\ ledger \in [Requests -> Nat]
  BY DEF IInv, TypeOK
<1>3. PICK paid \in Nat : paid = Owed(booking.paid, gone)
  BY <1>1, <1>2, OwedIsNat DEF Row
<1>4. Consistent(booking)
  BY <1>1, BookingConstants DEF IInv, RowConsistent
<1>5. CASE gone = 0
  <2>1. booking' = booking /\ ledger' = ledger
    BY <1>1, <1>5 DEF CommitRemove
  <2>2. Owed(booking.paid, 0) = booking.paid
    BY <1>1 DEF Owed, Row
  <2> QED
    BY <1>1, <1>2, <1>4, <1>5, <2>1, <2>2 DEF Consistent
<1>6. CASE gone # 0
  <2>1. /\ ledger' = [ledger EXCEPT ![target[r]] = 0]
        /\ booking' = [booking EXCEPT !.paid = paid,
                                      !.remaining = Owed(booking.total, paid)]
    BY <1>1, <1>3, <1>6 DEF CommitRemove
  <2>2. booking' \in Row /\ Consistent(booking') /\ booking'.paid = paid
    BY <1>1, <1>4, <2>1, PaidIsRow
  <2> QED
    BY <1>3, <2>1, <2>2
<1> QED
  BY <1>5, <1>6

\* An edit writes a consistent row, whatever row it read.
LEMMA EditWrites ==
    ASSUME IInv, NEW r \in Requests, WriteEdit(r)
    PROVE  booking' \in Row /\ Consistent(booking')
<1>1. seen[r] \in Row /\ edit[r] \in Edit
  BY DEF WriteEdit, IInv, HoldsRow, TypeOK
<1> QED
  BY <1>1, MergedIsRow, MergedIsConsistent DEF WriteEdit

\* A step leaves the row alone or writes a consistent one.
LEMMA RowAfter ==
    ASSUME IInv, NEW r \in Requests, Step(r)
    PROVE  \/ booking' = booking
           \/ booking' \in Row /\ Consistent(booking')
<1>1. CASE \E m \in Members, p \in Prices, a \in Advances, s \in FirstStatuses :
              Create(r, m, p, a, s)
  BY <1>1, CreateWrites
<1>2. CASE CommitAdd(r)
  BY <1>2, AddWrites
<1>3. CASE CommitRemove(r)
  BY <1>3, RemoveWrites
<1>4. CASE WriteEdit(r)
  BY <1>4, EditWrites
<1>5. CASE \/ \E a \in Amounts : BeginAdd(r, a)
           \/ \E p \in Requests : BeginRemove(r, p)
           \/ \E e \in Edits : BeginEdit(r, e)
           \/ BeginSync(r)
  BY <1>5 DEF BeginAdd, BeginRemove, BeginEdit, ReadForEdit, BeginSync
<1>6. CASE \/ AfterCreate(r) \/ AfterWriteEdit(r) \/ Confirm(r)
           \/ \E p \in Prices : ContinueSync(r, p)
  BY <1>6 DEF AfterCreate, AfterWriteEdit, Confirm, ContinueSync, ReadForEdit
<1>7. CASE Rollback(r) \/ Die(r)
  BY <1>7 DEF Rollback, Die
<1> QED
  BY <1>1, <1>2, <1>3, <1>4, <1>5, <1>6, <1>7 DEF Step, Arrive, Advance

\* A step moves the request that takes it out of idle and no other request.
LEMMA OneMoves ==
    ASSUME IInv, NEW r \in Requests, Step(r)
    PROVE  /\ pc'[r] # "idle"
           /\ \A q \in Requests \ {r} : pc'[q] = pc[q] /\ seen'[q] = seen[q]
<1>1. pc \in [Requests -> Phases] /\ seen \in [Requests -> Row \cup {NoBooking}]
  BY DEF IInv, TypeOK
<1>2. CASE Arrive(r)
  BY <1>1, <1>2
  DEF Arrive, Create, BeginAdd, BeginRemove, BeginEdit, ReadForEdit, BeginSync,
      Goto, Hold
<1>3. CASE AfterCreate(r) \/ AfterWriteEdit(r)
  BY <1>1, <1>3 DEF AfterCreate, AfterWriteEdit, Goto, Hold, Finish, request
<1>4. CASE \E p \in Prices : ContinueSync(r, p)
  BY <1>1, <1>4 DEF ContinueSync, ReadForEdit, Goto, Hold, Finish
<1>5. CASE CommitAdd(r) \/ CommitRemove(r) \/ Confirm(r) \/ Rollback(r) \/ Die(r)
  BY <1>1, <1>5
  DEF CommitAdd, CommitRemove, Confirm, Rollback, Die, Goto, Hold, Finish
<1>6. CASE WriteEdit(r)
  BY <1>1, <1>6 DEF WriteEdit, Goto, request
<1> QED
  BY <1>2, <1>3, <1>4, <1>5, <1>6 DEF Step, Advance

----------------------------------------------------------------------------
(* Type correctness *)

\* The end of a handler keeps the types of what the handler held.
LEMMA FinishType ==
    ASSUME TypeOK, NEW r \in Requests, NEW phase \in Phases, Finish(r, phase)
    PROVE  /\ pc' \in [Requests -> Phases]
           /\ seen' \in [Requests -> Row \cup {NoBooking}]
           /\ edit' \in [Requests -> Edit]
           /\ amount' \in [Requests -> Nat]
           /\ target' \in [Requests -> Requests]
<1>1. NoEdit \in Edit
  BY DEF NoEdit, Edit, Optional
<1> QED
  BY <1>1 DEF Finish, Goto, Hold, TypeOK

\* A step of a request keeps the types.
LEMMA TypeStep ==
    ASSUME IInv, [Next]_vars
    PROVE  TypeOK'
<1> USE BookingConstants
<1>0. TypeOK
  BY DEF IInv
<1>1. ASSUME NEW r \in Requests, NEW m \in Members, NEW p \in Prices,
             NEW a \in Advances, NEW s \in FirstStatuses, Create(r, m, p, a, s)
      PROVE  TypeOK'
  <2>1. booking' \in Row
    BY <1>1, CreateWrites
  <2> QED
    BY <1>0, <1>1, <2>1
    DEF Create, TypeOK, Goto, Hold, Phases, AfterWrite
<1>2. ASSUME NEW r \in Requests, NEW a \in Amounts, BeginAdd(r, a)
      PROVE  TypeOK'
  BY <1>0, <1>2
  DEF BeginAdd, TypeOK, Goto, Hold, Phases, BeforeWrite, Locking
<1>3. ASSUME NEW r \in Requests, NEW p \in Requests, BeginRemove(r, p)
      PROVE  TypeOK'
  BY <1>0, <1>3
  DEF BeginRemove, TypeOK, Goto, Hold, Phases, BeforeWrite, Locking
<1>4. ASSUME NEW r \in Requests, NEW e \in Edit, ReadForEdit(r, e)
      PROVE  TypeOK'
  BY <1>0, <1>4
  DEF ReadForEdit, TypeOK, Goto, Hold, Phases, BeforeWrite
<1>5. ASSUME NEW r \in Requests, NEW e \in Edits, BeginEdit(r, e)
      PROVE  TypeOK'
  BY <1>4, <1>5 DEF BeginEdit, UserEdits
<1>6. ASSUME NEW r \in Requests, BeginSync(r)
      PROVE  TypeOK'
  BY <1>0, <1>6
  DEF BeginSync, TypeOK, Goto, Hold, Phases, BeforeWrite
<1>7. ASSUME NEW r \in Requests, AfterCreate(r)
      PROVE  TypeOK'
  <2>1. seen[r] \in Row
    BY <1>7 DEF AfterCreate, IInv, HoldsRow, AfterWrite
  <2>2. history' \subseteq TravelStatuses
    BY <1>0, <1>7, <2>1 DEF AfterCreate, TypeOK, Row
  <2>3. CASE Goto(r, "confirming") /\ UNCHANGED request
    BY <1>0, <1>7, <2>2, <2>3
    DEF AfterCreate, TypeOK, Goto, request, Phases, AfterWrite
  <2>4. CASE Finish(r, "done")
    BY <1>0, <1>7, <2>2, <2>4, FinishType DEF AfterCreate, TypeOK, Phases
  <2> QED
    BY <1>7, <2>3, <2>4 DEF AfterCreate
<1>8. ASSUME NEW r \in Requests, CommitAdd(r)
      PROVE  TypeOK'
  <2>1. booking' \in Row
    BY <1>8, AddWrites
  <2> QED
    BY <1>0, <1>8, <2>1, FinishType DEF CommitAdd, TypeOK, Phases
<1>9. ASSUME NEW r \in Requests, CommitRemove(r)
      PROVE  TypeOK'
  <2>1. booking' \in Row /\ ledger' = [ledger EXCEPT ![target[r]] = 0]
    BY <1>9, RemoveWrites
  <2> QED
    BY <1>0, <1>9, <2>1, FinishType DEF CommitRemove, TypeOK, Phases
<1>10. ASSUME NEW r \in Requests, Rollback(r)
       PROVE  TypeOK'
  BY <1>0, <1>10, FinishType DEF Rollback, TypeOK, Phases
<1>11. ASSUME NEW r \in Requests, NEW p \in Prices, ContinueSync(r, p)
       PROVE  TypeOK'
  <2>1. SyncUpdates(seen[r], p) \in Edit
    BY <1>11, SyncUpdatesIsEdit DEF ContinueSync, IInv, HoldsRow
  <2>2. CASE ReadForEdit(r, SyncUpdates(seen[r], p))
    BY <1>4, <2>1, <2>2
  <2>3. CASE Finish(r, "done")
              /\ UNCHANGED <<booking, ledger, origin, lock, history, confirmed>>
    BY <1>0, <2>3, FinishType DEF TypeOK, Phases
  <2> QED
    BY <1>11, <2>2, <2>3 DEF ContinueSync
<1>12. ASSUME NEW r \in Requests, WriteEdit(r)
       PROVE  TypeOK'
  <2>1. booking' \in Row
    BY <1>12, EditWrites
  <2> QED
    BY <1>0, <1>12, <2>1
    DEF WriteEdit, TypeOK, Goto, request, Phases, AfterWrite
<1>13. ASSUME NEW r \in Requests, AfterWriteEdit(r)
       PROVE  TypeOK'
  <2>1. history' \subseteq TravelStatuses
    BY <1>0, <1>13 DEF AfterWriteEdit, TypeOK, StatusChanged, Edit, Optional
  <2>2. CASE Goto(r, "confirming") /\ UNCHANGED request
    BY <1>0, <1>13, <2>1, <2>2
    DEF AfterWriteEdit, TypeOK, Goto, request, Phases, AfterWrite
  <2>3. CASE Finish(r, "done")
    BY <1>0, <1>13, <2>1, <2>3, FinishType DEF AfterWriteEdit, TypeOK, Phases
  <2> QED
    BY <1>13, <2>2, <2>3 DEF AfterWriteEdit
<1>14. ASSUME NEW r \in Requests, Confirm(r)
       PROVE  TypeOK'
  BY <1>0, <1>14, FinishType DEF Confirm, TypeOK, Phases
<1>15. ASSUME NEW r \in Requests, Die(r)
       PROVE  TypeOK'
  BY <1>0, <1>15, FinishType DEF Die, TypeOK, Phases
<1>16. CASE UNCHANGED vars
  BY <1>0, <1>16 DEF TypeOK, vars
<1> QED
  BY <1>1, <1>2, <1>3, <1>5, <1>6, <1>7, <1>8, <1>9, <1>10, <1>11, <1>12,
     <1>13, <1>14, <1>15, <1>16
  DEF Next, Arrive, Advance, Rest

----------------------------------------------------------------------------
(* The rest of the inductive invariant *)

\* While one request owns the row nobody else writes it or takes the lock.
LEMMA OwnerUndisturbed ==
    ASSUME IInv, NEW r \in Requests, Step(r),
           NEW q \in Requests \ {r}, pc[q] \in Locking
    PROVE  booking' = booking /\ lock' = lock
<1>1. lock = q /\ lock # Nobody /\ lock # r
  BY BookingConstants DEF IInv, LockHeld
<1>2. booking # NoBooking
  BY DEF IInv, NothingBefore, Locking
<1>3. CASE Arrive(r)
  BY <1>1, <1>2, <1>3
  DEF Arrive, Create, BeginAdd, BeginRemove, BeginEdit, ReadForEdit, BeginSync,
      LockFree, IInv, CreatedOnce
<1>4. CASE CommitAdd(r) \/ CommitRemove(r) \/ Rollback(r)
  BY <1>1, <1>4 DEF CommitAdd, CommitRemove, Rollback, IInv, LockHeld, Locking
<1>5. CASE AfterCreate(r) \/ AfterWriteEdit(r) \/ Confirm(r) \/ Die(r)
  BY <1>5 DEF AfterCreate, AfterWriteEdit, Confirm, Die
<1>6. CASE \E p \in Prices : ContinueSync(r, p)
  BY <1>6 DEF ContinueSync, ReadForEdit
<1>7. CASE WriteEdit(r)
  BY <1>1, <1>7 DEF WriteEdit, LockFree
<1> QED
  BY <1>3, <1>4, <1>5, <1>6, <1>7 DEF Step, Advance

\* A transaction keeps the row it locked until it ends.
LEMMA LockHeldStep ==
    ASSUME IInv, NEW r \in Requests, Step(r)
    PROVE  LockHeld'
<1> SUFFICES ASSUME NEW q \in Requests, pc'[q] \in Locking
             PROVE  lock' = q /\ seen'[q] = booking'
  BY DEF LockHeld
<1>0. pc \in [Requests -> Phases] /\ seen \in [Requests -> Row \cup {NoBooking}]
  BY DEF IInv, TypeOK
<1>1. CASE q # r
  <2>1. pc[q] \in Locking /\ seen'[q] = seen[q]
    BY <1>1, OneMoves
  <2> QED
    BY <1>1, <2>1, OwnerUndisturbed DEF IInv, LockHeld
<1>2. CASE q = r
  <2>1. CASE Arrive(r)
    BY <1>0, <1>2, <2>1
    DEF Arrive, Create, BeginAdd, BeginRemove, BeginEdit, ReadForEdit, BeginSync,
        Goto, Hold, Locking
  <2>2. CASE AfterCreate(r) \/ AfterWriteEdit(r) \/ WriteEdit(r)
    BY <1>0, <1>2, <2>2
    DEF AfterCreate, AfterWriteEdit, WriteEdit, Goto, Finish, Locking
  <2>3. CASE \E p \in Prices : ContinueSync(r, p)
    BY <1>0, <1>2, <2>3 DEF ContinueSync, ReadForEdit, Goto, Finish, Locking
  <2>4. CASE CommitAdd(r) \/ CommitRemove(r) \/ Confirm(r) \/ Rollback(r) \/ Die(r)
    BY <1>0, <1>2, <2>4
    DEF CommitAdd, CommitRemove, Confirm, Rollback, Die, Goto, Finish, Locking
  <2> QED
    BY <2>1, <2>2, <2>3, <2>4 DEF Step, Advance
<1> QED
  BY <1>1, <1>2

\* What a handler holds between its read and its last write is a row.
LEMMA HoldsRowStep ==
    ASSUME IInv, NEW r \in Requests, Step(r)
    PROVE  HoldsRow'
<1> SUFFICES ASSUME NEW q \in Requests,
                    pc'[q] \in {"syncing", "editing"} \cup AfterWrite
             PROVE  seen'[q] \in Row
  BY DEF HoldsRow
<1>0. /\ pc \in [Requests -> Phases] /\ seen \in [Requests -> Row \cup {NoBooking}]
      /\ booking \in Row \cup {NoBooking}
  BY DEF IInv, TypeOK
<1>1. CASE q # r
  BY <1>1, OneMoves DEF IInv, HoldsRow
<1>2. CASE q = r
  <2>1. CASE \E m \in Members, p \in Prices, a \in Advances, s \in FirstStatuses :
                Create(r, m, p, a, s)
    BY <1>0, <1>2, <2>1, CreateWrites DEF Create, Hold
  <2>2. CASE \/ \E a \in Amounts : BeginAdd(r, a)
             \/ \E p \in Requests : BeginRemove(r, p)
             \/ \E e \in Edits : BeginEdit(r, e)
             \/ BeginSync(r)
    BY <1>0, <1>2, <2>2
    DEF BeginAdd, BeginRemove, BeginEdit, ReadForEdit, BeginSync, Hold
  <2>3. CASE AfterCreate(r) \/ AfterWriteEdit(r) \/ WriteEdit(r)
    BY <1>0, <1>2, <2>3
    DEF AfterCreate, AfterWriteEdit, WriteEdit, Goto, Finish, request, IInv,
        HoldsRow, AfterWrite
  <2>4. CASE \E p \in Prices : ContinueSync(r, p)
    <3>1. booking \in Row
      BY <2>4, RowExists DEF ContinueSync
    <3> QED
      BY <1>0, <1>2, <2>4, <3>1
      DEF ContinueSync, ReadForEdit, Goto, Hold, Finish, AfterWrite
  <2>5. CASE CommitAdd(r) \/ CommitRemove(r) \/ Confirm(r) \/ Rollback(r) \/ Die(r)
    BY <1>0, <1>2, <2>5
    DEF CommitAdd, CommitRemove, Confirm, Rollback, Die, Goto, Finish, AfterWrite
  <2> QED
    BY <2>1, <2>2, <2>3, <2>4, <2>5 DEF Step, Arrive, Advance
<1> QED
  BY <1>1, <1>2

\* Nothing can happen to a booking before it is created.
LEMMA CreatedFirst ==
    ASSUME IInv, NEW r \in Requests, Step(r), booking = NoBooking
    PROVE  booking' \in Row /\ r = Creator
<1>1. pc[r] = "idle"
  BY DEF IInv, NothingBefore
<1>2. \E m \in Members, p \in Prices, a \in Advances, s \in FirstStatuses :
          Create(r, m, p, a, s)
  BY <1>1
  DEF Step, Arrive, Advance, BeginAdd, BeginRemove, BeginEdit, BeginSync,
      AfterCreate, CommitAdd, CommitRemove, ContinueSync, WriteEdit,
      AfterWriteEdit, Confirm, Rollback, Die, Locking, AfterWrite
<1> QED
  BY <1>2, CreateWrites DEF Create

\* Once there is a row there is always one, and the creator is done creating.
LEMMA ExistenceStep ==
    ASSUME IInv, NEW r \in Requests, Step(r)
    PROVE  NothingBefore' /\ CreatedOnce'
<1>1. booking' \in Row
  BY RowAfter, CreatedFirst DEF IInv, TypeOK
<1>2. booking' # NoBooking
  BY <1>1, BookingConstants
<1>3. pc'[Creator] # "idle"
  BY OneMoves, CreatedFirst, BookingConstants DEF IInv, CreatedOnce
<1> QED
  BY <1>2, <1>3 DEF NothingBefore, CreatedOnce

\* Only the commit of a request's own transaction records its payment.
LEMMA NotYetPaidStep ==
    ASSUME IInv, NEW r \in Requests, Step(r)
    PROVE  NotYetPaid'
<1> SUFFICES ASSUME NEW q \in Requests, pc'[q] \in {"idle", "adding"}
             PROVE  ledger'[q] = 0
  BY DEF NotYetPaid
<1>0. pc \in [Requests -> Phases] /\ ledger \in [Requests -> Nat]
  BY DEF IInv, TypeOK
<1>1. pc[q] \in {"idle", "adding"}
  <2>1. CASE q # r
    BY <2>1, OneMoves
  <2>2. CASE q = r
    BY <1>0, <2>2
    DEF Step, Arrive, Advance, Create, BeginAdd, BeginRemove, BeginEdit, BeginSync,
        AfterCreate, CommitAdd, CommitRemove, ContinueSync, ReadForEdit, WriteEdit,
        AfterWriteEdit, Confirm, Rollback, Die, Goto, Finish
  <2> QED
    BY <2>1, <2>2
<1>2. ledger[q] = 0
  BY <1>1 DEF IInv, NotYetPaid
<1>3. CASE CommitAdd(r)
  BY <1>0, <1>2, <1>3 DEF CommitAdd, Finish, Goto
<1>4. CASE CommitRemove(r)
  BY <1>0, <1>2, <1>4, RemoveWrites DEF IInv, TypeOK
<1>5. CASE UNCHANGED ledger
  BY <1>2, <1>5
<1> QED
  BY <1>3, <1>4, <1>5
  DEF Step, Arrive, Advance, Create, BeginAdd, BeginRemove, BeginEdit, BeginSync,
      AfterCreate, ContinueSync, ReadForEdit, WriteEdit, AfterWriteEdit, Confirm,
      Rollback, Die

----------------------------------------------------------------------------
(* Adding up the ledger *)

\* An interval from 1 has as many elements as its upper bound says.
LEMMA UpTo ==
    ASSUME NEW n \in Nat
    PROVE  IsFiniteSet(1 .. n) /\ Cardinality(1 .. n) = n
<1>1. 1 \in Int /\ n \in Int
  OBVIOUS
<1>2. /\ IsFiniteSet(1 .. n)
      /\ Cardinality(1 .. n) = IF 1 > n THEN 0 ELSE n - 1 + 1
  BY <1>1, FS_Interval
<1>3. (IF 1 > n THEN 0 ELSE n - 1 + 1) = n
  OBVIOUS
<1> QED
  BY <1>2, <1>3

\* The coins of a ledger can be counted.
LEMMA CoinsFinite ==
    ASSUME NEW l \in [Requests -> Nat]
    PROVE  IsFiniteSet(Coins(l)) /\ Total(l) \in Nat
<1> DEFINE f == [p \in Requests |-> {p} \X (1 .. l[p])]
           T == {{p} \X (1 .. l[p]) : p \in Requests}
<1>1. f \in Surjection(Requests, T)
  BY DEF Surjection
<1>2. IsFiniteSet(T)
  BY <1>1, BookingConstants, FS_Surjection
<1>3. ASSUME NEW p \in Requests
      PROVE  IsFiniteSet({p} \X (1 .. l[p]))
  <2>1. IsFiniteSet({p}) /\ IsFiniteSet(1 .. l[p])
    BY FS_Singleton, UpTo
  <2> QED
    BY <2>1, FS_Product
<1>4. IsFiniteSet(UNION T)
  BY <1>2, <1>3, FS_UNION
<1> QED
  BY <1>4, FS_CardinalityType DEF Coins, Total

\* Recording a payment of n adds n.
LEMMA TotalAdd ==
    ASSUME NEW l \in [Requests -> Nat], NEW p \in Requests, l[p] = 0, NEW n \in Nat
    PROVE  Total([l EXCEPT ![p] = n]) = Total(l) + n
<1> DEFINE more == [l EXCEPT ![p] = n]
           new  == {p} \X (1 .. n)
<1>1. Coins(more) = Coins(l) \cup new
  BY DEF Coins
<1>2. Coins(l) \cap new = {}
  BY DEF Coins
<1>3. IsFiniteSet({p}) /\ Cardinality({p}) = 1
  BY FS_Singleton
<1>4. IsFiniteSet(1 .. n) /\ Cardinality(1 .. n) = n
  BY UpTo
<1>5. IsFiniteSet(new) /\ Cardinality(new) = n
  BY SMTT(30), <1>3, <1>4, FS_Product
<1>6. IsFiniteSet(Coins(l)) /\ Cardinality(Coins(l)) \in Nat
  BY CoinsFinite DEF Total
<1> HIDE DEF more, new
<1>7. Cardinality(Coins(l) \cup new)
        = Cardinality(Coins(l)) + Cardinality(new) - Cardinality({})
  BY <1>2, <1>5, <1>6, FS_Union
<1>8. Cardinality(Coins(more)) = Cardinality(Coins(l)) + n
  BY <1>1, <1>5, <1>6, <1>7, FS_EmptySet
<1> QED
  BY <1>8 DEF Total, more

\* Deleting a payment takes away what it was.
LEMMA TotalRemove ==
    ASSUME NEW l \in [Requests -> Nat], NEW p \in Requests
    PROVE  Total(l) = Total([l EXCEPT ![p] = 0]) + l[p]
<1> DEFINE less == [l EXCEPT ![p] = 0]
<1>1. less \in [Requests -> Nat] /\ less[p] = 0 /\ [less EXCEPT ![p] = l[p]] = l
  OBVIOUS
<1> HIDE DEF less
<1>2. Total([less EXCEPT ![p] = l[p]]) = Total(less) + l[p]
  BY <1>1, TotalAdd
<1> QED
  BY <1>1, <1>2 DEF less

\* Of an empty ledger nothing is left to count.
LEMMA TotalOfNothing ==
    ASSUME NEW l \in [Requests -> Nat], \A r \in Requests : l[r] = 0
    PROVE  Total(l) = 0
<1>1. Coins(l) = {}
  BY DEF Coins
<1> QED
  BY <1>1, FS_EmptySet DEF Total

\* Which steps can take a balanced booking out of balance.
LEMMA BalanceStep ==
    ASSUME IInv, LedgerBalanced, NEW r \in Requests, Step(r)
    PROVE  LedgerBalanced' \/ (StaleWrite(r) /\ WriteEdit(r))
<1>0. /\ ledger \in [Requests -> Nat] /\ amount \in [Requests -> Nat]
      /\ target \in [Requests -> Requests] /\ origin.paid \in Nat
      /\ Total(ledger) \in Nat
  BY CoinsFinite DEF IInv, TypeOK
<1>1. CASE \E m \in Members, p \in Prices, a \in Advances, s \in FirstStatuses :
              Create(r, m, p, a, s)
  <2>1. booking = NoBooking /\ ledger' = ledger
    BY <1>1 DEF Create, IInv, CreatedOnce
  <2>2. Total(ledger) = 0
    BY <1>0, <2>1, TotalOfNothing DEF IInv, NothingBefore
  <2>3. booking' \in Row /\ booking'.paid = origin'.paid
    BY <1>1, CreateWrites
  <2> QED
    BY <2>1, <2>2, <2>3 DEF LedgerBalanced, Row
<1>2. CASE CommitAdd(r)
  <2>1. booking \in Row /\ booking.paid = origin.paid + Total(ledger)
    BY <1>2, BookingConstants, RowExists DEF CommitAdd, LedgerBalanced
  <2>2. booking'.paid = booking.paid + amount[r]
    BY <1>2, AddWrites
  <2>3. ledger[r] = 0
    BY <1>2 DEF CommitAdd, IInv, NotYetPaid
  <2>4. ledger' = [ledger EXCEPT ![r] = amount[r]] /\ origin' = origin
    BY <1>2 DEF CommitAdd
  <2>5. Total(ledger') = Total(ledger) + amount[r]
    BY <1>0, <2>3, <2>4, TotalAdd
  <2> QED
    BY <1>0, <2>1, <2>2, <2>4, <2>5 DEF LedgerBalanced
<1>3. CASE CommitRemove(r)
  <2>1. booking \in Row /\ booking.paid = origin.paid + Total(ledger)
    BY <1>3, BookingConstants, RowExists DEF CommitRemove, LedgerBalanced
  <2>2. /\ booking'.paid = Owed(booking.paid, ledger[target[r]])
        /\ ledger' = [ledger EXCEPT ![target[r]] = 0]
    BY <1>3, RemoveWrites
  <2>3. ledger' \in [Requests -> Nat] /\ Total(ledger') \in Nat
    BY <1>0, <2>2, CoinsFinite
  <2>4. Total(ledger) = Total(ledger') + ledger[target[r]]
    BY <1>0, <2>2, TotalRemove
  <2>5. booking'.paid = origin.paid + Total(ledger')
    BY <1>0, <2>1, <2>2, <2>3, <2>4 DEF Owed
  <2> QED
    BY <1>3, <2>5 DEF LedgerBalanced, CommitRemove
<1>4. CASE WriteEdit(r)
  <2>1. booking \in Row /\ booking.paid = origin.paid + Total(ledger)
    BY <1>4, BookingConstants, RowExists DEF WriteEdit, LedgerBalanced
  <2>2. CASE Pick(edit[r].paid, seen[r].paid) = booking.paid
    <3>1. booking'.paid = booking.paid
      BY <1>4, <2>2 DEF WriteEdit, Merged
    <3> QED
      BY <1>4, <2>1, <3>1 DEF LedgerBalanced, WriteEdit
  <2>3. CASE Pick(edit[r].paid, seen[r].paid) # booking.paid
    BY <1>4, <2>3 DEF StaleWrite, WriteEdit
  <2> QED
    BY <2>2, <2>3
<1>5. CASE UNCHANGED <<booking, ledger, origin>>
  BY <1>5 DEF LedgerBalanced, Total, Coins
<1> QED
  BY <1>1, <1>2, <1>3, <1>4, <1>5
  DEF Step, Arrive, Advance, BeginAdd, BeginRemove, BeginEdit, BeginSync,
      AfterCreate, ContinueSync, ReadForEdit, AfterWriteEdit, Confirm, Rollback, Die

----------------------------------------------------------------------------
(* The history of the status *)

\* follow_up_logs tells of a status, a handler that wrote it is about to log it,
\* or a handler died before it could.
Explained(s) ==
    \/ s \in history
    \/ \E q \in Requests :
          \/ pc[q] = "died"
          \/ pc[q] = "created" /\ s = seen[q].travelStatus
          \/ pc[q] = "written" /\ StatusChanged(edit[q], seen[q]) /\ s = edit[q].travelStatus

\* The booking has been Booked, or was Completed from the start.
Earned == Explained("Booked") \/ origin.travelStatus = "Completed"

Reported(row) == Explained(row.travelStatus) /\ (row.travelStatus = "Completed" => Earned)

\* The row and every row a handler read are accounted for.
RowsReported ==
    /\ booking \in Row => Reported(booking)
    /\ \A r \in Requests : seen[r] \in Row => Reported(seen[r])
    /\ booking = NoBooking => origin.travelStatus # "Completed"

\* An edit that archives carries no status, and one that completes read a row
\* that may be completed.
EditsJudged ==
    \A r \in Requests :
        /\ edit[r].deleted = TRUE => edit[r].travelStatus = Unset
        /\ pc[r] = "editing" /\ edit[r].travelStatus = "Completed"
              => seen[r].travelStatus \in {"Booked", "Completed"}

\* A confirmation is sent after the entry.
LoggedFirst ==
    /\ \A r \in Requests : pc[r] = "confirming" => "Booked" \in history
    /\ confirmed # {} => "Booked" \in history

HistoryInv == RowsReported /\ EditsJudged /\ LoggedFirst

\* Nothing to update: no status and nothing archived.
LEMMA NoEditIsQuiet == NoEdit.travelStatus = Unset /\ NoEdit.deleted # TRUE
  BY BookingConstants DEF NoEdit

\* A step does not change the edits of other requests.
LEMMA OneEdits ==
    ASSUME IInv, NEW r \in Requests, Step(r)
    PROVE  \A q \in Requests \ {r} : edit'[q] = edit[q]
<1>1. edit \in [Requests -> Edit]
  BY DEF IInv, TypeOK
<1>2. CASE UNCHANGED edit
  BY <1>2
<1>3. ASSUME NEW e, edit' = [edit EXCEPT ![r] = e]
      PROVE  \A q \in Requests \ {r} : edit'[q] = edit[q]
  BY <1>1, <1>3
<1> QED
  BY <1>2, <1>3
  DEF Step, Arrive, Advance, Create, BeginAdd, BeginRemove, BeginEdit, ReadForEdit, BeginSync,
      AfterCreate, CommitAdd, CommitRemove, ContinueSync, WriteEdit, AfterWriteEdit, Confirm,
      Rollback, Die, Finish, request

\* Handlers that wrote a status log it or die: no step takes an explanation back.
LEMMA ExplainedStays ==
    ASSUME IInv, EditsJudged, NEW r \in Requests, Step(r), NEW s, Explained(s)
    PROVE  Explained(s)'
<1>0. pc \in [Requests -> Phases]
  BY DEF IInv, TypeOK
<1>1. /\ \A q \in Requests \ {r} : pc'[q] = pc[q] /\ seen'[q] = seen[q]
      /\ \A q \in Requests \ {r} : edit'[q] = edit[q]
  BY OneMoves, OneEdits
<1>2. history \subseteq history'
  BY DEF Step, Arrive, Advance, Create, BeginAdd, BeginRemove, BeginEdit, ReadForEdit, BeginSync,
      AfterCreate, CommitAdd, CommitRemove, ContinueSync, WriteEdit, AfterWriteEdit, Confirm,
      Rollback, Die
<1>3. ASSUME \/ pc'[r] = "died"
             \/ pc[r] \notin {"died", "created", "written"}
             \/ pc[r] = "created" /\ seen[r].travelStatus \in history'
             \/ /\ pc[r] = "written"
                /\ StatusChanged(edit[r], seen[r]) => edit[r].travelStatus \in history'
      PROVE  Explained(s)'
  <2>1. CASE s \in history
    BY <1>2, <2>1 DEF Explained
  <2>2. ASSUME NEW q \in Requests,
               \/ pc[q] = "died"
               \/ pc[q] = "created" /\ s = seen[q].travelStatus
               \/ /\ pc[q] = "written" /\ StatusChanged(edit[q], seen[q])
                  /\ s = edit[q].travelStatus
        PROVE  Explained(s)'
    <3>1. CASE q = r
      BY <1>3, <2>2, <3>1 DEF Explained
    <3>2. CASE q # r
      BY <1>1, <2>2, <3>2 DEF Explained
    <3> QED
      BY <3>1, <3>2
  <2> QED
    BY <2>1, <2>2 DEF Explained
<1>4. CASE Arrive(r)
  BY <1>3, <1>4
  DEF Arrive, Create, BeginAdd, BeginRemove, BeginEdit, BeginSync
<1>5. CASE AfterCreate(r)
  BY <1>3, <1>5 DEF AfterCreate
<1>6. CASE AfterWriteEdit(r)
  <2>1. StatusChanged(edit[r], seen[r]) => ~Archives(edit[r], seen[r])
    BY DEF StatusChanged, Archives, EditsJudged
  <2> QED
    BY <1>3, <1>6, <2>1 DEF AfterWriteEdit
<1>7. CASE \/ CommitAdd(r) \/ CommitRemove(r) \/ Rollback(r) \/ WriteEdit(r) \/ Confirm(r)
           \/ \E p \in Prices : ContinueSync(r, p)
  BY <1>3, <1>7 DEF CommitAdd, CommitRemove, Rollback, WriteEdit, Confirm, ContinueSync, Locking
<1>8. CASE Die(r)
  BY <1>0, <1>3, <1>8 DEF Die, Finish, Goto, AfterWrite
<1> QED
  BY <1>4, <1>5, <1>6, <1>7, <1>8 DEF Step, Advance

\* So a row that is accounted for stays so; the first status is stored once.
LEMMA ReportedStays ==
    ASSUME IInv, RowsReported, EditsJudged, NEW r \in Requests, Step(r), NEW row, Reported(row)
    PROVE  Reported(row)'
<1>1. Earned => Earned'
  <2>1. Explained("Booked") => Explained("Booked")'
    BY ExplainedStays
  <2>2. origin.travelStatus = "Completed" => origin' = origin
    BY DEF RowsReported, IInv, CreatedOnce, Step, Arrive, Advance, Create, BeginAdd, BeginRemove,
       BeginEdit, ReadForEdit, BeginSync, AfterCreate, CommitAdd, CommitRemove, ContinueSync,
       WriteEdit, AfterWriteEdit, Confirm, Rollback, Die
  <2> QED
    BY <2>1, <2>2 DEF Earned
<1>2. Explained(row.travelStatus)'
  BY ExplainedStays DEF Reported
<1> QED
  BY <1>1, <1>2 DEF Reported

\* What a step writes is accounted for, and what it reads is the row.
LEMMA RowsReportedStep ==
    ASSUME IInv, RowsReported, EditsJudged, NEW r \in Requests, Step(r)
    PROVE  RowsReported'
<1>0. /\ \A row : Reported(row) => Reported(row)'
      /\ pc \in [Requests -> Phases] /\ seen \in [Requests -> Row \cup {NoBooking}]
      /\ booking \in Row \cup {NoBooking} /\ edit \in [Requests -> Edit]
      /\ NoBooking \notin Row
  BY ReportedStays, BookingConstants DEF IInv, TypeOK
<1>1. ASSUME NEW m \in Members, NEW p \in Prices, NEW a \in Advances, NEW s \in FirstStatuses,
             Create(r, m, p, a, s)
      PROVE  RowsReported'
  <2>1. /\ booking'.travelStatus = s /\ origin'.travelStatus = s
        /\ pc'[r] = "created" /\ seen' = [seen EXCEPT ![r] = booking']
    BY <1>0, <1>1 DEF Create, Goto, Hold
  <2>2. Explained(s)'
    BY <1>0, <2>1 DEF Explained
  <2>3. Reported(booking)'
    BY <2>1, <2>2 DEF Reported, Earned
  <2>4. booking' \in Row
    BY <1>1, CreateWrites
  <2>5. ASSUME NEW q \in Requests, seen'[q] \in Row
        PROVE  Reported(seen[q])'
    <3>1. CASE q = r
      <4>1. seen'[q] = booking'
        BY <1>0, <2>1, <3>1
      <4> QED
        BY <2>3, <4>1
    <3>2. CASE q # r
      <4>1. seen'[q] = seen[q]
        BY <1>0, <2>1, <3>2
      <4> QED
        BY <1>0, <2>5, <4>1 DEF RowsReported
    <3> QED
      BY <3>1, <3>2
  <2> QED
    BY <1>0, <2>3, <2>4, <2>5 DEF RowsReported
<1>2. ASSUME booking \in Row, booking' \in Row, booking'.travelStatus = booking.travelStatus,
             \/ seen' = seen
             \/ \E row \in {booking, NoBooking} : seen' = [seen EXCEPT ![r] = row]
      PROVE  RowsReported'
  <2>1. Reported(booking)'
    BY <1>0, <1>2 DEF RowsReported, Reported
  <2>2. ASSUME NEW q \in Requests, seen'[q] \in Row
        PROVE  Reported(seen[q])'
    <3>1. seen'[q] \in {booking, seen[q]}
      BY <1>0, <1>2, <2>2
    <3>2. Reported(seen'[q])
      BY <1>2, <2>2, <3>1 DEF RowsReported
    <3> QED
      BY <1>0, <3>2
  <2> QED
    BY <1>0, <1>2, <2>1, <2>2 DEF RowsReported
<1>3. CASE WriteEdit(r)
  <2>1. /\ booking' = Merged(seen[r], edit[r]) /\ booking' \in Row
        /\ seen[r] \in Row /\ edit[r] \in Edit /\ UNCHANGED <<seen, edit, history, origin>>
        /\ pc'[r] = "written"
    BY <1>0, <1>3, EditWrites DEF WriteEdit, Goto, request, IInv, HoldsRow
  <2>2. booking'.travelStatus = Pick(edit[r].travelStatus, seen[r].travelStatus)
    BY <2>1 DEF Merged
  <2>3. Reported(seen[r]) /\ Reported(seen[r])'
    BY <1>0, <2>1 DEF RowsReported
  <2>4. Reported(booking)'
    <3>1. CASE ~StatusChanged(edit[r], seen[r])
      <4>1. booking'.travelStatus = seen'[r].travelStatus
        BY <2>1, <2>2, <3>1 DEF StatusChanged, Pick
      <4> QED
        BY <2>3, <4>1 DEF Reported
    <3>2. CASE StatusChanged(edit[r], seen[r])
      <4>1. booking'.travelStatus = edit[r].travelStatus /\ StatusChanged(edit[r], seen[r])'
        BY <2>1, <2>2, <3>2 DEF StatusChanged, Pick
      <4>2. Explained(booking.travelStatus)'
        BY <2>1, <4>1 DEF Explained
      <4>3. ASSUME edit[r].travelStatus = "Completed"
            PROVE  Earned'
        <5>1. seen[r].travelStatus \in {"Booked", "Completed"}
          BY <1>3, <4>3 DEF WriteEdit, EditsJudged
        <5>2. CASE seen[r].travelStatus = "Booked"
          BY <2>1, <2>3, <5>2 DEF Reported, Earned
        <5>3. CASE seen[r].travelStatus = "Completed"
          BY <2>1, <2>3, <5>3 DEF Reported
        <5> QED
          BY <5>1, <5>2, <5>3
      <4> QED
        BY <4>1, <4>2, <4>3 DEF Reported
    <3> QED
      BY <3>1, <3>2
  <2> QED
    BY <1>0, <2>1, <2>4 DEF RowsReported
<1>4. CASE CommitAdd(r) \/ CommitRemove(r)
  <2>1. booking \in Row /\ booking' \in Row /\ seen' = [seen EXCEPT ![r] = NoBooking]
    BY <1>4, AddWrites, RemoveWrites, RowExists
    DEF CommitAdd, CommitRemove, Finish, Hold, Locking
  <2>2. booking'.travelStatus = booking.travelStatus
    BY <1>4, <2>1 DEF CommitAdd, CommitRemove, Row
  <2> QED
    BY <1>2, <2>1, <2>2
<1>5. CASE \/ \E a \in Amounts : BeginAdd(r, a)
           \/ \E p \in Requests : BeginRemove(r, p)
           \/ \E e \in Edits : BeginEdit(r, e)
           \/ BeginSync(r)
  <2>1. /\ booking # NoBooking /\ booking' = booking
        /\ seen' = [seen EXCEPT ![r] = booking]
    BY <1>5 DEF BeginAdd, BeginRemove, BeginEdit, ReadForEdit, BeginSync, Hold
  <2> QED
    BY <1>0, <1>2, <2>1
<1>6. CASE \E p \in Prices : ContinueSync(r, p)
  <2>1. /\ pc[r] # "idle" /\ booking' = booking
        /\ \/ seen' = [seen EXCEPT ![r] = booking]
           \/ seen' = [seen EXCEPT ![r] = NoBooking]
    BY <1>6 DEF ContinueSync, ReadForEdit, Hold, Finish
  <2>2. booking \in Row
    BY <2>1, RowExists
  <2> QED
    BY <1>2, <2>1, <2>2
<1>7. CASE AfterCreate(r) \/ AfterWriteEdit(r) \/ Confirm(r) \/ Rollback(r) \/ Die(r)
  <2>1. /\ pc[r] # "idle" /\ booking' = booking
        /\ seen' = seen \/ seen' = [seen EXCEPT ![r] = NoBooking]
    BY <1>7 DEF AfterCreate, AfterWriteEdit, Confirm, Rollback, Die, Finish, Hold, request,
                Locking, AfterWrite
  <2>2. booking \in Row
    BY <2>1, RowExists
  <2> QED
    BY <1>2, <2>1, <2>2
<1> QED
  BY <1>1, <1>3, <1>4, <1>5, <1>6, <1>7 DEF Step, Arrive, Advance

\* The updates a handler holds were judged against the row it holds.
LEMMA EditsJudgedStep ==
    ASSUME IInv, EditsJudged, NEW r \in Requests, Step(r)
    PROVE  EditsJudged'
<1> DEFINE J(p, s, e) ==
        /\ e.deleted = TRUE => e.travelStatus = Unset
        /\ p = "editing" /\ e.travelStatus = "Completed"
              => s.travelStatus \in {"Booked", "Completed"}
<1>0. /\ pc \in [Requests -> Phases] /\ seen \in [Requests -> Row \cup {NoBooking}]
      /\ edit \in [Requests -> Edit]
  BY DEF IInv, TypeOK
<1>1. \A q \in Requests : J(pc[q], seen[q], edit[q])
  BY DEF EditsJudged
<1>2. ASSUME J(pc'[r], seen'[r], edit'[r])
      PROVE  EditsJudged'
  <2>1. ASSUME NEW q \in Requests
        PROVE  J(pc'[q], seen'[q], edit'[q])
    <3>1. CASE q = r
      BY <1>2, <3>1
    <3>2. CASE q # r
      BY <1>1, <3>2, OneMoves, OneEdits
    <3> QED
      BY <3>1, <3>2
  <2> QED
    BY <2>1 DEF EditsJudged
<1>3. ASSUME NEW e, ReadForEdit(r, e), e.deleted = TRUE => e.travelStatus = Unset
      PROVE  EditsJudged'
  <2>1. edit'[r] = e /\ seen'[r] = booking /\ Acceptable(booking, e)
    BY <1>0, <1>3 DEF ReadForEdit, Hold
  <2> QED
    BY <1>2, <1>3, <2>1 DEF Acceptable
<1>4. ASSUME NEW phase \in Phases \ {"editing"}, Finish(r, phase)
      PROVE  EditsJudged'
  <2>1. edit'[r] = NoEdit
    BY <1>0, <1>4 DEF Finish
  <2> QED
    BY <1>2, <2>1, NoEditIsQuiet, BookingConstants DEF TravelStatuses
<1>5. ASSUME NEW phase \in Phases \ {"editing"}, Goto(r, phase), edit' = edit
      PROVE  EditsJudged'
  <2>1. edit'[r] = edit[r] /\ pc'[r] # "editing"
    BY <1>0, <1>5 DEF Goto
  <2> QED
    BY <1>1, <1>2, <2>1
<1>6. CASE \E m \in Members, p \in Prices, a \in Advances, s \in FirstStatuses :
              Create(r, m, p, a, s)
  BY <1>5, <1>6 DEF Create, Phases, AfterWrite
<1>7. CASE (\E a \in Amounts : BeginAdd(r, a)) \/ (\E p \in Requests : BeginRemove(r, p)) \/ BeginSync(r)
  BY <1>5, <1>7 DEF BeginAdd, BeginRemove, BeginSync, Phases, BeforeWrite, Locking
<1>8. ASSUME NEW e \in Edits, BeginEdit(r, e)
      PROVE  EditsJudged'
  <2>1. e.deleted = TRUE => e.travelStatus = Unset
    BY BookingConstants, NoEditIsQuiet DEF UserEdits, NoEdit
  <2> QED
    BY <1>3, <1>8, <2>1 DEF BeginEdit
<1>9. ASSUME NEW p \in Prices, ContinueSync(r, p)
      PROVE  EditsJudged'
  BY <1>3, <1>4, <1>9 DEF ContinueSync, SyncUpdates, Phases
<1>10. CASE AfterCreate(r) \/ AfterWriteEdit(r)
  BY <1>4, <1>5, <1>10 DEF AfterCreate, AfterWriteEdit, request, Phases, AfterWrite
<1>11. CASE WriteEdit(r)
  BY <1>5, <1>11 DEF WriteEdit, request, Phases, AfterWrite
<1>12. CASE CommitAdd(r) \/ CommitRemove(r) \/ Confirm(r) \/ Rollback(r) \/ Die(r)
  BY <1>4, <1>12 DEF CommitAdd, CommitRemove, Confirm, Rollback, Die, Phases
<1> QED
  BY <1>6, <1>7, <1>8, <1>9, <1>10, <1>11, <1>12 DEF Step, Arrive, Advance

\* The entry comes before the confirmation.
LEMMA LoggedFirstStep ==
    ASSUME IInv, EditsJudged, LoggedFirst, NEW r \in Requests, Step(r)
    PROVE  LoggedFirst'
<1>0. pc \in [Requests -> Phases]
  BY DEF IInv, TypeOK
<1>1. history \subseteq history'
  BY DEF Step, Arrive, Advance, Create, BeginAdd, BeginRemove, BeginEdit, ReadForEdit, BeginSync,
      AfterCreate, CommitAdd, CommitRemove, ContinueSync, WriteEdit, AfterWriteEdit, Confirm,
      Rollback, Die
<1>2. confirmed' = confirmed \/ pc[r] = "confirming"
  BY DEF Step, Arrive, Advance, Create, BeginAdd, BeginRemove, BeginEdit, ReadForEdit, BeginSync,
      AfterCreate, CommitAdd, CommitRemove, ContinueSync, WriteEdit, AfterWriteEdit, Confirm,
      Rollback, Die
<1>3. pc'[r] = "confirming" => "Booked" \in history'
  <2>1. CASE AfterCreate(r)
    BY <1>0, <2>1 DEF AfterCreate, Finish, Goto
  <2>2. CASE AfterWriteEdit(r)
    <3>1. StatusChanged(edit[r], seen[r]) => ~Archives(edit[r], seen[r])
      BY DEF StatusChanged, Archives, EditsJudged
    <3> QED
      BY <1>0, <2>2, <3>1 DEF AfterWriteEdit, Finish, Goto
  <2>3. CASE Arrive(r)
    BY <1>0, <2>3
    DEF Arrive, Create, BeginAdd, BeginRemove, BeginEdit, ReadForEdit, BeginSync, Goto
  <2>4. CASE \/ CommitAdd(r) \/ CommitRemove(r) \/ Confirm(r) \/ Rollback(r) \/ Die(r)
             \/ WriteEdit(r) \/ \E p \in Prices : ContinueSync(r, p)
    BY <1>0, <2>4 DEF CommitAdd, CommitRemove, Confirm, Rollback, Die, WriteEdit, ContinueSync,
                      ReadForEdit, Finish, Goto
  <2> QED
    BY <2>1, <2>2, <2>3, <2>4 DEF Step, Advance
<1> QED
  BY <1>1, <1>2, <1>3, OneMoves DEF LoggedFirst

\* What the row and its readers say of the status is kept by every step.
LEMMA HistoryInvNext == IInv /\ HistoryInv /\ [Next]_vars => HistoryInv'
<1> SUFFICES ASSUME IInv, HistoryInv, [Next]_vars
             PROVE  HistoryInv'
  OBVIOUS
<1>1. ASSUME NEW r \in Requests, Step(r)
      PROVE  HistoryInv'
  BY <1>1, RowsReportedStep, EditsJudgedStep, LoggedFirstStep DEF HistoryInv
<1>2. CASE UNCHANGED vars
  BY <1>2 DEF vars, HistoryInv, RowsReported, Reported, Explained, Earned, EditsJudged, LoggedFirst
<1> QED
  BY <1>1, <1>2 DEF Next, Step, Rest

----------------------------------------------------------------------------
(* The account that the requests implement *)

\* A payment under way is of some amount: a request for 0 was refused before.
AddsSomething == \A r \in Requests : pc[r] = "adding" => amount[r] > 0

\* A step keeps the amounts of payments under way.
LEMMA AddsSomethingStep == IInv /\ AddsSomething /\ [Next]_vars => AddsSomething'
<1> SUFFICES ASSUME IInv, AddsSomething, [Next]_vars
             PROVE  AddsSomething'
  OBVIOUS
<1>1. CASE UNCHANGED vars
  BY <1>1 DEF vars, AddsSomething
<1>2. ASSUME NEW r \in Requests, Step(r), NEW q \in Requests, pc'[q] = "adding"
      PROVE  amount'[q] > 0
  <2>1. pc \in [Requests -> Phases] /\ amount \in [Requests -> Nat]
    BY DEF IInv, TypeOK
  <2>2. CASE q = r
    <3>1. \E a \in Amounts : BeginAdd(r, a)
      BY <1>2, <2>1, <2>2
      DEF Step, Arrive, Advance, Create, BeginRemove, BeginEdit, BeginSync,
          AfterCreate, CommitAdd, CommitRemove, ContinueSync, ReadForEdit, WriteEdit,
          AfterWriteEdit, Confirm, Rollback, Die, Goto, Finish, request, BeforeWrite,
          AfterWrite
    <3> QED
      BY <2>1, <2>2, <3>1 DEF BeginAdd
  <2>3. CASE q # r
    <3>1. pc[q] = "adding"
      BY <1>2, <2>3, OneMoves
    <3>2. ASSUME NEW a, amount' = [amount EXCEPT ![r] = a]
          PROVE  amount'[q] = amount[q]
      BY <2>1, <2>3, <3>2
    <3>3. amount'[q] = amount[q]
      BY <1>2, <3>2
      DEF Step, Arrive, Advance, Create, BeginAdd, BeginRemove, BeginEdit, BeginSync,
          AfterCreate, CommitAdd, CommitRemove, ContinueSync, ReadForEdit, WriteEdit,
          AfterWriteEdit, Confirm, Rollback, Die, Finish, request
    <3> QED
      BY <3>1, <3>3 DEF AddsSomething
  <2> QED
    BY <2>2, <2>3
<1> QED
  BY <1>1, <1>2 DEF Next, Step, Rest, AddsSomething

\* A consistent row shows a statement that agrees with itself.
LEMMA StatementAgrees ==
    ASSUME NEW row \in Row, Consistent(row)
    PROVE  /\ Account!Agrees(Statement(row))
           /\ Statement(row).paid = row.paid /\ Statement(row).archived = row.deleted
<1>1. row # NoBooking
  BY BookingConstants
<1>2. Statement(row) \in Account!Statement
  BY <1>1 DEF Statement, Account!Statement, Row
<1> QED
  BY <1>1, <1>2 DEF Account!Agrees, Statement, Account!Less, Owed, Consistent

\* A payment or a reversal moves the balance of the account, and nothing else.
LEMMA StatementPaid ==
    ASSUME NEW row \in Row, NEW paid \in Nat, NEW w,
           w = [row EXCEPT !.paid = paid, !.remaining = Owed(row.total, paid)]
    PROVE  Statement(w) = [Statement(row) EXCEPT !.paid = paid,
                                  !.due = Account!Less(Statement(row).total, paid)]
<1>1. /\ w.total = row.total /\ w.members = row.members /\ w.price = row.price
      /\ w.paid = paid /\ w.remaining = Owed(row.total, paid) /\ w.deleted = row.deleted
  BY DEF Row
<1>2. row # NoBooking /\ w # NoBooking /\ w \in Row
  <2>1. Owed(row.total, paid) \in Nat
    BY OwedIsNat DEF Row
  <2>2. w \in Row
    BY <2>1 DEF Row
  <2> QED
    BY <2>2, BookingConstants
<1> DEFINE due == Account!Less(row.total, paid)
           s == Statement(row)
           moved == [s EXCEPT !.paid = paid, !.due = due]
<1>3. due = w.remaining /\ due \in Nat
  BY <1>1, <1>2 DEF Account!Less, Owed, Row
<1> HIDE DEF due
<1>4. /\ s \in Account!Statement
      /\ s.members = row.members /\ s.price = row.price /\ s.total = row.total
      /\ s.archived = row.deleted
  BY <1>2 DEF Statement, Account!Statement, Row
<1>5. /\ Statement(w) \in Account!Statement
      /\ Statement(w).members = row.members /\ Statement(w).price = row.price
      /\ Statement(w).total = row.total /\ Statement(w).paid = paid
      /\ Statement(w).due = due /\ Statement(w).archived = row.deleted
  BY <1>1, <1>2, <1>3 DEF Statement, Account!Statement, Row
<1> HIDE DEF s
<1>6. /\ moved \in Account!Statement
      /\ moved.members = row.members /\ moved.price = row.price
      /\ moved.total = row.total /\ moved.paid = paid
      /\ moved.due = due /\ moved.archived = row.deleted
  BY <1>3, <1>4 DEF Account!Statement
<1>7. Statement(w) = moved
  BY <1>5, <1>6 DEF Account!Statement
<1> QED
  BY <1>4, <1>7 DEF due, s

\* A step changes the draft of the request that takes it, and no other.
LEMMA DraftsMove ==
    ASSUME IInv, NEW r \in Requests, Step(r)
    PROVE  /\ Drafts[r] = Draft(r)
           /\ Drafts' = [Drafts EXCEPT ![r] = Draft(r)']
           /\ Draft(r)' = Draft(r) => Drafts' = Drafts
<1>1. \A q \in Requests \ {r} : Draft(q)' = Draft(q)
  BY OneMoves, OneEdits DEF Draft
<1> QED
  BY <1>1 DEF Drafts

\* Outside the two phases between an edit's read and its write there is no draft.
LEMMA NoDraft ==
    ASSUME NEW r \in Requests
    PROVE  /\ pc[r] \notin {"syncing", "editing"} => Draft(r) = NoBooking
           /\ pc'[r] \notin {"syncing", "editing"} => Draft(r)' = NoBooking
  BY DEF Draft

\* One transaction of addPayment is one receipt, on the balance the account has when
\* it commits: the lock keeps what it read true until then.
LEMMA AddIsReceipt ==
    ASSUME IInv, AddsSomething, NEW r \in Requests, CommitAdd(r)
    PROVE  Account!Receive(r)
<1>1. booking \in Row /\ seen[r] = booking /\ Consistent(booking) /\ amount[r] \in Nat \ {0}
  BY RowExists, BookingConstants
  DEF CommitAdd, Locking, IInv, TypeOK, RowConsistent, AddsSomething
<1>2. PICK paid \in Nat : paid = booking.paid + amount[r]
  BY <1>1 DEF Row
<1>3. Statement(booking') = [Statement(booking) EXCEPT !.paid = paid,
                                  !.due = Account!Less(Statement(booking).total, paid)]
  <2>1. booking' = [booking EXCEPT !.paid = paid, !.remaining = Owed(booking.total, paid)]
    BY <1>1, <1>2 DEF CommitAdd
  <2> QED
    BY <1>1, <2>1, StatementPaid
<1>4. /\ ledger[r] = 0 /\ ledger \in [Requests -> Nat]
      /\ ledger' = [ledger EXCEPT ![r] = amount[r]]
  BY DEF CommitAdd, IInv, TypeOK, NotYetPaid
<1>5. Account!Agrees(Statement(booking)) /\ Statement(booking).paid = booking.paid
  BY <1>1, StatementAgrees
<1>6. Drafts' = Drafts
  <2>1. Step(r)
    BY DEF Step, Advance
  <2>2. pc[r] = "adding" /\ pc'[r] = "done"
    BY DEF CommitAdd, Finish, Goto, IInv, TypeOK
  <2> QED
    BY <2>1, <2>2, NoDraft, DraftsMove
<1>7. Account!Balance(Statement(booking).paid + ledger'[r])
  BY <1>2, <1>3, <1>4, <1>5 DEF Account!Balance
<1> QED
  BY <1>1, <1>4, <1>5, <1>6, <1>7 DEF Account!Receive

\* One transaction of removePayment gives one receipt back, or finds none.
LEMMA RemoveIsReversal ==
    ASSUME IInv, NEW r \in Requests, CommitRemove(r)
    PROVE  \/ Account!GiveBack(target[r])
           \/ UNCHANGED <<Statement(booking), ledger, Drafts>>
<1> DEFINE gone == ledger[target[r]]
<1>1. booking \in Row /\ seen[r] = booking /\ Consistent(booking)
  BY RowExists, BookingConstants DEF CommitRemove, Locking, IInv, RowConsistent
<1>2. gone \in Nat /\ target[r] \in Requests
  BY DEF IInv, TypeOK
<1>3. Drafts' = Drafts
  <2>1. Step(r)
    BY DEF Step, Advance
  <2>2. pc[r] = "removing" /\ pc'[r] = "done"
    BY DEF CommitRemove, Finish, Goto, IInv, TypeOK
  <2> QED
    BY <2>1, <2>2, NoDraft, DraftsMove
<1>4. CASE gone = 0
  BY <1>3, <1>4 DEF CommitRemove
<1>5. CASE gone # 0
  <2>1. PICK paid \in Nat : paid = Owed(booking.paid, gone)
    BY <1>1, <1>2, OwedIsNat DEF Row
  <2>2. Statement(booking') = [Statement(booking) EXCEPT !.paid = paid,
                                    !.due = Account!Less(Statement(booking).total, paid)]
    <3>1. booking' = [booking EXCEPT !.paid = paid, !.remaining = Owed(booking.total, paid)]
      BY <1>1, <1>5, <2>1 DEF CommitRemove
    <3> QED
      BY <1>1, <3>1, StatementPaid
  <2>3. Account!Agrees(Statement(booking)) /\ Statement(booking).paid = booking.paid
    BY <1>1, StatementAgrees
  <2>4. Account!Balance(Account!Less(Statement(booking).paid, gone))
    BY <2>1, <2>2, <2>3 DEF Account!Balance, Account!Less, Owed
  <2>5. ledger' = [ledger EXCEPT ![target[r]] = 0]
    BY <1>5 DEF CommitRemove
  <2> QED
    BY <1>2, <1>3, <1>5, <2>3, <2>4, <2>5 DEF Account!GiveBack
<1> QED
  BY <1>4, <1>5

\* An edit's first read, and a sync's, takes a draft of the account as it is.
LEMMA ReadIsDraft ==
    ASSUME IInv, NEW r \in Requests, BeginSync(r) \/ \E e \in Edits : BeginEdit(r, e)
    PROVE  Account!TakeRevival(r) \/ Account!TakeEdit(r)
<1>1. booking \in Row /\ Consistent(booking) /\ pc[r] = "idle" /\ Step(r)
  BY DEF BeginSync, BeginEdit, IInv, TypeOK, RowConsistent, Step, Arrive
<1>2. /\ Account!Agrees(Statement(booking))
      /\ Statement(booking).paid = booking.paid /\ Statement(booking).archived = booking.deleted
  BY <1>1, StatementAgrees
<1>3. Drafts[r] = NoBooking /\ Drafts' = [Drafts EXCEPT ![r] = Draft(r)']
  BY <1>1, NoDraft, DraftsMove
<1>4. booking' = booking /\ ledger' = ledger
  BY DEF BeginSync, BeginEdit, ReadForEdit
<1>5. /\ pc \in [Requests -> Phases] /\ seen \in [Requests -> Row \cup {NoBooking}]
      /\ edit \in [Requests -> Edit]
  BY DEF IInv, TypeOK
<1>6. CASE BeginSync(r)
  <2>1. pc'[r] = "syncing" /\ seen'[r] = booking
    BY <1>5, <1>6 DEF BeginSync, Goto, Hold
  <2>2. Draft(r)' = [paid |-> booking.paid, archived |-> FALSE]
    BY <2>1 DEF Draft
  <2> QED
    BY <1>2, <1>3, <1>4, <2>2 DEF Account!TakeRevival, Account!Take
<1>7. ASSUME NEW e \in Edits, BeginEdit(r, e)
      PROVE  Account!TakeEdit(r)
  <2>1. pc'[r] = "editing" /\ seen'[r] = booking /\ edit'[r] = e
    BY <1>5, <1>7 DEF BeginEdit, ReadForEdit, Goto, Hold
  <2>2. e.paid = Unset /\ e.deleted \in {Unset, TRUE}
    BY BookingConstants DEF UserEdits, NoEdit
  <2>3. Draft(r)' = [paid |-> booking.paid,
                     archived |-> IF e.deleted = Unset THEN booking.deleted ELSE TRUE]
    BY <2>1, <2>2 DEF Draft, Pick
  <2> QED
    BY <1>2, <1>3, <1>4, <2>3 DEF Account!TakeEdit, Account!Take
<1> QED
  BY <1>6, <1>7

\* What an edit under way is to put is a balance and a flag.
LEMMA DraftType ==
    ASSUME IInv, NEW r \in Requests, pc[r] \in {"syncing", "editing"}
    PROVE  Draft(r) \in Account!Draft
<1>1. seen[r] \in Row /\ edit[r] \in Edit
  BY DEF IInv, HoldsRow, TypeOK
<1>2. /\ Pick(edit[r].paid, seen[r].paid) \in Nat
      /\ Pick(edit[r].deleted, seen[r].deleted) \in BOOLEAN
  BY <1>1, PickType DEF Row, Edit
<1> QED
  BY <1>1, <1>2 DEF Draft, Account!Draft, Row

\* An edit's write puts its draft, and a statement that agrees with itself.
LEMMA WriteIsPut ==
    ASSUME IInv, NEW r \in Requests, WriteEdit(r)
    PROVE  Account!Put(r)
<1>1. /\ pc[r] = "editing" /\ pc'[r] = "written" /\ ledger' = ledger /\ Step(r)
      /\ booking' = Merged(seen[r], edit[r])
  BY DEF WriteEdit, Goto, IInv, TypeOK, Step, Advance
<1>2. booking' \in Row /\ Consistent(booking')
  BY EditWrites
<1>3. /\ Account!Agrees(Statement(booking'))
      /\ Statement(booking').paid = booking'.paid
      /\ Statement(booking').archived = booking'.deleted
  BY <1>2, StatementAgrees
<1>4. Drafts[r] = Draft(r) /\ Drafts' = [Drafts EXCEPT ![r] = NoBooking]
  BY <1>1, NoDraft, DraftsMove
<1>5. Draft(r) \in Account!Draft
  BY <1>1, DraftType
<1>6. booking'.paid = Draft(r).paid /\ booking'.deleted = Draft(r).archived
  BY <1>1 DEF Draft, Merged
<1> QED
  BY <1>1, <1>3, <1>4, <1>5, <1>6 DEF Account!Put

\* A sync that goes on keeps its draft; one that is refused, and an edit that dies
\* before its write, drops it.
LEMMA RefusedIsDrop ==
    ASSUME IInv, NEW r \in Requests,
           Die(r) \/ \E p \in Prices : ContinueSync(r, p)
    PROVE  Account!Drop(r) \/ UNCHANGED <<Statement(booking), ledger, Drafts>>
<1>1. booking' = booking /\ ledger' = ledger /\ Step(r)
  BY DEF Die, ContinueSync, ReadForEdit, Step, Advance
<1>2. /\ pc \in [Requests -> Phases] /\ seen \in [Requests -> Row \cup {NoBooking}]
      /\ edit \in [Requests -> Edit]
  BY DEF IInv, TypeOK
<1>3. CASE pc[r] \in {"syncing", "editing"} /\ pc'[r] = "done"
  <2>1. Draft(r) \in Account!Draft /\ Drafts[r] = Draft(r)
        /\ Drafts' = [Drafts EXCEPT ![r] = NoBooking]
    BY <1>1, <1>3, DraftType, NoDraft, DraftsMove
  <2> QED
    BY <1>1, <2>1 DEF Account!Drop
<1>4. CASE pc[r] \in AfterWrite /\ pc'[r] = "died"
  <2>1. Draft(r)' = Draft(r)
    BY <1>4, NoDraft DEF AfterWrite
  <2> QED
    BY <1>1, <2>1, DraftsMove
<1>5. ASSUME NEW p \in Prices, ContinueSync(r, p),
             ReadForEdit(r, SyncUpdates(seen[r], p))
      PROVE  Drafts' = Drafts
  <2>1. /\ pc[r] = "syncing" /\ pc'[r] = "editing" /\ seen'[r] = booking
        /\ edit'[r] = SyncUpdates(seen[r], p)
    BY <1>2, <1>5 DEF ContinueSync, ReadForEdit, Goto, Hold
  <2>2. seen[r] \in Row /\ seen[r].paid \in Nat
    BY <2>1 DEF IInv, HoldsRow, Row
  <2>3. Draft(r)' = [paid |-> seen[r].paid, archived |-> FALSE]
    <3>1. edit'[r].paid = seen[r].paid /\ edit'[r].deleted = FALSE
      BY <2>1 DEF SyncUpdates
    <3>2. seen[r].paid # Unset
      BY <2>2, BookingConstants
    <3>3. FALSE # Unset
      BY Zenon, BookingConstants
    <3> QED
      BY <2>1, <3>1, <3>2, <3>3 DEF Draft, Pick
  <2>4. Draft(r) = [paid |-> seen[r].paid, archived |-> FALSE]
    BY <2>1 DEF Draft
  <2> QED
    BY <1>1, <2>3, <2>4, DraftsMove
<1>6. CASE Die(r)
  BY <1>2, <1>3, <1>4, <1>6 DEF Die, Finish, Goto, AfterWrite
<1>7. ASSUME NEW p \in Prices, ContinueSync(r, p), ~ReadForEdit(r, SyncUpdates(seen[r], p))
      PROVE  pc[r] = "syncing" /\ pc'[r] = "done"
  BY <1>2, <1>7 DEF ContinueSync, Finish, Goto
<1> QED
  BY <1>1, <1>3, <1>5, <1>6, <1>7

\* Every step of a request is a step of the account, or is not seen there.
LEMMA AccountStep ==
    ASSUME IInv, AddsSomething, NEW r \in Requests, Step(r)
    PROVE  Account!Next \/ UNCHANGED <<Statement(booking), ledger, Drafts>>
<1>1. pc \in [Requests -> Phases]
  BY DEF IInv, TypeOK
<1>2. ASSUME UNCHANGED <<booking, ledger>>,
             pc[r] \notin {"syncing", "editing"}, pc'[r] \notin {"syncing", "editing"}
      PROVE  UNCHANGED <<Statement(booking), ledger, Drafts>>
  BY <1>2, NoDraft, DraftsMove
<1>3. ASSUME NEW m \in Members, NEW p \in Prices, NEW a \in Advances,
             NEW s \in FirstStatuses, Create(r, m, p, a, s)
      PROVE  Account!Open
  <2>1. booking = NoBooking /\ pc[r] = "idle" /\ pc'[r] = "created" /\ ledger' = ledger
    BY <1>1, <1>3 DEF Create, Goto, IInv, CreatedOnce
  <2>2. booking' \in Row /\ Consistent(booking') /\ ~booking'.deleted
    BY <1>3, CreateWrites DEF Create
  <2>3. Account!Agrees(Statement(booking')) /\ ~Statement(booking').archived
    BY <2>2, StatementAgrees
  <2>4. Drafts' = Drafts
    BY <2>1, NoDraft, DraftsMove
  <2>5. Statement(booking) = NoBooking
    BY <2>1 DEF Statement
  <2> QED
    BY <2>1, <2>3, <2>4, <2>5 DEF Account!Open
<1>4. CASE \/ \E a \in Amounts : BeginAdd(r, a)
           \/ \E p \in Requests : BeginRemove(r, p)
  BY <1>1, <1>2, <1>4 DEF BeginAdd, BeginRemove, Goto
<1>5. CASE BeginSync(r) \/ \E e \in Edits : BeginEdit(r, e)
  BY <1>5, ReadIsDraft DEF Account!Next
<1>6. CASE AfterCreate(r) \/ AfterWriteEdit(r) \/ Confirm(r) \/ Rollback(r)
  BY <1>1, <1>2, <1>6
  DEF AfterCreate, AfterWriteEdit, Confirm, Rollback, Goto, Finish, Locking
<1>7. CASE CommitAdd(r)
  BY <1>7, AddIsReceipt DEF Account!Next
<1>8. CASE CommitRemove(r)
  BY <1>8, RemoveIsReversal DEF Account!Next, IInv, TypeOK
<1>9. CASE Die(r) \/ \E p \in Prices : ContinueSync(r, p)
  BY <1>9, RefusedIsDrop DEF Account!Next
<1>10. CASE WriteEdit(r)
  BY <1>10, WriteIsPut DEF Account!Next
<1> QED
  BY <1>3, <1>4, <1>5, <1>6, <1>7, <1>8, <1>9, <1>10 DEF Step, Arrive, Advance, Account!Next

----------------------------------------------------------------------------
(* What Answered needs of every state *)

\* A row that is locked is locked by a transaction under way, which may commit and
\* may be rolled back: whoever waits for the row waits for somebody.
LockIsHeld == lock # Nobody => lock \in Requests /\ pc[lock] \in Locking

\* A step leaves no lock behind.
LEMMA LockIsHeldStep ==
    ASSUME IInv, LockIsHeld, NEW r \in Requests, Step(r)
    PROVE  LockIsHeld'
<1>1. pc \in [Requests -> Phases]
  BY DEF IInv, TypeOK
<1>2. CASE lock' = Nobody
  BY <1>2 DEF LockIsHeld
<1>3. CASE \/ \E a \in Amounts : BeginAdd(r, a)
           \/ \E p \in Requests : BeginRemove(r, p)
  BY <1>1, <1>3 DEF BeginAdd, BeginRemove, Goto, LockIsHeld, Locking
<1>4. ASSUME lock' = lock, pc[r] \notin Locking
      PROVE  LockIsHeld'
  BY <1>4, OneMoves DEF LockIsHeld
<1> QED
  BY <1>2, <1>3, <1>4
  DEF Step, Arrive, Advance, Create, BeginEdit, BeginSync, AfterCreate, CommitAdd,
      CommitRemove, ContinueSync, ReadForEdit, WriteEdit, AfterWriteEdit, Confirm,
      Rollback, Die, Locking, AfterWrite

----------------------------------------------------------------------------
(* The theorems *)

LEMMA IInvInit == Init => IInv
<1> SUFFICES ASSUME Init
             PROVE  IInv
  OBVIOUS
<1> USE BookingConstants DEF Init
<1>1. NoEdit \in Edit
  BY DEF NoEdit, Edit, Optional
<1>2. TypeOK
  BY <1>1 DEF TypeOK, TravelStatuses, Phases
<1> QED
  BY <1>2
  DEF IInv, RowConsistent, LockHeld, HoldsRow, NothingBefore, CreatedOnce,
      NotYetPaid, Locking, AfterWrite

LEMMA IInvNext == IInv /\ [Next]_vars => IInv'
<1> SUFFICES ASSUME IInv, [Next]_vars
             PROVE  IInv'
  OBVIOUS
<1>1. TypeOK'
  BY TypeStep
<1>2. ASSUME NEW r \in Requests, Step(r)
      PROVE  IInv'
  <2>1. RowConsistent'
    BY <1>2, RowAfter DEF IInv, RowConsistent
  <2> QED
    BY <1>1, <1>2, <2>1, LockHeldStep, HoldsRowStep, ExistenceStep, NotYetPaidStep
    DEF IInv
<1>3. CASE UNCHANGED vars
  BY <1>1, <1>3
  DEF vars, IInv, RowConsistent, LockHeld, HoldsRow, NothingBefore, CreatedOnce,
      NotYetPaid
<1> QED
  BY <1>2, <1>3 DEF Next, Step, Rest

\* The inductive invariant holds in every reachable state.
THEOREM Inductive == Spec => []IInv
  BY IInvInit, IInvNext, PTL DEF Spec

\* Every variable keeps its type: what bookingService and its repository store
\* is always a whole booking row with natural amounts.
THEOREM TypeCorrect == Spec => []TypeOK
<1>1. IInv => TypeOK
  BY DEF IInv
<1> QED
  BY <1>1, Inductive, PTL

\* For any number of concurrent requests, amounts and edits, the stored
\* total_amount and remaining_amount agree with head count, price and paid amount.
THEOREM AmountsAgree == Spec => []RowConsistent
<1>1. IInv => RowConsistent
  BY DEF IInv
<1> QED
  BY <1>1, Inductive, PTL

\* For any number of requests and any amounts, only an edit that writes back a
\* stale `paid` can part the booking's total from its ledger: addPayment and
\* removePayment, interleaved, rolled back or interrupted, keep them together.
THEOREM OnlyStaleEdits == Spec => OnlyStaleEditsUnbalance
<1> DEFINE A == LedgerBalanced =>
                  LedgerBalanced' \/ \E r \in Requests : StaleWrite(r) /\ WriteEdit(r)
<1>1. IInv /\ [Next]_vars => [A]_vars
  <2> SUFFICES ASSUME IInv, [Next]_vars, vars' # vars
               PROVE  A
    OBVIOUS
  <2>1. PICK r \in Requests : Step(r)
    BY DEF Next, Step, Rest
  <2> QED
    BY <2>1, BalanceStep
<1> QED
  BY <1>1, Inductive, PTL DEF Spec, OnlyStaleEditsUnbalance

\* With the inductive invariant: every status in sight is explained.
THEOREM HistoryKept == Spec => []HistoryInv
<1>1. Init => HistoryInv
  BY BookingConstants, NoEditIsQuiet
  DEF Init, HistoryInv, RowsReported, EditsJudged, LoggedFirst, TravelStatuses
<1> QED
  BY <1>1, Inductive, HistoryInvNext, PTL DEF Spec

\* However creates, edits and syncs overlap, follow_up_logs ends up telling of the
\* booking's status unless a handler died on the way, and a customer is told "your
\* booking is confirmed" only after the entry (updateBooking, createBooking).
THEOREM StatusExplained == Spec => []HistoryExplainsStatus
<1>1. IInv /\ HistoryInv => HistoryExplainsStatus
  <2> SUFFICES ASSUME IInv, HistoryInv
               PROVE  HistoryExplainsStatus
    OBVIOUS
  <2>1. ASSUME Quiet, booking # NoBooking, \A r \in Requests : pc[r] # "died"
        PROVE  booking.travelStatus \in history
    <3>1. Explained(booking.travelStatus)
      BY <2>1 DEF IInv, TypeOK, HistoryInv, RowsReported, Reported
    <3> QED
      BY <2>1, <3>1 DEF Explained, Quiet
  <2> QED
    BY <2>1 DEF HistoryExplainsStatus, HistoryInv, LoggedFirst
<1> QED
  BY <1>1, Inductive, HistoryKept, PTL

\* updateBooking's check that only a Booked booking is completed holds of the
\* stored row too, although it is made on a row read earlier.
THEOREM CompletedEarned == Spec => []CompletedWasBooked
<1>1. IInv /\ HistoryInv => CompletedWasBooked
  <2> SUFFICES ASSUME IInv, HistoryInv, Quiet, booking # NoBooking,
                      \A r \in Requests : pc[r] # "died",
                      booking.travelStatus = "Completed"
               PROVE  "Booked" \in history \/ origin.travelStatus = "Completed"
    BY DEF CompletedWasBooked
  <2>1. Earned
    BY DEF IInv, TypeOK, HistoryInv, RowsReported, Reported
  <2> QED
    BY <2>1 DEF Earned, Explained, Quiet
<1> QED
  BY <1>1, Inductive, HistoryKept, PTL

\* Payments, reversals, crashes and ordinary edits never bring an archived booking
\* back: only updateBooking's write does, when its updates say so (acceptQuotation)
\* or the row it read was not archived yet.
THEOREM ArchivedStays == Spec => OnlySyncOrStaleRevives
<1>1. ASSUME IInv, [Next]_vars, booking # NoBooking, booking.deleted, ~booking'.deleted
      PROVE  \E r \in Requests :
               /\ pc[r] = "editing" /\ pc'[r] = "written"
               /\ edit[r].deleted = FALSE \/ ~seen[r].deleted
  <2>1. booking \in Row /\ booking' # booking
    BY <1>1 DEF IInv, TypeOK
  <2>2. PICK r \in Requests : Step(r)
    BY <1>1, <2>1 DEF Next, Step, Rest, vars
  <2>3. ~CommitAdd(r) /\ ~CommitRemove(r)
    BY <1>1, <2>1 DEF CommitAdd, CommitRemove, Row
  <2>4. \A m \in Members, p \in Prices, a \in Advances, s \in FirstStatuses :
            ~Create(r, m, p, a, s)
    BY <1>1 DEF Create, IInv, CreatedOnce
  <2>5. WriteEdit(r)
    BY <2>1, <2>2, <2>3, <2>4
    DEF Step, Arrive, Advance, BeginAdd, BeginRemove, BeginEdit, ReadForEdit, BeginSync,
        AfterCreate, ContinueSync, AfterWriteEdit, Confirm, Rollback, Die
  <2>6. /\ pc[r] = "editing" /\ pc'[r] = "written" /\ edit[r] \in Edit
        /\ booking'.deleted = Pick(edit[r].deleted, seen[r].deleted)
    BY <1>1, <2>5 DEF WriteEdit, Goto, Merged, IInv, TypeOK
  <2>7. edit[r].deleted \in BOOLEAN \cup {Unset}
    BY <2>6 DEF Edit, Optional
  <2> QED
    BY <1>1, <2>6, <2>7 DEF Pick
<1> QED
  BY <1>1, Inductive, PTL DEF Spec, OnlySyncOrStaleRevives

\* addPayment and removePayment never leave the row locked: while SELECT ... FOR
\* UPDATE keeps others waiting, the transaction they wait for is under way. It is
\* the part of Answered that holds of each state; that it ends is fairness.
THEOREM LockGivenUp == Spec => []LockIsHeld
<1>1. Init => LockIsHeld
  BY DEF Init, LockIsHeld
<1>2. IInv /\ LockIsHeld /\ [Next]_vars => LockIsHeld'
  <2>1. ASSUME LockIsHeld, UNCHANGED vars
        PROVE  LockIsHeld'
    BY <2>1 DEF vars, LockIsHeld
  <2> QED
    BY <2>1, LockIsHeldStep DEF Next, Step, Rest
<1> QED
  BY <1>1, <1>2, Inductive, PTL DEF Spec

\* The requests of a booking implement its account: each payment and each reversal,
\* two or three queries in a transaction of addPayment or removePayment, happens in
\* one step, on the amount the booking has at that moment, and nothing but an edit
\* that puts back its own reading moves the balance or the archived flag otherwise.
THEOREM Implements == Spec => ImplementsAccount
<1>1. Init => Account!Init /\ AddsSomething
  BY DEF Init, AddsSomething, Account!Init, Statement, Drafts, Draft
<1>2. IInv /\ AddsSomething /\ [Next]_vars =>
          [Account!Next]_<<Statement(booking), ledger, Drafts>>
  <2> SUFFICES ASSUME IInv, AddsSomething, [Next]_vars
               PROVE  [Account!Next]_<<Statement(booking), ledger, Drafts>>
    OBVIOUS
  <2>1. CASE UNCHANGED vars
    BY <2>1 DEF vars, Drafts, Draft
  <2>2. ASSUME NEW r \in Requests, Step(r)
        PROVE  Account!Next \/ UNCHANGED <<Statement(booking), ledger, Drafts>>
    BY <2>2, AccountStep
  <2> QED
    BY <2>1, <2>2 DEF Next, Step, Rest
<1> QED
  BY <1>1, <1>2, AddsSomethingStep, Inductive, PTL DEF Spec, ImplementsAccount, Account!Spec
=============================================================================
