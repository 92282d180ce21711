------------------------- MODULE WhatsAppLoginProofs -------------------------
(***************************************************************************)
(* The stored login of a WhatsApp Web account and the session that uses    *)
(* it, checked by the TLA+ proof system.                                   *)
(*                                                                         *)
(* AuthKeyStore: the key store forgets nothing and never goes back, for    *)
(* any number of keys, updates and failures.                               *)
(*                                                                         *)
(* WhatsAppSession: the map names the live socket, the end of a session is *)
(* told, and a disconnect lasts, for any number of sockets, calls and      *)
(* failures.                                                               *)
(***************************************************************************)
EXTENDS AuthKeyStore, WhatsAppSession, TLAPS

\* What is queued for a key is its latest version; what a flush took lies between
\* what the table has and that version.
Ordered ==
    \A k \in Keys :
        /\ db[k] <= cache[k]
        /\ pendingWrites[k] \in {0, cache[k]} /\ pendingDeletes[k] \in {0, cache[k]}
        /\ flush.writes[k] # 0 => db[k] <= flush.writes[k] /\ flush.writes[k] <= cache[k]
        /\ flush.deletes[k] # 0 => db[k] <= flush.deletes[k] /\ flush.deletes[k] <= cache[k]

\* By the time a flush writes, its deletions are in the table.
DeletedFirst ==
    flush.step = "writing" => \A k \in Keys : flush.deletes[k] \in {0, db[k]}

\* Between flushes no batch is held; a stopped process holds nothing.
HoldsNothing ==
    /\ Idle => flush = NoFlush
    /\ phase = "down" =>
          Idle /\ pendingWrites = Nothing /\ pendingDeletes = Nothing

\* A tidy shutdown leaves nothing queued, and when it is done nothing under way.
TidyQueues ==
    /\ tidy /\ phase \in {"closing", "closed"} => NothingPending
    /\ tidy /\ phase = "closed" => Idle

StoreInv ==
    /\ StoreTypeOK /\ NothingForgotten
    /\ Ordered /\ DeletedFirst /\ HoldsNothing /\ TidyQueues

\* StoreTypeOK in two halves: what the keys are made of, and the rest.
Flush == [step : {"none", "deleting", "writing"}, writes : Batch, deletes : Batch]

KeysOK ==
    /\ cache \in Batch /\ db \in Batch
    /\ pendingWrites \in Batch /\ pendingDeletes \in Batch
    /\ Disjoint(pendingWrites, pendingDeletes)
    /\ flush \in Flush
    /\ Disjoint(flush.writes, flush.deletes)

RestOK ==
    /\ phase \in {"running", "closing", "closed", "down"}
    /\ timer \in BOOLEAN /\ missed \in BOOLEAN /\ tidy \in BOOLEAN
    /\ creds \in Nat /\ credsDb \in Nat /\ saving \subseteq Nat
    /\ failures \in 0 .. MaxFailures

----------------------------------------------------------------------------
(* Lemmas about the operators *)

\* The empty batch is a batch.
LEMMA NothingIsBatch == Nothing \in Batch /\ \A k \in Keys : Nothing[k] = 0
  BY DEF Nothing, Batch

\* A statement applied to a table of versions gives a table of versions.
LEMMA OverType ==
    ASSUME NEW table \in Batch, NEW batch \in Batch
    PROVE  /\ Over(table, batch) \in Batch
           /\ \A k \in Keys : Over(table, batch)[k]
                                = IF batch[k] = 0 THEN table[k] ELSE batch[k]
  BY DEF Over, Batch

\* What TakeBatch leaves: the queues empty, the flush holding what was queued.
LEMMA TakeBatchEffect ==
    ASSUME StoreTypeOK, TakeBatch
    PROVE  /\ pendingWrites' = Nothing /\ pendingDeletes' = Nothing
           /\ flush'.writes = pendingWrites /\ flush'.deletes = pendingDeletes
           /\ flush'.step \in {"deleting", "writing"}
           /\ flush'.step = "writing" => Empty(pendingDeletes)
           /\ flush' \in Flush
<1>1. pendingWrites \in Batch /\ pendingDeletes \in Batch
  BY DEF StoreTypeOK
<1> QED
  BY <1>1 DEF TakeBatch, Flush

\* What PutBack leaves: batches, and for each key what was queued or what the
\* failed flush had taken.
LEMMA PutBackEffect ==
    ASSUME StoreTypeOK, PutBack
    PROVE  /\ pendingWrites' \in Batch /\ pendingDeletes' \in Batch
           /\ \A k \in Keys :
                IF pendingWrites[k] = 0 /\ pendingDeletes[k] = 0
                  THEN /\ pendingWrites'[k] = flush.writes[k]
                       /\ pendingDeletes'[k] = flush.deletes[k]
                  ELSE /\ pendingWrites'[k] = pendingWrites[k]
                       /\ pendingDeletes'[k] = pendingDeletes[k]
  BY DEF StoreTypeOK, PutBack, Batch

----------------------------------------------------------------------------

LEMMA Halves == StoreTypeOK <=> KeysOK /\ RestOK
  BY DEF StoreTypeOK, KeysOK, RestOK, Flush

\* The initial states satisfy the inductive invariant.
LEMMA StoreInvInit == StoreInit => StoreInv
<1> SUFFICES ASSUME StoreInit
             PROVE  StoreInv
  OBVIOUS
<1> USE NothingIsBatch
<1>1. flush.step = "none" /\ flush.writes = Nothing /\ flush.deletes = Nothing
      /\ flush \in Flush
  BY DEF StoreInit, NoFlush, Flush
<1>2. KeysOK
  BY <1>1 DEF StoreInit, KeysOK, Disjoint
<1>3. timer \in BOOLEAN /\ missed \in BOOLEAN /\ tidy \in BOOLEAN
  BY Zenon DEF StoreInit
<1>4. RestOK
  BY <1>3, StoreConstants DEF StoreInit, RestOK
<1>5. NothingForgotten /\ Ordered
  BY <1>1 DEF StoreInit, NothingForgotten, Ordered
<1>6. HoldsNothing /\ TidyQueues /\ DeletedFirst
  BY <1>1 DEF StoreInit, HoldsNothing, TidyQueues, DeletedFirst
<1> QED
  BY <1>2, <1>4, <1>5, <1>6, Halves DEF StoreInv

\* Every step keeps the half of the type invariant that the keys play no part in.
LEMMA RestNext == RestOK /\ [StoreNext]_storeVars => RestOK'
<1> SUFFICES ASSUME RestOK, [StoreNext]_storeVars
             PROVE  RestOK'
  OBVIOUS
<1> USE StoreConstants DEF RestOK
<1>1. ASSUME NEW k \in Keys, Set(k)
      PROVE  RestOK'
  <2>1. tidy' \in BOOLEAN /\ timer' \in BOOLEAN
    BY <1>1, Zenon DEF Set
  <2> QED
    BY <1>1, <2>1 DEF Set, login
<1>2. CASE TimerFires
  <2>1. missed' \in BOOLEAN /\ timer' \in BOOLEAN
    BY <1>2, Zenon DEF TimerFires
  <2> QED
    BY <1>2, <2>1 DEF TimerFires, login
<1>3. CASE Deleted
  BY <1>3 DEF Deleted, Ended, login
<1>4. CASE Written
  BY <1>4 DEF Written, Ended, login
<1>5. CASE FlushFails
  <2>1. tidy' \in BOOLEAN /\ timer' \in BOOLEAN
    BY <1>5, Zenon DEF FlushFails
  <2> QED
    BY <1>5, <2>1 DEF FlushFails, Ended, Failure, login
<1>6. CASE SaveCreds
  BY <1>6 DEF SaveCreds
<1>7. ASSUME NEW version \in saving, CredsStored(version) \/ CredsFail(version)
      PROVE  RestOK'
  <2>1. version \in Nat /\ saving' \subseteq Nat
    BY <1>7 DEF CredsStored, CredsFail
  <2>2. credsDb' \in Nat
    BY <1>7, <2>1 DEF CredsStored, CredsFail
  <2>3. failures' \in 0 .. MaxFailures
    BY <1>7 DEF CredsStored, CredsFail, Failure
  <2>4. UNCHANGED <<phase, timer, creds, missed, tidy>>
    BY <1>7 DEF CredsStored, CredsFail
  <2> QED
    BY <2>1, <2>2, <2>3, <2>4
<1>8. CASE Shutdown
  <2>1. tidy' \in BOOLEAN
    BY <1>8, Zenon DEF Shutdown, Idle
  <2> QED
    BY <1>8, <2>1 DEF Shutdown, login
<1>9. CASE Stop
  <2>1. missed' \in BOOLEAN /\ timer' \in BOOLEAN
    BY <1>9, Zenon DEF Stop
  <2> QED
    BY <1>9, <2>1 DEF Stop, Failure
<1>10. CASE Load
  <2>1. tidy' \in BOOLEAN
    BY <1>10, Zenon DEF Load
  <2> QED
    BY <1>10, <2>1 DEF Load
<1>11. CASE UNCHANGED storeVars
  BY <1>11 DEF storeVars
<1> QED
  BY <1>1, <1>2, <1>3, <1>4, <1>5, <1>6, <1>7, <1>8, <1>9, <1>10, <1>11 DEF StoreNext

----------------------------------------------------------------------------
(* The invariant, one action at a time *)

KInv ==
    /\ KeysOK /\ NothingForgotten
    /\ Ordered /\ DeletedFirst /\ HoldsNothing /\ TidyQueues

LEMMA Parts == StoreInv <=> KInv /\ RestOK
  BY Halves DEF StoreInv, KInv

\* keys.set: the new version is queued, and only it.
LEMMA SetKeeps ==
    ASSUME StoreInv, NEW k \in Keys, Set(k)
    PROVE  KInv'
<1>1. KInv
  BY Parts
<1>2. PICK v : v = cache[k] + 1
  OBVIOUS
<1>3. /\ \A q \in Keys : cache'[q] = IF q = k THEN v ELSE cache[q]
      /\ \A q \in Keys \ {k} : /\ pendingWrites'[q] = pendingWrites[q]
                               /\ pendingDeletes'[q] = pendingDeletes[q]
      /\ \/ pendingWrites'[k] = v /\ pendingDeletes'[k] = 0
         \/ pendingDeletes'[k] = v /\ pendingWrites'[k] = 0
      /\ UNCHANGED <<phase, db, flush>> /\ phase \in {"running", "closing"}
      /\ v \in Nat /\ cache[k] < v
  BY <1>1, <1>2 DEF KInv, Set, QueueWrite, QueueDelete, KeysOK, Batch
<1>4. cache' \in Batch /\ pendingWrites' \in Batch /\ pendingDeletes' \in Batch
  BY <1>1, <1>2, <1>3 DEF KInv, Set, QueueWrite, QueueDelete, KeysOK, Batch
<1>5. KeysOK'
  BY <1>1, <1>3, <1>4 DEF KInv, KeysOK, Disjoint
<1>6. NothingForgotten'
  BY <1>1, <1>3 DEF KInv, NothingForgotten, Alive
<1>7. Ordered'
  BY <1>1, <1>3, <1>4 DEF KInv, Ordered, KeysOK, Batch, Flush
<1>8. HoldsNothing' /\ DeletedFirst'
  BY <1>1, <1>3 DEF KInv, HoldsNothing, DeletedFirst, Idle
<1>9. TidyQueues'
  <2>1. tidy' => phase = "running"
    BY DEF Set
  <2> QED
    BY <1>3, <2>1 DEF TidyQueues
<1> QED
  BY <1>5, <1>6, <1>7, <1>8, <1>9 DEF KInv

\* Taking a batch moves what is queued into the flush.
LEMMA TakeBatchKeeps ==
    ASSUME StoreInv, TakeBatch, Idle, Alive, UNCHANGED <<cache, db>>,
           phase' \in {phase, "closing"}, tidy' => phase' # "closed"
    PROVE  KInv'
<1>1. KInv /\ StoreTypeOK
  BY Parts DEF StoreInv
<1>2. /\ pendingWrites' = Nothing /\ pendingDeletes' = Nothing
      /\ flush'.writes = pendingWrites /\ flush'.deletes = pendingDeletes
      /\ flush'.step \in {"deleting", "writing"} /\ flush' \in Flush
      /\ flush'.step = "writing" => Empty(pendingDeletes)
  BY <1>1, TakeBatchEffect
<1>3. \A k \in Keys : flush.writes[k] = 0 /\ flush.deletes[k] = 0
  BY <1>1, NothingIsBatch DEF KInv, HoldsNothing, NoFlush
<1>4. KeysOK'
  BY <1>1, <1>2, NothingIsBatch DEF KInv, KeysOK, Disjoint
<1>5. NothingForgotten'
  BY <1>1, <1>2, <1>3, NothingIsBatch DEF KInv, NothingForgotten, Ordered, KeysOK, Batch
<1>6. Ordered'
  BY <1>1, <1>2, NothingIsBatch DEF KInv, Ordered, KeysOK, Batch
<1>7. HoldsNothing' /\ DeletedFirst'
  BY <1>2 DEF HoldsNothing, DeletedFirst, Idle, Alive, Empty
<1>8. TidyQueues'
  BY <1>2, NothingIsBatch DEF TidyQueues, NothingPending, Empty
<1> QED
  BY <1>4, <1>5, <1>6, <1>7, <1>8 DEF KInv

\* Steps that leave the keys alone; only a shutdown with nothing to flush moves
\* the phase.
LEMMA KeysUntouched ==
    ASSUME StoreInv, UNCHANGED <<cache, db, queued, flush>>, Alive,
           \/ UNCHANGED <<phase, tidy>>
           \/ phase' = "closed" /\ (tidy' => Idle /\ NothingPending)
    PROVE  KInv'
<1>1. KInv
  BY Parts
<1>2. KeysOK' /\ Ordered' /\ DeletedFirst'
  BY <1>1 DEF KInv, KeysOK, Ordered, DeletedFirst, queued
<1>3. NothingForgotten' /\ HoldsNothing'
  BY <1>1 DEF KInv, NothingForgotten, HoldsNothing, queued, Alive, Idle
<1>4. TidyQueues'
  BY <1>1 DEF KInv, TidyQueues, queued, Idle, NothingPending, Empty
<1> QED
  BY <1>2, <1>3, <1>4 DEF KInv

\* A statement that is done moves its keys forward in the table.
LEMMA Advances ==
    ASSUME StoreInv, NEW batch \in {flush.writes, flush.deletes}, NEW table,
           table = Over(db, batch)
    PROVE  /\ table \in Batch
           /\ \A k \in Keys : /\ db[k] <= table[k] /\ table[k] <= cache[k]
                             /\ table[k] = IF batch[k] = 0 THEN db[k] ELSE batch[k]
<1>1. db \in Batch /\ cache \in Batch /\ batch \in Batch /\ Ordered
  BY DEF StoreInv, StoreTypeOK
<1> QED
  BY <1>1, OverType DEF Ordered, Batch

\* The DELETE of a flush is done.
LEMMA DeletedKeeps == StoreInv /\ Deleted => KInv'
<1> SUFFICES ASSUME StoreInv, Deleted
             PROVE  KInv'
  OBVIOUS
<1>1. KInv
  BY Parts
<1>2. /\ db' \in Batch
      /\ \A k \in Keys : /\ db[k] <= db'[k] /\ db'[k] <= cache[k]
                        /\ db'[k] = IF flush.deletes[k] = 0 THEN db[k] ELSE flush.deletes[k]
  BY Advances DEF Deleted
<1>3. UNCHANGED <<cache, pendingWrites, pendingDeletes, tidy>> /\ phase # "down"
  BY DEF Deleted, queued, Alive
<1>4. phase' # "down" /\ ~Idle /\ phase' = IF phase = "closing" /\ Idle' THEN "closed" ELSE phase
  BY <1>1 DEF KInv, Deleted, Ended, Idle, Alive, NoFlush, KeysOK, Flush
<1>5. /\ flush' \in Flush /\ Disjoint(flush'.writes, flush'.deletes)
      /\ \/ flush' = NoFlush /\ \A k \in Keys : flush.writes[k] = 0
         \/ flush'.step = "writing" /\ flush'.writes = flush.writes
                                     /\ flush'.deletes = flush.deletes
  BY <1>1, NothingIsBatch DEF KInv, Deleted, Empty, KeysOK, Flush, NoFlush, Disjoint
<1>6. KeysOK'
  BY <1>1, <1>2, <1>3, <1>5 DEF KInv, KeysOK, Disjoint
<1>7. NothingForgotten'
  BY <1>1, <1>2, <1>3, <1>4, <1>5 DEF KInv, NothingForgotten, Alive, KeysOK, Disjoint, Batch
<1>8. Ordered'
  <2>1. CASE flush' = NoFlush
    BY <1>1, <1>2, <1>3, <2>1, NothingIsBatch DEF KInv, Ordered, NoFlush
  <2>2. CASE flush'.writes = flush.writes /\ flush'.deletes = flush.deletes
    <3>1. \A k \in Keys : flush.writes[k] = 0 \/ flush.deletes[k] = 0
      BY <1>1 DEF KInv, KeysOK, Disjoint
    <3> QED
      BY <1>1, <1>2, <1>3, <2>2, <3>1 DEF KInv, Ordered, KeysOK, Batch
  <2> QED
    BY <1>5, <2>1, <2>2
<1>9. HoldsNothing' /\ DeletedFirst'
  <2>1. HoldsNothing'
    BY <1>4, <1>5 DEF HoldsNothing, Idle
  <2>2. DeletedFirst'
    BY <1>2, <1>5, NothingIsBatch DEF DeletedFirst, NoFlush
  <2> QED
    BY <2>1, <2>2
<1>10. TidyQueues'
  BY <1>1, <1>3, <1>4 DEF KInv, TidyQueues, NothingPending, Empty
<1> QED
  BY <1>6, <1>7, <1>8, <1>9, <1>10 DEF KInv

\* The upsert of a flush is done, and the flush with it.
LEMMA WrittenKeeps == StoreInv /\ Written => KInv'
<1> SUFFICES ASSUME StoreInv, Written
             PROVE  KInv'
  OBVIOUS
<1>1. KInv
  BY Parts
<1>2. /\ db' \in Batch
      /\ \A k \in Keys : /\ db[k] <= db'[k] /\ db'[k] <= cache[k]
                        /\ db'[k] = IF flush.writes[k] = 0 THEN db[k] ELSE flush.writes[k]
  BY Advances DEF Written
<1>3. UNCHANGED <<cache, pendingWrites, pendingDeletes, tidy>> /\ phase # "down"
      /\ phase' # "down" /\ ~Idle /\ flush.step = "writing"
      /\ phase' = IF phase = "closing" THEN "closed" ELSE phase
  BY DEF Written, queued, Alive, Ended, Idle
<1>4. flush' = NoFlush /\ flush' \in Flush /\ flush'.step = "none"
      /\ flush'.writes = Nothing /\ flush'.deletes = Nothing
  BY NothingIsBatch DEF Written, NoFlush, Flush
<1>5. KeysOK'
  BY <1>1, <1>2, <1>3, <1>4, NothingIsBatch DEF KInv, KeysOK, Disjoint
<1>6. NothingForgotten'
  BY <1>1, <1>2, <1>3 DEF KInv, NothingForgotten, DeletedFirst, Alive, KeysOK, Batch
<1>7. Ordered'
  BY <1>1, <1>2, <1>3, <1>4, NothingIsBatch DEF KInv, Ordered
<1>8. HoldsNothing' /\ DeletedFirst'
  BY <1>3, <1>4 DEF HoldsNothing, DeletedFirst, Idle
<1>9. TidyQueues'
  BY <1>1, <1>3, <1>4 DEF KInv, TidyQueues, NothingPending, Empty, Idle
<1> QED
  BY <1>5, <1>6, <1>7, <1>8, <1>9 DEF KInv

\* Done or not, a statement under way takes no key back.
LEMMA InFlightAdvances ==
    ASSUME StoreInv, db' \in {db, Over(db, InFlight)}
    PROVE  db' \in Batch /\ \A k \in Keys : db[k] <= db'[k] /\ db'[k] <= cache[k]
<1>1. CASE db' = db
  BY <1>1 DEF StoreInv, StoreTypeOK, Batch, Ordered
<1>2. CASE db' = Over(db, InFlight)
  <2>1. InFlight \in {flush.writes, flush.deletes}
    BY DEF InFlight
  <2> QED
    BY <1>2, <2>1, Advances
<1> QED
  BY <1>1, <1>2

\* A failed flush queues its keys again, unless a newer version is queued.
LEMMA FlushFailsKeeps == StoreInv /\ FlushFails => KInv'
<1> SUFFICES ASSUME StoreInv, FlushFails
             PROVE  KInv'
  OBVIOUS
<1>1. KInv /\ StoreTypeOK
  BY Parts DEF StoreInv
<1>2. db' \in Batch /\ \A k \in Keys : db[k] <= db'[k] /\ db'[k] <= cache[k]
  BY InFlightAdvances DEF FlushFails
<1>3. UNCHANGED cache /\ phase # "down" /\ phase' # "down"
      /\ (tidy' => phase = "running" /\ phase' = "running")
  BY DEF FlushFails, Alive, Ended
<1>4. flush' = NoFlush /\ flush' \in Flush /\ flush'.step = "none"
      /\ flush'.writes = Nothing /\ flush'.deletes = Nothing
  BY NothingIsBatch DEF FlushFails, NoFlush, Flush
<1>5. /\ pendingWrites' \in Batch /\ pendingDeletes' \in Batch
      /\ \A k \in Keys :
           IF pendingWrites[k] = 0 /\ pendingDeletes[k] = 0
             THEN /\ pendingWrites'[k] = flush.writes[k]
                  /\ pendingDeletes'[k] = flush.deletes[k]
             ELSE /\ pendingWrites'[k] = pendingWrites[k]
                  /\ pendingDeletes'[k] = pendingDeletes[k]
  BY <1>1, PutBackEffect DEF FlushFails
<1>6. KeysOK'
  BY <1>1, <1>2, <1>3, <1>4, <1>5, NothingIsBatch DEF KInv, KeysOK, Disjoint
<1>7. NothingForgotten'
  BY <1>1, <1>2, <1>3, <1>5 DEF KInv, NothingForgotten, Ordered, Alive, KeysOK, Batch
<1>8. Ordered'
  <2>1. ASSUME NEW k \in Keys
        PROVE  pendingWrites'[k] \in {0, cache[k]} /\ pendingDeletes'[k] \in {0, cache[k]}
    <3>1. CASE pendingWrites[k] = 0 /\ pendingDeletes[k] = 0
      <4>1. flush.writes[k] = 0 \/ flush.deletes[k] = 0
        BY <1>1 DEF KInv, KeysOK, Disjoint
      <4>2. /\ db[k] \in Nat /\ cache[k] \in Nat
            /\ flush.writes[k] \in Nat /\ flush.deletes[k] \in Nat
        BY <1>1 DEF KInv, KeysOK, Batch, Flush
      <4>3. flush.writes[k] \in {0, cache[k]} /\ flush.deletes[k] \in {0, cache[k]}
        BY <1>1, <1>3, <3>1, <4>1, <4>2 DEF KInv, NothingForgotten, Ordered, Alive
      <4> QED
        BY <1>5, <3>1, <4>3
    <3>2. CASE ~(pendingWrites[k] = 0 /\ pendingDeletes[k] = 0)
      BY <1>1, <1>5, <3>2 DEF KInv, Ordered
    <3> QED
      BY <3>1, <3>2
  <2> QED
    BY <1>2, <1>3, <1>4, <2>1, NothingIsBatch DEF Ordered
<1>9. HoldsNothing' /\ DeletedFirst'
  BY <1>3, <1>4 DEF HoldsNothing, DeletedFirst, Idle
<1>10. TidyQueues'
  BY <1>3 DEF TidyQueues
<1> QED
  BY <1>6, <1>7, <1>8, <1>9, <1>10 DEF KInv

\* The process goes down with its queues.
LEMMA StopKeeps == StoreInv /\ Stop => KInv'
<1> SUFFICES ASSUME StoreInv, Stop
             PROVE  KInv'
  OBVIOUS
<1>1. KInv
  BY Parts
<1>2. db' \in Batch /\ \A k \in Keys : db[k] <= db'[k] /\ db'[k] <= cache[k]
  BY InFlightAdvances DEF Stop
<1>3. UNCHANGED cache /\ phase' = "down"
      /\ pendingWrites' = Nothing /\ pendingDeletes' = Nothing
      /\ flush' = NoFlush /\ flush' \in Flush /\ flush'.step = "none"
      /\ flush'.writes = Nothing /\ flush'.deletes = Nothing
  BY NothingIsBatch DEF Stop, NoFlush, Flush
<1>4. KeysOK'
  BY <1>1, <1>2, <1>3, NothingIsBatch DEF KInv, KeysOK, Disjoint
<1>5. Ordered'
  BY <1>2, <1>3, NothingIsBatch DEF Ordered
<1>6. NothingForgotten' /\ HoldsNothing' /\ DeletedFirst' /\ TidyQueues'
  BY <1>3 DEF NothingForgotten, HoldsNothing, DeletedFirst, TidyQueues, Alive, Idle
<1> QED
  BY <1>4, <1>5, <1>6 DEF KInv

\* A restart serves what the table has.
LEMMA LoadKeeps == StoreInv /\ Load => KInv'
<1> SUFFICES ASSUME StoreInv, Load
             PROVE  KInv'
  OBVIOUS
<1>1. KInv
  BY Parts
<1>2. /\ cache' = db /\ db' = db /\ phase' = "running"
      /\ pendingWrites' = Nothing /\ pendingDeletes' = Nothing /\ flush' = NoFlush
      /\ UNCHANGED <<pendingWrites, pendingDeletes, flush>>
  BY <1>1 DEF KInv, HoldsNothing, Load, queued
<1>3. flush'.step = "none" /\ flush'.writes = Nothing /\ flush'.deletes = Nothing
  BY <1>2 DEF NoFlush
<1>4. KeysOK'
  BY <1>1, <1>2 DEF KInv, KeysOK, Disjoint
<1>5. Ordered'
  <2>1. \A k \in Keys : /\ cache'[k] = db'[k] /\ db'[k] \in Nat
                       /\ pendingWrites'[k] = 0 /\ pendingDeletes'[k] = 0
                       /\ flush'.writes[k] = 0 /\ flush'.deletes[k] = 0
    BY <1>1, <1>2, <1>3, NothingIsBatch DEF KInv, KeysOK, Batch
  <2> QED
    BY <2>1 DEF Ordered
<1>6. NothingForgotten' /\ HoldsNothing' /\ DeletedFirst' /\ TidyQueues'
  BY <1>2, <1>3 DEF NothingForgotten, HoldsNothing, DeletedFirst, TidyQueues
<1> QED
  BY <1>4, <1>5, <1>6 DEF KInv

----------------------------------------------------------------------------
(* The invariant and what follows from it *)

\* The timer takes the batch, or fires in vain.
LEMMA TimerFiresKeeps == StoreInv /\ TimerFires => KInv'
<1> SUFFICES ASSUME StoreInv, TimerFires
             PROVE  KInv'
  OBVIOUS
<1>1. CASE Idle /\ ~NothingPending
  <2>1. TakeBatch /\ Alive /\ UNCHANGED <<cache, db, phase, tidy>>
    BY <1>1 DEF TimerFires
  <2>2. tidy' => phase' # "closed"
    BY <1>1, <2>1 DEF StoreInv, TidyQueues
  <2> QED
    BY <1>1, <2>1, <2>2, TakeBatchKeeps
<1>2. CASE ~(Idle /\ ~NothingPending)
  <2>1. UNCHANGED <<cache, db, queued, flush>> /\ Alive /\ UNCHANGED <<phase, tidy>>
    BY <1>2 DEF TimerFires
  <2> QED
    BY <2>1, KeysUntouched
<1> QED
  BY <1>1, <1>2

\* Shutdown flushes what is queued, or has nothing to flush, or gives up.
LEMMA ShutdownKeeps == StoreInv /\ Shutdown => KInv'
<1> SUFFICES ASSUME StoreInv, Shutdown
             PROVE  KInv'
  OBVIOUS
<1>1. Alive /\ UNCHANGED <<cache, db>>
  BY DEF Shutdown, Alive
<1>2. CASE Idle /\ ~NothingPending
  <2>1. TakeBatch /\ phase' = "closing"
    BY <1>2 DEF Shutdown
  <2> QED
    BY <1>1, <1>2, <2>1, TakeBatchKeeps
<1>3. CASE ~(Idle /\ ~NothingPending)
  <2>1. UNCHANGED <<queued, flush>> /\ phase' = "closed"
    BY <1>3 DEF Shutdown
  <2>2. tidy' => Idle /\ NothingPending
    BY <1>3 DEF Shutdown
  <2> QED
    BY <1>1, <2>1, <2>2, KeysUntouched
<1> QED
  BY <1>2, <1>3

\* Every step of the store keeps the invariant.
LEMMA StoreInvNext == StoreInv /\ [StoreNext]_storeVars => StoreInv'
<1> SUFFICES ASSUME StoreInv, [StoreNext]_storeVars
             PROVE  StoreInv'
  OBVIOUS
<1>1. RestOK'
  BY Parts, RestNext
<1>2. ASSUME NEW k \in Keys, Set(k)
      PROVE  KInv'
  BY <1>2, SetKeeps
<1>3. ASSUME SaveCreds \/ \E version \in saving : CredsStored(version) \/ CredsFail(version)
      PROVE  KInv'
  <2>1. Alive /\ UNCHANGED <<cache, db, queued, flush>> /\ UNCHANGED <<phase, tidy>>
    BY <1>3 DEF SaveCreds, CredsStored, CredsFail, Alive
  <2> QED
    BY <2>1, KeysUntouched
<1>4. ASSUME UNCHANGED storeVars
      PROVE  KInv'
  <2>1. KInv /\ UNCHANGED <<phase, cache, db, pendingWrites, pendingDeletes, flush, tidy>>
    BY <1>4, Parts DEF storeVars
  <2> QED
    BY <2>1 DEF KInv, KeysOK, NothingForgotten, Ordered, DeletedFirst, HoldsNothing,
                TidyQueues, NothingPending, Empty, Idle, Alive
<1>5. KInv'
  BY <1>2, <1>3, <1>4, TimerFiresKeeps, DeletedKeeps, WrittenKeeps, FlushFailsKeeps,
     ShutdownKeeps, StopKeeps, LoadKeeps DEF StoreNext
<1>6. KInv' /\ RestOK' => StoreInv'
  BY Halves DEF StoreInv, KInv, StoreTypeOK, KeysOK, RestOK, Flush
<1> QED
  BY <1>1, <1>5, <1>6

\* StoreInv holds in every state of every behaviour: any number of keys, of updates,
\* of failed statements and of restarts.
THEOREM StoreInductive == StoreSpec => []StoreInv
<1> QED
  BY StoreInvInit, StoreInvNext, PTL DEF StoreSpec

\* No key update is dropped while the process lives (flush's batches and its catch).
THEOREM ForgetsNothing == StoreSpec => []NothingForgotten
<1>1. StoreInv => NothingForgotten
  BY DEF StoreInv
<1> QED
  BY StoreInductive, <1>1, PTL

\* Something queued is waited for: a timer is set, unless the last one fired in
\* the middle of a flush.
QueueIsTimed == NothingPending \/ timer \/ missed

LEMMA QueueIsTimedStep == StoreInv /\ QueueIsTimed /\ [StoreNext]_storeVars => QueueIsTimed'
<1> SUFFICES ASSUME StoreInv, QueueIsTimed, [StoreNext]_storeVars
             PROVE  QueueIsTimed'
  OBVIOUS
<1> USE NothingIsBatch
<1>1. CASE \E k \in Keys : Set(k)
  BY <1>1 DEF Set, QueueIsTimed
<1>2. CASE TimerFires
  BY <1>2 DEF TimerFires, TakeBatch, QueueIsTimed, NothingPending, Empty, queued
<1>3. CASE FlushFails
  BY <1>3 DEF FlushFails, QueueIsTimed
<1>4. CASE Shutdown
  BY <1>4 DEF Shutdown, TakeBatch, QueueIsTimed, NothingPending, Empty, queued
<1>5. CASE Stop
  BY <1>5 DEF Stop, QueueIsTimed, NothingPending, Empty
<1>6. CASE UNCHANGED <<queued, timer, missed>>
  BY <1>6 DEF QueueIsTimed, NothingPending, Empty, queued
<1> QED
  BY <1>1, <1>2, <1>3, <1>4, <1>5, <1>6
  DEF StoreNext, Deleted, Written, SaveCreds, CredsStored, CredsFail, Load, storeVars,
      queued

\* An update the table does not have yet is under way or will be tried.
Retrying ==
    Alive => \A k \in Keys : db[k] # cache[k] => timer \/ missed \/ ~Idle

\* For any number of keys, updates and failures, nothing waits in the store with
\* nobody to write it, but for the timer that fires during a flush, the exception
\* Retried makes too: a failed flush has put its rows back and set the timer.
THEOREM KeepsTrying == StoreSpec => []Retrying
<1>1. StoreInit => QueueIsTimed
  BY NothingIsBatch DEF StoreInit, QueueIsTimed, NothingPending, Empty
<1>2. StoreInv /\ QueueIsTimed => Retrying
  <2> SUFFICES ASSUME StoreInv, QueueIsTimed, Alive, NEW k \in Keys,
                      db[k] # cache[k], ~timer, ~missed, Idle
               PROVE  FALSE
    BY DEF Retrying
  <2>1. pendingWrites[k] = 0 /\ pendingDeletes[k] = 0
    BY DEF QueueIsTimed, NothingPending, Empty
  <2>2. flush.writes[k] = 0 /\ flush.deletes[k] = 0
    BY NothingIsBatch DEF StoreInv, HoldsNothing, NoFlush
  <2>3. cache[k] = 0
    BY <2>1, <2>2 DEF StoreInv, NothingForgotten
  <2>4. db[k] \in Nat /\ db[k] <= cache[k]
    BY DEF StoreInv, StoreTypeOK, Batch, Ordered
  <2> QED
    BY <2>3, <2>4
<1> QED
  BY <1>1, <1>2, StoreInductive, QueueIsTimedStep, PTL DEF StoreSpec

\* A shutdown that begins between two flushes and meets no failure loses no key
\* (shutdownAllSessions' flush).
THEOREM LosesNothing == StoreSpec => []TidyShutdown
<1>1. StoreInv => TidyShutdown
  <2> SUFFICES ASSUME StoreInv, phase = "closed", tidy
               PROVE  db = cache
    BY DEF TidyShutdown
  <2>1. db \in Batch /\ cache \in Batch
    BY DEF StoreInv, StoreTypeOK
  <2>2. \A k \in Keys : pendingWrites[k] = 0 /\ pendingDeletes[k] = 0
    BY DEF StoreInv, TidyQueues, NothingPending, Empty
  <2>3. \A k \in Keys : flush.writes[k] = 0 /\ flush.deletes[k] = 0
    <3>1. flush = NoFlush
      BY Zenon DEF StoreInv, TidyQueues, HoldsNothing
    <3> QED
      BY <3>1, NothingIsBatch DEF NoFlush
  <2>4. \A k \in Keys : db[k] = cache[k]
    <3> SUFFICES ASSUME NEW k \in Keys, db[k] # cache[k]
                 PROVE  FALSE
      OBVIOUS
    <3>1. cache[k] = 0
      BY <2>2, <2>3 DEF StoreInv, NothingForgotten, Alive
    <3> QED
      BY <2>1, <3>1 DEF StoreInv, Ordered, Batch
  <2> QED
    BY <2>1, <2>4 DEF Batch
<1> QED
  BY StoreInductive, <1>1, PTL

\* The two statements of a flush, its failures and restarts included, implement a
\* store whose keys only move forward: an old value never overwrites a newer one.
THEOREM Implements == StoreSpec => ImplementsWriteBehind
<1>1. StoreInit => KeyStore!Init
  BY DEF StoreInit, KeyStore!Init, Nothing
<1>2. StoreInv /\ [StoreNext]_storeVars => [KeyStore!Next]_<<cache, db>>
  <2> SUFFICES ASSUME StoreInv, [StoreNext]_storeVars
               PROVE  [KeyStore!Next]_<<cache, db>>
    OBVIOUS
  <2>1. ASSUME NEW k \in Keys, Set(k)
        PROVE  KeyStore!Next
    BY <2>1 DEF Set, KeyStore!Next, KeyStore!Set
  <2>2. ASSUME UNCHANGED cache, db' \in Batch,
               \A k \in Keys : db[k] <= db'[k] /\ db'[k] <= cache[k]
        PROVE  KeyStore!Next
    BY <2>2 DEF KeyStore!Next, KeyStore!Store, Batch
  <2>3. CASE Deleted
    BY <2>2, <2>3, Advances DEF Deleted
  <2>4. CASE Written
    BY <2>2, <2>4, Advances DEF Written
  <2>5. CASE FlushFails
    BY <2>2, <2>5, InFlightAdvances DEF FlushFails
  <2>6. CASE Stop
    BY <2>2, <2>6, InFlightAdvances DEF Stop
  <2>7. CASE Load
    BY <2>7 DEF Load, KeyStore!Next, KeyStore!Reload
  <2>8. CASE TimerFires \/ Shutdown \/ SaveCreds
             \/ \E version \in saving : CredsStored(version) \/ CredsFail(version)
    BY <2>8 DEF TimerFires, Shutdown, SaveCreds, CredsStored, CredsFail
  <2>9. CASE UNCHANGED storeVars
    BY <2>9 DEF storeVars
  <2> QED
    BY <2>1, <2>3, <2>4, <2>5, <2>6, <2>7, <2>8, <2>9 DEF StoreNext
<1> QED
  BY <1>1, <1>2, StoreInductive, PTL DEF StoreSpec, ImplementsWriteBehind, KeyStore!Spec

----------------------------------------------------------------------------
(* The session that the stored login belongs to *)

\* A call that is to open a socket; the ends of a socket that is dialled again.
Opening == {"asked", "judging", "clearing", "loading", "loaded"}
Lost    == {"lost", "restart"}

OpeningCalls == {c \in Calls : call[c].at \in Opening}
ClearDue     == \E t \in tasks : t.job = "clear"

\* Which tasks write a status, which of them that the session is disconnected; a
\* call that logs out has a socket to do it with.
Shapes ==
    /\ \A t \in tasks :
          /\ t.status = "none" <=> t.job \in {"drawQr", "saveCreds", "clear"}
          /\ t.job \in {"setDisconnected", "markLoggedOut"} => t.status = "disconnected"
    /\ \A c \in Calls : call[c].at = "loggingOut" => call[c].sock \in Sockets

\* While nothing crowds a call there is one call, one live socket, in the map, and
\* no handler that could put another in the map or empty it.
Uncrowded ==
    ~crowded =>
        /\ \A s \in Sockets : Live(s) => entry.sock = s
        /\ \A c, d \in Running : c = d
        /\ \A c \in OpeningCalls : LiveSockets # {} => call[c].at = "asked" /\ call[c].force
        /\ OpeningCalls # {} => \A t \in tasks : t.job \notin {"drawQr", "clear"}
        /\ \A c \in Calls : call[c].at \in {"forgetting", "markingOut"} => LiveSockets = {}
        /\ \A c \in Calls : call[c].at = "loggingOut" => LiveSockets \subseteq {call[c].sock}
        /\ \A t \in tasks : t.job = "drawQr" => LiveSockets \subseteq {t.sock}
        /\ ClearDue => LiveSockets = {}

\* The map names a dead socket only until the handler that forgets its login is done.
EntryLives ==
    ~lateQr /\ entry.sock # None =>
        \/ Live(entry.sock)
        \/ lastClose \notin Lost /\ \E t \in tasks : t.job = "clear" /\ t.sock = entry.sock

\* A session is being kept up, or taken up again.
Continues ==
    \/ LiveSockets # {} \/ OpeningCalls # {} \/ timers # 0
    \/ \E t \in tasks : t.job = "setThenRedial"

\* A connection that dropped, or restarted after a scan, is on its way back.
LostComesBack ==
    ~failed /\ ~lateQr /\ lastClose \in Lost => Continues

\* Statuses that do not cross are one status.
OneStatus ==
    ~crossed =>
        /\ \A t, u \in tasks : t.status # "none" /\ u.status # "none" => t.status = u.status
        /\ \A c \in Calls : call[c].at = "markingOut" =>
              \A t \in tasks : t.status \in {"none", "disconnected"}

\* The end of a session: the map is empty, and the row says disconnected or is
\* about to.
EndIsTold ==
    ~failed /\ ~lateQr /\ ~Continues /\ ~ClearDue =>
        /\ entry = NoEntry
        /\ ~crossed =>
              /\ \A t \in tasks : t.status \in {"none", "disconnected"}
              /\ \/ row = "disconnected"
                 \/ \E t \in tasks : t.status = "disconnected"
                 \/ \E c \in Calls : call[c].at = "markingOut"

\* A quiet session that is disconnected has its one call, and what its socket had
\* begun; once the login is deleted nothing brings it back.
OutStays ==
    out =>
        /\ timers = 0
        /\ \A c \in Calls : call[c].at \in {"idle", "loggingOut", "forgetting", "markingOut"}
        /\ \A c, d \in Running : c = d
        /\ \A t \in tasks : t.job \in {"saveCreds", "clear", "markLoggedOut", "setDisconnected"}
        /\ \A s \in LiveSockets :
              /\ sock[s].state \in {"open", "replaced"}
              /\ \E c \in Calls : call[c].at = "loggingOut" /\ call[c].sock = s
        /\ entry.sock # None => \E c \in Calls : call[c].at = "loggingOut"
        /\ linked => \E c \in Calls : call[c].at \in {"loggingOut", "forgetting"}
        /\ Running = {} => row = "disconnected"

\* The inductive invariant of the session.
SessionInv ==
    /\ TypeOK /\ Shapes /\ Uncrowded /\ EntryLives /\ LostComesBack
    /\ OneStatus /\ EndIsTold /\ OutStays

\* TypeOK of the session, in four parts.
SocketRec == [state : States, paired : BOOLEAN]
CallRec   == [at : Points, force : BOOLEAN, paired : BOOLEAN, sock : Sockets \cup {None}]
TaskRec   == [job : Jobs, sock : Sockets, status : Statuses \cup {"none"}]

SockOK  == sock \in [Sockets -> SocketRec]
CallOK  == call \in [Calls -> CallRec]
FlagsOK ==
    /\ failed \in BOOLEAN /\ crossed \in BOOLEAN /\ lateQr \in BOOLEAN
    /\ crowded \in BOOLEAN /\ out \in BOOLEAN
OthersOK ==
    /\ entry \in [sock : Sockets \cup {None}, status : Statuses \cup {"none"}]
    /\ row \in Statuses /\ linked \in BOOLEAN
    /\ tasks \subseteq TaskRec
    /\ timers \in Nat
    /\ requests \in 0..MaxRequests /\ incidents \in 0..MaxIncidents
    /\ lastClose \in Reasons

\* The parts are all there is to TypeOK.
LEMMA SessionParts == TypeOK <=> SockOK /\ CallOK /\ FlagsOK /\ OthersOK
  BY DEF TypeOK, SockOK, CallOK, FlagsOK, OthersOK, SocketRec, CallRec, TaskRec

\* A call of initWhatsAppSession ends at once, or has begun.
LEMMA StartsACall ==
    ASSUME TypeOK, NEW c \in Calls, NEW force \in BOOLEAN, StartInit(c, force)
    PROVE  /\ CallOK'
           /\ \/ /\ ~force /\ TRUE \in UserKnown(entry.sock)
                 /\ call' = call /\ crowded' = crowded
              \/ /\ call[c].at = "idle" /\ call'[c].at = "asked" /\ call'[c].force = force
                 /\ \A d \in Calls \ {c} : call'[d] = call[d]
<1>1. CASE ~force /\ TRUE \in UserKnown(entry.sock) /\ call' = call /\ crowded' = crowded
  BY <1>1 DEF TypeOK, CallOK, CallRec
<1>2. CASE call' = [call EXCEPT ![c] = [NoCall EXCEPT !.at = "asked", !.force = force]]
  BY <1>2 DEF StartInit, NoCall, TypeOK, CallOK, CallRec, Points
<1> QED
  BY <1>1, <1>2 DEF StartInit

\* A call of disconnectSession begins.
LEMMA StartsOut ==
    ASSUME TypeOK, NEW c \in Calls, Disconnect(c)
    PROVE  /\ CallOK'
           /\ call[c].at = "idle"
           /\ call'[c].at = IF entry.sock = None THEN "forgetting" ELSE "loggingOut"
           /\ call'[c].sock = entry.sock
           /\ \A d \in Calls \ {c} : call'[d] = call[d]
<1>1. CASE entry.sock = None
  <2>1. call' = [call EXCEPT ![c] = [NoCall EXCEPT !.at = "forgetting"]]
        /\ call[c].at = "idle"
    BY <1>1 DEF Disconnect
  <2>2. CallOK'
    BY <2>1 DEF NoCall, TypeOK, CallOK, CallRec, Points
  <2> QED
    BY <1>1, <2>1, <2>2 DEF NoCall, TypeOK
<1>2. CASE entry.sock # None
  <2>1. call' = [call EXCEPT ![c] = [NoCall EXCEPT !.at = "loggingOut", !.sock = entry.sock]]
        /\ call[c].at = "idle"
    BY <1>2 DEF Disconnect
  <2>2. CallOK'
    BY <2>1 DEF NoCall, TypeOK, CallOK, CallRec, Points
  <2> QED
    BY <1>2, <2>1, <2>2 DEF NoCall, TypeOK
<1> QED
  BY <1>1, <1>2

\* Every step keeps which tasks write a status and that a logout has a socket.
LEMMA ShapesStep == SessionInv /\ [Next]_vars => Shapes'
<1> SUFFICES ASSUME SessionInv, [Next]_vars
             PROVE  Shapes'
  OBVIOUS
<1>1. ASSUME NEW c \in Calls, Connect(c)
      PROVE  Shapes'
  BY <1>1, StartsACall DEF StartInit, Shapes, SessionInv, Connect
<1>2. ASSUME NEW c \in Calls, Resume(c)
      PROVE  Shapes'
  BY <1>2, StartsACall DEF StartInit, Shapes, SessionInv, Resume
<1>3. ASSUME NEW c \in Calls, Redial(c)
      PROVE  Shapes'
  BY <1>3, StartsACall DEF StartInit, Shapes, SessionInv, Redial
<1>4. ASSUME NEW c \in Calls, EndOld(c)
      PROVE  Shapes'
  BY <1>4 DEF EndOld, EndedSocket, events, SessionInv, Shapes, NoCall
<1>5. ASSUME NEW c \in Calls, JudgePairing(c)
      PROVE  Shapes'
  BY <1>5 DEF JudgePairing, At, events, told, SessionInv, Shapes
<1>6. ASSUME NEW c \in Calls, ClearStored(c)
      PROVE  Shapes'
  BY <1>6 DEF ClearStored, At, events, told, SessionInv, Shapes
<1>7. ASSUME NEW c \in Calls, LoadAuth(c)
      PROVE  Shapes'
  BY <1>7 DEF LoadAuth, events, told, SessionInv, TypeOK, Shapes
<1>8. ASSUME NEW c \in Calls, OpenSocket(c)
      PROVE  Shapes'
  BY <1>8 DEF OpenSocket, FreeSlots, events, told, SessionInv, Shapes, NoCall
<1>9. ASSUME NEW c \in Calls, Disconnect(c)
      PROVE  Shapes'
  BY <1>9, StartsOut DEF Shapes, TypeOK, SessionInv, Disconnect
<1>10. ASSUME NEW c \in Calls, LoggedOutNow(c)
      PROVE  Shapes'
  BY <1>10 DEF LoggedOutNow, At, LoggedOut, Closes, EndedSocket, Await,
     Crosses, Task, Incident, events, SessionInv, Shapes
<1>11. ASSUME NEW c \in Calls, Forget(c)
      PROVE  Shapes'
  BY <1>11 DEF Forget, At, Crosses, events, SessionInv, Shapes
<1>12. ASSUME NEW c \in Calls, MarkOut(c)
      PROVE  Shapes'
  BY <1>12 DEF MarkOut, events, told, SessionInv, Shapes, NoCall
<1>13. ASSUME NEW c \in Calls, CallFails(c)
      PROVE  Shapes'
  BY <1>13 DEF CallFails, Incident, SessionInv, Shapes, NoCall
<1>14. ASSUME NEW s \in Sockets, QrArrives(s)
      PROVE  Shapes'
  BY <1>14 DEF QrArrives, Await, Task, events, SessionInv, Shapes
<1>15. ASSUME NEW s \in Sockets, Scan(s)
      PROVE  Shapes'
  BY <1>15 DEF Scan, Request, Await, Task, SessionInv, Shapes
<1>16. ASSUME NEW s \in Sockets, CredsChange(s)
      PROVE  Shapes'
  BY <1>16 DEF CredsChange, Await, Task, events, SessionInv, Shapes
<1>17. ASSUME NEW s \in Sockets, Opens(s)
      PROVE  Shapes'
  BY <1>17 DEF Opens, Await, Task, Crosses, events, SessionInv, Shapes
<1>18. ASSUME NEW s \in Sockets, CloseReplaced(s)
      PROVE  Shapes'
  BY <1>18 DEF CloseReplaced, Closes, EndedSocket, Await, Task, Crosses,
     events, SessionInv, Shapes
<1>19. ASSUME NEW s \in Sockets, CloseLoggedOut(s)
      PROVE  Shapes'
  BY <1>19 DEF CloseLoggedOut, Incident, LoggedOut, Closes, EndedSocket,
     Await, Task, SessionInv, Shapes
<1>20. ASSUME NEW s \in Sockets, CloseUnscanned(s)
      PROVE  Shapes'
  BY <1>20 DEF CloseUnscanned, Closes, EndedSocket, Await, Task, Crosses,
     events, SessionInv, Shapes
<1>21. ASSUME NEW s \in Sockets, NEW reason \in {"restart", "lost"},
              CloseRedialling(s, reason)
      PROVE  Shapes'
  BY <1>21 DEF CloseRedialling, Closes, EndedSocket, Await, Task, Crosses,
     Incident, events, SessionInv, Shapes
<1>22. ASSUME NEW s \in Sockets, QrDrawn(s)
      PROVE  Shapes'
  BY <1>22 DEF QrDrawn, Await, Task, Crosses, Kept, events, SessionInv, Shapes
<1>23. ASSUME NEW s \in Sockets, CredsSaved(s)
      PROVE  Shapes'
  BY <1>23 DEF CredsSaved, Task, Kept, events, SessionInv, Shapes
<1>24. ASSUME NEW s \in Sockets, Cleared(s)
      PROVE  Shapes'
  BY <1>24 DEF Cleared, Await, Task, Crosses, Kept, Incident, events,
     SessionInv, Shapes
<1>25. ASSUME NEW t \in tasks, StatusWritten(t)
      PROVE  Shapes'
  BY <1>25 DEF StatusWritten, Kept, events, SessionInv, Shapes
<1>26. ASSUME NEW t \in tasks, TaskFails(t)
      PROVE  Shapes'
  BY <1>26 DEF TaskFails, Kept, Incident, SessionInv, Shapes
<1>27. CASE RivalOpens
  BY <1>27 DEF RivalOpens, Incident, told, SessionInv, Shapes
<1>28. CASE Restart
  BY <1>28 DEF Restart, Incident, Unused, SessionInv, Shapes, NoCall
<1>29. CASE UNCHANGED vars
  BY <1>29 DEF vars, SessionInv, Shapes
<1> QED
  BY <1>1, <1>2, <1>3, <1>4, <1>5, <1>6, <1>7, <1>8, <1>9, <1>10, <1>11, <1>12, <1>13,
     <1>14, <1>15, <1>16, <1>17, <1>18, <1>19, <1>20, <1>21, <1>22, <1>23, <1>24, <1>25,
     <1>26, <1>27, <1>28, <1>29 DEF Next, CallSteps, TaskSteps, SocketEvents,
     Redialling, Pending

\* Every step keeps the types: of the sockets,
LEMMA SockStep == SessionInv /\ [Next]_vars => SockOK'
<1> SUFFICES ASSUME SessionInv, [Next]_vars
             PROVE  SockOK'
  OBVIOUS
<1>1. ASSUME NEW c \in Calls, Connect(c)
      PROVE  SockOK'
  BY <1>1 DEF Connect, Request, StartInit, Alone, SessionInv, TypeOK, SockOK,
     SocketRec, States
<1>2. ASSUME NEW c \in Calls, Resume(c)
      PROVE  SockOK'
  BY <1>2 DEF Resume, Request, StartInit, Alone, SessionInv, TypeOK, SockOK,
     SocketRec, States
<1>3. ASSUME NEW c \in Calls, Redial(c)
      PROVE  SockOK'
  BY <1>3 DEF Redial, StartInit, Alone, events, SessionInv, TypeOK, SockOK,
     SocketRec, States
<1>4. ASSUME NEW c \in Calls, EndOld(c)
      PROVE  SockOK'
  BY <1>4 DEF EndOld, EndedSocket, events, SessionInv, TypeOK, SockOK, SocketRec,
     States
<1>5. ASSUME NEW c \in Calls, JudgePairing(c)
      PROVE  SockOK'
  BY <1>5 DEF JudgePairing, At, events, told, SessionInv, TypeOK, SockOK,
     SocketRec, States
<1>6. ASSUME NEW c \in Calls, ClearStored(c)
      PROVE  SockOK'
  BY <1>6 DEF ClearStored, At, events, told, SessionInv, TypeOK, SockOK,
     SocketRec, States
<1>7. ASSUME NEW c \in Calls, LoadAuth(c)
      PROVE  SockOK'
  BY <1>7 DEF LoadAuth, events, told, SessionInv, TypeOK, SockOK, SocketRec,
     States
<1>8. ASSUME NEW c \in Calls, OpenSocket(c)
      PROVE  SockOK'
  BY <1>8 DEF OpenSocket, FreeSlots, events, told, SessionInv, TypeOK, SockOK,
     SocketRec, States
<1>9. ASSUME NEW c \in Calls, Disconnect(c)
      PROVE  SockOK'
  BY <1>9 DEF Disconnect, Request, Quiet, SessionInv, TypeOK, SockOK, SocketRec,
     States
<1>10. ASSUME NEW c \in Calls, LoggedOutNow(c)
      PROVE  SockOK'
  BY <1>10 DEF LoggedOutNow, At, LoggedOut, Closes, EndedSocket, Await,
     Crosses, Task, Incident, events, SessionInv, TypeOK, SockOK, SocketRec,
     States
<1>11. ASSUME NEW c \in Calls, Forget(c)
      PROVE  SockOK'
  BY <1>11 DEF Forget, At, Crosses, events, SessionInv, TypeOK, SockOK,
     SocketRec, States
<1>12. ASSUME NEW c \in Calls, MarkOut(c)
      PROVE  SockOK'
  BY <1>12 DEF MarkOut, events, told, SessionInv, TypeOK, SockOK, SocketRec,
     States
<1>13. ASSUME NEW c \in Calls, CallFails(c)
      PROVE  SockOK'
  BY <1>13 DEF CallFails, Incident, SessionInv, TypeOK, SockOK, SocketRec, States
<1>14. ASSUME NEW s \in Sockets, QrArrives(s)
      PROVE  SockOK'
  BY <1>14 DEF QrArrives, Await, Task, events, SessionInv, TypeOK, SockOK,
     SocketRec, States
<1>15. ASSUME NEW s \in Sockets, Scan(s)
      PROVE  SockOK'
  BY <1>15 DEF Scan, Request, Await, Task, SessionInv, TypeOK, SockOK,
     SocketRec, States
<1>16. ASSUME NEW s \in Sockets, CredsChange(s)
      PROVE  SockOK'
  BY <1>16 DEF CredsChange, Await, Task, events, SessionInv, TypeOK, SockOK,
     SocketRec, States
<1>17. ASSUME NEW s \in Sockets, Opens(s)
      PROVE  SockOK'
  BY <1>17 DEF Opens, Await, Task, Crosses, events, SessionInv, TypeOK,
     SockOK, SocketRec, States
<1>18. ASSUME NEW s \in Sockets, CloseReplaced(s)
      PROVE  SockOK'
  BY <1>18 DEF CloseReplaced, Closes, EndedSocket, Await, Task, Crosses,
     events, SessionInv, TypeOK, SockOK, SocketRec, States
<1>19. ASSUME NEW s \in Sockets, CloseLoggedOut(s)
      PROVE  SockOK'
  BY <1>19 DEF CloseLoggedOut, Incident, LoggedOut, Closes, EndedSocket,
     Await, Task, SessionInv, TypeOK, SockOK, SocketRec, States
<1>20. ASSUME NEW s \in Sockets, CloseUnscanned(s)
      PROVE  SockOK'
  BY <1>20 DEF CloseUnscanned, Closes, EndedSocket, Await, Task, Crosses,
     events, SessionInv, TypeOK, SockOK, SocketRec, States
<1>21. ASSUME NEW s \in Sockets, NEW reason \in {"restart", "lost"},
              CloseRedialling(s, reason)
      PROVE  SockOK'
  BY <1>21 DEF CloseRedialling, Closes, EndedSocket, Await, Task, Crosses,
     Incident, events, SessionInv, TypeOK, SockOK, SocketRec, States
<1>22. ASSUME NEW s \in Sockets, QrDrawn(s)
      PROVE  SockOK'
  BY <1>22 DEF QrDrawn, Await, Task, Crosses, Kept, events, SessionInv,
     TypeOK, SockOK, SocketRec, States
<1>23. ASSUME NEW s \in Sockets, CredsSaved(s)
      PROVE  SockOK'
  BY <1>23 DEF CredsSaved, Task, Kept, events, SessionInv, TypeOK, SockOK,
     SocketRec, States
<1>24. ASSUME NEW s \in Sockets, Cleared(s)
      PROVE  SockOK'
  BY <1>24 DEF Cleared, Await, Task, Crosses, Kept, Incident, events,
     SessionInv, TypeOK, SockOK, SocketRec, States
<1>25. ASSUME NEW t \in tasks, StatusWritten(t)
      PROVE  SockOK'
  BY <1>25 DEF StatusWritten, Kept, events, SessionInv, TypeOK, SockOK, SocketRec,
     States
<1>26. ASSUME NEW t \in tasks, TaskFails(t)
      PROVE  SockOK'
  BY <1>26 DEF TaskFails, Kept, Incident, SessionInv, TypeOK, SockOK, SocketRec,
     States
<1>27. CASE RivalOpens
  BY <1>27 DEF RivalOpens, Incident, told, SessionInv, TypeOK, SockOK, SocketRec,
     States
<1>28. CASE Restart
  BY <1>28 DEF Restart, Incident, Unused, SessionInv, SockOK, SocketRec, States
<1>29. CASE UNCHANGED vars
  BY <1>29 DEF vars, SessionInv, TypeOK, SockOK, SocketRec, States
<1> QED
  BY <1>1, <1>2, <1>3, <1>4, <1>5, <1>6, <1>7, <1>8, <1>9, <1>10, <1>11, <1>12, <1>13,
     <1>14, <1>15, <1>16, <1>17, <1>18, <1>19, <1>20, <1>21, <1>22, <1>23, <1>24, <1>25,
     <1>26, <1>27, <1>28, <1>29 DEF Next, CallSteps, TaskSteps, SocketEvents,
     Redialling, Pending

\* of the calls,
LEMMA CallStep == SessionInv /\ [Next]_vars => CallOK'
<1> SUFFICES ASSUME SessionInv, [Next]_vars
             PROVE  CallOK'
  OBVIOUS
<1>1. ASSUME NEW c \in Calls, Connect(c)
      PROVE  CallOK'
  BY <1>1, StartsACall DEF SessionInv, Connect
<1>2. ASSUME NEW c \in Calls, Resume(c)
      PROVE  CallOK'
  BY <1>2, StartsACall DEF SessionInv, Resume
<1>3. ASSUME NEW c \in Calls, Redial(c)
      PROVE  CallOK'
  BY <1>3, StartsACall DEF SessionInv, Redial
<1>4. ASSUME NEW c \in Calls, EndOld(c)
      PROVE  CallOK'
  BY <1>4 DEF EndOld, EndedSocket, events, SessionInv, TypeOK, CallOK, CallRec,
     Points, NoCall
<1>5. ASSUME NEW c \in Calls, JudgePairing(c)
      PROVE  CallOK'
  BY <1>5 DEF JudgePairing, At, events, told, SessionInv, TypeOK, CallOK,
     CallRec, Points
<1>6. ASSUME NEW c \in Calls, ClearStored(c)
      PROVE  CallOK'
  BY <1>6 DEF ClearStored, At, events, told, SessionInv, TypeOK, CallOK,
     CallRec, Points
<1>7. ASSUME NEW c \in Calls, LoadAuth(c)
      PROVE  CallOK'
  BY <1>7 DEF LoadAuth, events, told, SessionInv, TypeOK, CallOK, CallRec,
     Points
<1>8. ASSUME NEW c \in Calls, OpenSocket(c)
      PROVE  CallOK'
  BY <1>8 DEF OpenSocket, FreeSlots, events, told, SessionInv, TypeOK, CallOK,
     CallRec, Points, NoCall
<1>9. ASSUME NEW c \in Calls, Disconnect(c)
      PROVE  CallOK'
  BY <1>9, StartsOut DEF SessionInv
<1>10. ASSUME NEW c \in Calls, LoggedOutNow(c)
      PROVE  CallOK'
  BY <1>10 DEF LoggedOutNow, At, LoggedOut, Closes, EndedSocket, Await,
     Crosses, Task, Incident, events, SessionInv, TypeOK, CallOK, CallRec,
     Points
<1>11. ASSUME NEW c \in Calls, Forget(c)
      PROVE  CallOK'
  BY <1>11 DEF Forget, At, Crosses, events, SessionInv, TypeOK, CallOK, CallRec,
     Points
<1>12. ASSUME NEW c \in Calls, MarkOut(c)
      PROVE  CallOK'
  BY <1>12 DEF MarkOut, events, told, SessionInv, TypeOK, CallOK, CallRec,
     Points, NoCall
<1>13. ASSUME NEW c \in Calls, CallFails(c)
      PROVE  CallOK'
  BY <1>13 DEF CallFails, Incident, SessionInv, TypeOK, CallOK, CallRec, Points,
     NoCall
<1>14. ASSUME NEW s \in Sockets, QrArrives(s)
      PROVE  CallOK'
  BY <1>14 DEF QrArrives, Await, Task, events, SessionInv, TypeOK, CallOK,
     CallRec, Points
<1>15. ASSUME NEW s \in Sockets, Scan(s)
      PROVE  CallOK'
  BY <1>15 DEF Scan, Request, Await, Task, SessionInv, TypeOK, CallOK, CallRec,
     Points
<1>16. ASSUME NEW s \in Sockets, CredsChange(s)
      PROVE  CallOK'
  BY <1>16 DEF CredsChange, Await, Task, events, SessionInv, TypeOK, CallOK,
     CallRec, Points
<1>17. ASSUME NEW s \in Sockets, Opens(s)
      PROVE  CallOK'
  BY <1>17 DEF Opens, Await, Task, Crosses, events, SessionInv, TypeOK,
     CallOK, CallRec, Points
<1>18. ASSUME NEW s \in Sockets, CloseReplaced(s)
      PROVE  CallOK'
  BY <1>18 DEF CloseReplaced, Closes, EndedSocket, Await, Task, Crosses,
     events, SessionInv, TypeOK, CallOK, CallRec, Points
<1>19. ASSUME NEW s \in Sockets, CloseLoggedOut(s)
      PROVE  CallOK'
  BY <1>19 DEF CloseLoggedOut, Incident, LoggedOut, Closes, EndedSocket,
     Await, Task, SessionInv, TypeOK, CallOK, CallRec, Points
<1>20. ASSUME NEW s \in Sockets, CloseUnscanned(s)
      PROVE  CallOK'
  BY <1>20 DEF CloseUnscanned, Closes, EndedSocket, Await, Task, Crosses,
     events, SessionInv, TypeOK, CallOK, CallRec, Points
<1>21. ASSUME NEW s \in Sockets, NEW reason \in {"restart", "lost"},
              CloseRedialling(s, reason)
      PROVE  CallOK'
  BY <1>21 DEF CloseRedialling, Closes, EndedSocket, Await, Task, Crosses,
     Incident, events, SessionInv, TypeOK, CallOK, CallRec, Points
<1>22. ASSUME NEW s \in Sockets, QrDrawn(s)
      PROVE  CallOK'
  BY <1>22 DEF QrDrawn, Await, Task, Crosses, Kept, events, SessionInv,
     TypeOK, CallOK, CallRec, Points
<1>23. ASSUME NEW s \in Sockets, CredsSaved(s)
      PROVE  CallOK'
  BY <1>23 DEF CredsSaved, Task, Kept, events, SessionInv, TypeOK, CallOK,
     CallRec, Points
<1>24. ASSUME NEW s \in Sockets, Cleared(s)
      PROVE  CallOK'
  BY <1>24 DEF Cleared, Await, Task, Crosses, Kept, Incident, events,
     SessionInv, TypeOK, CallOK, CallRec, Points
<1>25. ASSUME NEW t \in tasks, StatusWritten(t)
      PROVE  CallOK'
  BY <1>25 DEF StatusWritten, Kept, events, SessionInv, TypeOK, CallOK, CallRec,
     Points
<1>26. ASSUME NEW t \in tasks, TaskFails(t)
      PROVE  CallOK'
  BY <1>26 DEF TaskFails, Kept, Incident, SessionInv, TypeOK, CallOK, CallRec,
     Points
<1>27. CASE RivalOpens
  BY <1>27 DEF RivalOpens, Incident, told, SessionInv, TypeOK, CallOK, CallRec,
     Points
<1>28. CASE Restart
  BY <1>28 DEF Restart, Incident, Unused, SessionInv, CallOK, CallRec, Points,
     NoCall
<1>29. CASE UNCHANGED vars
  BY <1>29 DEF vars, SessionInv, TypeOK, CallOK, CallRec, Points
<1> QED
  BY <1>1, <1>2, <1>3, <1>4, <1>5, <1>6, <1>7, <1>8, <1>9, <1>10, <1>11, <1>12, <1>13,
     <1>14, <1>15, <1>16, <1>17, <1>18, <1>19, <1>20, <1>21, <1>22, <1>23, <1>24, <1>25,
     <1>26, <1>27, <1>28, <1>29 DEF Next, CallSteps, TaskSteps, SocketEvents,
     Redialling, Pending

\* of what history tells,
LEMMA FlagsStep == SessionInv /\ [Next]_vars => FlagsOK'
<1> SUFFICES ASSUME SessionInv, [Next]_vars
             PROVE  FlagsOK'
  OBVIOUS
<1>1. ASSUME NEW c \in Calls, Connect(c)
      PROVE  FlagsOK'
  BY <1>1, SessionParts DEF Connect, Request, StartInit, Alone, SessionInv,
     FlagsOK
<1>2. ASSUME NEW c \in Calls, Resume(c)
      PROVE  FlagsOK'
  BY <1>2, SessionParts DEF Resume, Request, StartInit, Alone, SessionInv, FlagsOK
<1>3. ASSUME NEW c \in Calls, Redial(c)
      PROVE  FlagsOK'
  BY <1>3, SessionParts DEF Redial, StartInit, Alone, events, SessionInv, FlagsOK
<1>4. ASSUME NEW c \in Calls, EndOld(c)
      PROVE  FlagsOK'
  BY <1>4, SessionParts DEF EndOld, EndedSocket, events, SessionInv, FlagsOK
<1>5. ASSUME NEW c \in Calls, JudgePairing(c)
      PROVE  FlagsOK'
  BY <1>5, SessionParts DEF JudgePairing, At, events, told, SessionInv, FlagsOK
<1>6. ASSUME NEW c \in Calls, ClearStored(c)
      PROVE  FlagsOK'
  BY <1>6, SessionParts DEF ClearStored, At, events, told, SessionInv, FlagsOK
<1>7. ASSUME NEW c \in Calls, LoadAuth(c)
      PROVE  FlagsOK'
  BY <1>7, SessionParts DEF LoadAuth, events, told, SessionInv, FlagsOK
<1>8. ASSUME NEW c \in Calls, OpenSocket(c)
      PROVE  FlagsOK'
  BY <1>8, SessionParts DEF OpenSocket, FreeSlots, events, told, SessionInv,
     FlagsOK
<1>9. ASSUME NEW c \in Calls, Disconnect(c)
      PROVE  FlagsOK'
  BY <1>9, SessionParts DEF Disconnect, Request, Quiet, SessionInv, FlagsOK
<1>10. ASSUME NEW c \in Calls, LoggedOutNow(c)
      PROVE  FlagsOK'
  BY <1>10, SessionParts DEF LoggedOutNow, At, LoggedOut, Closes, EndedSocket,
     Await, Crosses, Task, Incident, events, SessionInv, FlagsOK
<1>11. ASSUME NEW c \in Calls, Forget(c)
      PROVE  FlagsOK'
  BY <1>11, SessionParts DEF Forget, At, Crosses, events, SessionInv, FlagsOK
<1>12. ASSUME NEW c \in Calls, MarkOut(c)
      PROVE  FlagsOK'
  BY <1>12, SessionParts DEF MarkOut, events, told, SessionInv, FlagsOK
<1>13. ASSUME NEW c \in Calls, CallFails(c)
      PROVE  FlagsOK'
  BY <1>13, SessionParts DEF CallFails, Incident, SessionInv, FlagsOK
<1>14. ASSUME NEW s \in Sockets, QrArrives(s)
      PROVE  FlagsOK'
  BY <1>14, SessionParts DEF QrArrives, Await, Task, events, SessionInv, FlagsOK
<1>15. ASSUME NEW s \in Sockets, Scan(s)
      PROVE  FlagsOK'
  BY <1>15, SessionParts DEF Scan, Request, Await, Task, SessionInv, FlagsOK
<1>16. ASSUME NEW s \in Sockets, CredsChange(s)
      PROVE  FlagsOK'
  BY <1>16, SessionParts DEF CredsChange, Await, Task, events, SessionInv, FlagsOK
<1>17. ASSUME NEW s \in Sockets, Opens(s)
      PROVE  FlagsOK'
  BY <1>17, SessionParts DEF Opens, Await, Task, Crosses, events, SessionInv,
     FlagsOK
<1>18. ASSUME NEW s \in Sockets, CloseReplaced(s)
      PROVE  FlagsOK'
  BY <1>18, SessionParts DEF CloseReplaced, Closes, EndedSocket, Await, Task,
     Crosses, events, SessionInv, FlagsOK
<1>19. ASSUME NEW s \in Sockets, CloseLoggedOut(s)
      PROVE  FlagsOK'
  BY <1>19, SessionParts DEF CloseLoggedOut, Incident, LoggedOut, Closes,
     EndedSocket, Await, Task, SessionInv, FlagsOK
<1>20. ASSUME NEW s \in Sockets, CloseUnscanned(s)
      PROVE  FlagsOK'
  BY <1>20, SessionParts DEF CloseUnscanned, Closes, EndedSocket, Await, Task,
     Crosses, events, SessionInv, FlagsOK
<1>21. ASSUME NEW s \in Sockets, NEW reason \in {"restart", "lost"},
              CloseRedialling(s, reason)
      PROVE  FlagsOK'
  BY <1>21, SessionParts DEF CloseRedialling, Closes, EndedSocket, Await, Task,
     Crosses, Incident, events, SessionInv, FlagsOK
<1>22. ASSUME NEW s \in Sockets, QrDrawn(s)
      PROVE  FlagsOK'
  BY <1>22, SessionParts DEF QrDrawn, Await, Task, Crosses, Kept, events,
     SessionInv, FlagsOK
<1>23. ASSUME NEW s \in Sockets, CredsSaved(s)
      PROVE  FlagsOK'
  BY <1>23, SessionParts DEF CredsSaved, Task, Kept, events, SessionInv, FlagsOK
<1>24. ASSUME NEW s \in Sockets, Cleared(s)
      PROVE  FlagsOK'
  BY <1>24, SessionParts DEF Cleared, Await, Task, Crosses, Kept, Incident,
     events, SessionInv, FlagsOK
<1>25. ASSUME NEW t \in tasks, StatusWritten(t)
      PROVE  FlagsOK'
  BY <1>25, SessionParts DEF StatusWritten, Kept, events, SessionInv, FlagsOK
<1>26. ASSUME NEW t \in tasks, TaskFails(t)
      PROVE  FlagsOK'
  BY <1>26, SessionParts DEF TaskFails, Kept, Incident, SessionInv, FlagsOK
<1>27. CASE RivalOpens
  BY <1>27, SessionParts DEF RivalOpens, Incident, told, SessionInv, FlagsOK
<1>28. CASE Restart
  BY <1>28, SessionParts DEF Restart, Incident, Unused, SessionInv, FlagsOK
<1>29. CASE UNCHANGED vars
  BY <1>29, SessionParts DEF vars, SessionInv, FlagsOK
<1> QED
  BY <1>1, <1>2, <1>3, <1>4, <1>5, <1>6, <1>7, <1>8, <1>9, <1>10, <1>11, <1>12, <1>13,
     <1>14, <1>15, <1>16, <1>17, <1>18, <1>19, <1>20, <1>21, <1>22, <1>23, <1>24, <1>25,
     <1>26, <1>27, <1>28, <1>29 DEF Next, CallSteps, TaskSteps, SocketEvents,
     Redialling, Pending

\* and of the rest.
LEMMA OthersStep == SessionInv /\ [Next]_vars => OthersOK'
<1> SUFFICES ASSUME SessionInv, [Next]_vars
             PROVE  OthersOK'
  OBVIOUS
<1>1. ASSUME NEW c \in Calls, Connect(c)
      PROVE  OthersOK'
  BY <1>1, SessionConstants DEF Connect, Request, StartInit, Alone, SessionInv,
     TypeOK, OthersOK, TaskRec, Jobs, Statuses, Reasons
<1>2. ASSUME NEW c \in Calls, Resume(c)
      PROVE  OthersOK'
  BY <1>2, SessionConstants DEF Resume, Request, StartInit, Alone, SessionInv,
     TypeOK, OthersOK, TaskRec, Jobs, Statuses, Reasons
<1>3. ASSUME NEW c \in Calls, Redial(c)
      PROVE  OthersOK'
  BY <1>3, SessionConstants DEF Redial, StartInit, Alone, events, SessionInv,
     TypeOK, OthersOK, TaskRec, Jobs, Statuses, Reasons
<1>4. ASSUME NEW c \in Calls, EndOld(c)
      PROVE  OthersOK'
  BY <1>4, SessionConstants DEF EndOld, EndedSocket, events, SessionInv, TypeOK,
     OthersOK, TaskRec, Jobs, Statuses, Reasons, NoEntry
<1>5. ASSUME NEW c \in Calls, JudgePairing(c)
      PROVE  OthersOK'
  BY <1>5, SessionConstants DEF JudgePairing, At, events, told, SessionInv,
     TypeOK, OthersOK, TaskRec, Jobs, Statuses, Reasons
<1>6. ASSUME NEW c \in Calls, ClearStored(c)
      PROVE  OthersOK'
  BY <1>6, SessionConstants DEF ClearStored, At, events, told, SessionInv,
     TypeOK, OthersOK, TaskRec, Jobs, Statuses, Reasons
<1>7. ASSUME NEW c \in Calls, LoadAuth(c)
      PROVE  OthersOK'
  BY <1>7, SessionConstants DEF LoadAuth, events, told, SessionInv, TypeOK,
     OthersOK, TaskRec, Jobs, Statuses, Reasons
<1>8. ASSUME NEW c \in Calls, OpenSocket(c)
      PROVE  OthersOK'
  BY <1>8, SessionConstants DEF OpenSocket, FreeSlots, events, told, SessionInv,
     TypeOK, OthersOK, TaskRec, Jobs, Statuses, Reasons
<1>9. ASSUME NEW c \in Calls, Disconnect(c)
      PROVE  OthersOK'
  BY <1>9, SessionConstants DEF Disconnect, Request, Quiet, SessionInv, TypeOK,
     OthersOK, TaskRec, Jobs, Statuses, Reasons, NoEntry
<1>10. ASSUME NEW c \in Calls, LoggedOutNow(c)
      PROVE  OthersOK'
  <2>1. tasks' \subseteq TaskRec /\ lastClose' \in Reasons
    BY <1>10 DEF LoggedOutNow, LoggedOut, Closes, At, Await, Task, SessionInv,
       Shapes, TypeOK, TaskRec, Jobs, Statuses, Reasons
  <2>2. events' = events \/ Incident
    BY <1>10 DEF LoggedOutNow
  <2> QED
    BY <1>10, <2>1, <2>2, SessionConstants DEF LoggedOutNow, Incident, events,
       SessionInv, TypeOK, OthersOK, NoEntry, Statuses
<1>11. ASSUME NEW c \in Calls, Forget(c)
      PROVE  OthersOK'
  BY <1>11, SessionConstants DEF Forget, At, Crosses, events, SessionInv,
     TypeOK, OthersOK, TaskRec, Jobs, Statuses, Reasons
<1>12. ASSUME NEW c \in Calls, MarkOut(c)
      PROVE  OthersOK'
  BY <1>12, SessionConstants DEF MarkOut, events, told, SessionInv, TypeOK,
     OthersOK, TaskRec, Jobs, Statuses, Reasons
<1>13. ASSUME NEW c \in Calls, CallFails(c)
      PROVE  OthersOK'
  BY <1>13, SessionConstants DEF CallFails, Incident, SessionInv, TypeOK,
     OthersOK, TaskRec, Jobs, Statuses, Reasons
<1>14. ASSUME NEW s \in Sockets, QrArrives(s)
      PROVE  OthersOK'
  BY <1>14, SessionConstants DEF QrArrives, Await, Task, events, SessionInv,
     TypeOK, OthersOK, TaskRec, Jobs, Statuses, Reasons
<1>15. ASSUME NEW s \in Sockets, Scan(s)
      PROVE  OthersOK'
  BY <1>15, SessionConstants DEF Scan, Request, Await, Task, SessionInv,
     TypeOK, OthersOK, TaskRec, Jobs, Statuses, Reasons
<1>16. ASSUME NEW s \in Sockets, CredsChange(s)
      PROVE  OthersOK'
  BY <1>16, SessionConstants DEF CredsChange, Await, Task, events, SessionInv,
     TypeOK, OthersOK, TaskRec, Jobs, Statuses, Reasons
<1>17. ASSUME NEW s \in Sockets, Opens(s)
      PROVE  OthersOK'
  BY <1>17, SessionConstants DEF Opens, Await, Task, Crosses, events,
     SessionInv, TypeOK, OthersOK, TaskRec, Jobs, Statuses, Reasons
<1>18. ASSUME NEW s \in Sockets, CloseReplaced(s)
      PROVE  OthersOK'
  BY <1>18, SessionConstants DEF CloseReplaced, Closes, EndedSocket, Await,
     Task, Crosses, events, SessionInv, TypeOK, OthersOK, TaskRec, Jobs,
     Statuses, Reasons, NoEntry
<1>19. ASSUME NEW s \in Sockets, CloseLoggedOut(s)
      PROVE  OthersOK'
  BY <1>19, SessionConstants DEF CloseLoggedOut, Incident, LoggedOut, Closes,
     EndedSocket, Await, Task, SessionInv, TypeOK, OthersOK, TaskRec, Jobs,
     Statuses, Reasons
<1>20. ASSUME NEW s \in Sockets, CloseUnscanned(s)
      PROVE  OthersOK'
  BY <1>20, SessionConstants DEF CloseUnscanned, Closes, EndedSocket, Await,
     Task, Crosses, events, SessionInv, TypeOK, OthersOK, TaskRec, Jobs,
     Statuses, Reasons, NoEntry
<1>21. ASSUME NEW s \in Sockets, NEW reason \in {"restart", "lost"},
              CloseRedialling(s, reason)
      PROVE  OthersOK'
  BY <1>21, SessionConstants DEF CloseRedialling, Closes, EndedSocket, Await,
     Task, Crosses, Incident, events, SessionInv, TypeOK, OthersOK, TaskRec,
     Jobs, Statuses, Reasons
<1>22. ASSUME NEW s \in Sockets, QrDrawn(s)
      PROVE  OthersOK'
  BY <1>22, SessionConstants DEF QrDrawn, Await, Task, Crosses, Kept,
     events, SessionInv, TypeOK, OthersOK, TaskRec, Jobs, Statuses, Reasons
<1>23. ASSUME NEW s \in Sockets, CredsSaved(s)
      PROVE  OthersOK'
  BY <1>23, SessionConstants DEF CredsSaved, Task, Kept, events, SessionInv,
     TypeOK, OthersOK, TaskRec, Jobs, Statuses, Reasons
<1>24. ASSUME NEW s \in Sockets, Cleared(s)
      PROVE  OthersOK'
  <2>1. tasks' \subseteq TaskRec
    BY <1>24 DEF Cleared, Await, Task, SessionInv, TypeOK, TaskRec, Jobs,
       Statuses
  <2>2. requests' \in 0..MaxRequests /\ incidents' \in 0..MaxIncidents /\ linked' \in BOOLEAN
    <3>1. CASE linked' = FALSE /\ UNCHANGED events
      BY <3>1 DEF events, SessionInv, TypeOK
    <3>2. CASE UNCHANGED linked /\ Incident
      BY <3>2, SessionConstants DEF Incident, SessionInv, TypeOK
    <3> QED
      BY <1>24, <3>1, <3>2 DEF Cleared
  <2> QED
    BY <1>24, <2>1, <2>2 DEF Cleared, Kept, Incident, events, SessionInv,
       TypeOK, OthersOK, NoEntry, Statuses
<1>25. ASSUME NEW t \in tasks, StatusWritten(t)
      PROVE  OthersOK'
  BY <1>25, SessionConstants DEF StatusWritten, Kept, events, SessionInv,
     TypeOK, OthersOK, TaskRec, Jobs, Statuses, Reasons
<1>26. ASSUME NEW t \in tasks, TaskFails(t)
      PROVE  OthersOK'
  BY <1>26, SessionConstants DEF TaskFails, Kept, Incident, SessionInv, TypeOK,
     OthersOK, TaskRec, Jobs, Statuses, Reasons
<1>27. CASE RivalOpens
  BY <1>27, SessionConstants DEF RivalOpens, Incident, told, SessionInv, TypeOK,
     OthersOK, TaskRec, Jobs, Statuses, Reasons
<1>28. CASE Restart
  BY <1>28, SessionConstants DEF Restart, Incident, Unused, SessionInv, TypeOK,
     OthersOK, TaskRec, Jobs, Statuses, Reasons, NoEntry
<1>29. CASE UNCHANGED vars
  BY <1>29, SessionConstants DEF vars, SessionInv, TypeOK, OthersOK, TaskRec,
     Jobs, Statuses, Reasons
<1> QED
  BY <1>1, <1>2, <1>3, <1>4, <1>5, <1>6, <1>7, <1>8, <1>9, <1>10, <1>11, <1>12, <1>13,
     <1>14, <1>15, <1>16, <1>17, <1>18, <1>19, <1>20, <1>21, <1>22, <1>23, <1>24, <1>25,
     <1>26, <1>27, <1>28, <1>29 DEF Next, CallSteps, TaskSteps, SocketEvents,
     Redialling, Pending
\* The call that begins is the only one, if nothing crowds it.
LEMMA StartUncrowded ==
    ASSUME SessionInv, NEW c \in Calls, NEW force \in BOOLEAN, StartInit(c, force)
    PROVE  Uncrowded'
<1>1. CASE call' = call /\ crowded' = crowded
  BY <1>1 DEF StartInit, SessionInv, Uncrowded, Live, LiveSockets, Running,
     OpeningCalls, ClearDue
<1>2. CASE ~(call' = call /\ crowded' = crowded)
  <2> SUFFICES ASSUME ~crowded'
               PROVE  Uncrowded'
    BY DEF Uncrowded
  <2>1. /\ Running = {} /\ tasks = {}
        /\ LiveSockets \subseteq (IF force THEN {entry.sock} ELSE {})
    BY <1>2 DEF StartInit, Alone
  <2>2. /\ call'[c].at = "asked" /\ call'[c].force = force
        /\ \A d \in Calls \ {c} : call'[d].at = "idle"
    <3>1. /\ call'[c].at = "asked" /\ call'[c].force = force
          /\ \A d \in Calls \ {c} : call'[d] = call[d]
      BY <1>2, StartsACall DEF SessionInv
    <3> QED
      BY <2>1, <3>1 DEF Running
  <2>3. /\ UNCHANGED <<LiveSockets, tasks, entry>>
        /\ \A s \in Sockets : Live(s)' = Live(s)
    BY DEF StartInit, LiveSockets, Live
  <2>4. Running' = {c} /\ OpeningCalls' = {c}
    BY <2>2 DEF Running, OpeningCalls, Opening
  <2>5. \A s \in Sockets : Live(s)' => force /\ entry'.sock = s
    BY <2>1, <2>3 DEF LiveSockets
  <2>6. \A d \in Calls : call'[d].at \in {"forgetting", "markingOut", "loggingOut"} => FALSE
    BY <2>2
  <2> QED
    BY <2>1, <2>2, <2>3, <2>4, <2>5, <2>6 DEF Uncrowded, ClearDue, LiveSockets
<1> QED
  BY <1>1, <1>2

\* Every step keeps one call and one socket together while nothing crowds them.
LEMMA UncrowdedStep == SessionInv /\ [Next]_vars => Uncrowded'
<1> SUFFICES ASSUME SessionInv, [Next]_vars
             PROVE  Uncrowded'
  OBVIOUS
<1>1. ASSUME NEW c \in Calls, Connect(c)
      PROVE  Uncrowded'
  BY <1>1, StartUncrowded DEF Connect
<1>2. ASSUME NEW c \in Calls, Resume(c)
      PROVE  Uncrowded'
  BY <1>2, StartUncrowded DEF Resume
<1>3. ASSUME NEW c \in Calls, Redial(c)
      PROVE  Uncrowded'
  BY <1>3, StartUncrowded DEF Redial
<1>4. ASSUME NEW c \in Calls, EndOld(c)
      PROVE  Uncrowded'
  <2>1. CASE call[c].force
    <3> SUFFICES ASSUME ~crowded
                 PROVE  Uncrowded'
      BY <1>4 DEF EndOld, told, Uncrowded
    <3>1. \A x \in Sockets : Live(x) => x = entry.sock
      BY DEF SessionInv, Uncrowded
    <3>2. \A x \in Sockets : ~Live(x)'
      BY <1>4, <2>1, <3>1, SessionConstants DEF EndOld, EndedSocket, Live,
         SessionInv, TypeOK
    <3>3. LiveSockets' = {}
      BY <3>2 DEF LiveSockets
    <3>4. call'[c].at = "judging" /\ \A d \in Calls \ {c} : call'[d] = call[d]
      BY <1>4, <2>1 DEF EndOld, NoCall, SessionInv, TypeOK
    <3>5. Running' = Running /\ OpeningCalls' = OpeningCalls /\ c \in OpeningCalls
      BY <1>4, <3>4 DEF EndOld, Running, OpeningCalls, Opening
    <3> QED
      BY <1>4, <3>2, <3>3, <3>4, <3>5 DEF EndOld, SessionInv, Uncrowded, ClearDue
  <2>2. CASE ~call[c].force
    BY <1>4, <2>2 DEF EndOld, EndedSocket, events, told, SessionInv, TypeOK,
       Shapes, Uncrowded, Live, LiveSockets, Running, OpeningCalls, Opening,
       ClearDue, NoEntry, Pending
  <2> QED
    BY <2>1, <2>2
<1>5. ASSUME NEW c \in Calls, JudgePairing(c)
      PROVE  Uncrowded'
  BY <1>5 DEF JudgePairing, At, events, told, SessionInv, Uncrowded, Live,
     LiveSockets, Running, OpeningCalls, Opening, ClearDue
<1>6. ASSUME NEW c \in Calls, ClearStored(c)
      PROVE  Uncrowded'
  BY <1>6 DEF ClearStored, At, events, told, SessionInv, Uncrowded, Live,
     LiveSockets, Running, OpeningCalls, Opening, ClearDue
<1>7. ASSUME NEW c \in Calls, LoadAuth(c)
      PROVE  Uncrowded'
  BY <1>7 DEF LoadAuth, events, told, SessionInv, TypeOK, Uncrowded, Live,
     LiveSockets, Running, OpeningCalls, Opening, ClearDue
<1>8. ASSUME NEW c \in Calls, OpenSocket(c)
      PROVE  Uncrowded'
  BY <1>8 DEF OpenSocket, FreeSlots, events, told, SessionInv, TypeOK, NoCall,
     Uncrowded, Live, LiveSockets, Running, OpeningCalls, Opening, ClearDue,
     Pending
<1>9. ASSUME NEW c \in Calls, Disconnect(c)
      PROVE  Uncrowded'
  <2> SUFFICES ASSUME ~crowded'
               PROVE  Uncrowded'
    BY DEF Uncrowded
  <2>1. Quiet
    BY <1>9 DEF Disconnect
  <2>2. \A d \in Calls \ {c} : call'[d].at = "idle"
    BY <1>9, <2>1, StartsOut DEF Quiet, Running, SessionInv
  <2>3. OpeningCalls' = {} /\ Running' = {c}
    BY <1>9, <2>2, StartsOut DEF OpeningCalls, Running, Opening, SessionInv
  <2>4. UNCHANGED <<sock, tasks>> /\ LiveSockets' = LiveSockets
    BY <1>9 DEF Disconnect, LiveSockets, Live
  <2>5. CASE entry.sock = None
    BY <1>9, <2>1, <2>2, <2>3, <2>4, <2>5, StartsOut DEF Quiet, Uncrowded, ClearDue,
       LiveSockets, SessionInv
  <2>6. CASE entry.sock # None
    BY <1>9, <2>1, <2>2, <2>3, <2>4, <2>6, StartsOut DEF Disconnect, Quiet, Uncrowded,
       ClearDue, LiveSockets, SessionInv
  <2> QED
    BY <2>5, <2>6
<1>10. ASSUME NEW c \in Calls, LoggedOutNow(c)
      PROVE  Uncrowded'
  <2>1. PICK s \in Sockets : s = call[c].sock /\ call[c].at = "loggingOut"
    BY <1>10 DEF LoggedOutNow, At, SessionInv, Shapes
  <2> SUFFICES ASSUME ~crowded'
               PROVE  Uncrowded'
    BY DEF Uncrowded
  <2>2. ~crowded
    BY <1>10 DEF LoggedOutNow, LoggedOut, Closes
  <2>3. LiveSockets \subseteq {s} /\ Running = {c}
    BY <2>1, <2>2 DEF SessionInv, Uncrowded, Running
  <2>4. ~Live(s)'
    <3>1. CASE Live(s) /\ LoggedOut(s, Running \ {c})
      BY <2>1, <3>1 DEF LoggedOut, Closes, EndedSocket, Live, SessionInv, TypeOK
    <3>2. CASE ~Live(s) /\ UNCHANGED sock
      BY <3>2 DEF Live
    <3>3. \/ Live(s) /\ LoggedOut(s, Running \ {c})
          \/ crowded' = (crowded \/ Live(s)) /\ UNCHANGED sock
      BY <1>10, <2>1 DEF LoggedOutNow
    <3> QED
      BY <3>1, <3>2, <3>3
  <2>5. \A x \in Sockets \ {s} : Live(x)' = Live(x)
    BY <1>10, <2>1 DEF LoggedOutNow, LoggedOut, Closes, EndedSocket, Live,
       SessionInv, TypeOK
  <2>6. LiveSockets' = {}
    BY <2>3, <2>4, <2>5 DEF LiveSockets
  <2>7. \A d \in Calls : call'[d].at = IF d = c THEN "forgetting" ELSE "idle"
    BY <1>10, <2>3 DEF LoggedOutNow, At, Running, SessionInv, TypeOK
  <2>8. Running' = {c} /\ OpeningCalls' = {}
    BY <2>7 DEF Running, OpeningCalls, Opening
  <2> QED
    BY <2>6, <2>7, <2>8 DEF Uncrowded, LiveSockets
<1>11. ASSUME NEW c \in Calls, Forget(c)
      PROVE  Uncrowded'
  BY <1>11 DEF Forget, At, Crosses, events, SessionInv, Uncrowded, Live,
     LiveSockets, Running, OpeningCalls, Opening, ClearDue
<1>12. ASSUME NEW c \in Calls, MarkOut(c)
      PROVE  Uncrowded'
  BY <1>12 DEF MarkOut, events, told, SessionInv, NoCall, Uncrowded, Live,
     LiveSockets, Running, OpeningCalls, Opening, ClearDue
<1>13. ASSUME NEW c \in Calls, CallFails(c)
      PROVE  Uncrowded'
  BY <1>13 DEF CallFails, Incident, SessionInv, NoCall, Uncrowded, Live,
     LiveSockets, Running, OpeningCalls, Opening, ClearDue
<1>14. ASSUME NEW s \in Sockets, QrArrives(s)
      PROVE  Uncrowded'
  BY <1>14 DEF QrArrives, Await, Task, events, SessionInv, TypeOK, Uncrowded,
     Live, LiveSockets, Running, OpeningCalls, Opening, ClearDue
<1>15. ASSUME NEW s \in Sockets, Scan(s)
      PROVE  Uncrowded'
  BY <1>15 DEF Scan, Request, Await, Task, SessionInv, Uncrowded, Live,
     LiveSockets, Running, OpeningCalls, Opening, ClearDue
<1>16. ASSUME NEW s \in Sockets, CredsChange(s)
      PROVE  Uncrowded'
  BY <1>16 DEF CredsChange, Await, Task, events, SessionInv, Uncrowded, Live,
     LiveSockets, Running, OpeningCalls, Opening, ClearDue
<1>17. ASSUME NEW s \in Sockets, Opens(s)
      PROVE  Uncrowded'
  BY <1>17 DEF Opens, Await, Task, Crosses, events, SessionInv, Uncrowded,
     Live, LiveSockets, Running, OpeningCalls, Opening, ClearDue
<1>18. ASSUME NEW s \in Sockets, CloseReplaced(s)
      PROVE  Uncrowded'
  BY <1>18 DEF CloseReplaced, Closes, EndedSocket, Await, Task, Crosses,
     events, SessionInv, TypeOK, Uncrowded, Live, LiveSockets, Running,
     OpeningCalls, Opening, ClearDue, NoEntry
<1>19. ASSUME NEW s \in Sockets, CloseLoggedOut(s)
      PROVE  Uncrowded'
  BY <1>19 DEF CloseLoggedOut, Incident, LoggedOut, Closes, EndedSocket,
     Await, Task, SessionInv, TypeOK, Uncrowded, Live, LiveSockets, Running,
     OpeningCalls, Opening, ClearDue
<1>20. ASSUME NEW s \in Sockets, CloseUnscanned(s)
      PROVE  Uncrowded'
  BY <1>20 DEF CloseUnscanned, Closes, EndedSocket, Await, Task, Crosses,
     events, SessionInv, TypeOK, Uncrowded, Live, LiveSockets, Running,
     OpeningCalls, Opening, ClearDue, NoEntry
<1>21. ASSUME NEW s \in Sockets, NEW reason \in {"restart", "lost"},
              CloseRedialling(s, reason)
      PROVE  Uncrowded'
  BY <1>21 DEF CloseRedialling, Closes, EndedSocket, Await, Task, Crosses,
     Incident, events, SessionInv, TypeOK, Uncrowded, Live, LiveSockets,
     Running, OpeningCalls, Opening, ClearDue
<1>22. ASSUME NEW s \in Sockets, QrDrawn(s)
      PROVE  Uncrowded'
  BY <1>22 DEF QrDrawn, Await, Task, Crosses, Kept, events, SessionInv,
     Uncrowded, Live, LiveSockets, Running, OpeningCalls, Opening, ClearDue
<1>23. ASSUME NEW s \in Sockets, CredsSaved(s)
      PROVE  Uncrowded'
  BY <1>23 DEF CredsSaved, Task, Kept, events, SessionInv, Uncrowded, Live,
     LiveSockets, Running, OpeningCalls, Opening, ClearDue
<1>24. ASSUME NEW s \in Sockets, Cleared(s)
      PROVE  Uncrowded'
  BY <1>24 DEF Cleared, Await, Task, Crosses, Kept, Incident, events,
     SessionInv, Uncrowded, Live, LiveSockets, Running, OpeningCalls, Opening,
     ClearDue, NoEntry
<1>25. ASSUME NEW t \in tasks, StatusWritten(t)
      PROVE  Uncrowded'
  BY <1>25 DEF StatusWritten, Kept, events, SessionInv, Uncrowded, Live,
     LiveSockets, Running, OpeningCalls, Opening, ClearDue
<1>26. ASSUME NEW t \in tasks, TaskFails(t)
      PROVE  Uncrowded'
  BY <1>26 DEF TaskFails, Kept, Incident, SessionInv, Uncrowded, Live,
     LiveSockets, Running, OpeningCalls, Opening, ClearDue
<1>27. CASE RivalOpens
  BY <1>27 DEF RivalOpens, Incident, told, SessionInv, Uncrowded, Live,
     LiveSockets, Running, OpeningCalls, Opening, ClearDue
<1>28. CASE Restart
  BY <1>28 DEF Restart, Incident, Unused, SessionInv, NoCall, Uncrowded, Live,
     LiveSockets, Running, OpeningCalls, Opening, ClearDue, NoEntry
<1>29. CASE UNCHANGED vars
  BY <1>29 DEF vars, SessionInv, Uncrowded, Live, LiveSockets, Running,
     OpeningCalls, Opening, ClearDue
<1> QED
  BY <1>1, <1>2, <1>3, <1>4, <1>5, <1>6, <1>7, <1>8, <1>9, <1>10, <1>11, <1>12, <1>13,
     <1>14, <1>15, <1>16, <1>17, <1>18, <1>19, <1>20, <1>21, <1>22, <1>23, <1>24, <1>25,
     <1>26, <1>27, <1>28, <1>29 DEF Next, CallSteps, TaskSteps, SocketEvents,
     Redialling, Pending

\* Every step keeps the socket that the map names alive, or its end in hand.
LEMMA EntryLivesStep == SessionInv /\ [Next]_vars => EntryLives'
<1> SUFFICES ASSUME SessionInv, [Next]_vars
             PROVE  EntryLives'
  OBVIOUS
<1>1. ASSUME NEW c \in Calls, Connect(c)
      PROVE  EntryLives'
  BY <1>1, StartsACall DEF Connect, Request, StartInit, Alone, SessionInv,
     EntryLives, Live, Lost
<1>2. ASSUME NEW c \in Calls, Resume(c)
      PROVE  EntryLives'
  BY <1>2, StartsACall DEF Resume, Request, StartInit, Alone, SessionInv,
     EntryLives, Live, Lost
<1>3. ASSUME NEW c \in Calls, Redial(c)
      PROVE  EntryLives'
  BY <1>3, StartsACall DEF Redial, StartInit, Alone, events, SessionInv,
     EntryLives, Live, Lost
<1>4. ASSUME NEW c \in Calls, EndOld(c)
      PROVE  EntryLives'
  BY <1>4 DEF EndOld, EndedSocket, events, SessionInv, NoCall, EntryLives, Live,
     Lost, NoEntry
<1>5. ASSUME NEW c \in Calls, JudgePairing(c)
      PROVE  EntryLives'
  BY <1>5 DEF JudgePairing, At, events, told, SessionInv, EntryLives, Live, Lost
<1>6. ASSUME NEW c \in Calls, ClearStored(c)
      PROVE  EntryLives'
  BY <1>6 DEF ClearStored, At, events, told, SessionInv, EntryLives, Live, Lost
<1>7. ASSUME NEW c \in Calls, LoadAuth(c)
      PROVE  EntryLives'
  BY <1>7 DEF LoadAuth, events, told, SessionInv, EntryLives, Live, Lost
<1>8. ASSUME NEW c \in Calls, OpenSocket(c)
      PROVE  EntryLives'
  BY <1>8 DEF OpenSocket, FreeSlots, events, told, SessionInv, TypeOK, NoCall,
     EntryLives, Live, Lost, Pending
<1>9. ASSUME NEW c \in Calls, Disconnect(c)
      PROVE  EntryLives'
  BY <1>9, StartsOut DEF Disconnect, Request, Quiet, SessionInv, EntryLives, Live,
     Lost, NoEntry
<1>10. ASSUME NEW c \in Calls, LoggedOutNow(c)
      PROVE  EntryLives'
  BY <1>10 DEF LoggedOutNow, At, LoggedOut, Closes, EndedSocket, Await,
     Crosses, Task, Incident, events, SessionInv, EntryLives, Live, Lost,
     NoEntry
<1>11. ASSUME NEW c \in Calls, Forget(c)
      PROVE  EntryLives'
  BY <1>11 DEF Forget, At, Crosses, events, SessionInv, EntryLives, Live, Lost
<1>12. ASSUME NEW c \in Calls, MarkOut(c)
      PROVE  EntryLives'
  BY <1>12 DEF MarkOut, events, told, SessionInv, NoCall, EntryLives, Live, Lost
<1>13. ASSUME NEW c \in Calls, CallFails(c)
      PROVE  EntryLives'
  BY <1>13 DEF CallFails, Incident, SessionInv, NoCall, EntryLives, Live, Lost
<1>14. ASSUME NEW s \in Sockets, QrArrives(s)
      PROVE  EntryLives'
  BY <1>14 DEF QrArrives, Await, Task, events, SessionInv, EntryLives, Live,
     Lost
<1>15. ASSUME NEW s \in Sockets, Scan(s)
      PROVE  EntryLives'
  BY <1>15 DEF Scan, Request, Await, Task, SessionInv, EntryLives, Live, Lost
<1>16. ASSUME NEW s \in Sockets, CredsChange(s)
      PROVE  EntryLives'
  BY <1>16 DEF CredsChange, Await, Task, events, SessionInv, EntryLives, Live,
     Lost
<1>17. ASSUME NEW s \in Sockets, Opens(s)
      PROVE  EntryLives'
  BY <1>17 DEF Opens, Await, Task, Crosses, events, SessionInv, TypeOK,
     EntryLives, Live, Lost
<1>18. ASSUME NEW s \in Sockets, CloseReplaced(s)
      PROVE  EntryLives'
  BY <1>18 DEF CloseReplaced, Closes, EndedSocket, Await, Task, Crosses,
     events, SessionInv, EntryLives, Live, Lost, NoEntry
<1>19. ASSUME NEW s \in Sockets, CloseLoggedOut(s)
      PROVE  EntryLives'
  <2>1. Task("clear", s, "none") \in tasks' /\ tasks \subseteq tasks' /\ lastClose' = "loggedOut"
    BY <1>19 DEF CloseLoggedOut, LoggedOut, Closes, Await
  <2>2. \A x \in Sockets \ {s} : Live(x)' = Live(x)
    BY <1>19 DEF CloseLoggedOut, LoggedOut, Closes, EndedSocket, Live,
       SessionInv, TypeOK
  <2>3. entry' = entry /\ lateQr' = lateQr
    BY <1>19 DEF CloseLoggedOut
  <2>4. CASE entry.sock = s
    BY <2>1, <2>3, <2>4 DEF EntryLives, Lost, Task
  <2>5. CASE entry.sock # s
    BY <2>1, <2>2, <2>3, <2>5 DEF SessionInv, TypeOK, EntryLives, Lost
  <2> QED
    BY <2>4, <2>5
<1>20. ASSUME NEW s \in Sockets, CloseUnscanned(s)
      PROVE  EntryLives'
  BY <1>20 DEF CloseUnscanned, Closes, EndedSocket, Await, Task, Crosses,
     events, SessionInv, EntryLives, Live, Lost, NoEntry
<1>21. ASSUME NEW s \in Sockets, NEW reason \in {"restart", "lost"},
              CloseRedialling(s, reason)
      PROVE  EntryLives'
  BY <1>21 DEF CloseRedialling, Closes, EndedSocket, Await, Task, Crosses,
     Incident, events, SessionInv, EntryLives, Live, Lost
<1>22. ASSUME NEW s \in Sockets, QrDrawn(s)
      PROVE  EntryLives'
  BY <1>22 DEF QrDrawn, Await, Task, Crosses, Kept, events, SessionInv,
     EntryLives, Live, Lost
<1>23. ASSUME NEW s \in Sockets, CredsSaved(s)
      PROVE  EntryLives'
  BY <1>23 DEF CredsSaved, Task, Kept, events, SessionInv, EntryLives, Live,
     Lost
<1>24. ASSUME NEW s \in Sockets, Cleared(s)
      PROVE  EntryLives'
  BY <1>24 DEF Cleared, Await, Task, Crosses, Kept, Incident, events,
     SessionInv, EntryLives, Live, Lost, NoEntry
<1>25. ASSUME NEW t \in tasks, StatusWritten(t)
      PROVE  EntryLives'
  BY <1>25 DEF StatusWritten, Kept, events, SessionInv, Shapes, EntryLives, Live,
     Lost
<1>26. ASSUME NEW t \in tasks, TaskFails(t)
      PROVE  EntryLives'
  BY <1>26 DEF TaskFails, Kept, Incident, SessionInv, EntryLives, Live, Lost
<1>27. CASE RivalOpens
  BY <1>27 DEF RivalOpens, Incident, told, SessionInv, TypeOK, EntryLives, Live,
     Lost
<1>28. CASE Restart
  BY <1>28 DEF Restart, Incident, Unused, SessionInv, NoCall, EntryLives, Live,
     Lost, NoEntry
<1>29. CASE UNCHANGED vars
  BY <1>29 DEF vars, SessionInv, EntryLives, Live, Lost
<1> QED
  BY <1>1, <1>2, <1>3, <1>4, <1>5, <1>6, <1>7, <1>8, <1>9, <1>10, <1>11, <1>12, <1>13,
     <1>14, <1>15, <1>16, <1>17, <1>18, <1>19, <1>20, <1>21, <1>22, <1>23, <1>24, <1>25,
     <1>26, <1>27, <1>28, <1>29 DEF Next, CallSteps, TaskSteps, SocketEvents,
     Redialling, Pending

\* Every step keeps a connection that was lost on its way back.
LEMMA ComesBackStep == SessionInv /\ [Next]_vars => LostComesBack'
<1> SUFFICES ASSUME SessionInv, [Next]_vars
             PROVE  LostComesBack'
  OBVIOUS
<1>1. ASSUME NEW c \in Calls, Connect(c)
      PROVE  LostComesBack'
  BY <1>1, StartsACall DEF Connect, SessionInv, LostComesBack, Continues, OpeningCalls,
     Opening
<1>2. ASSUME NEW c \in Calls, Resume(c)
      PROVE  LostComesBack'
  BY <1>2, StartsACall DEF Resume, Request, StartInit, Alone, SessionInv,
     LostComesBack, Continues, Live, LiveSockets, OpeningCalls, Opening, Lost,
     UserKnown
<1>3. ASSUME NEW c \in Calls, Redial(c)
      PROVE  LostComesBack'
  <2> SUFFICES ASSUME ~failed, ~lateQr, lastClose \in Lost, call' = call
               PROVE  LiveSockets' # {}
    BY <1>3, StartsACall DEF Redial, StartInit, told, events, SessionInv,
       LostComesBack, Continues, OpeningCalls, Opening
  <2>1. TRUE \in UserKnown(entry.sock)
    BY <1>3, StartsACall DEF Redial, SessionInv
  <2>2. entry.sock \in Sockets /\ Live(entry.sock)
    BY <2>1 DEF UserKnown, SessionInv, TypeOK, EntryLives
  <2> QED
    BY <1>3, <2>2 DEF Redial, StartInit, LiveSockets, Live
<1>4. ASSUME NEW c \in Calls, EndOld(c)
      PROVE  LostComesBack'
  BY <1>4 DEF EndOld, EndedSocket, events, SessionInv, NoCall, LostComesBack,
     Continues, Live, LiveSockets, OpeningCalls, Opening, Lost, NoEntry
<1>5. ASSUME NEW c \in Calls, JudgePairing(c)
      PROVE  LostComesBack'
  BY <1>5 DEF JudgePairing, At, events, told, SessionInv, LostComesBack,
     Continues, Live, LiveSockets, OpeningCalls, Opening, Lost
<1>6. ASSUME NEW c \in Calls, ClearStored(c)
      PROVE  LostComesBack'
  BY <1>6 DEF ClearStored, At, events, told, SessionInv, LostComesBack, Continues,
     Live, LiveSockets, OpeningCalls, Opening, Lost
<1>7. ASSUME NEW c \in Calls, LoadAuth(c)
      PROVE  LostComesBack'
  BY <1>7 DEF LoadAuth, events, told, SessionInv, TypeOK, LostComesBack,
     Continues, Live, LiveSockets, OpeningCalls, Opening, Lost
<1>8. ASSUME NEW c \in Calls, OpenSocket(c)
      PROVE  LostComesBack'
  BY <1>8 DEF OpenSocket, FreeSlots, events, told, SessionInv, TypeOK, NoCall,
     LostComesBack, Continues, Live, LiveSockets, OpeningCalls, Opening, Lost,
     Pending
<1>9. ASSUME NEW c \in Calls, Disconnect(c)
      PROVE  LostComesBack'
  BY <1>9, StartsOut DEF Disconnect, Request, Quiet, SessionInv, LostComesBack,
     Continues, Live, LiveSockets, OpeningCalls, Opening, Lost, NoEntry
<1>10. ASSUME NEW c \in Calls, LoggedOutNow(c)
      PROVE  LostComesBack'
  BY <1>10 DEF LoggedOutNow, At, LoggedOut, Closes, EndedSocket, Await,
     Crosses, Task, Incident, events, SessionInv, LostComesBack, Continues,
     Live, LiveSockets, OpeningCalls, Opening, Lost, NoEntry
<1>11. ASSUME NEW c \in Calls, Forget(c)
      PROVE  LostComesBack'
  BY <1>11 DEF Forget, At, Crosses, events, SessionInv, LostComesBack, Continues,
     Live, LiveSockets, OpeningCalls, Opening, Lost
<1>12. ASSUME NEW c \in Calls, MarkOut(c)
      PROVE  LostComesBack'
  BY <1>12 DEF MarkOut, events, told, SessionInv, NoCall, LostComesBack,
     Continues, Live, LiveSockets, OpeningCalls, Opening, Lost
<1>13. ASSUME NEW c \in Calls, CallFails(c)
      PROVE  LostComesBack'
  BY <1>13 DEF CallFails, Incident, SessionInv, NoCall, LostComesBack, Continues,
     Live, LiveSockets, OpeningCalls, Opening, Lost
<1>14. ASSUME NEW s \in Sockets, QrArrives(s)
      PROVE  LostComesBack'
  BY <1>14 DEF QrArrives, Await, Task, events, SessionInv, LostComesBack,
     Continues, Live, LiveSockets, OpeningCalls, Opening, Lost
<1>15. ASSUME NEW s \in Sockets, Scan(s)
      PROVE  LostComesBack'
  BY <1>15 DEF Scan, Request, Await, Task, SessionInv, LostComesBack, Continues,
     Live, LiveSockets, OpeningCalls, Opening, Lost
<1>16. ASSUME NEW s \in Sockets, CredsChange(s)
      PROVE  LostComesBack'
  BY <1>16 DEF CredsChange, Await, Task, events, SessionInv, LostComesBack,
     Continues, Live, LiveSockets, OpeningCalls, Opening, Lost
<1>17. ASSUME NEW s \in Sockets, Opens(s)
      PROVE  LostComesBack'
  BY <1>17 DEF Opens, Await, Task, Crosses, events, SessionInv, LostComesBack,
     Continues, Live, LiveSockets, OpeningCalls, Opening, Lost
<1>18. ASSUME NEW s \in Sockets, CloseReplaced(s)
      PROVE  LostComesBack'
  BY <1>18 DEF CloseReplaced, Closes, EndedSocket, Await, Task, Crosses,
     events, SessionInv, LostComesBack, Continues, Live, LiveSockets, OpeningCalls,
     Opening, Lost, NoEntry
<1>19. ASSUME NEW s \in Sockets, CloseLoggedOut(s)
      PROVE  LostComesBack'
  BY <1>19 DEF CloseLoggedOut, Incident, LoggedOut, Closes, EndedSocket,
     Await, Task, SessionInv, LostComesBack, Continues, Live, LiveSockets,
     OpeningCalls, Opening, Lost
<1>20. ASSUME NEW s \in Sockets, CloseUnscanned(s)
      PROVE  LostComesBack'
  BY <1>20 DEF CloseUnscanned, Closes, EndedSocket, Await, Task, Crosses,
     events, SessionInv, LostComesBack, Continues, Live, LiveSockets, OpeningCalls,
     Opening, Lost, NoEntry
<1>21. ASSUME NEW s \in Sockets, NEW reason \in {"restart", "lost"},
              CloseRedialling(s, reason)
      PROVE  LostComesBack'
  <2>1. \E status : Task("setThenRedial", s, status) \in tasks'
    BY <1>21 DEF CloseRedialling, Await
  <2> QED
    BY <2>1 DEF Task, LostComesBack, Continues
<1>22. ASSUME NEW s \in Sockets, QrDrawn(s)
      PROVE  LostComesBack'
  BY <1>22 DEF QrDrawn, Await, Task, Crosses, Kept, events, SessionInv,
     LostComesBack, Continues, Live, LiveSockets, OpeningCalls, Opening, Lost
<1>23. ASSUME NEW s \in Sockets, CredsSaved(s)
      PROVE  LostComesBack'
  BY <1>23 DEF CredsSaved, Task, Kept, events, SessionInv, LostComesBack,
     Continues, Live, LiveSockets, OpeningCalls, Opening, Lost
<1>24. ASSUME NEW s \in Sockets, Cleared(s)
      PROVE  LostComesBack'
  BY <1>24 DEF Cleared, Await, Task, Crosses, Kept, Incident, events,
     SessionInv, LostComesBack, Continues, Live, LiveSockets, OpeningCalls, Opening,
     Lost, NoEntry
<1>25. ASSUME NEW t \in tasks, StatusWritten(t)
      PROVE  LostComesBack'
  BY <1>25 DEF StatusWritten, Kept, events, SessionInv, TypeOK, LostComesBack,
     Continues, Live, LiveSockets, OpeningCalls, Opening, Lost
<1>26. ASSUME NEW t \in tasks, TaskFails(t)
      PROVE  LostComesBack'
  BY <1>26 DEF TaskFails, Kept, Incident, SessionInv, LostComesBack, Continues,
     Live, LiveSockets, OpeningCalls, Opening, Lost
<1>27. CASE RivalOpens
  BY <1>27 DEF RivalOpens, Incident, told, SessionInv, LostComesBack, Continues,
     Live, LiveSockets, OpeningCalls, Opening, Lost
<1>28. CASE Restart
  BY <1>28 DEF Restart, Incident, Unused, SessionInv, NoCall, LostComesBack,
     Continues, Live, LiveSockets, OpeningCalls, Opening, Lost, NoEntry
<1>29. CASE UNCHANGED vars
  BY <1>29 DEF vars, SessionInv, LostComesBack, Continues, Live, LiveSockets,
     OpeningCalls, Opening, Lost
<1> QED
  BY <1>1, <1>2, <1>3, <1>4, <1>5, <1>6, <1>7, <1>8, <1>9, <1>10, <1>11, <1>12, <1>13,
     <1>14, <1>15, <1>16, <1>17, <1>18, <1>19, <1>20, <1>21, <1>22, <1>23, <1>24, <1>25,
     <1>26, <1>27, <1>28, <1>29 DEF Next, CallSteps, TaskSteps, SocketEvents,
     Redialling, Pending

\* Every step keeps the statuses on their way the same, unless they crossed.
LEMMA OneStatusStep == SessionInv /\ [Next]_vars => OneStatus'
<1> SUFFICES ASSUME SessionInv, [Next]_vars
             PROVE  OneStatus'
  OBVIOUS
<1>1. ASSUME NEW c \in Calls, Connect(c)
      PROVE  OneStatus'
  BY <1>1, StartsACall DEF Connect, Request, StartInit, Alone, SessionInv,
     OneStatus
<1>2. ASSUME NEW c \in Calls, Resume(c)
      PROVE  OneStatus'
  BY <1>2, StartsACall DEF Resume, Request, StartInit, Alone, SessionInv,
     OneStatus
<1>3. ASSUME NEW c \in Calls, Redial(c)
      PROVE  OneStatus'
  BY <1>3, StartsACall DEF Redial, StartInit, Alone, events, SessionInv, OneStatus
<1>4. ASSUME NEW c \in Calls, EndOld(c)
      PROVE  OneStatus'
  BY <1>4 DEF EndOld, EndedSocket, events, SessionInv, NoCall, OneStatus
<1>5. ASSUME NEW c \in Calls, JudgePairing(c)
      PROVE  OneStatus'
  BY <1>5 DEF JudgePairing, At, events, told, SessionInv, OneStatus
<1>6. ASSUME NEW c \in Calls, ClearStored(c)
      PROVE  OneStatus'
  BY <1>6 DEF ClearStored, At, events, told, SessionInv, OneStatus
<1>7. ASSUME NEW c \in Calls, LoadAuth(c)
      PROVE  OneStatus'
  BY <1>7 DEF LoadAuth, events, told, SessionInv, TypeOK, OneStatus
<1>8. ASSUME NEW c \in Calls, OpenSocket(c)
      PROVE  OneStatus'
  BY <1>8 DEF OpenSocket, FreeSlots, events, told, SessionInv, NoCall, OneStatus
<1>9. ASSUME NEW c \in Calls, Disconnect(c)
      PROVE  OneStatus'
  BY <1>9, StartsOut DEF Disconnect, Request, Quiet, SessionInv, OneStatus
<1>10. ASSUME NEW c \in Calls, LoggedOutNow(c)
      PROVE  OneStatus'
  BY <1>10 DEF LoggedOutNow, At, LoggedOut, Closes, EndedSocket, Await,
     Crosses, Task, Incident, events, SessionInv, TypeOK, OneStatus
<1>11. ASSUME NEW c \in Calls, Forget(c)
      PROVE  OneStatus'
  BY <1>11 DEF Forget, At, Crosses, events, SessionInv, OneStatus
<1>12. ASSUME NEW c \in Calls, MarkOut(c)
      PROVE  OneStatus'
  BY <1>12 DEF MarkOut, events, told, SessionInv, NoCall, OneStatus
<1>13. ASSUME NEW c \in Calls, CallFails(c)
      PROVE  OneStatus'
  BY <1>13 DEF CallFails, Incident, SessionInv, NoCall, OneStatus
<1>14. ASSUME NEW s \in Sockets, QrArrives(s)
      PROVE  OneStatus'
  BY <1>14 DEF QrArrives, Await, Task, events, SessionInv, TypeOK, OneStatus
<1>15. ASSUME NEW s \in Sockets, Scan(s)
      PROVE  OneStatus'
  BY <1>15 DEF Scan, Request, Await, Task, SessionInv, TypeOK, OneStatus
<1>16. ASSUME NEW s \in Sockets, CredsChange(s)
      PROVE  OneStatus'
  BY <1>16 DEF CredsChange, Await, Task, events, SessionInv, TypeOK, OneStatus
<1>17. ASSUME NEW s \in Sockets, Opens(s)
      PROVE  OneStatus'
  BY <1>17 DEF Opens, Await, Task, Crosses, events, SessionInv, OneStatus
<1>18. ASSUME NEW s \in Sockets, CloseReplaced(s)
      PROVE  OneStatus'
  BY <1>18 DEF CloseReplaced, Closes, EndedSocket, Await, Task, Crosses,
     events, SessionInv, OneStatus
<1>19. ASSUME NEW s \in Sockets, CloseLoggedOut(s)
      PROVE  OneStatus'
  BY <1>19 DEF CloseLoggedOut, Incident, LoggedOut, Closes, EndedSocket,
     Await, Task, SessionInv, TypeOK, OneStatus
<1>20. ASSUME NEW s \in Sockets, CloseUnscanned(s)
      PROVE  OneStatus'
  BY <1>20 DEF CloseUnscanned, Closes, EndedSocket, Await, Task, Crosses,
     events, SessionInv, OneStatus
<1>21. ASSUME NEW s \in Sockets, NEW reason \in {"restart", "lost"},
              CloseRedialling(s, reason)
      PROVE  OneStatus'
  BY <1>21 DEF CloseRedialling, Closes, EndedSocket, Await, Task, Crosses,
     Incident, events, told, SessionInv, NoCall, OneStatus
<1>22. ASSUME NEW s \in Sockets, QrDrawn(s)
      PROVE  OneStatus'
  BY <1>22 DEF QrDrawn, Await, Task, Crosses, Kept, events, SessionInv,
     OneStatus
<1>23. ASSUME NEW s \in Sockets, CredsSaved(s)
      PROVE  OneStatus'
  BY <1>23 DEF CredsSaved, Task, Kept, events, SessionInv, OneStatus
<1>24. ASSUME NEW s \in Sockets, Cleared(s)
      PROVE  OneStatus'
  BY <1>24 DEF Cleared, Await, Task, Crosses, Kept, Incident, events,
     SessionInv, OneStatus
<1>25. ASSUME NEW t \in tasks, StatusWritten(t)
      PROVE  OneStatus'
  BY <1>25 DEF StatusWritten, Kept, events, SessionInv, OneStatus
<1>26. ASSUME NEW t \in tasks, TaskFails(t)
      PROVE  OneStatus'
  BY <1>26 DEF TaskFails, Kept, Incident, SessionInv, OneStatus
<1>27. CASE RivalOpens
  BY <1>27 DEF RivalOpens, Incident, told, SessionInv, OneStatus
<1>28. CASE Restart
  BY <1>28 DEF Restart, Incident, Unused, SessionInv, NoCall, OneStatus
<1>29. CASE UNCHANGED vars
  BY <1>29 DEF vars, SessionInv, OneStatus
<1> QED
  BY <1>1, <1>2, <1>3, <1>4, <1>5, <1>6, <1>7, <1>8, <1>9, <1>10, <1>11, <1>12, <1>13,
     <1>14, <1>15, <1>16, <1>17, <1>18, <1>19, <1>20, <1>21, <1>22, <1>23, <1>24, <1>25,
     <1>26, <1>27, <1>28, <1>29 DEF Next, CallSteps, TaskSteps, SocketEvents,
     Redialling, Pending

\* Every step keeps the end of a session told, to the map and to the row.
LEMMA EndStep == SessionInv /\ [Next]_vars => EndIsTold'
<1> SUFFICES ASSUME SessionInv, [Next]_vars
             PROVE  EndIsTold'
  OBVIOUS
<1>1. ASSUME NEW c \in Calls, Connect(c)
      PROVE  EndIsTold'
  BY <1>1, StartsACall DEF Connect, SessionInv, EndIsTold, Continues, OpeningCalls,
     Opening
<1>2. ASSUME NEW c \in Calls, Resume(c)
      PROVE  EndIsTold'
  BY <1>2, StartsACall DEF Resume, Request, StartInit, Alone, SessionInv,
     EndIsTold, Continues, ClearDue, Live, LiveSockets, OpeningCalls, Opening,
     NoEntry, UserKnown
<1>3. ASSUME NEW c \in Calls, Redial(c)
      PROVE  EndIsTold'
  <2> SUFFICES ASSUME ~failed, ~lateQr, call' = call
               PROVE  LiveSockets' # {} \/ ClearDue'
    BY <1>3, StartsACall DEF Redial, StartInit, told, events, SessionInv,
       EndIsTold, Continues, OpeningCalls, Opening
  <2>1. TRUE \in UserKnown(entry.sock)
    BY <1>3, StartsACall DEF Redial, SessionInv
  <2>2. (entry.sock \in Sockets /\ Live(entry.sock)) \/ ClearDue
    BY <2>1 DEF UserKnown, SessionInv, TypeOK, EntryLives, ClearDue
  <2> QED
    BY <1>3, <2>2 DEF Redial, StartInit, LiveSockets, Live, ClearDue
<1>4. ASSUME NEW c \in Calls, EndOld(c)
      PROVE  EndIsTold'
  BY <1>4 DEF EndOld, EndedSocket, events, SessionInv, NoCall, EndIsTold,
     Continues, ClearDue, Live, LiveSockets, OpeningCalls, Opening, NoEntry
<1>5. ASSUME NEW c \in Calls, JudgePairing(c)
      PROVE  EndIsTold'
  BY <1>5 DEF JudgePairing, At, events, told, SessionInv, EndIsTold, Continues,
     ClearDue, Live, LiveSockets, OpeningCalls, Opening, NoEntry
<1>6. ASSUME NEW c \in Calls, ClearStored(c)
      PROVE  EndIsTold'
  BY <1>6 DEF ClearStored, At, events, told, SessionInv, EndIsTold, Continues,
     ClearDue, Live, LiveSockets, OpeningCalls, Opening, NoEntry
<1>7. ASSUME NEW c \in Calls, LoadAuth(c)
      PROVE  EndIsTold'
  BY <1>7 DEF LoadAuth, events, told, SessionInv, TypeOK, EndIsTold, Continues,
     ClearDue, Live, LiveSockets, OpeningCalls, Opening, NoEntry
<1>8. ASSUME NEW c \in Calls, OpenSocket(c)
      PROVE  EndIsTold'
  BY <1>8 DEF OpenSocket, FreeSlots, events, told, SessionInv, TypeOK, NoCall,
     EndIsTold, Continues, ClearDue, Live, LiveSockets, OpeningCalls, Opening,
     NoEntry, Pending
<1>9. ASSUME NEW c \in Calls, Disconnect(c)
      PROVE  EndIsTold'
  BY <1>9, StartsOut DEF Disconnect, Request, Quiet, SessionInv, EndIsTold,
     Continues, ClearDue, Live, LiveSockets, OpeningCalls, Opening, NoEntry
<1>10. ASSUME NEW c \in Calls, LoggedOutNow(c)
      PROVE  EndIsTold'
  <2>1. PICK s \in Sockets : s = call[c].sock
    BY <1>10 DEF LoggedOutNow, At, SessionInv, Shapes
  <2>2. CASE LoggedOut(s, Running \ {c})
    <3>1. Task("clear", s, "none") \in tasks'
      BY <2>2 DEF LoggedOut, Await
    <3> QED
      BY <3>1 DEF Task, EndIsTold, ClearDue
  <2>3. CASE UNCHANGED <<sock, tasks, crossed>>
    <3>1. \A d \in Calls : call'[d].at \in Opening <=> call[d].at \in Opening
      BY <1>10 DEF LoggedOutNow, At, SessionInv, TypeOK, Opening
    <3>2. \A d \in Calls : call'[d].at = "markingOut" <=> call[d].at = "markingOut"
      BY <1>10 DEF LoggedOutNow, At, SessionInv, TypeOK, Opening
    <3>3. OpeningCalls' = OpeningCalls /\ LiveSockets' = LiveSockets /\ ClearDue' = ClearDue
      BY <2>3, <3>1, <3>2 DEF OpeningCalls, Opening, LiveSockets, Live, ClearDue
    <3>4. entry' = NoEntry /\ UNCHANGED <<timers, failed, lateQr, row>>
      BY <1>10 DEF LoggedOutNow
    <3> QED
      BY <2>3, <3>2, <3>3, <3>4 DEF SessionInv, EndIsTold, Continues
  <2> QED
    BY <1>10, <2>1, <2>2, <2>3 DEF LoggedOutNow
<1>11. ASSUME NEW c \in Calls, Forget(c)
      PROVE  EndIsTold'
  BY <1>11 DEF Forget, At, Crosses, events, SessionInv, TypeOK, EndIsTold,
     Continues, ClearDue, Live, LiveSockets, OpeningCalls, Opening, NoEntry
<1>12. ASSUME NEW c \in Calls, MarkOut(c)
      PROVE  EndIsTold'
  BY <1>12 DEF MarkOut, events, told, SessionInv, NoCall, EndIsTold, Continues,
     ClearDue, Live, LiveSockets, OpeningCalls, Opening, NoEntry
<1>13. ASSUME NEW c \in Calls, CallFails(c)
      PROVE  EndIsTold'
  BY <1>13 DEF CallFails, Incident, SessionInv, NoCall, EndIsTold, Continues,
     ClearDue, Live, LiveSockets, OpeningCalls, Opening, NoEntry
<1>14. ASSUME NEW s \in Sockets, QrArrives(s)
      PROVE  EndIsTold'
  BY <1>14 DEF QrArrives, Await, Task, events, SessionInv, EndIsTold, Continues,
     ClearDue, Live, LiveSockets, OpeningCalls, Opening, NoEntry
<1>15. ASSUME NEW s \in Sockets, Scan(s)
      PROVE  EndIsTold'
  BY <1>15 DEF Scan, Request, Await, Task, SessionInv, EndIsTold, Continues,
     ClearDue, Live, LiveSockets, OpeningCalls, Opening, NoEntry
<1>16. ASSUME NEW s \in Sockets, CredsChange(s)
      PROVE  EndIsTold'
  BY <1>16 DEF CredsChange, Await, Task, events, SessionInv, EndIsTold, Continues,
     ClearDue, Live, LiveSockets, OpeningCalls, Opening, NoEntry
<1>17. ASSUME NEW s \in Sockets, Opens(s)
      PROVE  EndIsTold'
  BY <1>17 DEF Opens, Await, Task, Crosses, events, SessionInv, EndIsTold,
     Continues, ClearDue, Live, LiveSockets, OpeningCalls, Opening, NoEntry
<1>18. ASSUME NEW s \in Sockets, CloseReplaced(s)
      PROVE  EndIsTold'
  <2>1. tasks' = tasks \cup {Task("setDisconnected", s, "disconnected")}
    BY <1>18 DEF CloseReplaced, Await
  <2>2. ~crossed' => \A t \in tasks : t.status \in {"none", "disconnected"}
    BY <1>18 DEF CloseReplaced, Await, Crosses, Task
  <2>3. entry' = NoEntry
    BY <1>18 DEF CloseReplaced
  <2>4. Task("setDisconnected", s, "disconnected").status = "disconnected"
    BY DEF Task
  <2>5. ~crossed' => \A t \in tasks' : t.status \in {"none", "disconnected"}
    BY <2>1, <2>2, <2>4
  <2>6. \E t \in tasks' : t.status = "disconnected"
    BY <2>1, <2>4
  <2> QED
    BY <2>3, <2>5, <2>6 DEF EndIsTold
<1>19. ASSUME NEW s \in Sockets, CloseLoggedOut(s)
      PROVE  EndIsTold'
  <2>1. Task("clear", s, "none") \in tasks'
    BY <1>19 DEF CloseLoggedOut, LoggedOut, Await
  <2> QED
    BY <2>1 DEF Task, EndIsTold, ClearDue
<1>20. ASSUME NEW s \in Sockets, CloseUnscanned(s)
      PROVE  EndIsTold'
  <2>1. tasks' = tasks \cup {Task("setDisconnected", s, "disconnected")}
    BY <1>20 DEF CloseUnscanned, Await
  <2>2. ~crossed' => \A t \in tasks : t.status \in {"none", "disconnected"}
    BY <1>20 DEF CloseUnscanned, Await, Crosses, Task
  <2>3. entry' = NoEntry
    BY <1>20 DEF CloseUnscanned
  <2>4. Task("setDisconnected", s, "disconnected").status = "disconnected"
    BY DEF Task
  <2>5. ~crossed' => \A t \in tasks' : t.status \in {"none", "disconnected"}
    BY <2>1, <2>2, <2>4
  <2>6. \E t \in tasks' : t.status = "disconnected"
    BY <2>1, <2>4
  <2> QED
    BY <2>3, <2>5, <2>6 DEF EndIsTold
<1>21. ASSUME NEW s \in Sockets, NEW reason \in {"restart", "lost"},
              CloseRedialling(s, reason)
      PROVE  EndIsTold'
  <2>1. \E status : Task("setThenRedial", s, status) \in tasks'
    BY <1>21 DEF CloseRedialling, Await
  <2> QED
    BY <2>1 DEF Task, EndIsTold, Continues
<1>22. ASSUME NEW s \in Sockets, QrDrawn(s)
      PROVE  EndIsTold'
  BY <1>22 DEF QrDrawn, Await, Task, Crosses, Kept, events, SessionInv,
     EndIsTold, Continues, ClearDue, Live, LiveSockets, OpeningCalls, Opening,
     NoEntry
<1>23. ASSUME NEW s \in Sockets, CredsSaved(s)
      PROVE  EndIsTold'
  BY <1>23 DEF CredsSaved, Task, Kept, events, SessionInv, EndIsTold, Continues,
     ClearDue, Live, LiveSockets, OpeningCalls, Opening, NoEntry
<1>24. ASSUME NEW s \in Sockets, Cleared(s)
      PROVE  EndIsTold'
  <2>1. tasks' = (tasks \ {Task("clear", s, "none")}) \cup {Task("markLoggedOut", s, "disconnected")}
    BY <1>24 DEF Cleared, Await
  <2>2. ~crossed' => \A t \in tasks : t.status \in {"none", "disconnected"}
    BY <1>24 DEF Cleared, Await, Crosses, Task
  <2>3. entry' = NoEntry
    BY <1>24 DEF Cleared
  <2>4. Task("markLoggedOut", s, "disconnected").status = "disconnected"
    BY DEF Task
  <2>5. ~crossed' => \A t \in tasks' : t.status \in {"none", "disconnected"}
    BY <2>1, <2>2, <2>4
  <2>6. \E t \in tasks' : t.status = "disconnected"
    BY <2>1, <2>4
  <2> QED
    BY <2>3, <2>5, <2>6 DEF EndIsTold
<1>25. ASSUME NEW t \in tasks, StatusWritten(t)
      PROVE  EndIsTold'
  BY <1>25 DEF StatusWritten, Kept, events, SessionInv, TypeOK, Shapes,
     EntryLives, OneStatus, EndIsTold, Continues, ClearDue, Live, LiveSockets,
     OpeningCalls, Opening, NoEntry
<1>26. ASSUME NEW t \in tasks, TaskFails(t)
      PROVE  EndIsTold'
  BY <1>26 DEF TaskFails, Kept, Incident, SessionInv, EndIsTold, Continues,
     ClearDue, Live, LiveSockets, OpeningCalls, Opening, NoEntry
<1>27. CASE RivalOpens
  BY <1>27 DEF RivalOpens, Incident, told, SessionInv, EndIsTold, Continues,
     ClearDue, Live, LiveSockets, OpeningCalls, Opening, NoEntry
<1>28. CASE Restart
  <2>1. CASE Resumable(row)
    BY <1>28, <2>1 DEF Restart, EndIsTold, Continues
  <2>2. CASE ~Resumable(row)
    BY <1>28, <2>2 DEF Restart, Resumable, EndIsTold, NoEntry, SessionInv, TypeOK,
       Statuses
  <2> QED
    BY <2>1, <2>2
<1>29. CASE UNCHANGED vars
  BY <1>29 DEF vars, SessionInv, EndIsTold, Continues, ClearDue, Live, LiveSockets,
     OpeningCalls, Opening, NoEntry
<1> QED
  BY <1>1, <1>2, <1>3, <1>4, <1>5, <1>6, <1>7, <1>8, <1>9, <1>10, <1>11, <1>12, <1>13,
     <1>14, <1>15, <1>16, <1>17, <1>18, <1>19, <1>20, <1>21, <1>22, <1>23, <1>24, <1>25,
     <1>26, <1>27, <1>28, <1>29 DEF Next, CallSteps, TaskSteps, SocketEvents,
     Redialling, Pending

\* Every step keeps a session that was disconnected in quiet on its way out.
LEMMA OutStep == SessionInv /\ [Next]_vars => OutStays'
<1> SUFFICES ASSUME SessionInv, [Next]_vars
             PROVE  OutStays'
  OBVIOUS
<1>1. ASSUME NEW c \in Calls, Connect(c)
      PROVE  OutStays'
  BY <1>1, StartsACall DEF Connect, Request, StartInit, Alone, SessionInv,
     OutStays, Live, LiveSockets, Running
<1>2. ASSUME NEW c \in Calls, Resume(c)
      PROVE  OutStays'
  BY <1>2, StartsACall DEF Resume, Request, StartInit, Alone, SessionInv,
     OutStays, Live, LiveSockets, Running
<1>3. ASSUME NEW c \in Calls, Redial(c)
      PROVE  OutStays'
  BY <1>3 DEF Redial, SessionInv, OutStays
<1>4. ASSUME NEW c \in Calls, EndOld(c)
      PROVE  OutStays'
  BY <1>4 DEF EndOld, EndedSocket, events, SessionInv, NoCall, OutStays, Live,
     LiveSockets, Running, NoEntry
<1>5. ASSUME NEW c \in Calls, JudgePairing(c)
      PROVE  OutStays'
  BY <1>5 DEF JudgePairing, At, events, told, SessionInv, OutStays, Live,
     LiveSockets, Running
<1>6. ASSUME NEW c \in Calls, ClearStored(c)
      PROVE  OutStays'
  BY <1>6 DEF ClearStored, At, events, told, SessionInv, OutStays, Live,
     LiveSockets, Running
<1>7. ASSUME NEW c \in Calls, LoadAuth(c)
      PROVE  OutStays'
  BY <1>7 DEF LoadAuth, events, told, SessionInv, OutStays, Live, LiveSockets,
     Running
<1>8. ASSUME NEW c \in Calls, OpenSocket(c)
      PROVE  OutStays'
  BY <1>8 DEF OpenSocket, FreeSlots, events, told, SessionInv, NoCall, OutStays,
     Live, LiveSockets, Running, Pending
<1>9. ASSUME NEW c \in Calls, Disconnect(c)
      PROVE  OutStays'
  <2> SUFFICES ASSUME out'
               PROVE  OutStays'
    BY DEF OutStays
  <2>1. Quiet /\ UNCHANGED <<sock, tasks, timers, row, linked>>
    BY <1>9 DEF Disconnect
  <2>2. \A d \in Calls \ {c} : call'[d].at = "idle"
    BY <1>9, <2>1, StartsOut DEF Quiet, Running, SessionInv
  <2>3. Running' = {c}
    BY <1>9, <2>2, StartsOut DEF Running, SessionInv
  <2>4. LiveSockets' = LiveSockets
    BY <2>1 DEF LiveSockets, Live
  <2>5. CASE entry.sock = None
    <3>1. entry'.sock = None
      BY <1>9, <2>5 DEF Disconnect, NoEntry
    <3>2. call'[c].at = "forgetting"
      BY <1>9, <2>5, StartsOut DEF SessionInv
    <3> QED
      BY <2>1, <2>2, <2>3, <2>4, <2>5, <3>1, <3>2 DEF Quiet, OutStays
  <2>6. CASE entry.sock # None
    <3>1. call'[c].at = "loggingOut" /\ call'[c].sock = entry.sock
      BY <1>9, <2>6, StartsOut DEF SessionInv
    <3> QED
      BY <2>1, <2>2, <2>3, <2>4, <2>6, <3>1 DEF Quiet, OutStays
  <2> QED
    BY <2>5, <2>6
<1>10. ASSUME NEW c \in Calls, LoggedOutNow(c)
      PROVE  OutStays'
  <2> SUFFICES ASSUME out'
               PROVE  OutStays'
    BY DEF OutStays
  <2>1. PICK s \in Sockets : s = call[c].sock /\ call[c].at = "loggingOut"
    BY <1>10 DEF LoggedOutNow, At, SessionInv, Shapes
  <2>2. out /\ entry' = NoEntry /\ UNCHANGED <<row, linked, timers>>
    BY <1>10 DEF LoggedOutNow
  <2>3. \/ Live(s) /\ LoggedOut(s, Running \ {c})
        \/ ~Live(s) /\ UNCHANGED <<sock, tasks>>
    BY <1>10, <2>1 DEF LoggedOutNow
  <2>4. Running = {c} /\ LiveSockets \subseteq {s}
    BY <2>1, <2>2 DEF SessionInv, OutStays, Running
  <2>5. LiveSockets' = {}
    BY <2>3, <2>4 DEF LoggedOut, Closes, EndedSocket, LiveSockets, Live,
       SessionInv, TypeOK
  <2>6. \A d \in Calls : call'[d].at = IF d = c THEN "forgetting" ELSE "idle"
    BY <1>10, <2>4 DEF LoggedOutNow, At, Running, SessionInv, TypeOK
  <2>7. Running' = {c}
    BY <2>6 DEF Running
  <2>8. \A t \in tasks' : t.job \in {"saveCreds", "clear", "markLoggedOut", "setDisconnected"}
    BY <2>2, <2>3 DEF LoggedOut, Await, Task, SessionInv, OutStays
  <2> QED
    BY <2>2, <2>5, <2>6, <2>7, <2>8 DEF SessionInv, OutStays, NoEntry
<1>11. ASSUME NEW c \in Calls, Forget(c)
      PROVE  OutStays'
  BY <1>11 DEF Forget, At, Crosses, events, SessionInv, OutStays, Live,
     LiveSockets, Running
<1>12. ASSUME NEW c \in Calls, MarkOut(c)
      PROVE  OutStays'
  BY <1>12 DEF MarkOut, events, told, SessionInv, NoCall, OutStays, Live,
     LiveSockets, Running
<1>13. ASSUME NEW c \in Calls, CallFails(c)
      PROVE  OutStays'
  BY <1>13 DEF CallFails, Incident, SessionInv, NoCall, OutStays, Live,
     LiveSockets, Running
<1>14. ASSUME NEW s \in Sockets, QrArrives(s)
      PROVE  OutStays'
  BY <1>14 DEF QrArrives, Await, Task, events, SessionInv, OutStays, Live,
     LiveSockets, Running
<1>15. ASSUME NEW s \in Sockets, Scan(s)
      PROVE  OutStays'
  BY <1>15 DEF Scan, Request, Await, Task, SessionInv, OutStays, Live,
     LiveSockets, Running
<1>16. ASSUME NEW s \in Sockets, CredsChange(s)
      PROVE  OutStays'
  BY <1>16 DEF CredsChange, Await, Task, events, SessionInv, OutStays, Live,
     LiveSockets, Running
<1>17. ASSUME NEW s \in Sockets, Opens(s)
      PROVE  OutStays'
  BY <1>17 DEF Opens, Await, Task, Crosses, events, SessionInv, OutStays,
     Live, LiveSockets, Running
<1>18. ASSUME NEW s \in Sockets, CloseReplaced(s)
      PROVE  OutStays'
  BY <1>18 DEF CloseReplaced, Closes, EndedSocket, Await, Task, Crosses,
     events, SessionInv, OutStays, Live, LiveSockets, Running, NoEntry
<1>19. ASSUME NEW s \in Sockets, CloseLoggedOut(s)
      PROVE  OutStays'
  BY <1>19 DEF CloseLoggedOut, Incident, LoggedOut, Closes, EndedSocket,
     Await, Task, SessionInv, OutStays, Live, LiveSockets, Running
<1>20. ASSUME NEW s \in Sockets, CloseUnscanned(s)
      PROVE  OutStays'
  BY <1>20 DEF CloseUnscanned, Closes, EndedSocket, Await, Task, Crosses,
     events, SessionInv, OutStays, Live, LiveSockets, Running, NoEntry
<1>21. ASSUME NEW s \in Sockets, NEW reason \in {"restart", "lost"},
              CloseRedialling(s, reason)
      PROVE  OutStays'
  BY <1>21 DEF CloseRedialling, Closes, EndedSocket, Await, Task, Crosses,
     Incident, events, SessionInv, OutStays, Live, LiveSockets, Running
<1>22. ASSUME NEW s \in Sockets, QrDrawn(s)
      PROVE  OutStays'
  BY <1>22 DEF QrDrawn, Await, Task, Crosses, Kept, events, SessionInv,
     OutStays, Live, LiveSockets, Running
<1>23. ASSUME NEW s \in Sockets, CredsSaved(s)
      PROVE  OutStays'
  BY <1>23 DEF CredsSaved, Task, Kept, events, SessionInv, TypeOK, OutStays,
     Live, LiveSockets, Running
<1>24. ASSUME NEW s \in Sockets, Cleared(s)
      PROVE  OutStays'
  BY <1>24 DEF Cleared, Await, Task, Crosses, Kept, Incident, events,
     SessionInv, OutStays, Live, LiveSockets, Running, NoEntry
<1>25. ASSUME NEW t \in tasks, StatusWritten(t)
      PROVE  OutStays'
  BY <1>25 DEF StatusWritten, Kept, events, SessionInv, Shapes, OutStays, Live,
     LiveSockets, Running
<1>26. ASSUME NEW t \in tasks, TaskFails(t)
      PROVE  OutStays'
  BY <1>26 DEF TaskFails, Kept, Incident, SessionInv, OutStays, Live,
     LiveSockets, Running
<1>27. CASE RivalOpens
  BY <1>27 DEF RivalOpens, Incident, told, SessionInv, OutStays, Live,
     LiveSockets, Running
<1>28. CASE Restart
  BY <1>28 DEF Restart, Incident, Unused, SessionInv, NoCall, OutStays, Live,
     LiveSockets, Running, NoEntry
<1>29. CASE UNCHANGED vars
  BY <1>29 DEF vars, SessionInv, OutStays, Live, LiveSockets, Running
<1> QED
  BY <1>1, <1>2, <1>3, <1>4, <1>5, <1>6, <1>7, <1>8, <1>9, <1>10, <1>11, <1>12, <1>13,
     <1>14, <1>15, <1>16, <1>17, <1>18, <1>19, <1>20, <1>21, <1>22, <1>23, <1>24, <1>25,
     <1>26, <1>27, <1>28, <1>29 DEF Next, CallSteps, TaskSteps, SocketEvents,
     Redialling, Pending

\* The initial states satisfy the inductive invariant.
LEMMA SessionInit == Init => SessionInv
<1> SUFFICES ASSUME Init
             PROVE  SessionInv
  OBVIOUS
<1>1. TypeOK
  <2>1. SockOK /\ CallOK
    BY DEF Init, SockOK, SocketRec, States, Unused, CallOK, CallRec, Points,
       NoCall
  <2>2. OthersOK
    <3>1. requests \in 0..MaxRequests /\ incidents \in 0..MaxIncidents
      BY SessionConstants DEF Init
    <3>2. row \in Statuses /\ timers \in Nat
      BY DEF Init, Statuses
    <3>3. linked \in BOOLEAN
      BY Zenon DEF Init
    <3> QED
      BY <3>1, <3>2, <3>3 DEF Init, OthersOK, NoEntry, Statuses, Reasons
  <2>3. FlagsOK
    BY DEF Init, FlagsOK
  <2> QED
    BY <2>1, <2>2, <2>3, SessionParts
<1>2. /\ \A s \in Sockets : ~Live(s)
      /\ \A c \in Calls : call[c].at = "idle"
  BY DEF Init, Live, Unused, NoCall
<1>3. LiveSockets = {} /\ Running = {} /\ OpeningCalls = {}
  BY <1>2 DEF LiveSockets, Running, OpeningCalls, Opening
<1>4. Shapes /\ Uncrowded /\ LostComesBack /\ OneStatus
  BY <1>2, <1>3 DEF Init, Shapes, Uncrowded, ClearDue, LostComesBack, Lost, OneStatus
<1>5. EntryLives /\ EndIsTold /\ OutStays
  BY <1>3 DEF Init, EntryLives, NoEntry, EndIsTold, Continues, OutStays
<1> QED
  BY <1>1, <1>4, <1>5 DEF SessionInv

\* Every step keeps the inductive invariant.
LEMMA SessionNext == SessionInv /\ [Next]_vars => SessionInv'
<1> SUFFICES ASSUME SessionInv, [Next]_vars
             PROVE  SessionInv'
  OBVIOUS
<1>1. SockOK' /\ CallOK' /\ FlagsOK' /\ OthersOK'
  BY SockStep, CallStep, FlagsStep, OthersStep
<1>2. TypeOK'
  BY <1>1 DEF TypeOK, SockOK, CallOK, FlagsOK, OthersOK, SocketRec, CallRec, TaskRec
<1> QED
  BY <1>2, ShapesStep, UncrowdedStep, EntryLivesStep, ComesBackStep, OneStatusStep,
     EndStep, OutStep DEF SessionInv

\* The inductive invariant holds in every reachable state.
THEOREM SessionInductive == Spec => []SessionInv
<1>1. Init => SessionInv
  BY SessionInit
<1>2. SessionInv /\ [Next]_vars => SessionInv'
  BY SessionNext
<1> QED
  BY <1>1, <1>2, PTL DEF Spec

\* For any number of sockets and calls of initWhatsAppSession and disconnectSession:
\* a live socket is the one activeSockets names, so there are not two, unless a call
\* was begun beside another, beside a handler or timer, or beside a socket.
THEOREM OneSocket == Spec => []MapNamesSocket
<1>1. SessionInv => MapNamesSocket
  BY DEF SessionInv, Uncrowded, MapNamesSocket
<1> QED
  BY <1>1, SessionInductive, PTL

\* In whatever order handlers, timers and calls come: once nothing is left to happen
\* a lost connection has been dialled again and getSessionStatus says disconnected,
\* unless an incident, crossed statuses or a late QR code had it otherwise.
THEOREM RestReported == Spec => []RestIsReported
<1>1. SessionInv => RestIsReported
  <2> SUFFICES ASSUME SessionInv, Resting, ~failed, ~lateQr
               PROVE  /\ lastClose \notin Lost
                      /\ ~crossed => ReportedStatus = "disconnected"
    BY DEF RestIsReported, Lost
  <2>1. OpeningCalls = {} /\ \A c \in Calls : call[c].at = "idle"
    BY DEF Resting, Running, OpeningCalls, Opening
  <2>2. ~Continues /\ ~ClearDue
    BY <2>1 DEF Resting, Continues, ClearDue
  <2>3. lastClose \notin Lost
    BY <2>2 DEF SessionInv, LostComesBack
  <2>4. entry = NoEntry /\ (~crossed => row = "disconnected")
    BY <2>1, <2>2 DEF SessionInv, EndIsTold, Resting
  <2> QED
    BY <2>3, <2>4 DEF ReportedStatus, NoEntry, Resumable
<1> QED
  BY <1>1, SessionInductive, PTL

\* disconnectSession of a quiet session ends it for good: no socket, stored login,
\* row or entry of the map is left to resume it.
THEOREM DisconnectLasts == Spec => []DisconnectSticks
<1>1. SessionInv => DisconnectSticks
  <2> SUFFICES ASSUME SessionInv, out, Running = {}, tasks = {}
               PROVE  ~linked /\ row = "disconnected" /\ LiveSockets = {} /\ entry.sock = None
    BY DEF DisconnectSticks
  <2>1. \A c \in Calls : call[c].at = "idle"
    BY DEF Running
  <2> QED
    BY <2>1 DEF SessionInv, OutStays, TypeOK
<1> QED
  BY <1>1, SessionInductive, PTL
=============================================================================
