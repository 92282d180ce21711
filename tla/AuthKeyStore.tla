---------------------------- MODULE AuthKeyStore ----------------------------
(***************************************************************************)
(* usePostgresAuthState: the Signal keys and the credentials of one linked *)
(* WhatsApp account. Keys are served from a Map and written behind it, in  *)
(* batches, on a 200 ms timer; credentials are written at once.            *)
(*                                                                         *)
(* A value is its version: the n-th keys.set of a key makes version n, be  *)
(* it a new value or a deletion (the row then goes). A flush is two        *)
(* awaited statements, DELETE then upsert, and anything may happen between *)
(* them. One process at a time uses the store: a deploy in which two       *)
(* overlap is left out. What the session (WhatsAppSession) has too is      *)
(* named for the store here, so that both can be reasoned about at once.   *)
(***************************************************************************)
EXTENDS Naturals

CONSTANTS
    Keys,         \* Signal keys of the account
    MaxVersion,   \* bound: versions of each key
    MaxCreds,     \* bound: versions of the credentials
    MaxFailures   \* bound: failed statements and crashes in all

ASSUME StoreConstants == MaxVersion \in Nat /\ MaxCreds \in Nat /\ MaxFailures \in Nat

VARIABLES
    phase,          \* of the process: running, closing (shutdown flushes), closed, down
    cache,          \* the Map
    db,             \* whatsapp_auth_state
    pendingWrites,  \* version queued for each key, 0 when none is
    pendingDeletes,
    timer,          \* flushTimer is set
    flush,          \* `flushing`, its statement under way and the batches it took
    creds,          \* state.creds
    credsDb,        \* the creds row
    saving,         \* upserts of credentials under way
    failures,       \* failures and crashes so far
    missed,         \* history: the timer last fired in vain, during a flush
    tidy            \* history: shutdown began between flushes and nothing went wrong since

storeVars == <<phase, cache, db, pendingWrites, pendingDeletes, timer, flush,
               creds, credsDb, saving, failures, missed, tidy>>
queued   == <<pendingWrites, pendingDeletes>>
login    == <<creds, credsDb, saving>>

Nothing == [k \in Keys |-> 0]
Batch   == [Keys -> Nat]
NoFlush == [step |-> "none", writes |-> Nothing, deletes |-> Nothing]

Disjoint(writes, deletes) == \A k \in Keys : writes[k] = 0 \/ deletes[k] = 0

\* A key is queued as a write or as a delete, never both: a flush deletes first.
StoreTypeOK ==
    /\ phase \in {"running", "closing", "closed", "down"}
    /\ cache \in Batch /\ db \in Batch
    /\ pendingWrites \in Batch /\ pendingDeletes \in Batch
    /\ Disjoint(pendingWrites, pendingDeletes)
    /\ timer \in BOOLEAN /\ missed \in BOOLEAN /\ tidy \in BOOLEAN
    /\ flush \in [step : {"none", "deleting", "writing"}, writes : Batch, deletes : Batch]
    /\ Disjoint(flush.writes, flush.deletes)
    /\ creds \in Nat /\ credsDb \in Nat /\ saving \subseteq Nat
    /\ failures \in 0 .. MaxFailures

StoreInit ==
    /\ phase = "running"
    /\ cache = Nothing /\ db = Nothing
    /\ pendingWrites = Nothing /\ pendingDeletes = Nothing
    /\ timer = FALSE
    /\ flush = NoFlush
    /\ creds = 0 /\ credsDb = 0 /\ saving = {}
    /\ failures = 0
    /\ missed = FALSE /\ tidy = TRUE

----------------------------------------------------------------------------

Alive    == phase # "down"
Idle     == flush.step = "none"
Empty(b) == \A k \in Keys : b[k] = 0
NothingPending == Empty(pendingWrites) /\ Empty(pendingDeletes)

\* A statement applied to the table.
Over(table, batch) == [k \in Keys |-> IF batch[k] = 0 THEN table[k] ELSE batch[k]]

Failure == failures < MaxFailures /\ failures' = failures + 1

QueueWrite(k, version) ==
    /\ pendingWrites' = [pendingWrites EXCEPT ![k] = version]
    /\ pendingDeletes' = [pendingDeletes EXCEPT ![k] = 0]

QueueDelete(k, version) ==
    /\ pendingDeletes' = [pendingDeletes EXCEPT ![k] = version]
    /\ pendingWrites' = [pendingWrites EXCEPT ![k] = 0]

\* keys.set for one key: the Map at once, the queue, and the timer.
Set(k) ==
    /\ phase \in {"running", "closing"}
    /\ cache[k] < MaxVersion
    /\ cache' = [cache EXCEPT ![k] = @ + 1]
    /\ QueueWrite(k, cache[k] + 1) \/ QueueDelete(k, cache[k] + 1)
    /\ timer' = TRUE
    /\ tidy' = (tidy /\ phase = "running")
    /\ UNCHANGED <<phase, db, flush, login, failures, missed>>

\* flush() once it is not refused: take what is queued, send the first statement.
TakeBatch ==
    /\ flush' = [step |-> IF Empty(pendingDeletes) THEN "writing" ELSE "deleting",
                 writes |-> pendingWrites, deletes |-> pendingDeletes]
    /\ pendingWrites' = Nothing /\ pendingDeletes' = Nothing

TimerFires ==
    /\ Alive /\ timer
    /\ timer' = FALSE
    /\ IF Idle /\ ~NothingPending
         THEN TakeBatch
         ELSE UNCHANGED <<queued, flush>>
    /\ missed' = (~Idle /\ ~NothingPending)
    /\ UNCHANGED <<phase, cache, db, login, failures, tidy>>

\* Shutdown waits for its own flush, if it started one.
Ended == phase' = IF phase = "closing" THEN "closed" ELSE phase

\* DELETE answered; the upsert follows if there is anything to write.
Deleted ==
    /\ Alive /\ flush.step = "deleting"
    /\ db' = Over(db, flush.deletes)
    /\ IF Empty(flush.writes)
         THEN flush' = NoFlush /\ Ended
         ELSE flush' = [flush EXCEPT !.step = "writing"] /\ UNCHANGED phase
    /\ UNCHANGED <<cache, queued, timer, login, failures, missed, tidy>>

WrittenClearing ==                               \* mutant: queues cleared after the await
    /\ Alive /\ flush.step = "writing"
    /\ db' = Over(db, flush.writes)
    /\ flush' = NoFlush /\ Ended
    /\ pendingWrites' = Nothing /\ pendingDeletes' = Nothing
    /\ UNCHANGED <<cache, timer, login, failures, missed, tidy>>

Written ==
    /\ Alive /\ flush.step = "writing"
    /\ db' = Over(db, flush.writes)
    /\ flush' = NoFlush /\ Ended
    /\ UNCHANGED <<cache, queued, timer, login, failures, missed, tidy>>

PutBackOverDeletes ==                            \* mutant: each map looks only at itself
    /\ pendingWrites' = Over(flush.writes, pendingWrites)
    /\ pendingDeletes' = Over(flush.deletes, pendingDeletes)

\* Queue a failed batch again, but never over a newer value for the same key.
PutBack ==
    LET Free(k) == pendingWrites[k] = 0 /\ pendingDeletes[k] = 0
    IN /\ pendingWrites' = [k \in Keys |->
            IF Free(k) THEN flush.writes[k] ELSE pendingWrites[k]]
       /\ pendingDeletes' = [k \in Keys |->
            IF Free(k) THEN flush.deletes[k] ELSE pendingDeletes[k]]

\* What the statement under way would do to the table.
InFlight == IF flush.step = "deleting" THEN flush.deletes ELSE flush.writes

FlushFailsUnscheduled ==                         \* mutant: no schedule() in the catch
    /\ Alive /\ ~Idle
    /\ Failure
    /\ db' \in {db, Over(db, InFlight)}
    /\ PutBack
    /\ flush' = NoFlush /\ Ended
    /\ tidy' = (tidy /\ phase = "running")
    /\ UNCHANGED <<cache, timer, login, missed>>

\* A statement fails, done or not: put both batches back, set the timer.
FlushFails ==
    /\ Alive /\ ~Idle
    /\ Failure
    /\ db' \in {db, Over(db, InFlight)}
    /\ PutBack
    /\ timer' = TRUE
    /\ flush' = NoFlush /\ Ended
    /\ tidy' = (tidy /\ phase = "running")
    /\ UNCHANGED <<cache, login, missed>>

----------------------------------------------------------------------------
(* Credentials *)

\* saveCreds on creds.update, awaited by nobody; several may be under way.
SaveCreds ==
    /\ phase \in {"running", "closing"}
    /\ creds < MaxCreds
    /\ creds' = creds + 1
    /\ saving' = saving \cup {creds + 1}
    /\ UNCHANGED <<phase, cache, db, queued, timer, flush, credsDb, failures,
                   missed, tidy>>

CredsStored(version) ==
    /\ Alive /\ version \in saving
    /\ credsDb' = version
    /\ saving' = saving \ {version}
    /\ UNCHANGED <<phase, cache, db, queued, timer, flush, creds, failures,
                   missed, tidy>>

CredsFail(version) ==
    /\ Alive /\ version \in saving
    /\ Failure
    /\ saving' = saving \ {version}
    /\ credsDb' \in {credsDb, version}
    /\ UNCHANGED <<phase, cache, db, queued, timer, flush, creds, missed, tidy>>

----------------------------------------------------------------------------
(* Shutdown, crash and restart *)

ShutdownUnflushed ==                             \* mutant: sockets closed, keys not flushed
    /\ phase = "running"
    /\ phase' = "closed"
    /\ tidy' = Idle
    /\ UNCHANGED <<cache, db, queued, timer, flush, login, failures, missed>>

\* shutdownAllSessions: flush(), which returns at once when a flush is under way
\* or nothing is queued, then end the socket.
Shutdown ==
    /\ phase = "running"
    /\ tidy' = Idle
    /\ IF Idle /\ ~NothingPending
         THEN TakeBatch /\ phase' = "closing"
         ELSE UNCHANGED <<queued, flush>> /\ phase' = "closed"
    /\ UNCHANGED <<cache, db, timer, login, failures, missed>>

\* The process is gone: after a shutdown, or by a crash. The statements under way
\* may or may not have been done.
Stop ==
    /\ Alive
    /\ phase' = "down"
    /\ IF phase = "closed" THEN UNCHANGED failures ELSE Failure
    /\ db' \in {db, Over(db, InFlight)}
    /\ credsDb' \in {credsDb} \cup saving
    /\ pendingWrites' = Nothing /\ pendingDeletes' = Nothing
    /\ timer' = FALSE /\ flush' = NoFlush /\ saving' = {}
    /\ missed' = FALSE
    /\ UNCHANGED <<cache, creds, tidy>>

\* loadAll: everything is read once.
Load ==
    /\ phase = "down"
    /\ phase' = "running"
    /\ cache' = db /\ creds' = credsDb
    /\ tidy' = TRUE
    /\ UNCHANGED <<db, queued, timer, flush, credsDb, saving, failures, missed>>

----------------------------------------------------------------------------

StoreNext ==
    \/ \E k \in Keys : Set(k)
    \/ TimerFires \/ Deleted \/ Written \/ FlushFails
    \/ SaveCreds
    \/ \E version \in saving : CredsStored(version) \/ CredsFail(version)
    \/ Shutdown \/ Stop \/ Load

\* Timers fire and statements are answered; nothing has to be set, fail or stop.
StoreFairness == WF_storeVars(TimerFires) /\ WF_storeVars(Deleted) /\ WF_storeVars(Written)

StoreSpec == StoreInit /\ [][StoreNext]_storeVars /\ StoreFairness

----------------------------------------------------------------------------
(* Properties *)

\* No key update is dropped while the process lives: what the table does not
\* have yet is queued or in the batch under way, failures and writes arriving in
\* the middle of a flush included.
NothingForgotten ==
    Alive => \A k \in Keys :
        db[k] # cache[k] => cache[k] \in {pendingWrites[k], pendingDeletes[k],
                                          flush.writes[k], flush.deletes[k]}

KeyStore == INSTANCE WriteBehind WITH stored <- db

\* "Never over a newer value for the same key": the table only moves forward, to
\* a value its key has had, whatever fails and is tried again.
ImplementsWriteBehind == KeyStore!Spec

\* A shutdown that begins between two flushes and meets no failure loses no key
\* that was set before it.
TidyShutdown == phase = "closed" /\ tidy => db = cache

\* "A failed flush keeps its rows queued and retries on the next tick": every
\* update reaches the table, unless the timer fired during a flush or the process
\* goes down.
Retried ==
    \A k \in Keys :
        db[k] # cache[k] ~> db[k] = cache[k] \/ missed \/ phase # "running"
=============================================================================
