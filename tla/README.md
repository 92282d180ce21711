# EzzySync: a TLA+ model

EzzySync is a multi-tenant CRM for travel agencies: an Express backend over
PostgreSQL (`backend/`), two React clients (`frontend/`, `AdminFE/`), a
super-admin server (`AdminBE/`) and a landing site. Most of the logic that can go
wrong is in `backend/services` and `backend/repositories`; one part, the session
that the tabs of a browser share, is in `frontend/src/services/api.js`. Every request is a chain of
awaited queries on a connection pool, most of them outside a transaction; jobs,
webhooks, WhatsApp sockets and a second instance during a deploy run beside the
requests. So the questions asked here are about interleavings: of requests on
one row, of webhooks that arrive twice or in another order, of timers and
shutdown, of a process that stops between two queries.

Paths below are relative to the repository (`src/`).

## 1. The system

### Modelled

**Bookings and the payments ledger** — `bookingService.js`,
`bookingRepository.js`, `bookingController.js`.
*State*: the row of `bookings` (members, price, `total_amount`, `paid`,
`remaining`, refund, travel status, `deleted`), `booking_payments`,
`follow_up_logs`. *Operations*: create, update, soft delete, add and remove a
payment, sync from an accepted quotation, confirmation message.
*Interactions*: `quotationService.acceptQuotation` calls
`syncBookingForQuotation`; a booking that becomes Booked sends a confirmation
through e-mail and WhatsApp and generates expenses from its template.
*Hard*: a payment is a transaction with a row lock, an update is not: it reads
the row, decides, and writes every column back. *Correct when*: the derived
amounts agree; `paid` is the advance plus the ledger; the timeline explains the
status; Completed was Booked; nothing archived comes back by accident; every
request is answered.

**Subscription billing** — `paymentService.js`, `paymentRepository.js`,
`paymentController.js`, `planRepository.setTenantPlan`, `planCatalog.js`.
*State*: `payments` (status, payment id), the tenant's `plan_id`,
`plan_expires_at`, suspended and paused flags. *Operations*: open an order,
verify from the browser, four Razorpay webhooks, the super admin's update.
*Interactions*: Razorpay delivers at least once in any order; the browser may
never come back. *Hard*: three notifications of one payment run the same
handler, side by side. *Correct when*: a plan is only granted against money; a
better running plan is never replaced by a lower one; renewing keeps the days
left; every payment is honoured, once.

**Trip reminders** — `reminderService.js`, `jobs/cronJobs.js`,
`bookingRepository.claimReminder/finishReminder`.
*State*: `bookings.reminders_sent`, a JSON list of claims and outcomes.
*Operations*: the daily job, a manual send, claim, send on two channels, record.
*Hard*: restarts and second instances run the job again; a send fails on one
channel, or fails for the caller only; a claim must not block the day.
*Correct when*: no automated reminder is sent twice for a type and day; the list
tells what happened; every claim is resolved.

**WhatsApp key store** — `whatsappAuthState.js`, `whatsappAuthRepository.js`,
and the flush in `whatsappWebService.shutdownAllSessions`.
*State*: a Map of Signal keys, two queues, a 200 ms timer, a batch under way, the
rows of `whatsapp_auth_state`. *Operations*: set or delete keys, flush, save
credentials, shutdown, load. *Hard*: writes during a flush, failures between its
two statements, shutdown and crash at any point. *Correct when*: no update is
dropped while the process lives, an old value never overwrites a newer one, a
failed batch is tried again, an orderly shutdown loses nothing.

**Leads and their conversion** — `leadService.js`, `leadRepository.js`, and the
writers of `leads.assigned_to` in `whatsappWebRepository.js` and
`userRepository.js`.
*State*: the row of `leads` (stage, owner, `converted_booking_id`, `deleted`), its
timeline. *Operations*: claim from the pool, update, stage change, soft delete,
convert, assign. *Interactions*: `convertToBooking` calls `createBooking`; the
inbox assigns a chat's lead with the chat. *Hard*: a claim is one conditional
UPDATE, everything else reads the row and writes all of it back. *Correct when*:
a claim that was granted lasts; a lead names a booking that was made from it, and
one only; the timeline tells of the stage. Lead creation (duplicate check) and
imports are left out.

**WhatsApp Web session** — `whatsappWebService.js` (`initWhatsAppSession`, its
`connection.update` and `creds.update` handlers, `disconnectSession`,
`sendManualMessage`'s resume, `autoInitConnectedSessions`, `getSessionStatus`),
`whatsappWebRepository.js`.
*State*: `activeSockets`, the sockets, the reconnect timers, the row of
`whatsapp_sessions`, the stored login. *Operations*: connect, resume, redial,
disconnect, the QR code, a scan, open, each reason of a close, restart.
*Hard*: a socket is put in the map several awaits after it was decided to open
it; handlers are awaited by nobody, so their writes of the status cross; the
handler of an old socket acts on the entry of a new one. *Correct when*: a live
socket is the one the map names; at rest the status says what is so; a
disconnected session stays so; nothing dials for ever.

**WhatsApp inbox and the AI's answers** — `whatsappWebhookService.js`,
`whatsappWebService.processInboundMessage` and `sendAiCatchUpMessage`,
`whatsappAiPolicy.js`, `aiUsageService.js`, `whatsappSendService.js` and their
repositories.
*State*: the chat's row (`ai_enabled`, `needs_human`, `opted_out`), its messages,
the AI actions of the month, `inFlight` in memory. *Operations*: a batch from
Meta, a message from the linked phone, STOP, claim, generate, send, hand over,
take over, switch on with its catch-up, switch off. *Hard*: deliveries repeat and
meet; a burst of messages must get one answer; the verdict whether to answer is
read long before the answer is sent. *Correct when*: one job writes at a time;
nothing is answered twice; what was acknowledged is stored; messages that came
after STOP or a takeover start no reply; a burst is answered whole; the lock is
given up.

**Itineraries and group departures** — `quotationService.js`, `batchService.js`
and their repositories, with `updateBooking` and `softDeleteBooking`.
*State*: one itinerary's row, the bookings made from it, a departure's row and
`bookings.batch_id`. *Operations*: accept, edit, delete; create, edit (its
capacity too) and archive a departure; link and unlink; the booking form, which
makes bookings of an itinerary and seats them without a look at the seats. *Hard*:
look up, then create; count, then delete; count seats, then assign. *Correct
when*: an acceptance makes no second booking, and an accepted itinerary has one;
one that is used is not deleted; `linkBooking` overbooks nobody.

**The session of a browser** — `frontend/src/services/api.js`, `useAuth.jsx`,
`authController.js`, `tokenService.js`, `refreshTokenRepository.js`,
`authMiddleware.js`.
*State*: the pair of tokens in `localStorage`, each tab's `refreshPromise`, the
Web Lock, the rows of `refresh_tokens`. *Operations*: a request, its 401, the
refresh and its rotation, the request again, sign-out, sign-in (over a session
too), expiry, and the `/auth/me` of a page that loads, which forgets the tokens
when it is refused. *Hard*: tabs race with one single-use token; an answer is lost
after the server spent the token; the user signs out beside a refresh. *Correct
when*: a token is traded once; users are not signed out without reason; the server
knows the token the browser holds, and no other but those that were let go without
telling it; every request is answered.

### Not modelled

| Component | Why |
|---|---|
| Limits of a plan on members and bookings (`planService.js`, `userService.js`) | the count and the insert are two statements that nothing relates; there is no protocol to check, only the race itself, which is listed as a hazard |
| The turn of the month in `aiUsageService.js` | the allowance of `WhatsAppInbox` is one month's; a refund looks up the month it is made in |
| Team members, customers | rows edited one request at a time, apart from the races of the kinds already shown on bookings and leads |
| Broadcasts (`broadcastService.js`, `whatsappRateLimiter.js`) | one request sends to its recipients in a loop and logs them when it is done, so that a stop loses the log; the pacing of concurrent sends is in the plan |
| Instagram direct messages | the pipeline of the inbox over another API |
| Lead creation and imports, vouchers, expenses, CSV | sequential, or a check-then-insert like the ones modelled |
| Delivery statuses of messages, the 24 hour window, media | they change no state that the properties are about |
| Database access (`config/db.js`), migrations | the pool and `withTransaction` are the contract the transactions of `BookingLedger` assume |
| AI prompts and travel data, e-mail, PDF, storage | calls of services with no state of their own: in the models a call succeeds or fails |
| `AdminBE` beyond the update of a plan | one query per request |
| The user interfaces (`frontend` beyond its session, `AdminFE`, `landing`) | they render what the API answers and keep no state beyond a page. They are most of the repository's lines, and so are rendering, prompts and queries for lists: the lines that decide something beside another actor are few |

## 2. The modules

| Module | Role |
|---|---|
| `BookingLedger` | one booking, its ledger, its timeline and the requests that change it |
| `MCBookingLedger` | values for its constants |
| `BookingAccount` | abstract: what the money side of a booking promises |
| `BookingLedgerProofs` | theorems of `BookingLedger`, and that it implements `BookingAccount` |
| `SubscriptionBilling`, `MCSubscriptionBilling`, `SubscriptionBillingProofs` | one tenant's plan, orders, webhooks, handlers; bounds; theorems |
| `Reminders`, `RemindersProofs` | one booking's `reminders_sent` and the runs that claim in it; theorems |
| `WriteBehind` | abstract: what a write-behind store of versioned values promises |
| `AuthKeyStore` | the key store of one linked account |
| `LeadLifecycle`, `MCLeadLifecycle`, `LeadLifecycleProofs` | one lead and the requests that claim, edit, delete and convert it; bounds; theorems |
| `WhatsAppSession` | one account's sockets, map entry, timers, status and login |
| `WhatsAppLoginProofs` | theorems of `AuthKeyStore`, that it implements `WriteBehind`, and theorems of `WhatsAppSession` |
| `WhatsAppInbox`, `WhatsAppInboxProofs` | one chat, the jobs that store and answer its messages, the AI's allowance; theorems |
| `GroupTour`, `GroupTourProofs`, `MCGroupTour` | composes one itinerary, its bookings and one departure; theorems; bounds |
| `SessionRefresh`, `SessionRefreshProofs` | composes the tabs of a browser and the server's tokens; theorems |

How state and actions follow the code (the `map` in `PROJECT.json` has the lines):

*BookingLedger.* A request is a name with a `pc` and the locals its handler
holds (`seen`, `edit`, `amount`, `target`). A handler is cut at its awaits, one
action per query: `BeginAdd`/`CommitAdd` and `BeginRemove`/`CommitRemove` are the
two transactions (the `SELECT ... FOR UPDATE`, then the writes and COMMIT, which
become visible together); `BeginEdit`/`WriteEdit`/`AfterWriteEdit`/`Confirm` are
`updateBooking`; `BeginSync`/`ContinueSync` are `syncBookingForQuotation`, which
reads, and then calls `updateBooking`, which reads again. `Rollback` is a failed
transaction, `Die` a handler that throws or a process that stops. An UPDATE
outside a transaction waits for the row lock. Payments are named by the request
that added them. Left out: expenses, batch, the link to a chat, payment method
and note.

*BookingAccount* is what the same looks like from outside: an account with one
balance, that a payment (`Receive`) or its removal (`GiveBack`) moves in one step
by the balance of that moment, with no lock and no order of queries. An edit is
the exception: a draft of the account, taken (`TakeEdit`, `TakeRevival`) and put
(`Put`) at a later moment, or dropped. `BookingLedger` gives it the row as
`Statement(booking)`, the ledger as it is, and as `Draft(r)` what a request that
read the row, and has not written it, is about to put back.

*SubscriptionBilling.* `mail` holds what Razorpay and the browser still owe the
backend; a webhook leaves it when it is answered 200 and stays (`SendAgain`)
when the handler fails or its answer is lost. `completePaymentAndUpgrade` is
three steps: `Judge` (row, entitlement, guard), `RecordSuccess`, `Grant`; any
number of handlers are between them. Time is months. Left out: amounts,
signatures as data (`badVerify` is a callback whose signature is wrong), the
super admin's other updates, and usage. A refund is opened (`refund.created`) before
it is paid out (`refund.processed`), and either event marks the row. A trial
without an expiry date (`Undated`) ends a month after it began, any other plan
without one never; a payment gives it a date. A row
without `plan_id`, for which `paymentService.js:138` takes the request's, is not
modelled: every order writes one.

*Reminders.* A run is one pass of the daily job over the booking, or one manual
send. `List`/`Ask`, `Load`, `Claim` (one UPDATE), `Send` per channel, `Finish`.
A send may fail, or succeed and be reported failed (`doubted`). The booking is
read as an arbitrary value, since payments and edits may change it at any time.

*AuthKeyStore.* Its names say "Store" where `WhatsAppSession` has the same one, so
that one module can reason about both. A value is its version: the n-th `keys.set` of a key makes n, be
it a value or a deletion. `Set`, `TimerFires`, `Deleted`, `Written`, `FlushFails`
are `flush` and its timer; the statement that failed may have been done. `Load`
is a new process. Left out: import from disk, `clearAuthState`, two processes
on one account, and the store that a redial in the same process loads
(`whatsappWebService.js:283`) while the one before it may still hold keys: the
properties are about one store at a time.

*LeadLifecycle.* As in `BookingLedger` a request runs one handler, cut at its
awaits: `Claim` and `Assign` are one UPDATE each; `BeginUpdate`/`WriteUpdate`/
`LogStage` are `updateLead`, which the stage change and the soft delete call;
`BeginConvert`/`Book`/`Link`/`LogConversion` are `convertToBooking`. `overwrote`
and `moved` are history: that some handler put back a row that had changed since
it was read, and that somebody gave the lead away. A booking is named by the
request that made it. Left out: contact details, creation, the linked chat.

*WhatsAppSession.* A call is `initWhatsAppSession` or `disconnectSession`, cut at
its awaits (`StartInit`, `EndOld`, `JudgePairing`, `ClearStored`, `LoadAuth`,
`OpenSocket`; `Disconnect`, `LoggedOutNow`, `Forget`, `MarkOut`). The handler of a
socket runs to its first await when its event arrives (`QrArrives`, `Opens`,
`CloseReplaced`, `CloseLoggedOut`, `CloseUnscanned`, `CloseRedialling`); what it
awaits is a task, in any order with the others. A reconnect timer that fires is a
call. `RivalOpens` is another client, or a second instance, that takes the
account. `crowded`, `crossed`, `lateQr`, `failed` name the races that the
properties leave out; each names one way the code really goes wrong. They are
strong exceptions: `MapNamesSocket` is about calls that do not overlap, and
`DisconnectSticks` about a session with nothing under way when it is disconnected,
so a redial or a late save beside them is documented here and not caught.

*WhatsAppInbox.* A job is a delivery, a catch-up or a person's reply, cut at its
awaits: `Check`, `Save`, `Insert` (Meta), `InsertWeb` (linked phone), `OptOut`,
`Judge` (`canAiReply`), `Consume` (claim and allowance), `Prompt`, `Generate`,
`HandOver`, `Record`. `inFlight` dies with the process. A batch goes on with its next
message when one ends, in whatever way. What a reply covers is what its prompt
holds: `Prompt` reads the history of the chat, by `message_timestamp` (its LIMIT of
20 is not reached). That query may fail, which is only logged
(`aiService.js:796-800`); then the prompt is about the message itself or, after a
webhook, about the rows of `listRecentInboundMessages`, any of them, since it orders
by an id that is a random UUID (`db.js:750`), and what is in no prompt is `unread`.
`forPeople`, `joined`, `covered`, `unread` and `replies` are history. Texts do not
exist: the model's answer is any of none, an answer, a hand-over.

*GroupTour.* The requests of `BookingLedger`, seen from the other side: which
bookings there are, live or archived, booked or cancelled, linked or not; amounts
are left out. `Enter` is the booking form and a converted lead: a booking of any
itinerary on any departure. `updateBooking` writes back every column, so that an
edit may undo a link or an archiving, and what the form says may set the itinerary
and the departure (`EditBooking`). `Accept` and `Begin` lead through
`syncBookingForQuotation` to the status, which is written last; an itinerary may be
entered with any status (`Init`). `EditTour` may change the capacity. The two
counts before a deletion are two queries, in either order (`CountUses`).
`overlap`, `again`, `detached`, `late` and `checked` are history: a booking came
while an acceptance made one; an acceptance made one more; the itinerary was entered
as accepted or the form took a booking from it; a use appeared after its count; and
the bookings that were linked on free seats and took no more since.

*SessionRefresh.* A tab is a process whose steps between two awaits are one
action; `queue` is the Web Lock's, or, in a browser without one, the calls that
are let in at once. A call is a process of the server (`Find`, `Revoke`, `Issue`)
that goes on when its tab is gone. The n-th pair of tokens is named n. Any request
may be the `/auth/me` of a page that loads: refused twice it signs the user out
(`signedOut`, `useAuth.jsx:27-33`). `Login` does not ask whether somebody is signed
in, as the code does not. `dropped` is history: refresh tokens that such a sign-in,
or such a `/auth/me`, let go without telling the server. Left out: impersonation,
the access token alone that a purchase is answered with, and `/auth/me` after a
sign-in with Google, which forgets the tokens on any error.

## 3. What the runs show

| Run | Checks | Bounds |
|---|---|---|
| `booking_ledger` | `HistoryExplainsStatus`, `CompletedWasBooked`, `OnlyStaleEditsUnbalance`, `OnlySyncOrStaleRevives`, `ImplementsAccount`, `Answered` | 4 requests, one of which creates; one amount, one price change, three statuses, archiving |
| `subscription_billing` | `PlanIsPaidFor`, `StatusNeverAhead`, `DowngradeOnlyByRace`, `RenewalKeepsDays`, `PaidIsHonoured` | 2 orders for different plans, 2 handlers, 2 incidents |
| `subscription_one_month` (violation) | `OneMonthPerPayment` | the same, `order.paid` subscribed too |
| `reminders` | `NoDoubleReminder`, `RecordTruthful`, `NoRepeat`, `ClaimResolved` | 2 automated runs, 1 manual, 2 days, 2 incidents |
| `auth_keys` | `NothingForgotten`, `TidyShutdown`, `ImplementsWriteBehind`, `Retried` | 2 keys, 2 versions, 2 incidents, 1 save of credentials |
| `leads` | `ClaimKept`, `LinkIsBooked`, `OneBooking`, `TimelineTellsStage` | 4 requests (one handler each), 2 members, 3 stages |
| `whatsapp_session` | `MapNamesSocket`, `RestIsReported`, `DisconnectSticks`, `DialsEnd` | 3 sockets and 2 calls at a time, 2 requests, 1 incident |
| `whatsapp_newest` (violation) | `NewestIsKept` | the same, no incident |
| `whatsapp_inbox` | `OneWriter`, `AnsweredOnce`, `AckedIsStored`, `ForPeopleStartsNone`, `BurstAnswered`, `WriterFinishes` | 3 messages (one STOP, one by the linked phone), 2 jobs at a time, 2 deliveries, 2 acts of agents, 1 incident, 2 AI actions |
| `inbox_opted_out` (violation) | `OptOutStands` | the same, no incident |
| `group_tour` | `OneBookingEach`, `UsedIsKept`, `SeatsFit` | 3 requests, 1 more booking, parties of up to 2, departures of 1 or 2 seats |
| `session_refresh` | `SingleUse`, `SilentRefresh`, `ServerAgrees`, `Settles` | 2 tabs, 2 requests, 2 calls at a time, 4 pairs of tokens, 1 more sign-in, 2 sign-ins and sign-outs, 1 incident |

Types are part of the first invariant of the newer modules (`MapNamesSocket`,
`OneWriter`, `OneBookingEach`, `SingleUse`) and of `StatusNeverAhead`; for
bookings they are the theorem `TypeCorrect`. That the derived amounts of a booking
agree (`RowConsistent`) is part of every step of `ImplementsAccount`, and the
theorem `AmountsAgree`.

Why these bounds are enough. Three requests beside the creator are a stale
edit, the payment it erases and one that meets the result; two of them with an
archiving edit and a sync reach every way an archived booking comes back. Two
handlers on two orders for different plans are what the downgrade guard's race
needs, and two incidents allow a renewal in another month, a refund after a
failed attempt, or a failure and its redelivery. Two automated runs are the race
for a claim, the manual run the exception to it, the second day the slot that
must be free again. Two keys are a batch with a DELETE and an upsert, two
versions a key that is set again while its first version is in flight. Four
requests on a lead are two conversions, and a claim and an edit beside them.
Three sockets are an old one whose handlers still run, one that is being opened
and one that replaces it; two calls at a time are every race of `connect` with a
redial, a resume or a disconnect, and the redials that follow are not counted as
requests. Two jobs are a claim holder and one that joins or repeats it; two
deliveries bring up to four messages, so that a message comes twice or a batch
meets a single one. Three requests on an itinerary are two acceptances, or two
links, with an edit, a form or a deletion beside them; one seat or two against
parties of one or two make every overbooking possible, and a capacity that is
lowered. Two tabs with one request each race for the lock; four pairs allow both to
refresh and one to sign in again; two sign-ins and sign-outs are a session that is
left, in either way, and one that follows.
`MaxIncidents`, and `MaxFailures` in the key store, cap what is rare (failures,
stops, months, refunds, lost connections); `MaxVersion`, `MaxCreds`, `LastDay`, `MaxRequests`,
`MaxDeliveries`, `MaxLogins`, `MaxChanges`, `MaxPairs` and `Limit` cap counters; `Party`
bounds a booking; nothing else is bounded. The theorems of section 5 need none of these bounds.

Requests and members of a lead, and requests of `group_tour`, are told apart by
name only, so those runs use symmetry; they check no liveness.

Runs with `CHECK_DEADLOCK FALSE` are those in which everything may have been
asked and answered: nothing is left to do, and the system rests. The booking
model rests by an explicit step (`Rest`) instead, so a lock that is never given
up is reported as a deadlock there. The key store never stops (a process may
always be stopped and started, within its bounds, or answer what is under way).

### Disagreements found

Each of these is a run that TLC must find violated:

1. **One payment, several months** (`subscription_one_month`): every
   notification of a payment calls `setTenantPlan`.
2. **The newest connection is dropped from the map** (`whatsapp_newest`): the
   handler of a socket that was replaced deletes the account's entry
   (`whatsappWebService.js:350`), though it names the socket that replaced it.
   That one stays open; sends do not find it and nobody can disconnect it.
   `MapNamesSocket` says that it takes two overlapping calls.
3. **The catch-up does not ask for an opt-out** (`inbox_opted_out`): switching the
   AI on answers a customer who wrote STOP (`whatsappWebService.js:1043-1063`).
   A job that read the chat before the STOP may still send its reply;
   `ForPeopleStartsNone` says that what came after it starts none.

Others are stated by the properties that hold, which name them as the only
exception, or follow from one handler alone:

* **A payment can vanish from a booking.** `updateBooking` reads without a lock
  and writes `paid` back (`bookingService.js:95,122,131`); a payment that commits
  in between stays in the ledger and is gone from the booking.
  `bookingRepository.js:516-518` says that it cannot be. `OnlyStaleEditsUnbalance`
  says that this is the only way.
* **A refund may exceed what was paid**: `deletePayment`
  (`bookingRepository.js:599`) lowers `paid` without looking at the refund,
  against `bookingService.js:110-112`.
* **A refused payment is not recorded**: the guard at `paymentService.js:155`
  returns before the row is updated, against the comment at 146-147.
* **Keys without a timer**: a timer that fires during a flush does nothing and is
  not set again (`whatsappAuthState.js:84,118`). `Retried` says that this is the
  only way an update waits for ever.
* **Credentials out of order**: two saves nobody awaits (`whatsappWebService.js:313`)
  may be done in the wrong order.
* **A deleted lead comes back**: `updateLead` writes `deleted` of the row it read,
  against `leadRepository.js:3-5`.
* **Two conversions of a lead at once** each make a booking. `OneBooking` excepts it
  under `overwrote`: the second link is a write over a row that had changed.
* **A booking is completed on a row that is no longer so**: `updateBooking` judges
  the row it read. `CompletedWasBooked` allows that; it says that the booking was
  Booked at some time, or created as Completed.
* **A row says refunded when the refund was only opened**
  (`paymentService.js:268`), and still says so when the refund fails: no event
  marks it again. `StatusNeverAhead` promises no more than that one was opened.
* **Two acceptances make two bookings** (`overlap` of `OneBookingEach`), as does an
  acceptance beside the booking form. **The form makes as many bookings of an
  itinerary as one likes**, and may take its booking away from an accepted one
  (`detached`; `bookingRepository.js:208,314`); an itinerary may be accepted from
  the start, without a booking (`quotationService.js:49-56`).
* **An itinerary is deleted while it comes into use** (`late` of `UsedIsKept`).
* **A departure is overbooked** by links that cross another change of its seats, by
  the booking form, which writes `batch_id` and `members` without a look at them, by
  a booking that is restored, and by a capacity that is lowered
  (`batchRepository.js:52`). Those aboard in one of these ways are not in `checked`;
  `SeatsFit` says that it takes one of them.
* **A reply without the burst**: when the history query fails the reply is sent all
  the same (`unread` of `BurstAnswered`). What comes while the model writes is
  left to nobody.
* **A session goes on after the user left it**: a sign-in over a session
  (`useAuth.jsx:39-46`), and a `/auth/me` that is refused twice, leave the old
  refresh token alive at the server (`dropped` of `ServerAgrees`). The second also
  signs the user out though nothing failed, when the new access token has expired
  before the request is repeated (`signedOut` of `SilentRefresh`).
* **A status that stays wrong**: two statuses written by handlers of the same
  account cross, or a QR code is drawn after its socket closed (`crossed` and
  `lateQr` of `RestIsReported`).
* **A reply lock that is not given up**: a webhook's job that fails between
  `claim` and its `try` keeps it until the process ends (`leaked` of `OneWriter`).
* **Any failure of a refresh signs the user out**, a lost connection too, against
  `api.js:98-100`: `SilentRefresh` is about runs without one. An answer that
  arrives after the user signed out is stored all the same (`crossed` of
  `ServerAgrees`).

## 4. Fairness

* `BookingLedger`: weak fairness of `Advance(r)` — an awaited query is answered
  in the end, unless the request's transaction is rolled back or the process
  stops. No request has to arrive.
* `SubscriptionBilling`: weak fairness of a started handler, and of delivering
  some webhook while any is owed: Razorpay repeats until it is answered 200.
  Nobody has to buy or come back from checkout; incidents are finite.
* `Reminders`: weak fairness of a started run. The daily job need not run.
* `AuthKeyStore`: weak fairness of the timer and of the two statements. Neither
  updates, nor saves, nor failures, shutdown and restart have to happen.
* `WhatsAppSession`: weak fairness of a call's next step, of a handler's task and
  of the reconnect timers: awaits are answered and timers fire. WhatsApp's events,
  scans and people's requests need not happen.
* `WhatsAppInbox`: weak fairness of a job's next step: queries, sends and the
  model answer, or fail. Nobody has to write.
* `SessionRefresh`: weak fairness of answers, of what a tab does next and of the
  server's next step of a call. The browser gives its lock to the first in the
  queue. Nothing expires or fails by necessity. That every call is answered is an
  assumption: `axios.post` sets no timeout, so a call that is never answered holds the
  lock for ever, and `Settles` does not cover it.
* `LeadLifecycle`, `GroupTour`: none; they have safety properties only.

None assumes strong fairness: no step that must happen competes for ever with
another that disables it.

## 5. What is proved

`tlapm` checks these for every value of the constants that satisfies the named
assumptions (`BookingConstants`, `BillingConstants`, `ReminderConstants`, `StoreConstants`,
`LeadConstants`, `RefreshConstants`, `TourConstants`, `InboxConstants`,
`SessionConstants`, which say that sets are finite, amounts are natural numbers and
model values are apart).

**Bookings** (`BookingLedgerProofs`): `TypeCorrect`, `AmountsAgree`
(`RowConsistent`), `OnlyStaleEdits` (`OnlyStaleEditsUnbalance`).
The row invariant is not inductive: a payment computes `remaining` from the
total it read. The strengthening adds `LockHeld` (a transaction owns the lock and
what it read is still the row), `HoldsRow`, `NothingBefore`, `CreatedOnce`,
`NotYetPaid`. For the balance, `Total` counts unit coins, so that a committed
payment adds, and a removed one takes away, a finite set of known cardinality: no
recursion and no induction over the ledger is needed.
The history is `HistoryKept`, with `StatusExplained` (`HistoryExplainsStatus`),
`CompletedEarned` (`CompletedWasBooked`) and, from the steps alone, `ArchivedStays`
(`OnlySyncOrStaleRevives`). Nothing is said of a row unless it is said of every
row a handler read, since that handler may write it back: the status of each is in
the timeline, is about to be, or its handler was cut short (`RowsReported`, with
`Explained`); an edit that completes a booking read one that may be completed
(`EditsJudged`); a confirmation comes after its entry (`LoggedFirst`).
`Implements` (`ImplementsAccount`) is the refinement: initial states map to initial
states, and each step to a step of `BookingAccount` or a stutter. The begin of a
transaction is a stutter and its COMMIT the whole step (`AddIsReceipt`,
`RemoveIsReversal`), because the balance it adds to is still the row's
(`LockHeld`); the read of an edit takes a draft (`ReadIsDraft`), its write puts it
(`WriteIsPut`), and a handler that refuses or dies drops it (`RefusedIsDrop`). It
needs one thing more than the other theorems, that a payment adds something
(`AddsSomething`), and it says more than they do: nothing but a receipt, a reversal
or a draft moves the balance, and a draft's balance is one the account had.
`LockGivenUp` says that the row lock belongs to a transaction under way.

**Billing** (`SubscriptionBillingProofs`): `PlanPaidFor` (`PlanIsPaidFor`), `RowsBehind`
(`StatusNeverAhead`), `DowngradesRace` (`DowngradeOnlyByRace`), `DaysKept`
(`RenewalKeepsDays`), from `Inductive`. The strengthening: a message that is still
owed, and the one a handler holds, tells what happened at Razorpay, which never
takes it back but by a refund (`MailTells`, `TasksTell`); and the entitlement a
handler read does not outrank the plan it is about to grant, now or later, since
time only takes entitlements away. So only a change between that read and the
write can make a grant a downgrade. A row is refunded when a refund of its payment
was opened, paid out or not (`RefundOpened`).
`PaymentsKept` says, if Razorpay sends `order.paid` or `payment.captured`, that a
payment has moved the tenant on, was set aside, or one of these webhooks is owed or
in the hands of a handler (`InMail`, `AtWork`): a handler that fails gives back
what it took.

**Reminders** (`RemindersProofs`): `RemindedOnce` (`NoDoubleReminder`),
`RecordIsTrue` (`RecordTruthful`), `NeverRepeated` (`NoRepeat`, from the same
invariant: the claim looks for what was sent in the statement that reserves). The
strengthening: a run that has not claimed
has no entry (`Unclaimed`), one that is sending holds a claim and knows of its
sends but the doubted (`HoldsClaim`), every message was claimed for
(`SentByClaim`), and one automated run at a time holds a slot (`OneHolder`),
which `Claim` keeps because check and reservation are one UPDATE.
`ClaimsOwned` says that a reservation is about to be resolved unless its run was
cut short.

**Key store** (`WhatsAppLoginProofs`): `ForgetsNothing` (`NothingForgotten`),
`LosesNothing` (`TidyShutdown`), `Implements` (`ImplementsWriteBehind`: initial
states map to initial states, each step to a step of `WriteBehind` or a
stutter). The strengthening: what is queued for a key is its latest version and
what a flush took lies between the table and that version (`Ordered`); by the
time a flush writes, its deletions are done (`DeletedFirst`: without it a key
deleted and written in one failed flush could be forgotten); no batch is held
between flushes (`HoldsNothing`); a tidy shutdown leaves the queues empty
(`TidyQueues`). All of it is the invariant `StoreInv`.
`KeepsTrying` says that what the table lacks has a flush or a timer coming
(`QueueIsTimed`), but for the timer that fired during a flush.

**WhatsApp Web session** (`WhatsAppLoginProofs` too): `OneSocket` (`MapNamesSocket`),
`RestReported` (`RestIsReported`), `DisconnectLasts` (`DisconnectSticks`), from
`SessionInductive`. The strengthening: while no call was begun beside anything
else there is one call, it opens a socket only when none is live, and no handler
that is still to touch the map can hide the live one (`Uncrowded`); the map names
a dead socket only while the handler that forgets its login is under way
(`EntryLives`); a lost connection has a timer, a call or a socket to come back
with (`LostComesBack`: a timer that finds a socket does nothing, and `EntryLives`
is why that socket lives); statuses that do not cross are one status
(`OneStatus`), so that once nothing goes on the last one written says
disconnected (`EndIsTold`); and after a quiet disconnect there is one call, whose
socket cannot dial, and nothing saves a login once that call has deleted it
(`OutStays`). `TypeOK` alone is not inductive: a logout needs the socket it was
begun with (`Shapes`). The proof of `RestReported` shows more than the property
says: that a lost connection has been dialled again does not depend on a login
being stored.

**Leads** (`LeadLifecycleProofs`): `ClaimLasts` (`ClaimKept`),
`LinkNamesABooking` (`LinkIsBooked`), `OneBookingEach` (`OneBooking`),
`TimelineTells` (`TimelineTellsStage`, by `StagesTold`: the stage of the lead, and
of every row a handler read, is told, about to be, or was cut short). The other
strengthening: the row a handler read named a booking that exists
(`SeenLinkIsBooked`, so that writing it back leaves no dangling link), a
conversion read a lead without a booking and has made one before it links
(`Converting`), and a booking the lead does not name is on its way, was cut short
or was overwritten (`Accounted`: when a conversion links, a lead that names
another booking by then is not the one it read).

**The session of a browser** (`SessionRefreshProofs`): `TradedOnce` (`SingleUse`),
`ServerKnows` (`ServerAgrees`), `RefreshUnnoticed` (`SilentRefresh`).
That no token is traded twice without two calls that had it at once is not
inductive: the strengthening says that tokens and calls are about pairs that were
issued (`Issued`), that a token about to be traded is revoked (`Dying`), and, as
long as no two calls met, that each call has its token to itself and a live token
was never traded (`Apart`). That calls never meet in a browser with Web Locks, as
long as nothing fails, is `Locked`: there is one call, and it belongs to the tab
at the head of the queue (`OneCall`).
The other two need `SessionsKept`. As long as no sign-in or sign-out crosses a
refresh, what is stored and what is traded for it is of one session
(`OneSession`). As long as nothing fails either, there is one refresh at a time, the
server finds its token and refuses none, and that token is the stored one unless it
was let go meanwhile (`Trading`); what lives is the stored token, the pair that is on
its way, what was let go without telling the server, and what a sign-out is about to
revoke (`Accounted`); and a tab that gives up finds another tab's pair, or nothing
stored, because pairs are numbered upwards and a new one is new to every tab
(`Rescues`). The first session goes on until a `/auth/me` is refused twice: before
that no tab gives up, and a request that is sent again carries the token of a
refresh, so that one that is refused saw a new token expire (`Forward`).
That what was let go stays so, and a refusal is not taken back, are lemmas
(`DroppedGrows`, `RefusedStays`). `TabsGo`, `RequestsGo` and `CallsGo` say once what
any step makes of a tab, a request or a call.
`NobodyStuck` says that tabs never wait in a circle. Its invariant, `Waits`: a tab
that posts has one call under way, and every call that somebody waits for is such a
tab's (`Called`); the lock's queue holds the tabs that ask for the lock or have it,
each once (`Queued`); a request waits only for a refresh that was begun (`Begun`).
So the head of the queue may enter, or has a call that the server will answer.

**Itineraries and departures** (`GroupTourProofs`): `AcceptedIsBooked`
(`OneBookingEach`), `DeletedIsUnused` (`UsedIsKept`), `NotOverbooked`
(`SeatsFit`). The strengthening: a request that will write to a booking found it,
and writes it as one that is there, so that a write-back never takes a booking
away (`Targets`); while the form took none away, an itinerary without bookings is
not accepted and nobody is about to write that it is (`StatusLast`); unless a booking
came in between, one acceptance at a time creates, while there is none
(`OneCreates`); what a count has seen unused stays so (`DeletesUnused`); a link was
forced or fits the seats that were free when it looked (`SeesSeats`); and those who
were linked on free seats have them, whoever else is aboard (`SeatsHeld`: the
passengers of `checked` are no more than the capacity). Seats are the cardinality of the set of travellers who sit, so that
what a link adds is a finite set of known size and needs no induction.

**The inbox** (`WhatsAppInboxProofs`): `OneReplyAtATime` (`OneWriter`),
`DuplicatesUnanswered` (`AnsweredOnce`), `PeopleAnswer` (`ForPeopleStartsNone`),
`AckedStored` (`AckedIsStored`), `BurstIsAnswered` (`BurstAnswered`). The
strengthening: what a job holds fits where it is, and was delivered (`Sound`); a
lock that was lost has no writer (`LockHeld`); a chat with messages for people is
not the AI's, and no job of such a message read it when it was (`LeftAlone`: a
webhook reads the chat after its message came, never before); one job at most may still answer a
message, and only a stored one that nobody answered (`Once`, with `Pending`). Each
step changes one job, so `OneJob`, `Frame` and `FewerPending` carry the steps that
only move one. The last two theorems rest on `BurstKept`: a job past its save has
its message in the table (`JobsKept`); what was delivered is stored, cut short or
still in a job's hands (`Carried`); and what other jobs left to the holder of the
lock is stored before it reads the history, then in what its reply covers, then
covered, unless the history could not be read (`Burst`).

Only model-checked: every liveness property (`Answered`, `PaidIsHonoured`,
`ClaimResolved`, `Retried`, `DialsEnd`, `WriterFinishes`, `Settles`), which the
proof system cannot treat: it has no rule for fairness. What all but one of them
need of each state is proved, so that only the fairness of section 4 is left to
the runs:

| Checked | Proved | What it says |
|---|---|---|
| `Answered` | `LockGivenUp` | who waits for the row waits for a transaction under way |
| `PaidIsHonoured` | `PaymentsKept` | a payment is settled, or its webhook still owed or being handled |
| `ClaimResolved` | `ClaimsOwned` | a reservation has a run that is to resolve it |
| `Retried` | `KeepsTrying` | an update that is not stored has a flush or a timer |
| `WriterFinishes` | `OneReplyAtATime` | a reply lock that is taken has a writer, or was lost to a failure |
| `Settles` | `NobodyStuck` | who waits for a refresh waits for a tab that goes on |

`DialsEnd` says that something ends, and has no such half. The three runs that
expect a violation need no theorem: their counterexample is the result.

## 6. Plan

Modules: `SendPacing` (the token bucket of `whatsappRateLimiter.js`, whose waiters
go on without a token), the composition
of `WhatsAppSession` with `AuthKeyStore` (what an old store writes after
`clearAuthState`, and two processes during a deploy).
