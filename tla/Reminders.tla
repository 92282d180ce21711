----------------------------- MODULE Reminders -----------------------------
(***************************************************************************)
(* Trip and payment reminders of one booking: reminderService.deliver and  *)
(* the reminders_sent list it claims its sends in.                         *)
(*                                                                         *)
(* An automated run is one pass of runDailyRemindersCron over the booking: *)
(* a restart or a second instance makes several of them on one day. A      *)
(* manual run is an agent pressing "send", which is forced. Runs work side *)
(* by side; each query and each send is a step of its own.                 *)
(*                                                                         *)
(* A run's claimId is the run itself. Texts, recipients, the timeline note *)
(* and the other bookings of the job are left out. Payments and edits      *)
(* change the booking at any time (BookingLedger), so each read of it may  *)
(* find it Booked or not, and paid or not.                                 *)
(***************************************************************************)
EXTENDS Naturals, FiniteSets

CONSTANTS
    AutoRuns,     \* passes of the daily job over this booking
    ManualRuns,   \* sends an agent asks for
    Contact,      \* channels the booking has a phone number or address for
    LastDay,      \* bound: the last day
    MaxIncidents  \* bound: failed sends and stops in all

Runs     == AutoRuns \cup ManualRuns
Types    == {"departure", "payment"}
Channels == {"whatsapp", "email"}

ASSUME ReminderConstants ==
    /\ Contact \subseteq Channels
    /\ AutoRuns \cap ManualRuns = {}
    /\ LastDay \in Nat /\ MaxIncidents \in Nat

VARIABLES
    today,        \* the date in India
    run,          \* what each run is doing
    reminders,    \* reminders_sent: the entry each run has in it
    delivered,    \* history: runs whose message reached the customer
    doubted,      \* history: runs told that a send failed that did not
    incidents     \* failed sends and stops so far

vars == <<today, run, reminders, delivered, doubted, incidents>>

NoEntry == [status |-> "none"]
Entry   == [type : Types, day : 0 .. LastDay, status : {"sending", "sent", "failed"}]
Steps   == {"idle", "listed", "loaded", "whatsapp", "email", "finish", "done", "stopped"}

\* A run's locals, before it starts and after it ends.
Locals(step) == [step |-> step, type |-> "payment", channels |-> {}, ok |-> {}]

TypeOK ==
    /\ today \in 0 .. LastDay
    /\ run \in [Runs -> [step : Steps, type : Types, channels : SUBSET Channels,
                         ok : SUBSET Channels]]
    /\ reminders \in [Runs -> Entry \cup {NoEntry}]
    /\ delivered \subseteq Runs /\ doubted \subseteq delivered
    /\ incidents \in 0 .. MaxIncidents

Init ==
    /\ today = 0
    /\ run = [r \in Runs |-> Locals("idle")]
    /\ reminders = [r \in Runs |-> NoEntry]
    /\ delivered = {} /\ doubted = {}
    /\ incidents = 0

----------------------------------------------------------------------------

At(r, step)   == run[r].step = step
Goto(r, step) == run' = [run EXCEPT ![r].step = step]
End(r, step)  == run' = [run EXCEPT ![r] = Locals(step)]
Incident      == incidents < MaxIncidents /\ incidents' = incidents + 1

\* Entries that keep an automated run from sending on a day.
BlockingSentOnly(type, day) ==                   \* mutant: 'sending' forgotten
    {r \in Runs : reminders[r] = [type |-> type, day |-> day, status |-> "sent"]}
Blocking(type, day) ==
    {r \in Runs : \E s \in {"sending", "sent"} :
        reminders[r] = [type |-> type, day |-> day, status |-> s]}

Begin(r, type, channels) ==
    /\ At(r, "idle")
    /\ run' = [run EXCEPT ![r] = [step |-> "listed", type |-> type,
                                  channels |-> channels, ok |-> {}]]
    /\ UNCHANGED <<today, reminders, delivered, doubted, incidents>>

\* getUpcomingDepartures or getPendingPaymentBookings lists the booking, if it is
\* Booked, not archived and, for the second, not paid.
List(r) ==
    /\ r \in AutoRuns
    /\ \E type \in Types : Begin(r, type, Contact)

\* sendReminder: an agent picks the channel, for any booking.
Ask(r) ==
    /\ r \in ManualRuns
    /\ \E type \in Types, channels \in SUBSET Contact : Begin(r, type, channels)

\* loadBooking; a payment reminder ends here when nothing remains to be paid.
Load(r) ==
    /\ At(r, "listed")
    /\ \/ Goto(r, "loaded")
       \/ run[r].type = "payment" /\ End(r, "done")
    /\ UNCHANGED <<today, reminders, delivered, doubted, incidents>>

\* claimReminder: the check and the reservation are one UPDATE.
Claim(r) ==
    /\ At(r, "loaded")
    /\ IF r \in ManualRuns \/ Blocking(run[r].type, today) = {}
         THEN /\ reminders' = [reminders EXCEPT ![r] =
                    [type |-> run[r].type, day |-> today, status |-> "sending"]]
              /\ Goto(r, "whatsapp")
         ELSE End(r, "done") /\ UNCHANGED reminders
    /\ UNCHANGED <<today, delivered, doubted, incidents>>

After(channel) == IF channel = "whatsapp" THEN "email" ELSE "finish"

\* One channel: skipped, sent, failed, or sent with the answer lost.
Send(r, channel) ==
    /\ At(r, channel)
    /\ \/ /\ channel \notin run[r].channels
          /\ Goto(r, After(channel))
          /\ UNCHANGED <<delivered, doubted, incidents>>
       \/ /\ channel \in run[r].channels
          /\ run' = [run EXCEPT ![r].step = After(channel), ![r].ok = @ \cup {channel}]
          /\ delivered' = delivered \cup {r}
          /\ UNCHANGED <<doubted, incidents>>
       \/ /\ channel \in run[r].channels
          /\ Incident
          /\ Goto(r, After(channel))
          /\ \/ UNCHANGED <<delivered, doubted>>
             \/ delivered' = delivered \cup {r} /\ doubted' = doubted \cup {r}
    /\ UNCHANGED <<today, reminders>>

OutcomeAllChannels(r) ==                         \* mutant: every channel must succeed
    IF run[r].ok = run[r].channels THEN "sent" ELSE "failed"
OutcomeClaimed(r) == "sent"                      \* mutant: outcome not looked at
Outcome(r) == IF run[r].ok # {} THEN "sent" ELSE "failed"

FinishOnSuccess(r) ==                            \* mutant: not in a finally block
    /\ At(r, "finish")
    /\ reminders' = IF run[r].ok = {} THEN reminders
                    ELSE [reminders EXCEPT ![r].status = Outcome(r)]
    /\ End(r, "done")
    /\ UNCHANGED <<today, delivered, doubted, incidents>>

\* finishReminder replaces the claim by its outcome.
Finish(r) ==
    /\ At(r, "finish")
    /\ reminders' = [reminders EXCEPT ![r].status = Outcome(r)]
    /\ End(r, "done")
    /\ UNCHANGED <<today, delivered, doubted, incidents>>

\* The process stops, or a query of the run fails.
Stop(r) ==
    /\ run[r].step \notin {"idle", "done", "stopped"}
    /\ End(r, "stopped")
    /\ Incident
    /\ UNCHANGED <<today, reminders, delivered, doubted>>

Midnight ==
    /\ today < LastDay
    /\ today' = today + 1
    /\ UNCHANGED <<run, reminders, delivered, doubted, incidents>>

----------------------------------------------------------------------------

Work(r) ==
    \/ Load(r) \/ Claim(r)
    \/ \E channel \in Channels : Send(r, channel)
    \/ Finish(r)

Next ==
    \/ \E r \in Runs : List(r) \/ Ask(r) \/ Work(r) \/ Stop(r)
    \/ Midnight

\* A run that has started goes on; none has to start, and nothing has to fail.
Spec == Init /\ [][Next]_vars /\ \A r \in Runs : WF_vars(Work(r))

----------------------------------------------------------------------------
(* Properties *)

SameSlot(a, b) == reminders[a].type = reminders[b].type /\ reminders[a].day = reminders[b].day

\* "Only one caller gets a row back": two automated runs do not both message the
\* customer about the same thing on the same day, unless one of them was told
\* its send had failed when it had not.
NoDoubleReminder ==
    \A a, b \in AutoRuns \cap delivered :
        a # b /\ SameSlot(a, b) => a \in doubted \/ b \in doubted

\* An automated run never repeats a message that already went out that day, by
\* hand or not, with the same exception.
NoRepeat ==
    [][\A a \in AutoRuns :
          reminders[a] = NoEntry /\ reminders'[a] # NoEntry =>
             \A b \in delivered \ doubted : ~SameSlot(a, b)']_vars

\* reminders_sent tells the truth: 'sent' means the customer has it, 'failed'
\* that nothing went out as far as anybody could know.
RecordTruthful ==
    \A r \in Runs :
        /\ reminders[r].status = "sent" => r \in delivered
        /\ reminders[r].status = "failed" /\ r \in delivered => r \in doubted

\* "Always resolved, so an unexpected error mid-send cannot leave the day blocked
\* by a reservation": a claim is resolved unless its run was cut short.
ClaimResolved ==
    \A r \in Runs :
        reminders[r].status = "sending" ~>
            reminders[r].status # "sending" \/ At(r, "stopped")
=============================================================================
