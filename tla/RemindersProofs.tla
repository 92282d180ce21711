-------------------------- MODULE RemindersProofs --------------------------
(***************************************************************************)
(* That no number of automated runs reminds a customer twice, for any set  *)
(* of runs, days and failures, checked by the TLA+ proof system.           *)
(***************************************************************************)
EXTENDS Reminders, TLAPS

Before  == {"idle", "listed", "loaded"}
Sending == {"whatsapp", "email", "finish"}

\* A run that has not claimed has no entry and has sent nothing.
Unclaimed ==
    \A r \in Runs : run[r].step \in Before => reminders[r] = NoEntry /\ run[r].ok = {}

\* A run that is sending holds a claim, and knows of every send but a doubted one.
HoldsClaim ==
    \A r \in Runs :
        run[r].step \in Sending =>
            /\ reminders[r] # NoEntry /\ reminders[r].status = "sending"
            /\ run[r].ok # {} => r \in delivered
            /\ run[r].ok = {} /\ r \in delivered => r \in doubted

\* Only runs that claimed have sent anything.
SentByClaim == \A r \in delivered : reminders[r] # NoEntry

Holds(r) == reminders[r] # NoEntry /\ reminders[r].status \in {"sending", "sent"}

\* One automated run at a time holds the slot of a type and a day.
OneHolder ==
    \A a, b \in AutoRuns : Holds(a) /\ Holds(b) /\ SameSlot(a, b) => a = b

IInv ==
    /\ TypeOK /\ RecordTruthful
    /\ Unclaimed /\ HoldsClaim /\ SentByClaim /\ OneHolder

----------------------------------------------------------------------------

\* The initial states satisfy the inductive invariant.
LEMMA IInvInit == Init => IInv
<1> SUFFICES ASSUME Init
             PROVE  IInv
  OBVIOUS
<1>1. TypeOK
  BY ReminderConstants DEF Init, TypeOK, Locals, Steps, Types
<1>2. NoEntry.status = "none" /\ Locals("idle").step = "idle" /\ Locals("idle").ok = {}
  BY DEF NoEntry, Locals
<1>3. RecordTruthful /\ SentByClaim /\ OneHolder
  BY <1>2 DEF Init, RecordTruthful, SentByClaim, OneHolder, Holds, Runs
<1>4. Unclaimed /\ HoldsClaim
  BY <1>2 DEF Init, Unclaimed, HoldsClaim, Sending
<1> QED
  BY <1>1, <1>3, <1>4 DEF IInv

\* Steps that touch neither an entry nor a message: a run that has not claimed
\* moves on, ends, or is cut short; so may one that is sending be.
LEMMA QuietStep ==
    ASSUME IInv, NEW r \in Runs, UNCHANGED <<today, reminders, delivered, doubted>>,
           NEW l \in [step : Steps, type : Types, channels : SUBSET Channels,
                      ok : SUBSET Channels],
           run' = [run EXCEPT ![r] = l], incidents' \in 0 .. MaxIncidents,
           l.step \in Before => run[r].step \in Before /\ l.ok = {},
           l.step \notin Sending
    PROVE  IInv'
<1>1. TypeOK'
  BY DEF IInv, TypeOK
<1>2. RecordTruthful' /\ SentByClaim' /\ OneHolder'
  BY DEF IInv, RecordTruthful, SentByClaim, OneHolder, Holds, SameSlot
<1>3. \A q \in Runs : run'[q] = IF q = r THEN l ELSE run[q]
  BY DEF IInv, TypeOK
<1>4. Unclaimed' /\ HoldsClaim'
  BY <1>3 DEF IInv, Unclaimed, HoldsClaim
<1> QED
  BY <1>1, <1>2, <1>4 DEF IInv

\* Every step keeps the inductive invariant.
LEMMA IInvNext == IInv /\ [Next]_vars => IInv'
<1> SUFFICES ASSUME IInv, [Next]_vars
             PROVE  IInv'
  OBVIOUS
<1> USE ReminderConstants
<1>0. TypeOK
  BY DEF IInv
<1>a. \A step \in Steps : Locals(step) \in [step : Steps, type : Types,
                              channels : SUBSET Channels, ok : SUBSET Channels]
  BY DEF Locals, Types
<1>1. ASSUME NEW r \in Runs, NEW type \in Types, NEW channels \in SUBSET Contact,
             Begin(r, type, channels)
      PROVE  IInv'
  <2> DEFINE l == [step |-> "listed", type |-> type, channels |-> channels, ok |-> {}]
  <2>1. l \in [step : Steps, type : Types, channels : SUBSET Channels,
               ok : SUBSET Channels] /\ l.step = "listed" /\ l.ok = {}
    BY DEF Steps
  <2>2. run' = [run EXCEPT ![r] = l] /\ run[r].step = "idle"
    BY <1>1 DEF Begin, At
  <2> HIDE DEF l
  <2> QED
    BY <1>0, <1>1, <2>1, <2>2, QuietStep DEF Begin, TypeOK, Before, Sending
<1>2. ASSUME NEW r \in Runs, Load(r)
      PROVE  IInv'
  <2>1. CASE Goto(r, "loaded")
    <3> DEFINE l == [run[r] EXCEPT !.step = "loaded"]
    <3>1. l \in [step : Steps, type : Types, channels : SUBSET Channels,
                 ok : SUBSET Channels] /\ l.step = "loaded" /\ l.ok = run[r].ok
      BY <1>0 DEF TypeOK, Steps
    <3>2. run' = [run EXCEPT ![r] = l] /\ run[r].step = "listed"
      BY <1>0, <1>2, <2>1 DEF Load, At, Goto, TypeOK
    <3> HIDE DEF l
    <3>3. run[r].ok = {}
      BY <3>2 DEF IInv, Unclaimed, Before
    <3> QED
      BY <1>0, <1>2, <3>1, <3>2, <3>3, QuietStep DEF Load, TypeOK, Before, Sending
  <2>2. CASE End(r, "done")
    BY <1>0, <1>a, <1>2, <2>2, QuietStep
    DEF Load, End, TypeOK, Before, Sending, Steps, Locals
  <2> QED
    BY <1>2, <2>1, <2>2 DEF Load
<1>3. ASSUME NEW r \in Runs, Claim(r)
      PROVE  IInv'
  <2> DEFINE e == [type |-> run[r].type, day |-> today, status |-> "sending"]
  <2>1. /\ run[r].step = "loaded" /\ run[r].ok = {}
        /\ reminders[r] = NoEntry /\ r \notin delivered
    BY <1>3 DEF Claim, At, IInv, Unclaimed, SentByClaim, Before
  <2>2. CASE End(r, "done") /\ UNCHANGED reminders
    BY <1>0, <1>a, <1>3, <2>2, QuietStep
    DEF Claim, End, TypeOK, Before, Sending, Steps, Locals
  <2>3. CASE /\ r \in ManualRuns \/ Blocking(run[r].type, today) = {}
             /\ reminders' = [reminders EXCEPT ![r] = e]
             /\ Goto(r, "whatsapp")
    <3>1. /\ e \in Entry /\ e # NoEntry
          /\ e.status = "sending" /\ e.type = run[r].type /\ e.day = today
      BY <1>0 DEF TypeOK, Entry, NoEntry
    <3> HIDE DEF e
    <3>2. /\ \A q \in Runs : reminders'[q] = IF q = r THEN e ELSE reminders[q]
          /\ \A q \in Runs \ {r} : run'[q] = run[q]
          /\ run'[r] = [run[r] EXCEPT !.step = "whatsapp"]
          /\ UNCHANGED <<today, delivered, doubted, incidents>>
      BY <1>0, <1>3, <2>3 DEF TypeOK, Goto, Claim
    <3>3. TypeOK'
      BY <1>0, <2>3, <3>1, <3>2 DEF TypeOK, Goto, Steps
    <3>4. RecordTruthful' /\ SentByClaim'
      BY <1>0, <2>1, <3>1, <3>2 DEF IInv, TypeOK, RecordTruthful, SentByClaim
    <3>5. run'[r].step = "whatsapp" /\ run'[r].ok = {}
      BY <1>0, <2>1, <3>2 DEF TypeOK
    <3>6. Unclaimed'
      BY <3>2, <3>5 DEF IInv, Unclaimed, Before
    <3>7. HoldsClaim'
      BY <2>1, <3>1, <3>2, <3>5 DEF IInv, HoldsClaim
    <3>8. ASSUME NEW q \in AutoRuns \ {r}, r \in AutoRuns, Holds(q)
          PROVE  ~(reminders[q].type = e.type /\ reminders[q].day = e.day)
      BY <1>0, <2>3, <3>1, <3>8 DEF Blocking, Holds, TypeOK, Entry, Runs
    <3>9. OneHolder'
      BY <3>2, <3>8 DEF IInv, OneHolder, Holds, SameSlot, Runs
    <3> QED
      BY <3>3, <3>4, <3>6, <3>7, <3>9 DEF IInv
  <2> QED
    BY <1>3, <2>2, <2>3 DEF Claim
<1>4. ASSUME NEW r \in Runs, NEW channel \in Channels, Send(r, channel)
      PROVE  IInv'
  <2>1. run[r].step \in Sending /\ reminders[r] # NoEntry
    BY <1>4 DEF Send, At, Channels, Sending, IInv, HoldsClaim
  <2>2. After(channel) \in Sending /\ After(channel) \notin Before
        /\ After(channel) \in Steps
    BY DEF After, Sending, Before, Steps
  <2>3. /\ \A q \in Runs \ {r} : run'[q] = run[q]
        /\ run'[r].step = After(channel)
        /\ run' \in [Runs -> [step : Steps, type : Types, channels : SUBSET Channels,
                              ok : SUBSET Channels]]
    BY <1>0, <1>4, <2>2 DEF Send, Goto, TypeOK
  <2>4. /\ UNCHANGED <<today, reminders>>
        /\ delivered' \in {delivered, delivered \cup {r}}
        /\ doubted' \in {doubted, doubted \cup {r}} /\ doubted' \subseteq delivered'
        /\ incidents' \in 0 .. MaxIncidents
    BY <1>0, <1>4 DEF Send, Incident, TypeOK
  <2>5. TypeOK'
    BY <1>0, <2>3, <2>4 DEF TypeOK
  <2>6. /\ run'[r].ok # {} => r \in delivered'
        /\ run'[r].ok = {} /\ r \in delivered' => r \in doubted'
    <3>1. /\ run[r].ok # {} => r \in delivered
          /\ run[r].ok = {} /\ r \in delivered => r \in doubted
      BY <2>1 DEF IInv, HoldsClaim
    <3> QED
      BY <1>0, <1>4, <3>1 DEF Send, Goto, TypeOK
  <2>7. Unclaimed' /\ HoldsClaim'
    BY <2>1, <2>2, <2>3, <2>4, <2>6 DEF IInv, Unclaimed, HoldsClaim
  <2>8. RecordTruthful' /\ SentByClaim' /\ OneHolder'
    BY <2>1, <2>4 DEF IInv, RecordTruthful, SentByClaim, OneHolder, Holds, SameSlot,
                      HoldsClaim
  <2> QED
    BY <2>5, <2>7, <2>8 DEF IInv
<1>5. ASSUME NEW r \in Runs, Finish(r)
      PROVE  IInv'
  <2>1. /\ reminders[r] \in Entry /\ reminders[r].status = "sending"
        /\ run[r].ok # {} => r \in delivered
        /\ run[r].ok = {} /\ r \in delivered => r \in doubted
    BY <1>0, <1>5 DEF Finish, At, Sending, IInv, HoldsClaim, TypeOK
  <2>a. Outcome(r) \in {"sent", "failed"}
    BY DEF Outcome
  <2>b. PICK e : e = [reminders[r] EXCEPT !.status = Outcome(r)]
    OBVIOUS
  <2>2. /\ e \in Entry /\ e # NoEntry /\ e.status = Outcome(r)
        /\ e.type = reminders[r].type /\ e.day = reminders[r].day
    <3>1. PICK s \in {"sent", "failed"} : s = Outcome(r)
      BY <2>a
    <3>2. e = [reminders[r] EXCEPT !.status = s] /\ reminders[r] \in Entry
      BY <2>1, <2>b, <3>1
    <3>3. /\ e \in Entry /\ e # NoEntry /\ e.status = s
          /\ e.type = reminders[r].type /\ e.day = reminders[r].day
      BY <3>2 DEF Entry, NoEntry
    <3> QED
      BY <3>1, <3>3
  <2>3. /\ reminders' = [reminders EXCEPT ![r] = e]
        /\ \A q \in Runs : reminders'[q] = IF q = r THEN e ELSE reminders[q]
        /\ \A q \in Runs \ {r} : run'[q] = run[q]
        /\ run'[r] = Locals("done")
        /\ UNCHANGED <<today, delivered, doubted, incidents>>
    BY <1>0, <1>5, <2>b DEF Finish, End, TypeOK
  <2>4. TypeOK'
    <3>1. Locals("done") \in [step : Steps, type : Types, channels : SUBSET Channels,
                              ok : SUBSET Channels]
      BY <1>a DEF Steps
    <3> QED
      BY <1>0, <1>5, <2>2, <2>3, <3>1 DEF Finish, End, TypeOK
  <2>5. RecordTruthful'
    BY <2>1, <2>2, <2>3 DEF IInv, RecordTruthful, Outcome
  <2>6. Unclaimed' /\ HoldsClaim'
    BY <2>3 DEF IInv, Unclaimed, HoldsClaim, Locals, Before, Sending
  <2>7. SentByClaim'
    BY <1>0, <2>2, <2>3 DEF IInv, SentByClaim, TypeOK
  <2>8. Holds(r) /\ \A q \in Runs : Holds(q)' => Holds(q)
    BY <2>1, <2>3 DEF Holds, Entry, NoEntry
  <2>9. OneHolder'
    BY <2>2, <2>3, <2>8 DEF IInv, OneHolder, SameSlot, Runs
  <2> QED
    BY <2>4, <2>5, <2>6, <2>7, <2>9 DEF IInv
<1>6. ASSUME NEW r \in Runs, Stop(r)
      PROVE  IInv'
  <2>1. Locals("stopped").step = "stopped" /\ Locals("stopped").ok = {}
    BY DEF Locals
  <2>2. Locals("stopped") \in [step : Steps, type : Types, channels : SUBSET Channels,
                               ok : SUBSET Channels]
    BY <1>a DEF Steps
  <2>3. incidents' \in 0 .. MaxIncidents
    BY <1>0, <1>6 DEF Stop, Incident, TypeOK
  <2>4. /\ run' = [run EXCEPT ![r] = Locals("stopped")]
        /\ UNCHANGED <<today, reminders, delivered, doubted>>
    BY <1>6 DEF Stop, End
  <2> QED
    BY <2>1, <2>2, <2>3, <2>4, QuietStep DEF Before, Sending
<1>7. CASE Midnight
  BY <1>0, <1>7
  DEF Midnight, IInv, TypeOK, RecordTruthful, Unclaimed, HoldsClaim, SentByClaim,
      OneHolder, Holds, SameSlot
<1>8. CASE UNCHANGED vars
  BY <1>0, <1>8
  DEF vars, IInv, TypeOK, RecordTruthful, Unclaimed, HoldsClaim, SentByClaim,
      OneHolder, Holds, SameSlot
<1>9. ASSUME NEW r \in Runs, List(r) \/ Ask(r) \/ Work(r) \/ Stop(r)
      PROVE  IInv'
  <2>1. CASE List(r) \/ Ask(r)
    BY <1>1, <2>1 DEF List, Ask
  <2>2. CASE Work(r)
    BY <1>2, <1>3, <1>4, <1>5, <2>2 DEF Work
  <2> QED
    BY <1>6, <1>9, <2>1, <2>2
<1> QED
  BY <1>7, <1>8, <1>9 DEF Next

\* The inductive invariant holds in every reachable state.
THEOREM Inductive == Spec => []IInv
  BY IInvInit, IInvNext, PTL DEF Spec

\* However many passes of the daily job, restarts, second instances and manual
\* sends there are, no automated reminder is sent twice for one slot.
THEOREM RemindedOnce == Spec => []NoDoubleReminder
<1>1. IInv => NoDoubleReminder
  <2> SUFFICES ASSUME IInv, NEW a \in AutoRuns \cap delivered,
                      NEW b \in AutoRuns \cap delivered, a # b, SameSlot(a, b)
               PROVE  a \in doubted \/ b \in doubted
    BY DEF NoDoubleReminder
  <2>1. reminders[a] \in Entry /\ reminders[b] \in Entry
    BY DEF IInv, TypeOK, SentByClaim, Runs
  <2>2. ~Holds(a) \/ ~Holds(b)
    BY DEF IInv, OneHolder
  <2>3. reminders[a].status = "failed" \/ reminders[b].status = "failed"
    BY <2>1, <2>2 DEF Holds, Entry, IInv, SentByClaim
  <2> QED
    BY <2>3 DEF IInv, RecordTruthful, Runs
<1> QED
  BY <1>1, Inductive, PTL

\* For any set of runs, reminders_sent says 'sent' only of what the customer has
\* and 'failed' only of what nobody could know to have arrived.
THEOREM RecordIsTrue == Spec => []RecordTruthful
<1>1. IInv => RecordTruthful
  BY DEF IInv
<1> QED
  BY <1>1, Inductive, PTL

\* An automated run that claims a slot (claimReminder) finds nothing sent for it
\* that day, by whichever run, unless that run was wrongly told it had failed.
THEOREM NeverRepeated == Spec => NoRepeat
<1>1. ASSUME IInv, [Next]_vars
      PROVE  \A a \in AutoRuns :
                reminders[a] = NoEntry /\ reminders'[a] # NoEntry =>
                   \A b \in delivered \ doubted : ~SameSlot(a, b)'
  <2> SUFFICES ASSUME NEW a \in AutoRuns, reminders[a] = NoEntry, reminders'[a] # NoEntry,
                      NEW b \in delivered \ doubted, SameSlot(a, b)'
               PROVE  FALSE
    OBVIOUS
  <2>1. a \in Runs
    BY DEF Runs
  <2>2. \A r \in Runs : ~Finish(r)
    <3> SUFFICES ASSUME NEW r \in Runs, Finish(r) PROVE FALSE
      OBVIOUS
    <3>1. r # a
      BY <1>1 DEF Finish, At, IInv, HoldsClaim, Sending
    <3> QED
      BY <1>1, <2>1, <3>1 DEF Finish, IInv, TypeOK
  <2>3. PICK r \in Runs : Claim(r)
    BY <1>1, <2>2 DEF Next, Work, vars, List, Ask, Begin, Load, Send, Stop, Midnight
  <2>4. /\ r = a
        /\ reminders' = [reminders EXCEPT ![a] =
              [type |-> run[a].type, day |-> today, status |-> "sending"]]
    BY <1>1, <2>1, <2>3 DEF Claim, IInv, TypeOK
  <2>5. Blocking(run[a].type, today) = {} /\ a \notin delivered
    BY <1>1, <2>1, <2>3, <2>4, ReminderConstants DEF Claim, IInv, SentByClaim
  <2>6. b \in Runs /\ b # a /\ reminders[b] \in Entry
    BY <1>1, <2>5 DEF IInv, TypeOK, SentByClaim
  <2>7. reminders[b].type = run[a].type /\ reminders[b].day = today
    BY <1>1, <2>1, <2>4, <2>6 DEF SameSlot, IInv, TypeOK
  <2>8. reminders[b].status # "failed"
    BY <1>1, <2>6 DEF IInv, RecordTruthful
  <2> QED
    BY <2>5, <2>6, <2>7, <2>8 DEF Blocking, Entry
<1> QED
  BY <1>1, Inductive, PTL DEF Spec, NoRepeat

----------------------------------------------------------------------------
(* No reservation without an owner *)

\* A 'sending' entry belongs to a run that is about to resolve it, or was cut short.
ClaimIsOwned ==
    \A r \in Runs :
        reminders[r].status = "sending" => run[r].step \in Sending \cup {"stopped"}

LEMMA ClaimIsOwnedStep == IInv /\ ClaimIsOwned /\ [Next]_vars => ClaimIsOwned'
<1> SUFFICES ASSUME IInv, ClaimIsOwned, [Next]_vars,
                    NEW r \in Runs, reminders'[r].status = "sending"
             PROVE  run'[r].step \in Sending \cup {"stopped"}
  BY DEF ClaimIsOwned
<1>0. TypeOK
  BY DEF IInv
<1>a. \A step \in Steps : Locals(step).step = step
  BY DEF Locals
<1>1. CASE \E q \in Runs : List(q) \/ Ask(q)
  <2>1. PICK q \in Runs, type \in Types, channels \in SUBSET Contact :
           Begin(q, type, channels)
    BY <1>1 DEF List, Ask
  <2>2. reminders' = reminders /\ run[q].step = "idle"
        /\ \A b \in Runs \ {q} : run'[b] = run[b]
    BY <1>0, <2>1 DEF Begin, At, TypeOK
  <2>3. q # r
    BY <2>2 DEF ClaimIsOwned, Sending
  <2> QED
    BY <2>2, <2>3 DEF ClaimIsOwned
<1>2. ASSUME NEW q \in Runs, Load(q)
      PROVE  run'[r].step \in Sending \cup {"stopped"}
  <2>1. reminders' = reminders /\ run[q].step = "listed"
        /\ \A b \in Runs \ {q} : run'[b] = run[b]
    BY <1>0, <1>2 DEF Load, Goto, End, At, TypeOK
  <2>2. q # r
    BY <2>1 DEF ClaimIsOwned, Sending
  <2> QED
    BY <2>1, <2>2 DEF ClaimIsOwned
<1>3. ASSUME NEW q \in Runs, Claim(q)
      PROVE  run'[r].step \in Sending \cup {"stopped"}
  <2>1. /\ run[q].step = "loaded" /\ \A b \in Runs \ {q} : run'[b] = run[b]
        /\ \A b \in Runs \ {q} : reminders'[b] = reminders[b]
    BY <1>0, <1>3 DEF Claim, Goto, End, At, TypeOK
  <2>2. CASE q # r
    BY <2>1, <2>2 DEF ClaimIsOwned
  <2>3. CASE q = r /\ UNCHANGED reminders
    BY <2>1, <2>3 DEF ClaimIsOwned, Sending
  <2>4. CASE q = r /\ Goto(q, "whatsapp")
    BY <1>0, <2>4 DEF Goto, TypeOK, Sending
  <2> QED
    BY <1>3, <2>2, <2>3, <2>4 DEF Claim
<1>4. ASSUME NEW q \in Runs, NEW channel \in Channels, Send(q, channel)
      PROVE  run'[r].step \in Sending \cup {"stopped"}
  <2>1. /\ reminders' = reminders
        /\ run'[q].step = After(channel) /\ \A b \in Runs \ {q} : run'[b] = run[b]
    BY <1>0, <1>4 DEF Send, Goto, TypeOK
  <2>2. After(channel) \in Sending
    BY DEF After, Sending
  <2> QED
    BY <2>1, <2>2 DEF ClaimIsOwned
<1>5. ASSUME NEW q \in Runs, Finish(q)
      PROVE  run'[r].step \in Sending \cup {"stopped"}
  <2>1. Outcome(q) \in {"sent", "failed"} /\ reminders[q] \in Entry
    BY <1>0, <1>5 DEF Outcome, Finish, At, IInv, HoldsClaim, Sending, TypeOK
  <2>2. reminders'[q].status = Outcome(q)
    BY <1>0, <1>5, <2>1 DEF Finish, TypeOK, Entry
  <2>3. q # r
    BY <2>1, <2>2
  <2> QED
    BY <1>0, <1>5, <2>3 DEF Finish, End, TypeOK, ClaimIsOwned
<1>6. ASSUME NEW q \in Runs, Stop(q)
      PROVE  run'[r].step \in Sending \cup {"stopped"}
  <2>1. /\ reminders' = reminders /\ run'[q] = Locals("stopped")
        /\ \A b \in Runs \ {q} : run'[b] = run[b]
    BY <1>0, <1>6 DEF Stop, End, TypeOK
  <2> QED
    BY <1>a, <2>1 DEF ClaimIsOwned, Steps
<1>7. CASE Midnight \/ UNCHANGED vars
  BY <1>7 DEF Midnight, vars, ClaimIsOwned
<1> QED
  BY <1>1, <1>2, <1>3, <1>4, <1>5, <1>6, <1>7 DEF Next, Work

\* For any set of runs: the reservation of a day (reminders_sent, 'sending') is
\* never left behind by a run that ended. This is what ClaimResolved needs besides
\* the fairness of the runs: deliver resolves its claim on every way out.
THEOREM ClaimsOwned == Spec => []ClaimIsOwned
<1>1. Init => ClaimIsOwned
  BY DEF Init, ClaimIsOwned, NoEntry
<1> QED
  BY <1>1, Inductive, ClaimIsOwnedStep, PTL DEF Spec
=============================================================================
