------------------------ MODULE SubscriptionBilling ------------------------
(***************************************************************************)
(* How one tenant's plan follows its Razorpay payments: orders opened by   *)
(* createSubscriptionOrder, the browser's verify call, and the webhooks    *)
(* order.paid, payment.captured, payment.failed, refund.created and        *)
(* refund.processed.                                                       *)
(*                                                                         *)
(* Razorpay is outside the code. It delivers each webhook at least once,   *)
(* in any order, until it is answered 200; the browser calls verify once   *)
(* or, when its tab is closed, never. Handlers run side by side and every  *)
(* database call of completePaymentAndUpgrade is a step of its own.        *)
(*                                                                         *)
(* Time is counted in paid months. The plan of an order is the one in its  *)
(* notes; prices follow from it and are left out, and so is the token.     *)
(***************************************************************************)
EXTENDS Naturals, FiniteSets

CONSTANTS
    Orders,       \* order ids Razorpay hands out
    Handlers,     \* HTTP handlers that may run at once
    Plans,        \* plan ids
    PlanOf,       \* payments.plan_id: the plan each order is opened for
    Rank,         \* planCatalog rank of each plan
    FirstPlan,    \* the tenant's plan at the start: the trial
    AdminPlans,   \* plans the super admin may put the tenant on
    Subscribed,   \* webhooks Razorpay is set up to send
    MaxIncidents  \* bound: how many of the rarer things below may happen in all

Webhooks == {"order.paid", "payment.captured", "payment.failed",
             "refund.created", "refund.processed"}

\* plan_expires_at IS NULL: a trial, or a plan the super admin gave no end.
Undated == 0

Tenant == [plan : Plans, expires : Nat, frozen : BOOLEAN]

ASSUME BillingConstants ==
    /\ Rank \in [Plans -> Nat]
    /\ PlanOf \in [Orders -> Plans]
    /\ AdminPlans \subseteq Plans /\ FirstPlan \in Plans
    /\ Subscribed \subseteq Webhooks
    /\ MaxIncidents \in Nat

VARIABLES
    now,          \* months gone by
    tenant,       \* plan_id, plan_expires_at and suspended-or-paused
    status,       \* payments.status
    paymentId,    \* payments.payment_id: which attempt, if any, it names
    gateway,      \* what happened to the order at Razorpay
    mail,         \* webhooks and callbacks Razorpay and the browser still owe us
    incidents,    \* months, refunds, failures and admin updates so far
    task,         \* what each handler is doing
    granted,      \* history: how often an order moved the tenant on
    refused       \* history: orders refused because a better plan was running

vars == <<now, tenant, status, paymentId, gateway, mail, incidents, task,
          granted, refused>>

Kinds    == Webhooks \cup {"verify", "badVerify"}
Mail     == [kind : Kinds, order : Orders]

Free == [step |-> "free"]
Busy == [step : {"judged", "recorded"}, msg : Mail, existing : Tenant]

TypeOK ==
    /\ now \in Nat
    /\ tenant \in Tenant
    /\ status \in [Orders -> {"none", "created", "captured", "failed", "refunded"}]
    /\ paymentId \in [Orders -> {"none", "failedAttempt", "payment"}]
    /\ gateway \in [Orders -> {"unpaid", "failed", "paid", "refunding", "refunded", "refundFailed"}]
    /\ mail \subseteq Mail
    /\ incidents \in 0 .. MaxIncidents
    /\ task \in [Handlers -> {Free} \cup Busy]
    /\ granted \in [Orders -> Nat]
    /\ refused \subseteq Orders

Init ==
    /\ now = 0
    /\ tenant \in [plan : {FirstPlan}, expires : {Undated, 1}, frozen : {FALSE}]
    /\ status = [o \in Orders |-> "none"]
    /\ paymentId = [o \in Orders |-> "none"]
    /\ gateway = [o \in Orders |-> "unpaid"]
    /\ mail = {}
    /\ incidents = 0
    /\ task = [h \in Handlers |-> Free]
    /\ granted = [o \in Orders |-> 0]
    /\ refused = {}

----------------------------------------------------------------------------
(* getTenantPlanLimits, getPlanRank and setTenantPlan *)

\* isExpired of getTenantPlanLimits: suspended and paused tenants count too. An
\* undated trial ends a month after it began, any other undated plan never.
IsExpired(t) ==
    \/ t.frozen
    \/ t.expires = Undated /\ t.plan = FirstPlan /\ now >= 1
    \/ t.expires # Undated /\ t.expires <= now

\* The downgrade guard, on the entitlement `t` read earlier or now.
OutRanks(t, p) == ~IsExpired(t) /\ Rank[t.plan] > Rank[p]

Later(a, b) == IF a >= b THEN a ELSE b

MovedOntoFreshMonth(t, p) ==                     \* mutant: no GREATEST
    [t EXCEPT !.plan = p, !.expires = now + 1]

\* UPDATE tenants: renewing a dated plan adds a month; switching, or renewing an
\* undated one, starts a fresh month.
MovedOnto(t, p) ==
    [t EXCEPT !.plan = p,
              !.expires = IF t.plan = p /\ t.expires # Undated
                            THEN Later(t.expires, now) + 1 ELSE now + 1]

----------------------------------------------------------------------------
(* The customer, Razorpay, the clock and the super admin *)

Incident == incidents < MaxIncidents /\ incidents' = incidents + 1

payments == <<status, paymentId>>

OpenOrderCaptured(o) ==                          \* mutant: wrong first status
    /\ status[o] = "none"
    /\ ~OutRanks(tenant, PlanOf[o])
    /\ status' = [status EXCEPT ![o] = "captured"]
    /\ UNCHANGED <<now, tenant, paymentId, gateway, mail, incidents, task, granted, refused>>

\* createSubscriptionOrder: refuse a downgrade, open the order, insert the row.
OpenOrder(o) ==
    /\ status[o] = "none"
    /\ ~OutRanks(tenant, PlanOf[o])
    /\ status' = [status EXCEPT ![o] = "created"]
    /\ UNCHANGED <<now, tenant, paymentId, gateway, mail, incidents, task, granted, refused>>

Post(kinds, o) ==
    mail' = mail \cup [kind : kinds \ (Webhooks \ Subscribed), order : {o}]

\* An attempt to pay the order fails; the order stays open for another one.
AttemptFails(o) ==
    /\ status[o] # "none" /\ gateway[o] = "unpaid"
    /\ gateway' = [gateway EXCEPT ![o] = "failed"]
    /\ Post({"payment.failed"}, o)
    /\ Incident
    /\ UNCHANGED <<now, tenant, payments, task, granted, refused>>

\* The customer pays. The browser gets a signed callback, perhaps a mangled one.
Pay(o) ==
    /\ status[o] # "none" /\ gateway[o] \in {"unpaid", "failed"}
    /\ gateway' = [gateway EXCEPT ![o] = "paid"]
    /\ \/ Post({"order.paid", "payment.captured", "verify"}, o) /\ UNCHANGED incidents
       \/ Post({"order.paid", "payment.captured", "badVerify"}, o) /\ Incident
    /\ UNCHANGED <<now, tenant, payments, task, granted, refused>>

\* A refund is opened, before any money is returned.
Refund(o) ==
    /\ gateway[o] = "paid"
    /\ gateway' = [gateway EXCEPT ![o] = "refunding"]
    /\ Post({"refund.created"}, o)
    /\ Incident
    /\ UNCHANGED <<now, tenant, payments, task, granted, refused>>

\* Later the money goes back, or the refund fails: the code hears only of the first.
RefundEnds(o) ==
    /\ gateway[o] = "refunding"
    /\ \/ /\ gateway' = [gateway EXCEPT ![o] = "refunded"]
          /\ Post({"refund.processed"}, o)
       \/ /\ gateway' = [gateway EXCEPT ![o] = "refundFailed"]
          /\ UNCHANGED mail
    /\ UNCHANGED <<now, tenant, payments, incidents, task, granted, refused>>

\* The tab is closed before the callback leaves it.
LoseCallback(m) ==
    /\ m.kind \in {"verify", "badVerify"}
    /\ mail' = mail \ {m}
    /\ Incident
    /\ UNCHANGED <<now, tenant, payments, gateway, task, granted, refused>>

MonthPasses ==
    /\ now' = now + 1
    /\ Incident
    /\ UNCHANGED <<tenant, payments, gateway, mail, task, granted, refused>>

\* updateTenantPlan: the super admin sets any of the plan, its end and the pause.
AdminUpdate ==
    /\ \E p \in AdminPlans \cup {tenant.plan}, e \in {tenant.expires, Undated, now + 1},
          f \in BOOLEAN :
          tenant' = [tenant EXCEPT !.plan = p, !.expires = e, !.frozen = f]
    /\ Incident
    /\ UNCHANGED <<now, payments, gateway, mail, task, granted, refused>>

----------------------------------------------------------------------------
(* verifySubscription, handleRazorpayWebhook and completePaymentAndUpgrade *)

At(h, step) == task[h].step = step
Order(h)    == task[h].msg.order

SendAgainNever(m) ==                             \* mutant: 200 on errors too
    /\ Incident
    /\ mail' = mail \ {m}

\* The webhook was not answered 200, or its answer was lost: Razorpay sends it
\* again. Nobody repeats a verify call.
SendAgain(m) ==
    /\ Incident
    /\ mail' = (mail \ {m}) \cup ({m} \cap [kind : Webhooks, order : Orders])

Answer(m) ==
    \/ mail' = mail \ {m} /\ UNCHANGED incidents
    \/ SendAgain(m)

Judged(h, m) ==
    task' = [task EXCEPT ![h] = [step |-> "judged", msg |-> m, existing |-> tenant]]

JudgeAnyEvent(h, m) ==                           \* mutant: payment.failed completes too
    /\ At(h, "free") /\ m.kind \in {"payment.failed", "payment.captured", "verify"}
    /\ ~OutRanks(tenant, PlanOf[m.order])
    /\ Judged(h, m)
    /\ mail' = mail \ {m}
    /\ UNCHANGED <<now, tenant, payments, gateway, incidents, granted, refused>>

JudgeUnguarded(h, m) ==                          \* mutant: no second downgrade guard
    /\ At(h, "free") /\ m.kind \in {"order.paid", "payment.captured", "verify"}
    /\ Judged(h, m)
    /\ mail' = mail \ {m}
    /\ UNCHANGED <<now, tenant, payments, gateway, incidents, granted, refused>>

\* findPaymentByOrderId names the plan, getTenantPlanLimits the entitlement the
\* guard judges. A payment for a lower plan is answered, and that is all.
Judge(h, m) ==
    /\ At(h, "free") /\ m.kind \in {"order.paid", "payment.captured", "verify"}
    /\ IF OutRanks(tenant, PlanOf[m.order])
         THEN /\ refused' = refused \cup {m.order}
              /\ Answer(m)
              /\ UNCHANGED task
         ELSE /\ Judged(h, m)
              /\ mail' = mail \ {m}
              /\ UNCHANGED <<refused, incidents>>
    /\ UNCHANGED <<now, tenant, payments, gateway, granted>>

\* updatePaymentSuccess, whatever status the row had.
RecordSuccess(h) ==
    /\ At(h, "judged")
    /\ status' = [status EXCEPT ![Order(h)] = "captured"]
    /\ paymentId' = [paymentId EXCEPT ![Order(h)] = "payment"]
    /\ task' = [task EXCEPT ![h].step = "recorded"]
    /\ UNCHANGED <<now, tenant, gateway, mail, incidents, granted, refused>>

\* setTenantPlan, and the answer.
Grant(h) ==
    /\ At(h, "recorded")
    /\ tenant' = MovedOnto(tenant, PlanOf[Order(h)])
    /\ granted' = [granted EXCEPT ![Order(h)] = @ + 1]
    /\ task' = [task EXCEPT ![h] = Free]
    /\ Answer(task[h].msg)
    /\ UNCHANGED <<now, payments, gateway, refused>>

\* updatePaymentFailed, for payment.failed and for a signature that is wrong.
RecordFailure(m) ==
    /\ m.kind \in {"payment.failed", "badVerify"}
    /\ status' = [status EXCEPT ![m.order] = "failed"]
    /\ paymentId' = [paymentId EXCEPT ![m.order] =
                       IF m.kind = "badVerify" THEN "payment" ELSE "failedAttempt"]
    /\ Answer(m)
    /\ UNCHANGED <<now, tenant, gateway, task, granted, refused>>

\* updatePaymentStatusByPaymentId, for a refund that was opened as for one that
\* was paid out: no row changes unless it names the payment.
RecordRefund(m) ==
    /\ m.kind \in {"refund.created", "refund.processed"}
    /\ status' = [status EXCEPT ![m.order] =
                    IF paymentId[m.order] = "payment" THEN "refunded" ELSE @]
    /\ Answer(m)
    /\ UNCHANGED <<now, tenant, paymentId, gateway, task, granted, refused>>

\* A query fails or the process stops between two steps.
Fail(h) ==
    /\ ~At(h, "free")
    /\ SendAgain(task[h].msg)
    /\ task' = [task EXCEPT ![h] = Free]
    /\ UNCHANGED <<now, tenant, payments, gateway, granted, refused>>

----------------------------------------------------------------------------

Outside ==
    \/ \E o \in Orders :
          OpenOrder(o) \/ AttemptFails(o) \/ Pay(o) \/ Refund(o) \/ RefundEnds(o)
    \/ \E m \in mail : LoseCallback(m)
    \/ MonthPasses \/ AdminUpdate

Work(h) == RecordSuccess(h) \/ Grant(h)

Receive(m) ==
    \/ \E h \in Handlers : Judge(h, m)
    \/ RecordFailure(m) \/ RecordRefund(m)

Next ==
    \/ Outside
    \/ \E h \in Handlers : Work(h) \/ Fail(h)
    \/ \E m \in mail : Receive(m)

\* A started handler goes on, and while webhooks are owed one is delivered; nobody
\* has to buy, pay, refund or wait, and nothing has to fail.
Fairness ==
    /\ \A h \in Handlers : WF_vars(Work(h))
    /\ WF_vars(\E m \in mail : m.kind \in Webhooks /\ Receive(m))

Spec == Init /\ [][Next]_vars /\ Fairness

----------------------------------------------------------------------------
(* Properties *)

\* Razorpay has, or had, the money.
RefundOpened == {"refunding", "refunded", "refundFailed"}
Paid         == {"paid"} \cup RefundOpened

\* The tenant is only ever on the plan it started with, one the super admin
\* chose, or the plan of an order that Razorpay was really paid for: neither a
\* failed attempt nor a browser's own planId moves it.
PlanIsPaidFor ==
    /\ \A o \in Orders : granted[o] > 0 => gateway[o] \in Paid
    /\ tenant.plan \in {FirstPlan} \cup AdminPlans
                         \cup {PlanOf[o] : o \in {x \in Orders : granted[x] > 0}}

\* "A paid plan is never silently replaced by one that ranks lower": a payment
\* lowers a running plan only if the entitlement changed between its guard's read
\* and its write. (A suspended or paused plan does not count as running.)
DowngradeOnlyByRace ==
    [][(/\ tenant'.plan # tenant.plan /\ granted' # granted
        /\ OutRanks(tenant, tenant'.plan))
         => \E h \in Handlers :
               /\ At(h, "recorded") /\ granted'[Order(h)] # granted[Order(h)]
               /\ task[h].existing # tenant]_vars

\* "Renewing early does not cost the tenant the days they have left", and every
\* payment buys a full month from now. (A plan without an end is given one.)
RenewalKeepsDays ==
    [][granted' # granted =>
          /\ tenant'.expires >= now + 1
          /\ tenant'.plan = tenant.plan /\ tenant.expires # Undated
               => tenant'.expires > tenant.expires]_vars

\* A row is marked captured only when Razorpay took the money, and refunded only
\* when a refund of it was opened, whichever of the events come late, early, twice
\* or never. It does not say that the money went back: the row is marked when the
\* refund is opened, and nobody marks it again when that fails.
StatusNeverAhead ==
    /\ TypeOK
    /\ \A o \in Orders :
          /\ status[o] = "captured" => gateway[o] \in Paid
          /\ status[o] = "refunded" => gateway[o] \in RefundOpened

\* A payment is honoured even when the browser never comes back: it moves the
\* tenant on, or is set aside because a better plan is running.
PaidIsHonoured ==
    \A o \in Orders : gateway[o] = "paid" ~> granted[o] > 0 \/ o \in refused

\* "Moves a tenant onto a plan for one paid month." Not an invariant of the
\* code: verify, order.paid and payment.captured each move it on a month.
OneMonthPerPayment == \A o \in Orders : granted[o] <= 1
=============================================================================
