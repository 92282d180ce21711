--------------------- MODULE SubscriptionBillingProofs ---------------------
(***************************************************************************)
(* What SubscriptionBilling promises for any orders, plans, ranks and      *)
(* handlers, checked by the TLA+ proof system.                             *)
(***************************************************************************)
EXTENDS SubscriptionBilling, TLAPS

PayKinds    == {"order.paid", "payment.captured", "verify"}
RefundKinds == {"refund.created", "refund.processed"}

\* A message tells what happened to its order at Razorpay.
Tells(m) ==
    /\ m.kind \in PayKinds => gateway[m.order] \in Paid
    /\ m.kind \in RefundKinds => gateway[m.order] \in RefundOpened
MailTells == \A m \in mail : Tells(m)

\* A handler that goes on holds the message of a payment, and an entitlement that
\* its plan does not undercut: time only takes entitlements away.
HandlerTells(h) ==
    ~At(h, "free") =>
        /\ task[h].msg.kind \in PayKinds /\ gateway[Order(h)] \in Paid
        /\ ~OutRanks(task[h].existing, PlanOf[Order(h)])
TasksTell == \A h \in Handlers : HandlerTells(h)

IInv == TypeOK /\ MailTells /\ TasksTell /\ PlanIsPaidFor /\ StatusNeverAhead

----------------------------------------------------------------------------
(* Lemmas *)

\* A handler that is busy holds a message and an entitlement.
LEMMA BusyTask ==
    ASSUME TypeOK, NEW h \in Handlers, ~At(h, "free")
    PROVE  task[h] \in Busy /\ task[h].msg \in Mail /\ Order(h) \in Orders /\ task[h].existing \in Tenant
<1>1. task[h] \in {Free} \cup Busy
  BY DEF TypeOK
<1>2. task[h] \in Busy
  BY <1>1 DEF At, Free
<1> QED
  BY <1>2 DEF Busy, Mail, Order

\* What is answered leaves no message that was not there, but the one it answers.
LEMMA Answered ==
    ASSUME NEW m, Answer(m) \/ SendAgain(m)
    PROVE  mail' \subseteq mail \cup {m}
BY DEF Answer, SendAgain

\* Razorpay and the browser owe webhooks and callbacks of the order.
LEMMA Posted ==
    ASSUME NEW kinds \in SUBSET Kinds, NEW o \in Orders, Post(kinds, o), TypeOK
    PROVE  /\ mail' \subseteq Mail
           /\ \A m \in mail' : m \in mail \/ (m.kind \in kinds /\ m.order = o)
<1>1. \A m \in [kind : kinds \ (Webhooks \ Subscribed), order : {o}] : m \in Mail /\ m.kind \in kinds /\ m.order = o
  BY DEF Mail
<1> QED
  BY <1>1 DEF Post, TypeOK

\* A plan is moved onto for a month at least, and no day is lost on the same plan.
LEMMA Moved ==
    ASSUME TypeOK, NEW p \in Plans
    PROVE  /\ MovedOnto(tenant, p) \in Tenant
           /\ MovedOnto(tenant, p).plan = p
           /\ MovedOnto(tenant, p).expires >= now + 1
           /\ tenant.plan = p /\ tenant.expires # Undated
                => MovedOnto(tenant, p).expires > tenant.expires
<1> DEFINE e == IF tenant.plan = p /\ tenant.expires # Undated THEN Later(tenant.expires, now) + 1 ELSE now + 1
<1>1. tenant \in Tenant /\ now \in Nat /\ tenant.expires \in Nat
  BY DEF TypeOK, Tenant
<1>2. e \in Nat /\ e >= now + 1 /\ (tenant.plan = p /\ tenant.expires # Undated => e > tenant.expires)
  <2>1. CASE ~(tenant.plan = p /\ tenant.expires # Undated)
    BY <1>1, <2>1
  <2>2. CASE tenant.plan = p /\ tenant.expires # Undated /\ tenant.expires >= now
    BY <1>1, <2>2 DEF Later
  <2>3. CASE tenant.plan = p /\ tenant.expires # Undated /\ ~(tenant.expires >= now)
    BY <1>1, <2>3 DEF Later
  <2> QED
    BY <2>1, <2>2, <2>3
<1>3. MovedOnto(tenant, p) = [tenant EXCEPT !.plan = p, !.expires = e]
  BY DEF MovedOnto
<1> HIDE DEF e
<1> QED
  BY <1>1, <1>2, <1>3 DEF Tenant

\* What is paid stays paid, and time does not go back.
GoesOn ==
    /\ now' \in Nat /\ now' >= now
    /\ \A o \in Orders : /\ gateway[o] \in Paid => gateway'[o] \in Paid
                         /\ gateway[o] \in RefundOpened => gateway'[o] \in RefundOpened

\* A handler that is left alone still holds what it judged.
LEMMA HandlerKept ==
    ASSUME TypeOK, GoesOn, NEW h \in Handlers, HandlerTells(h), task'[h] = task[h]
    PROVE  HandlerTells(h)'
<1> SUFFICES ASSUME ~At(h, "free")
             PROVE  HandlerTells(h)'
  BY DEF HandlerTells, At
<1>1. task[h].existing \in Tenant /\ Order(h) \in Orders /\ Order(h)' = Order(h)
  BY BusyTask DEF Order
<1>2. task[h].existing.expires \in Nat /\ now \in Nat
  BY <1>1 DEF Tenant, TypeOK
<1>3. IsExpired(task[h].existing) => IsExpired(task[h].existing)'
  BY <1>2 DEF IsExpired, GoesOn
<1>4. ~OutRanks(task[h].existing, PlanOf[Order(h)])'
  BY <1>1, <1>3 DEF OutRanks, HandlerTells
<1> QED
  BY <1>1, <1>4 DEF HandlerTells, GoesOn, At

\* So do all of them.
LEMMA TasksKept ==
    ASSUME TypeOK, TasksTell, GoesOn, task' = task
    PROVE  TasksTell'
BY HandlerKept DEF TasksTell

----------------------------------------------------------------------------
(* Steps *)

\* The types are kept.
LEMMA TypeNext ==
    ASSUME TypeOK, [Next]_vars
    PROVE  TypeOK'
<1>1. ASSUME NEW o \in Orders, OpenOrder(o)
      PROVE  TypeOK'
  BY <1>1, BillingConstants DEF OpenOrder, TypeOK, payments, Incident, Answer, SendAgain
<1>2. ASSUME NEW o \in Orders, AttemptFails(o)
      PROVE  TypeOK'
  <2>1. {"payment.failed"} \in SUBSET Kinds
    BY DEF Kinds, Webhooks
  <2>2. mail' \subseteq Mail
    BY <1>2, <2>1, Posted DEF AttemptFails
  <2>3. gateway' \in [Orders -> {"unpaid", "failed", "paid", "refunding", "refunded", "refundFailed"}] /\ incidents' \in 0 .. MaxIncidents
    BY <1>2, BillingConstants DEF AttemptFails, TypeOK, Incident
  <2> QED
    BY <1>2, <2>2, <2>3 DEF AttemptFails, TypeOK, payments
<1>3. ASSUME NEW o \in Orders, Pay(o)
      PROVE  TypeOK'
  <2>1. /\ {"order.paid", "payment.captured", "verify"} \in SUBSET Kinds
        /\ {"order.paid", "payment.captured", "badVerify"} \in SUBSET Kinds
    BY DEF Kinds, Webhooks
  <2>2. mail' \subseteq Mail
    BY <1>3, <2>1, Posted DEF Pay
  <2>3. gateway' \in [Orders -> {"unpaid", "failed", "paid", "refunding", "refunded", "refundFailed"}] /\ incidents' \in 0 .. MaxIncidents
    BY <1>3, BillingConstants DEF Pay, TypeOK, Incident
  <2> QED
    BY <1>3, <2>2, <2>3 DEF Pay, TypeOK, payments
<1>4. ASSUME NEW o \in Orders, Refund(o)
      PROVE  TypeOK'
  <2>1. {"refund.created"} \in SUBSET Kinds
    BY DEF Kinds, Webhooks
  <2>2. mail' \subseteq Mail
    BY <1>4, <2>1, Posted DEF Refund
  <2>3. gateway' \in [Orders -> {"unpaid", "failed", "paid", "refunding", "refunded", "refundFailed"}] /\ incidents' \in 0 .. MaxIncidents
    BY <1>4, BillingConstants DEF Refund, TypeOK, Incident
  <2> QED
    BY <1>4, <2>2, <2>3 DEF Refund, TypeOK, payments
<1>5. ASSUME NEW m \in mail, LoseCallback(m)
      PROVE  TypeOK'
  BY <1>5, BillingConstants DEF LoseCallback, TypeOK, payments, Incident, Answer,
    SendAgain
<1>6. CASE MonthPasses
  BY <1>6, BillingConstants DEF MonthPasses, TypeOK, payments, Incident, Answer, SendAgain
<1>7. CASE AdminUpdate
  <2>1. tenant' \in Tenant
    <3>1. tenant \in Tenant /\ now + 1 \in Nat /\ Undated \in Nat
      BY DEF TypeOK, Undated
    <3>2. tenant.plan \in Plans /\ tenant.expires \in Nat
      BY <3>1, Zenon DEF Tenant
    <3>3. PICK p \in AdminPlans \cup {tenant.plan}, e \in {tenant.expires, Undated, now + 1}, f \in BOOLEAN :
             tenant' = [tenant EXCEPT !.plan = p, !.expires = e, !.frozen = f]
      BY <1>7, Zenon DEF AdminUpdate
    <3>4. p \in Plans /\ e \in Nat
      BY <3>1, <3>2, BillingConstants
    <3> QED
      BY <3>1, <3>3, <3>4, Zenon DEF Tenant
  <2>2. incidents' \in 0 .. MaxIncidents /\ UNCHANGED <<now, payments, gateway, mail, task, granted, refused>>
    <3>1. Incident /\ UNCHANGED <<now, payments, gateway, mail, task, granted, refused>>
      BY <1>7 DEF AdminUpdate
    <3> QED
      BY <3>1, BillingConstants DEF TypeOK, Incident
  <2> QED
    BY <2>1, <2>2 DEF TypeOK, payments
<1>8. ASSUME NEW h \in Handlers, RecordSuccess(h)
      PROVE  TypeOK'
  <2>1. task[h] \in Busy /\ Order(h) \in Orders
    BY <1>8, BusyTask DEF RecordSuccess, At
  <2>2. task' \in [Handlers -> {Free} \cup Busy]
    BY <1>8, <2>1 DEF RecordSuccess, TypeOK, Busy
  <2> QED
    BY <1>8, <2>1, <2>2 DEF RecordSuccess, TypeOK
<1>9. ASSUME NEW h \in Handlers, Grant(h)
      PROVE  TypeOK'
  <2>1. task[h].msg \in Mail /\ Order(h) \in Orders /\ PlanOf[Order(h)] \in Plans
    BY <1>9, BusyTask, BillingConstants DEF Grant, At
  <2>2. mail' \subseteq Mail /\ incidents' \in 0 .. MaxIncidents
    BY <1>9, <2>1, BillingConstants DEF Grant, TypeOK, Answer, SendAgain, Incident
  <2>3. tenant' \in Tenant
    BY <1>9, <2>1, Moved DEF Grant
  <2>4. granted' \in [Orders -> Nat] /\ task' \in [Handlers -> {Free} \cup Busy]
    BY <1>9, <2>1 DEF Grant, TypeOK
  <2> QED
    BY <1>9, <2>2, <2>3, <2>4 DEF Grant, TypeOK, payments
<1>10. ASSUME NEW h \in Handlers, Fail(h)
      PROVE  TypeOK'
  <2>1. task[h].msg \in Mail
    BY <1>10, BusyTask DEF Fail
  <2>2. mail' \subseteq Mail /\ incidents' \in 0 .. MaxIncidents
    BY <1>10, <2>1, BillingConstants DEF Fail, TypeOK, SendAgain, Incident
  <2>3. task' \in [Handlers -> {Free} \cup Busy]
    BY <1>10 DEF Fail, TypeOK
  <2> QED
    BY <1>10, <2>2, <2>3 DEF Fail, TypeOK, payments
<1>11. ASSUME NEW h \in Handlers, NEW m \in mail, Judge(h, m)
      PROVE  TypeOK'
  <2>1. m \in Mail /\ m.order \in Orders
    BY DEF TypeOK, Mail
  <2>2. mail' \subseteq Mail /\ incidents' \in 0 .. MaxIncidents
    BY <1>11, <2>1, BillingConstants DEF Judge, TypeOK, Answer, SendAgain, Incident
  <2>3. [step |-> "judged", msg |-> m, existing |-> tenant] \in Busy
    BY <2>1 DEF Busy, TypeOK
  <2>4. task' \in [Handlers -> {Free} \cup Busy] /\ refused' \subseteq Orders
    BY <1>11, <2>1, <2>3 DEF Judge, Judged, TypeOK
  <2> QED
    BY <1>11, <2>2, <2>4 DEF Judge, TypeOK, payments
<1>12. ASSUME NEW m \in mail, RecordFailure(m)
      PROVE  TypeOK'
  <2>1. m \in Mail /\ m.order \in Orders
    BY DEF TypeOK, Mail
  <2>2. mail' \subseteq Mail /\ incidents' \in 0 .. MaxIncidents
    BY <1>12, <2>1, BillingConstants DEF RecordFailure, TypeOK, Answer, SendAgain, Incident
  <2>3. /\ status' \in [Orders -> {"none", "created", "captured", "failed", "refunded"}]
        /\ paymentId' \in [Orders -> {"none", "failedAttempt", "payment"}]
    BY <1>12, <2>1 DEF RecordFailure, TypeOK
  <2> QED
    BY <1>12, <2>2, <2>3 DEF RecordFailure, TypeOK
<1>13. ASSUME NEW m \in mail, RecordRefund(m)
      PROVE  TypeOK'
  <2>1. m \in Mail /\ m.order \in Orders
    BY DEF TypeOK, Mail
  <2>2. mail' \subseteq Mail /\ incidents' \in 0 .. MaxIncidents
    BY <1>13, <2>1, BillingConstants DEF RecordRefund, TypeOK, Answer, SendAgain, Incident
  <2>3. /\ status' \in [Orders -> {"none", "created", "captured", "failed", "refunded"}]
        /\ paymentId' \in [Orders -> {"none", "failedAttempt", "payment"}]
    BY <1>13, <2>1 DEF RecordRefund, TypeOK
  <2> QED
    BY <1>13, <2>2, <2>3 DEF RecordRefund, TypeOK
<1>14. CASE UNCHANGED vars
  BY <1>14 DEF vars, payments, TypeOK, payments, Incident, Answer, SendAgain
<1>15. ASSUME NEW o \in Orders, RefundEnds(o)
       PROVE  TypeOK'
  <2>1. {"refund.processed"} \in SUBSET Kinds
    BY DEF Kinds, Webhooks
  <2>2. mail' \subseteq Mail
    BY <1>15, <2>1, Posted DEF RefundEnds, TypeOK
  <2>3. gateway' \in [Orders -> {"unpaid", "failed", "paid", "refunding", "refunded", "refundFailed"}]
    BY <1>15 DEF RefundEnds, TypeOK
  <2> QED
    BY <1>15, <2>2, <2>3 DEF RefundEnds, TypeOK, payments
<1> QED
  BY <1>1, <1>2, <1>3, <1>4, <1>5, <1>6, <1>7, <1>8, <1>9, <1>10, <1>11, <1>12, <1>13,
    <1>14, <1>15 DEF Next, Outside, Work, Receive

\* What is paid stays paid, and time does not go back.
LEMMA OnNext ==
    ASSUME TypeOK, [Next]_vars
    PROVE  GoesOn
<1>1. ASSUME NEW o \in Orders, OpenOrder(o)
      PROVE  GoesOn
  BY <1>1 DEF OpenOrder, TypeOK, GoesOn, Paid, payments
<1>2. ASSUME NEW o \in Orders, AttemptFails(o)
      PROVE  GoesOn
  BY <1>2 DEF AttemptFails, TypeOK, GoesOn, Paid, RefundOpened, payments
<1>3. ASSUME NEW o \in Orders, Pay(o)
      PROVE  GoesOn
  BY <1>3 DEF Pay, TypeOK, GoesOn, Paid, RefundOpened, payments
<1>4. ASSUME NEW o \in Orders, Refund(o)
      PROVE  GoesOn
  BY <1>4 DEF Refund, TypeOK, GoesOn, Paid, RefundOpened, payments
<1>5. ASSUME NEW m \in mail, LoseCallback(m)
      PROVE  GoesOn
  BY <1>5 DEF LoseCallback, TypeOK, GoesOn, Paid, payments
<1>6. CASE MonthPasses
  BY <1>6 DEF MonthPasses, TypeOK, GoesOn, Paid, payments
<1>7. CASE AdminUpdate
  <2>1. now' = now /\ gateway' = gateway
    BY <1>7 DEF AdminUpdate
  <2> QED
    BY <2>1 DEF GoesOn, TypeOK
<1>8. ASSUME NEW h \in Handlers, RecordSuccess(h)
      PROVE  GoesOn
  BY <1>8 DEF RecordSuccess, TypeOK, GoesOn, Paid, payments
<1>9. ASSUME NEW h \in Handlers, Grant(h)
      PROVE  GoesOn
  BY <1>9 DEF Grant, TypeOK, GoesOn, Paid, payments
<1>10. ASSUME NEW h \in Handlers, Fail(h)
      PROVE  GoesOn
  BY <1>10 DEF Fail, TypeOK, GoesOn, Paid, payments
<1>11. ASSUME NEW h \in Handlers, NEW m \in mail, Judge(h, m)
      PROVE  GoesOn
  BY <1>11 DEF Judge, TypeOK, GoesOn, Paid, payments
<1>12. ASSUME NEW m \in mail, RecordFailure(m)
      PROVE  GoesOn
  BY <1>12 DEF RecordFailure, TypeOK, GoesOn, Paid, payments
<1>13. ASSUME NEW m \in mail, RecordRefund(m)
      PROVE  GoesOn
  BY <1>13 DEF RecordRefund, TypeOK, GoesOn, Paid, payments
<1>14. CASE UNCHANGED vars
  BY <1>14 DEF vars, payments, TypeOK, GoesOn, Paid, payments
<1>15. ASSUME NEW o \in Orders, RefundEnds(o)
       PROVE  GoesOn
  BY <1>15 DEF RefundEnds, TypeOK, GoesOn, Paid, RefundOpened, payments
<1> QED
  BY <1>1, <1>2, <1>3, <1>4, <1>5, <1>6, <1>7, <1>8, <1>9, <1>10, <1>11, <1>12, <1>13,
    <1>14, <1>15 DEF Next, Outside, Work, Receive

\* Messages stay true: an order that is paid stays so.
LEMMA MailNext ==
    ASSUME TypeOK, MailTells, TasksTell, GoesOn, [Next]_vars
    PROVE  MailTells'
<1>1. ASSUME NEW o \in Orders, OpenOrder(o)
      PROVE  MailTells'
  BY <1>1 DEF OpenOrder, MailTells, Tells, payments
<1>2. ASSUME NEW o \in Orders, AttemptFails(o)
      PROVE  MailTells'
  <2>1. {"payment.failed"} \in SUBSET Kinds
    BY DEF Kinds, Webhooks
  <2>2. \A m \in mail' : m \in mail \/ (m.kind \in {"payment.failed"} /\ m.order = o)
    BY <1>2, <2>1, Posted DEF AttemptFails
  <2> SUFFICES ASSUME NEW m \in mail' PROVE Tells(m)'
    BY DEF MailTells
  <2>3. CASE m \in mail
    BY <1>2, <2>3 DEF AttemptFails, MailTells, Tells, TypeOK, Mail, GoesOn
  <2>4. CASE m.kind \in {"payment.failed"} /\ m.order = o
    BY <1>2, <2>4 DEF AttemptFails, Tells, PayKinds, RefundKinds, TypeOK
  <2> QED
    BY <2>2, <2>3, <2>4
<1>3. ASSUME NEW o \in Orders, Pay(o)
      PROVE  MailTells'
  <2> DEFINE new == {"order.paid", "payment.captured", "verify", "badVerify"}
  <2>1. /\ {"order.paid", "payment.captured", "verify"} \in SUBSET Kinds
        /\ {"order.paid", "payment.captured", "badVerify"} \in SUBSET Kinds
    BY DEF Kinds, Webhooks
  <2>2. \A m \in mail' : m \in mail \/ (m.kind \in new /\ m.order = o)
    BY <1>3, <2>1, Posted DEF Pay
  <2> SUFFICES ASSUME NEW m \in mail' PROVE Tells(m)'
    BY DEF MailTells
  <2>3. CASE m \in mail
    BY <1>3, <2>3 DEF Pay, MailTells, Tells, TypeOK, Mail, GoesOn
  <2>4. CASE m.kind \in new /\ m.order = o
    BY <1>3, <2>4 DEF Pay, Tells, Paid, RefundKinds, TypeOK
  <2> QED
    BY <2>2, <2>3, <2>4
<1>4. ASSUME NEW o \in Orders, Refund(o)
      PROVE  MailTells'
  <2>1. {"refund.created"} \in SUBSET Kinds
    BY DEF Kinds, Webhooks
  <2>2. \A m \in mail' : m \in mail \/ (m.kind \in {"refund.created"} /\ m.order = o)
    BY <1>4, <2>1, Posted DEF Refund
  <2> SUFFICES ASSUME NEW m \in mail' PROVE Tells(m)'
    BY DEF MailTells
  <2>3. CASE m \in mail
    BY <1>4, <2>3 DEF Refund, MailTells, Tells, TypeOK, Mail, GoesOn
  <2>4. CASE m.kind \in {"refund.created"} /\ m.order = o
    BY <1>4, <2>4 DEF Refund, Tells, PayKinds, RefundOpened, TypeOK
  <2> QED
    BY <2>2, <2>3, <2>4
<1>5. ASSUME NEW m \in mail, LoseCallback(m)
      PROVE  MailTells'
  BY <1>5 DEF LoseCallback, MailTells, Tells, payments
<1>6. CASE MonthPasses
  BY <1>6 DEF MonthPasses, MailTells, Tells, payments
<1>7. CASE AdminUpdate
  BY <1>7 DEF AdminUpdate, MailTells, Tells, payments
<1>8. ASSUME NEW h \in Handlers, RecordSuccess(h)
      PROVE  MailTells'
  BY <1>8 DEF RecordSuccess, MailTells, Tells, payments
<1>9. ASSUME NEW h \in Handlers, Grant(h)
      PROVE  MailTells'
  <2>1. Tells(task[h].msg)
    BY <1>9 DEF Grant, At, TasksTell, HandlerTells, Order, Tells, PayKinds, RefundKinds
  <2>2. mail' \subseteq mail \cup {task[h].msg}
    BY <1>9, Answered DEF Grant
  <2> QED
    BY <1>9, <2>1, <2>2 DEF Grant, MailTells, Tells
<1>10. ASSUME NEW h \in Handlers, Fail(h)
      PROVE  MailTells'
  <2>1. Tells(task[h].msg)
    BY <1>10 DEF Fail, At, TasksTell, HandlerTells, Order, Tells, PayKinds, RefundKinds
  <2>2. mail' \subseteq mail \cup {task[h].msg}
    BY <1>10, Answered DEF Fail
  <2> QED
    BY <1>10, <2>1, <2>2 DEF Fail, MailTells, Tells
<1>11. ASSUME NEW h \in Handlers, NEW m \in mail, Judge(h, m)
      PROVE  MailTells'
  BY <1>11, Answered DEF Judge, MailTells, Tells, payments
<1>12. ASSUME NEW m \in mail, RecordFailure(m)
      PROVE  MailTells'
  BY <1>12, Answered DEF RecordFailure, MailTells, Tells, payments
<1>13. ASSUME NEW m \in mail, RecordRefund(m)
      PROVE  MailTells'
  BY <1>13, Answered DEF RecordRefund, MailTells, Tells, payments
<1>14. CASE UNCHANGED vars
  BY <1>14 DEF vars, payments, MailTells, Tells, payments
<1>15. ASSUME NEW o \in Orders, RefundEnds(o)
       PROVE  MailTells'
  <2>1. {"refund.processed"} \in SUBSET Kinds
    BY DEF Kinds, Webhooks
  <2>2. \A m \in mail' : m \in mail \/ (m.kind = "refund.processed" /\ m.order = o)
    BY <1>15, <2>1, Posted DEF RefundEnds
  <2>3. gateway'[o] \in RefundOpened
    BY <1>15 DEF RefundEnds, TypeOK, RefundOpened
  <2> SUFFICES ASSUME NEW m \in mail' PROVE Tells(m)'
    BY DEF MailTells
  <2>4. CASE m \in mail
    BY <2>4 DEF GoesOn, MailTells, Tells, TypeOK, Mail
  <2>5. CASE m.kind = "refund.processed" /\ m.order = o
    BY <2>3, <2>5 DEF Tells, PayKinds
  <2> QED
    BY <2>2, <2>4, <2>5
<1> QED
  BY <1>1, <1>2, <1>3, <1>4, <1>5, <1>6, <1>7, <1>8, <1>9, <1>10, <1>11, <1>12, <1>13,
    <1>14, <1>15 DEF Next, Outside, Work, Receive

\* Handlers keep what they judged.
LEMMA TasksNext ==
    ASSUME TypeOK, TypeOK', MailTells, TasksTell, GoesOn, [Next]_vars
    PROVE  TasksTell'
<1>1. ASSUME NEW o \in Orders, OpenOrder(o)
      PROVE  TasksTell'
  BY <1>1, TasksKept DEF OpenOrder, payments
<1>2. ASSUME NEW o \in Orders, AttemptFails(o)
      PROVE  TasksTell'
  BY <1>2, TasksKept DEF AttemptFails, payments
<1>3. ASSUME NEW o \in Orders, Pay(o)
      PROVE  TasksTell'
  BY <1>3, TasksKept DEF Pay, payments
<1>4. ASSUME NEW o \in Orders, Refund(o)
      PROVE  TasksTell'
  BY <1>4, TasksKept DEF Refund, payments
<1>5. ASSUME NEW m \in mail, LoseCallback(m)
      PROVE  TasksTell'
  BY <1>5, TasksKept DEF LoseCallback, payments
<1>6. CASE MonthPasses
  BY <1>6, TasksKept DEF MonthPasses, payments
<1>7. CASE AdminUpdate
  BY <1>7, TasksKept DEF AdminUpdate, payments
<1>8. ASSUME NEW h \in Handlers, RecordSuccess(h)
      PROVE  TasksTell'
  <2>1. ASSUME NEW k \in Handlers, k # h
        PROVE  HandlerTells(k)'
    BY <1>8, <2>1, HandlerKept DEF RecordSuccess, TasksTell, TypeOK
  <2>2. HandlerTells(h)'
    BY <1>8, BusyTask DEF RecordSuccess, HandlerTells, TasksTell, TypeOK, At, Order, OutRanks, IsExpired, Busy
  <2> QED
    BY <2>1, <2>2 DEF TasksTell
<1>9. ASSUME NEW h \in Handlers, Grant(h)
      PROVE  TasksTell'
  <2>1. ASSUME NEW k \in Handlers, k # h
        PROVE  HandlerTells(k)'
    BY <1>9, <2>1, HandlerKept DEF Grant, TasksTell, TypeOK
  <2>2. HandlerTells(h)'
    BY <1>9 DEF Grant, HandlerTells, TypeOK, At, Free
  <2> QED
    BY <2>1, <2>2 DEF TasksTell
<1>10. ASSUME NEW h \in Handlers, Fail(h)
      PROVE  TasksTell'
  <2>1. ASSUME NEW k \in Handlers, k # h
        PROVE  HandlerTells(k)'
    BY <1>10, <2>1, HandlerKept DEF Fail, TasksTell, TypeOK
  <2>2. HandlerTells(h)'
    BY <1>10 DEF Fail, HandlerTells, TypeOK, At, Free
  <2> QED
    BY <2>1, <2>2 DEF TasksTell
<1>11. ASSUME NEW h \in Handlers, NEW m \in mail, Judge(h, m)
      PROVE  TasksTell'
  <2>1. ASSUME NEW k \in Handlers, k # h
        PROVE  HandlerTells(k)'
    BY <1>11, <2>1, HandlerKept DEF Judge, Judged, TasksTell, TypeOK
  <2>2. CASE OutRanks(tenant, PlanOf[m.order])
    BY <1>11, <2>2, TasksKept DEF Judge
  <2>3. CASE ~OutRanks(tenant, PlanOf[m.order])
    <3>1. task'[h] = [step |-> "judged", msg |-> m, existing |-> tenant]
      BY <1>11, <2>3 DEF Judge, Judged, TypeOK
    <3>2. now' = now /\ tenant' = tenant /\ Order(h)' = m.order
      BY <1>11, <3>1 DEF Judge, Order
    <3>5. ~OutRanks(tenant, PlanOf[m.order])'
      BY <2>3, <3>2 DEF OutRanks, IsExpired
    <3>3. m.kind \in PayKinds /\ gateway'[m.order] \in Paid
      BY <1>11 DEF Judge, PayKinds, MailTells, Tells
    <3>4. HandlerTells(h)'
      BY <3>1, <3>2, <3>3, <3>5 DEF HandlerTells, OutRanks, IsExpired
    <3> QED
      BY <2>1, <3>4 DEF TasksTell
  <2> QED
    BY <2>2, <2>3
<1>12. ASSUME NEW m \in mail, RecordFailure(m)
      PROVE  TasksTell'
  BY <1>12, TasksKept DEF RecordFailure, payments
<1>13. ASSUME NEW m \in mail, RecordRefund(m)
      PROVE  TasksTell'
  BY <1>13, TasksKept DEF RecordRefund, payments
<1>14. CASE UNCHANGED vars
  BY <1>14, TasksKept DEF vars
<1>15. ASSUME NEW o \in Orders, RefundEnds(o)
       PROVE  TasksTell'
  BY <1>15, TasksKept DEF RefundEnds, payments
<1> QED
  BY <1>1, <1>2, <1>3, <1>4, <1>5, <1>6, <1>7, <1>8, <1>9, <1>10, <1>11, <1>12, <1>13,
    <1>14, <1>15 DEF Next, Outside, Work, Receive

\* The plan stays one that was paid for.
LEMMA PlanNext ==
    ASSUME TypeOK, TypeOK', TasksTell, GoesOn, PlanIsPaidFor, [Next]_vars
    PROVE  PlanIsPaidFor'
<1>1. ASSUME NEW o \in Orders, OpenOrder(o)
      PROVE  PlanIsPaidFor'
  BY <1>1 DEF OpenOrder, TypeOK, PlanIsPaidFor, GoesOn, payments
<1>2. ASSUME NEW o \in Orders, AttemptFails(o)
      PROVE  PlanIsPaidFor'
  BY <1>2 DEF AttemptFails, TypeOK, PlanIsPaidFor, GoesOn, payments
<1>3. ASSUME NEW o \in Orders, Pay(o)
      PROVE  PlanIsPaidFor'
  BY <1>3 DEF Pay, TypeOK, PlanIsPaidFor, GoesOn, payments
<1>4. ASSUME NEW o \in Orders, Refund(o)
      PROVE  PlanIsPaidFor'
  BY <1>4 DEF Refund, TypeOK, PlanIsPaidFor, GoesOn, payments
<1>5. ASSUME NEW m \in mail, LoseCallback(m)
      PROVE  PlanIsPaidFor'
  BY <1>5 DEF LoseCallback, TypeOK, PlanIsPaidFor, GoesOn, payments
<1>6. CASE MonthPasses
  BY <1>6 DEF MonthPasses, TypeOK, PlanIsPaidFor, GoesOn, payments
<1>7. CASE AdminUpdate
  <2>1. tenant'.plan \in AdminPlans \/ tenant'.plan = tenant.plan
    <3>1. tenant \in Tenant
      BY DEF TypeOK
    <3>2. PICK p \in AdminPlans \cup {tenant.plan}, e \in {tenant.expires, Undated, now + 1}, f \in BOOLEAN :
             tenant' = [tenant EXCEPT !.plan = p, !.expires = e, !.frozen = f]
      BY <1>7, Zenon DEF AdminUpdate
    <3>3. tenant'.plan = p
      BY <3>1, <3>2, Zenon DEF Tenant
    <3> QED
      BY <3>3
  <2> QED
    BY <1>7, <2>1 DEF AdminUpdate, PlanIsPaidFor
<1>8. ASSUME NEW h \in Handlers, RecordSuccess(h)
      PROVE  PlanIsPaidFor'
  BY <1>8 DEF RecordSuccess, TypeOK, PlanIsPaidFor, GoesOn, payments
<1>9. ASSUME NEW h \in Handlers, Grant(h)
      PROVE  PlanIsPaidFor'
  <2>1. Order(h) \in Orders /\ PlanOf[Order(h)] \in Plans /\ gateway[Order(h)] \in Paid
    BY <1>9, BusyTask, BillingConstants DEF Grant, At, TasksTell, HandlerTells
  <2>2. tenant'.plan = PlanOf[Order(h)] /\ granted'[Order(h)] > 0
    BY <1>9, <2>1, Moved DEF Grant, TypeOK
  <2>3. \A o \in Orders : granted'[o] > 0 => gateway'[o] \in Paid
    BY <1>9, <2>1 DEF Grant, TypeOK, PlanIsPaidFor, Paid
  <2> QED
    BY <2>1, <2>2, <2>3 DEF PlanIsPaidFor
<1>10. ASSUME NEW h \in Handlers, Fail(h)
      PROVE  PlanIsPaidFor'
  BY <1>10 DEF Fail, TypeOK, PlanIsPaidFor, GoesOn, payments
<1>11. ASSUME NEW h \in Handlers, NEW m \in mail, Judge(h, m)
      PROVE  PlanIsPaidFor'
  BY <1>11 DEF Judge, TypeOK, PlanIsPaidFor, GoesOn, payments
<1>12. ASSUME NEW m \in mail, RecordFailure(m)
      PROVE  PlanIsPaidFor'
  BY <1>12 DEF RecordFailure, TypeOK, PlanIsPaidFor, GoesOn, payments
<1>13. ASSUME NEW m \in mail, RecordRefund(m)
      PROVE  PlanIsPaidFor'
  BY <1>13 DEF RecordRefund, TypeOK, PlanIsPaidFor, GoesOn, payments
<1>14. CASE UNCHANGED vars
  BY <1>14 DEF vars, payments, TypeOK, PlanIsPaidFor, GoesOn
<1>15. ASSUME NEW o \in Orders, RefundEnds(o)
       PROVE  PlanIsPaidFor'
  BY <1>15 DEF RefundEnds, TypeOK, PlanIsPaidFor, GoesOn, payments
<1> QED
  BY <1>1, <1>2, <1>3, <1>4, <1>5, <1>6, <1>7, <1>8, <1>9, <1>10, <1>11, <1>12, <1>13,
    <1>14, <1>15 DEF Next, Outside, Work, Receive

\* The row stays behind Razorpay.
LEMMA StatusNext ==
    ASSUME TypeOK, TypeOK', MailTells, TasksTell, GoesOn, StatusNeverAhead, [Next]_vars
    PROVE  StatusNeverAhead'
<1>1. ASSUME NEW o \in Orders, OpenOrder(o)
      PROVE  StatusNeverAhead'
  BY <1>1 DEF OpenOrder, TypeOK, StatusNeverAhead, GoesOn, payments
<1>2. ASSUME NEW o \in Orders, AttemptFails(o)
      PROVE  StatusNeverAhead'
  BY <1>2 DEF AttemptFails, TypeOK, StatusNeverAhead, GoesOn, payments
<1>3. ASSUME NEW o \in Orders, Pay(o)
      PROVE  StatusNeverAhead'
  BY <1>3 DEF Pay, TypeOK, StatusNeverAhead, GoesOn, payments
<1>4. ASSUME NEW o \in Orders, Refund(o)
      PROVE  StatusNeverAhead'
  BY <1>4 DEF Refund, TypeOK, StatusNeverAhead, GoesOn, payments
<1>5. ASSUME NEW m \in mail, LoseCallback(m)
      PROVE  StatusNeverAhead'
  BY <1>5 DEF LoseCallback, TypeOK, StatusNeverAhead, GoesOn, payments
<1>6. CASE MonthPasses
  BY <1>6 DEF MonthPasses, TypeOK, StatusNeverAhead, GoesOn, payments
<1>7. CASE AdminUpdate
  BY <1>7 DEF AdminUpdate, TypeOK, StatusNeverAhead, GoesOn, payments
<1>8. ASSUME NEW h \in Handlers, RecordSuccess(h)
      PROVE  StatusNeverAhead'
  <2>1. Order(h) \in Orders /\ gateway[Order(h)] \in Paid
    BY <1>8, BusyTask DEF RecordSuccess, At, TasksTell, HandlerTells
  <2> QED
    BY <1>8, <2>1 DEF RecordSuccess, TypeOK, StatusNeverAhead, Paid
<1>9. ASSUME NEW h \in Handlers, Grant(h)
      PROVE  StatusNeverAhead'
  BY <1>9 DEF Grant, TypeOK, StatusNeverAhead, GoesOn, payments
<1>10. ASSUME NEW h \in Handlers, Fail(h)
      PROVE  StatusNeverAhead'
  BY <1>10 DEF Fail, TypeOK, StatusNeverAhead, GoesOn, payments
<1>11. ASSUME NEW h \in Handlers, NEW m \in mail, Judge(h, m)
      PROVE  StatusNeverAhead'
  BY <1>11 DEF Judge, TypeOK, StatusNeverAhead, GoesOn, payments
<1>12. ASSUME NEW m \in mail, RecordFailure(m)
      PROVE  StatusNeverAhead'
  <2>1. m.order \in Orders
    BY DEF TypeOK, Mail
  <2> QED
    BY <1>12, <2>1 DEF RecordFailure, TypeOK, StatusNeverAhead
<1>13. ASSUME NEW m \in mail, RecordRefund(m)
      PROVE  StatusNeverAhead'
  <2>1. m.order \in Orders /\ gateway[m.order] \in RefundOpened
    BY <1>13 DEF RecordRefund, TypeOK, Mail, MailTells, Tells, RefundKinds
  <2> QED
    BY <1>13, <2>1 DEF RecordRefund, TypeOK, StatusNeverAhead
<1>14. CASE UNCHANGED vars
  BY <1>14 DEF vars, payments, TypeOK, StatusNeverAhead
<1>15. ASSUME NEW o \in Orders, RefundEnds(o)
       PROVE  StatusNeverAhead'
  BY <1>15 DEF RefundEnds, TypeOK, StatusNeverAhead, GoesOn, payments
<1> QED
  BY <1>1, <1>2, <1>3, <1>4, <1>5, <1>6, <1>7, <1>8, <1>9, <1>10, <1>11, <1>12, <1>13,
    <1>14, <1>15 DEF Next, Outside, Work, Receive

\* The invariant holds at the start.
LEMMA InitInv == ASSUME Init PROVE IInv
<1>1. tenant \in Tenant /\ tenant.plan = FirstPlan
  <2>1. tenant \in [plan : {FirstPlan}, expires : {Undated, 1}, frozen : {FALSE}]
    BY DEF Init
  <2>2. FirstPlan \in Plans /\ {Undated, 1} \subseteq Nat
    BY BillingConstants DEF Undated
  <2> QED
    BY <2>1, <2>2, Zenon DEF Tenant
<1>2. TypeOK
  BY <1>1, BillingConstants DEF Init, TypeOK
<1>3. MailTells /\ TasksTell
  BY DEF Init, MailTells, TasksTell, HandlerTells, At, Free
<1>4. PlanIsPaidFor
  BY <1>1 DEF Init, PlanIsPaidFor
<1> QED
  BY <1>2, <1>3, <1>4 DEF Init, IInv, StatusNeverAhead

\* Every step keeps it.
LEMMA InvNext == IInv /\ [Next]_vars => IInv'
BY TypeNext, OnNext, MailNext, TasksNext, PlanNext, StatusNext DEF IInv

----------------------------------------------------------------------------
(* Theorems *)

\* Messages, and the handlers that took one, tell what Razorpay did; with the
\* plan and the rows they are the invariant of every run of the specification.
THEOREM Inductive == Spec => []IInv
<1>1. Init => IInv
  BY InitInv
<1> QED
  BY <1>1, InvNext, PTL DEF Spec

\* A tenant is on its first plan, on one the super admin chose, or on the plan of
\* an order Razorpay was paid for: no failed attempt, lost callback, repeated
\* webhook or restart moves it anywhere else.
THEOREM PlanPaidFor == Spec => []PlanIsPaidFor
<1>1. IInv => PlanIsPaidFor
  BY DEF IInv
<1> QED
  BY <1>1, Inductive, PTL

\* A payment's row says captured only after Razorpay took the money, and
\* refunded only after a refund of it was opened there.
THEOREM RowsBehind == Spec => []StatusNeverAhead
<1>1. IInv => StatusNeverAhead
  BY DEF IInv
<1> QED
  BY <1>1, Inductive, PTL

\* Only Grant counts an order as granted, and only the one its handler holds.
LEMMA OnlyGrants ==
    ASSUME TypeOK, [Next]_vars, granted' # granted
    PROVE  \E h \in Handlers : Grant(h) /\ granted'[Order(h)] # granted[Order(h)]
<1>1. \A h \in Handlers : Work(h) => Grant(h)
  BY DEF Work, RecordSuccess
<1>2. PICK h \in Handlers : Grant(h)
  BY <1>1 DEF Next, Outside, Receive, vars, OpenOrder, AttemptFails, Pay, Refund, RefundEnds, LoseCallback,
         MonthPasses, AdminUpdate, Judge, RecordFailure, RecordRefund, Fail
<1>3. Order(h) \in Orders
  BY <1>2, BusyTask DEF Grant, At
<1> QED
  BY <1>2, <1>3 DEF Grant, TypeOK

\* A payment replaces a running plan by a lower one only if the entitlement
\* changed between the guard's read in completePaymentAndUpgrade and its write:
\* the guard is right about what it read, and only about that.
THEOREM DowngradesRace == Spec => DowngradeOnlyByRace
<1>1. ASSUME IInv, [Next]_vars,
             tenant'.plan # tenant.plan, granted' # granted, OutRanks(tenant, tenant'.plan)
      PROVE  \E h \in Handlers :
               /\ At(h, "recorded") /\ granted'[Order(h)] # granted[Order(h)]
               /\ task[h].existing # tenant
  <2>1. PICK h \in Handlers : Grant(h) /\ granted'[Order(h)] # granted[Order(h)]
    BY <1>1, OnlyGrants DEF IInv
  <2>2. At(h, "recorded") /\ ~OutRanks(task[h].existing, PlanOf[Order(h)]) /\ Order(h) \in Orders
    BY <1>1, <2>1, BusyTask DEF Grant, At, IInv, TasksTell, HandlerTells
  <2>3. tenant'.plan = PlanOf[Order(h)]
    BY <1>1, <2>1, <2>2, Moved, BillingConstants DEF Grant, IInv
  <2> QED
    BY <1>1, <2>1, <2>2, <2>3
<1> QED
  BY <1>1, Inductive, PTL DEF Spec, DowngradeOnlyByRace

\* Whatever plan a payment is for, it buys a full month from now, and one more
\* than was left when the plan stays the same.
THEOREM DaysKept == Spec => RenewalKeepsDays
<1>1. ASSUME IInv, [Next]_vars, granted' # granted
      PROVE  /\ tenant'.expires >= now + 1
             /\ tenant'.plan = tenant.plan /\ tenant.expires # Undated
                  => tenant'.expires > tenant.expires
  <2>1. PICK h \in Handlers : Grant(h)
    BY <1>1, OnlyGrants DEF IInv
  <2>2. PlanOf[Order(h)] \in Plans
    BY <1>1, <2>1, BusyTask, BillingConstants DEF Grant, At, IInv
  <2> QED
    BY <1>1, <2>1, <2>2, Moved DEF Grant, IInv
<1> QED
  BY <1>1, Inductive, PTL DEF Spec, RenewalKeepsDays

----------------------------------------------------------------------------
(* No payment is forgotten *)

\* The webhooks of a payment that Razorpay is set up to send.
Hooks == {"order.paid", "payment.captured"} \cap Subscribed

\* One of them is still owed, or a handler is at work on it.
InMail(o)  == \E m \in mail : m.kind \in Hooks /\ m.order = o
AtWork(o)  == \E h \in Handlers : /\ ~At(h, "free")
                                  /\ task[h].msg.kind \in Hooks /\ Order(h) = o
Settled(o) == granted[o] > 0 \/ o \in refused

\* With either webhook set up, a payment that has not had its effect is on its way
\* to it, whatever failed before.
PaymentKept ==
    Hooks # {} =>
        \A o \in Orders : gateway[o] \in Paid => Settled(o) \/ InMail(o) \/ AtWork(o)

\* Steps that take no such webhook out of the mail and free no handler.
LEMMA KeptByOthers ==
    ASSUME PaymentKept, UNCHANGED <<task, granted>>, refused \subseteq refused',
           \A o \in Orders : gateway'[o] \in Paid => gateway[o] \in Paid,
           \A m \in mail : m.kind \in Hooks => m \in mail' \/ m.order \in refused'
    PROVE  PaymentKept'
BY DEF PaymentKept, Settled, InMail, AtWork, At, Order, Hooks

\* What is answered leaves the rest of the mail.
LEMMA RestKept ==
    ASSUME NEW m, Answer(m) \/ SendAgain(m)
    PROVE  mail \ {m} \subseteq mail'
BY DEF Answer, SendAgain

LEMMA PaymentKeptNext ==
    ASSUME IInv, PaymentKept, [Next]_vars
    PROVE  PaymentKept'
<1>0. TypeOK
  BY DEF IInv
<1>1. ASSUME NEW o \in Orders, OpenOrder(o)
      PROVE  PaymentKept'
  BY <1>1, KeptByOthers DEF OpenOrder
<1>2. ASSUME NEW o \in Orders, AttemptFails(o) \/ Refund(o) \/ RefundEnds(o)
      PROVE  PaymentKept'
  <2>1. \A x \in Orders : gateway'[x] \in Paid => gateway[x] \in Paid
    BY <1>0, <1>2 DEF AttemptFails, Refund, RefundEnds, TypeOK, Paid, RefundOpened
  <2>2. mail \subseteq mail'
    BY <1>2 DEF AttemptFails, Refund, RefundEnds, Post
  <2> QED
    BY <1>2, <2>1, <2>2, KeptByOthers DEF AttemptFails, Refund, RefundEnds
<1>3. ASSUME NEW o \in Orders, Pay(o)
      PROVE  PaymentKept'
  <2> SUFFICES ASSUME NEW hook \in Hooks
               PROVE  \A x \in Orders : gateway'[x] \in Paid =>
                         Settled(x)' \/ InMail(x)' \/ AtWork(x)'
    BY DEF PaymentKept, Hooks
  <2>1. [kind |-> hook, order |-> o] \in mail' /\ mail \subseteq mail'
    BY <1>3 DEF Pay, Post, Hooks
  <2>2. InMail(o)'
    BY <2>1 DEF InMail, Hooks
  <2>3. ASSUME NEW x \in Orders \ {o}, gateway'[x] \in Paid
        PROVE  Settled(x)' \/ InMail(x)' \/ AtWork(x)'
    <3>1. gateway[x] \in Paid
      BY <1>0, <1>3, <2>3 DEF Pay, TypeOK
    <3>2. Settled(x) \/ InMail(x) \/ AtWork(x)
      BY <3>1 DEF PaymentKept
    <3> QED
      BY <1>3, <2>1, <3>2 DEF Pay, Settled, InMail, AtWork, At, Order, Hooks
  <2> QED
    BY <2>2, <2>3
<1>4. ASSUME NEW m \in mail, LoseCallback(m)
      PROVE  PaymentKept'
  BY <1>4, KeptByOthers DEF LoseCallback, Hooks
<1>5. CASE MonthPasses \/ AdminUpdate
  <2>1. UNCHANGED <<gateway, mail, task, granted, refused>>
    BY <1>5 DEF MonthPasses, AdminUpdate
  <2> QED
    BY <2>1, KeptByOthers
<1>6. ASSUME NEW h \in Handlers, RecordSuccess(h)
      PROVE  PaymentKept'
  <2>1. task[h] \in Busy
    BY <1>0, <1>6, BusyTask DEF RecordSuccess, At
  <2>2. /\ task'[h].step = "recorded" /\ task'[h].msg = task[h].msg
        /\ \A k \in Handlers \ {h} : task'[k] = task[k]
    BY <1>0, <1>6, <2>1 DEF RecordSuccess, TypeOK, Busy
  <2>3. \A x \in Orders : AtWork(x) => AtWork(x)'
    BY <2>2 DEF AtWork, At, Order, Hooks
  <2> QED
    BY <1>6, <2>3 DEF RecordSuccess, PaymentKept, Settled, InMail, Hooks
<1>7. ASSUME NEW h \in Handlers, Grant(h)
      PROVE  PaymentKept'
  <2>1. task[h].msg \in Mail /\ Order(h) \in Orders
    BY <1>0, <1>7, BusyTask DEF Grant, At
  <2>2. /\ granted'[Order(h)] > 0
        /\ \A x \in Orders \ {Order(h)} : granted'[x] = granted[x]
        /\ \A k \in Handlers \ {h} : task'[k] = task[k]
    BY <1>0, <1>7, <2>1 DEF Grant, TypeOK
  <2>3. mail \ {task[h].msg} \subseteq mail'
    BY <1>7, RestKept DEF Grant
  <2>4. ASSUME NEW x \in Orders \ {Order(h)}
        PROVE  /\ AtWork(x) => AtWork(x)'
               /\ InMail(x) => InMail(x)'
    BY <2>2, <2>3 DEF AtWork, InMail, At, Order, Hooks
  <2> QED
    BY <1>7, <2>2, <2>4 DEF Grant, PaymentKept, Settled, Hooks
<1>8. ASSUME NEW h \in Handlers, Fail(h)
      PROVE  PaymentKept'
  <2>1. task[h].msg \in Mail
    BY <1>0, <1>8, BusyTask DEF Fail
  <2>2. \A k \in Handlers \ {h} : task'[k] = task[k]
    BY <1>0, <1>8 DEF Fail, TypeOK
  <2>3. mail \ {task[h].msg} \subseteq mail'
    BY <1>8, RestKept DEF Fail
  <2>4. task[h].msg.kind \in Hooks => task[h].msg \in mail'
    BY <1>8, <2>1 DEF Fail, SendAgain, Hooks, Webhooks, Mail
  <2>5. ASSUME NEW x \in Orders
        PROVE  /\ AtWork(x) => AtWork(x)' \/ InMail(x)'
               /\ InMail(x) => InMail(x)'
    BY <2>2, <2>3, <2>4 DEF AtWork, InMail, At, Order, Hooks
  <2> QED
    BY <1>8, <2>5 DEF Fail, PaymentKept, Settled, Hooks
<1>9. ASSUME NEW h \in Handlers, NEW m \in mail, Judge(h, m)
      PROVE  PaymentKept'
  <2>1. CASE OutRanks(tenant, PlanOf[m.order])
    <3>1. mail \ {m} \subseteq mail' /\ m.order \in refused' /\ refused \subseteq refused'
      BY <1>9, <2>1, RestKept DEF Judge
    <3> QED
      BY <1>9, <2>1, <3>1, KeptByOthers DEF Judge
  <2>2. CASE ~OutRanks(tenant, PlanOf[m.order])
    <3>1. /\ task'[h] = [step |-> "judged", msg |-> m, existing |-> tenant]
          /\ \A k \in Handlers \ {h} : task'[k] = task[k]
          /\ At(h, "free") /\ mail' = mail \ {m}
          /\ UNCHANGED <<gateway, granted, refused>>
      BY <1>0, <1>9, <2>2 DEF Judge, Judged, TypeOK
    <3>2. \A x \in Orders : AtWork(x) => AtWork(x)'
      BY <3>1 DEF AtWork, At, Order, Hooks
    <3>3. \A x \in Orders : InMail(x) => InMail(x)' \/ AtWork(x)'
      BY <3>1 DEF AtWork, InMail, At, Order, Hooks
    <3> QED
      BY <3>1, <3>2, <3>3 DEF PaymentKept, Settled, Hooks
  <2> QED
    BY <2>1, <2>2
<1>10. ASSUME NEW m \in mail, RecordFailure(m) \/ RecordRefund(m)
      PROVE  PaymentKept'
  <2>1. mail \ {m} \subseteq mail' /\ m.kind \notin Hooks
    BY <1>10, RestKept DEF RecordFailure, RecordRefund, Hooks
  <2> QED
    BY <1>10, <2>1, KeptByOthers DEF RecordFailure, RecordRefund
<1>11. CASE UNCHANGED vars
  BY <1>11, KeptByOthers DEF vars
<1> QED
  BY <1>1, <1>2, <1>3, <1>4, <1>5, <1>6, <1>7, <1>8, <1>9, <1>10, <1>11
  DEF Next, Outside, Work, Receive

\* Whichever of the two webhooks of a payment Razorpay is set up to send, and
\* however often a handler fails: a payment taken has moved the tenant on, was set
\* aside because a better plan runs, or is still owed to the code. Nothing needs
\* the browser's verify call. PaidIsHonoured is this and the fairness of delivery.
THEOREM PaymentsKept == Spec => []PaymentKept
<1>1. Init => PaymentKept
  BY DEF Init, PaymentKept, Paid, RefundOpened
<1> QED
  BY <1>1, Inductive, PaymentKeptNext, PTL DEF Spec
=============================================================================
