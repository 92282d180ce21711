------------------------ MODULE LeadLifecycleProofs ------------------------
(***************************************************************************)
(* What LeadLifecycle promises for any number of requests and members and  *)
(* any updates, checked by the TLA+ proof system.                          *)
(***************************************************************************)
EXTENDS LeadLifecycle, TLAPS

\* What a handler read was a lead of its time: its booking had been made.
SeenLinkIsBooked ==
    \A r \in Requests : seen[r].converted # Unset => seen[r].converted \in bookings

\* A conversion read a lead without a booking; past createBooking it has one.
Converting ==
    \A r \in Requests :
        /\ pc[r] \in {"converting", "booked"} => seen[r].converted = Unset
        /\ pc[r] \in {"booked", "linked"} => r \in bookings

\* A booking the lead does not name is on its way, cut short, or overwritten.
Accounted ==
    ~overwrote =>
        \A r \in bookings : pc[r] \in {"booked", "died"} \/ lead.converted = r

IInv ==
    /\ TypeOK /\ ClaimKept /\ LinkIsBooked
    /\ SeenLinkIsBooked /\ Converting /\ Accounted

\* A step that only moves a handler on, or ends it: the row, the bookings, the
\* claims and the history stay.
Quiet(r, p) ==
    /\ UNCHANGED <<lead, bookings, claimant, overwrote, moved>>
    /\ pc' = [pc EXCEPT ![r] = p]
    /\ UNCHANGED <<seen, updates>> \/ seen' = [seen EXCEPT ![r] = NewLead]
    /\ log' \subseteq Stages \cup Requests
    /\ updates' \in [Requests -> Update]

----------------------------------------------------------------------------
(* Lemmas about the operators *)

\* The new lead is a lead; nothing is an update.
LEMMA NewLeadType == NewLead \in Lead /\ NewLead.converted = Unset /\ NoUpdate \in Update
  BY LeadConstants DEF NewLead, Lead, NoUpdate, Update, Owners

\* Merging updates over a lead gives a lead with the same booking, and with the
\* same owner unless the updates name one.
LEMMA MergedType ==
    ASSUME NEW row \in Lead, NEW u \in Update
    PROVE  /\ Merged(row, u) \in Lead
           /\ Merged(row, u).converted = row.converted
           /\ u.assignedTo = Unset => Merged(row, u).assignedTo = row.assignedTo
<1>1. /\ Pick(u.stage, row.stage) \in Stages
      /\ Pick(u.assignedTo, row.assignedTo) \in Owners
      /\ Pick(u.deleted, row.deleted) \in BOOLEAN
  BY DEF Pick, Update, Lead
<1> QED
  BY <1>1 DEF Merged, Lead, Pick

\* The initial state satisfies the inductive invariant.
LEMMA IInvInit == Init => IInv
<1> SUFFICES ASSUME Init
             PROVE  IInv
  OBVIOUS
<1>1. TypeOK
  <2>1. overwrote \in BOOLEAN /\ moved \in BOOLEAN
    BY Zenon DEF Init
  <2> QED
    BY <2>1, NewLeadType, LeadConstants DEF Init, TypeOK, Owners
<1>2. ClaimKept /\ LinkIsBooked /\ SeenLinkIsBooked /\ Converting /\ Accounted
  BY NewLeadType DEF Init, ClaimKept, LinkIsBooked, SeenLinkIsBooked, Converting, Accounted
<1> QED
  BY <1>1, <1>2 DEF IInv

----------------------------------------------------------------------------
(* The invariant, one action at a time *)

\* Steps that leave the row alone and end a handler, or advance one that is not
\* about to book: what they must respect of the handler's phase is in the premises.
LEMMA QuietKeeps ==
    ASSUME IInv, NEW r \in Requests, NEW p \in {"done", "died"}, Quiet(r, p),
           pc[r] # "died", pc[r] = "booked" => p = "died"
    PROVE  IInv'
<1>1. TypeOK'
  <2>1. overwrote' \in BOOLEAN /\ moved' \in BOOLEAN
    BY Zenon DEF IInv, TypeOK, Quiet
  <2> QED
    BY <2>1, NewLeadType DEF IInv, TypeOK, Quiet
<1>2. ClaimKept' /\ LinkIsBooked'
  BY DEF IInv, ClaimKept, LinkIsBooked, Quiet
<1>3. SeenLinkIsBooked' /\ Converting'
  BY NewLeadType DEF IInv, TypeOK, SeenLinkIsBooked, Converting, Quiet
<1>4. Accounted'
  <2>1. \A q \in bookings : pc[q] \in {"booked", "died"} => pc'[q] \in {"booked", "died"}
    <3> SUFFICES ASSUME NEW q \in bookings, pc[q] \in {"booked", "died"}
                 PROVE  pc'[q] \in {"booked", "died"}
      OBVIOUS
    <3>1. CASE q = r
      BY <3>1 DEF IInv, TypeOK, Quiet
    <3>2. CASE q # r
      BY <3>2 DEF IInv, TypeOK, Quiet
    <3> QED
      BY <3>1, <3>2
  <2> QED
    BY <2>1 DEF IInv, Accounted, Quiet
<1> QED
  BY <1>1, <1>2, <1>3, <1>4 DEF IInv

\* Reading the lead is what a handler starts with.
LEMMA ReadKeeps ==
    ASSUME IInv, NEW r \in Requests, NEW p \in {"editing", "converting"}, Read(r, p),
           p = "converting" => lead.converted = Unset,
           updates' \in [Requests -> Update],
           UNCHANGED <<lead, bookings, log, claimant, overwrote, moved>>
    PROVE  IInv'
<1>1. TypeOK'
  <2>1. overwrote' \in BOOLEAN /\ moved' \in BOOLEAN
    BY Zenon DEF IInv, TypeOK
  <2> QED
    BY <2>1 DEF IInv, TypeOK, Read, Goto, Active
<1>2. ClaimKept' /\ LinkIsBooked'
  BY DEF IInv, ClaimKept, LinkIsBooked
<1>3. SeenLinkIsBooked' /\ Converting'
  BY DEF IInv, TypeOK, LinkIsBooked, SeenLinkIsBooked, Converting, Read, Goto
<1>4. Accounted'
  BY DEF IInv, TypeOK, Accounted, Read, Goto
<1> QED
  BY <1>1, <1>2, <1>3, <1>4 DEF IInv

LEMMA ClaimKeeps ==
    ASSUME IInv, NEW r \in Requests, NEW m \in Members, Claim(r, m)
    PROVE  IInv'
<1>1. lead' \in Lead /\ lead'.converted = lead.converted
  BY DEF IInv, TypeOK, Lead, Owners, Claim
<1>2. TypeOK'
  <2>1. overwrote' \in BOOLEAN /\ moved' \in BOOLEAN
    BY Zenon DEF IInv, TypeOK, Claim
  <2> QED
    BY <1>1, <2>1 DEF IInv, TypeOK, Claim, Goto, Owners
<1>3. ClaimKept'
  <2>1. CASE lead.assignedTo = Nobody
    <3> SUFFICES ASSUME ~overwrote, ~moved, NEW q \in Requests, claimant'[q] # Nobody
                 PROVE  lead'.assignedTo = claimant'[q]
      BY DEF ClaimKept, Claim
    <3>1. lead'.assignedTo = m /\ claimant'[r] = m
      BY <2>1 DEF IInv, TypeOK, Lead, Claim
    <3>2. q = r
      BY <2>1 DEF IInv, TypeOK, ClaimKept, Claim
    <3> QED
      BY <3>1, <3>2
  <2>2. CASE lead.assignedTo # Nobody
    BY <2>2 DEF IInv, ClaimKept, Claim
  <2> QED
    BY <2>1, <2>2
<1>4. LinkIsBooked' /\ SeenLinkIsBooked'
  BY <1>1 DEF IInv, LinkIsBooked, SeenLinkIsBooked, Claim
<1>5. Converting'
  BY DEF IInv, TypeOK, Converting, Claim, Goto
<1>6. Accounted'
  BY <1>1 DEF IInv, TypeOK, Accounted, Claim, Goto
<1> QED
  BY <1>2, <1>3, <1>4, <1>5, <1>6 DEF IInv

LEMMA AssignKeeps ==
    ASSUME IInv, NEW r \in Requests, NEW m \in Owners, Assign(r, m)
    PROVE  IInv'
<1>1. lead' \in Lead /\ lead'.converted = lead.converted
  BY DEF IInv, TypeOK, Lead, Assign
<1>2. TypeOK'
  <2>1. overwrote' \in BOOLEAN /\ moved' \in BOOLEAN
    BY Zenon DEF IInv, TypeOK, Assign
  <2> QED
    BY <1>1, <2>1 DEF IInv, TypeOK, Assign, Goto
<1>3. ClaimKept' /\ LinkIsBooked' /\ SeenLinkIsBooked'
  BY <1>1 DEF IInv, ClaimKept, LinkIsBooked, SeenLinkIsBooked, Assign
<1>4. Converting'
  BY DEF IInv, TypeOK, Converting, Assign, Goto
<1>5. Accounted'
  BY <1>1 DEF IInv, TypeOK, Accounted, Assign, Goto
<1> QED
  BY <1>2, <1>3, <1>4, <1>5 DEF IInv

\* Writing the row read, with what the updates carry: when it is not stale, the
\* owner changes only if the updates name one, and the booking stays.
LEMMA WriteUpdateKeeps ==
    ASSUME IInv, NEW r \in Requests, WriteUpdate(r)
    PROVE  IInv'
<1>1. /\ lead' \in Lead
      /\ lead'.converted = seen[r].converted
      /\ updates[r].assignedTo = Unset => lead'.assignedTo = seen[r].assignedTo
  BY MergedType DEF IInv, TypeOK, WriteUpdate, Write
<1>2. TypeOK'
  <2>1. overwrote' \in BOOLEAN /\ moved' \in BOOLEAN
    BY Zenon DEF IInv, TypeOK, WriteUpdate, Write
  <2> QED
    BY <1>1, <2>1 DEF IInv, TypeOK, WriteUpdate, Goto, Active
<1>3. ~overwrote' => ~overwrote /\ seen[r] = lead
  BY DEF WriteUpdate, Write
<1>4. ~moved' => ~moved /\ updates[r].assignedTo = Unset
  BY DEF WriteUpdate
<1>5. ClaimKept'
  BY <1>1, <1>3, <1>4 DEF IInv, ClaimKept, WriteUpdate
<1>6. LinkIsBooked' /\ SeenLinkIsBooked'
  BY <1>1 DEF IInv, LinkIsBooked, SeenLinkIsBooked, WriteUpdate
<1>7. Converting'
  BY DEF IInv, TypeOK, Converting, WriteUpdate, Goto
<1>8. Accounted'
  BY <1>1, <1>3 DEF IInv, TypeOK, Accounted, WriteUpdate, Goto
<1> QED
  BY <1>2, <1>5, <1>6, <1>7, <1>8 DEF IInv

LEMMA BookKeeps ==
    ASSUME IInv, NEW r \in Requests, Book(r)
    PROVE  IInv'
<1>1. TypeOK'
  <2>1. overwrote' \in BOOLEAN /\ moved' \in BOOLEAN
    BY Zenon DEF IInv, TypeOK, Book
  <2> QED
    BY <2>1 DEF IInv, TypeOK, Book, Goto, Active
<1>2. ClaimKept' /\ LinkIsBooked' /\ SeenLinkIsBooked'
  BY DEF IInv, ClaimKept, LinkIsBooked, SeenLinkIsBooked, Book
<1>3. Converting'
  BY DEF IInv, TypeOK, Converting, Book, Goto
<1>4. Accounted'
  BY DEF IInv, TypeOK, Accounted, Book, Goto
<1> QED
  BY <1>1, <1>2, <1>3, <1>4 DEF IInv

\* Linking: the lead that was read named no booking, so a lead that names one by
\* now is not the one that was read, and the write overwrites it.
LEMMA LinkKeeps ==
    ASSUME IInv, NEW r \in Requests, Link(r)
    PROVE  IInv'
<1>1. /\ lead' \in Lead
      /\ lead'.converted = r
      /\ lead'.assignedTo = seen[r].assignedTo
  BY LeadConstants DEF IInv, TypeOK, Lead, Link, Write
<1>2. r \in bookings /\ seen[r].converted = Unset
  BY DEF IInv, Converting, Link
<1>3. TypeOK'
  <2>1. overwrote' \in BOOLEAN /\ moved' \in BOOLEAN
    BY Zenon DEF IInv, TypeOK, Link, Write
  <2> QED
    BY <1>1, <2>1 DEF IInv, TypeOK, Link, Goto, Active
<1>4. ~overwrote' => ~overwrote /\ seen[r] = lead
  BY DEF Link, Write
<1>5. ClaimKept'
  BY <1>1, <1>4 DEF IInv, ClaimKept, Link
<1>6. LinkIsBooked' /\ SeenLinkIsBooked'
  BY <1>1, <1>2 DEF IInv, LinkIsBooked, SeenLinkIsBooked, Link
<1>7. Converting'
  BY <1>2 DEF IInv, TypeOK, Converting, Link, Goto
<1>8. Accounted'
  <2> SUFFICES ASSUME ~overwrote', NEW q \in bookings, q # r
               PROVE  pc'[q] \in {"booked", "died"}
    BY <1>1 DEF Accounted, Link
  <2>1. lead.converted = Unset /\ q \in Requests /\ q # Unset
    BY <1>2, <1>4, LeadConstants DEF IInv, TypeOK
  <2>2. pc[q] \in {"booked", "died"}
    BY <1>4, <2>1 DEF IInv, Accounted
  <2> QED
    BY <2>1, <2>2 DEF IInv, TypeOK, Link, Goto
<1> QED
  BY <1>3, <1>5, <1>6, <1>7, <1>8 DEF IInv

\* Ending a handler is a quiet step.
LEMMA FinishIsQuiet ==
    ASSUME IInv, NEW r \in Requests, NEW p \in {"done", "died"}, Finish(r, p),
           log' \subseteq Stages \cup Requests,
           UNCHANGED <<lead, bookings, claimant, overwrote, moved>>
    PROVE  Quiet(r, p)
  BY NewLeadType DEF IInv, TypeOK, Finish, Goto, Quiet

LEMMA LogKeeps ==
    ASSUME IInv, NEW r \in Requests, NEW entries \in SUBSET (Stages \cup Requests),
           Log(r, entries), pc[r] \in {"written", "linked"},
           UNCHANGED <<lead, bookings, claimant, overwrote, moved>>
    PROVE  IInv'
<1>1. log' \subseteq Stages \cup Requests /\ (Finish(r, "died") \/ Finish(r, "done"))
  BY DEF IInv, TypeOK, Log
<1> QED
  BY <1>1, FinishIsQuiet, QuietKeeps

LEMMA DieKeeps ==
    ASSUME IInv, NEW r \in Requests, Die(r)
    PROVE  IInv'
<1>1. log' \subseteq Stages \cup Requests
  BY DEF IInv, TypeOK, Die
<1>2. CASE pc[r] \in {"editing", "converting"}
  BY <1>1, <1>2, FinishIsQuiet, QuietKeeps DEF Die
<1>3. CASE pc[r] \notin {"editing", "converting"}
  BY <1>1, <1>3, FinishIsQuiet, QuietKeeps DEF Die, Active
<1> QED
  BY <1>2, <1>3

\* Every step preserves the inductive invariant.
LEMMA IInvNext == IInv /\ [Next]_vars => IInv'
<1> SUFFICES ASSUME IInv, [Next]_vars
             PROVE  IInv'
  OBVIOUS
<1>1. CASE UNCHANGED vars
  <2>1. TypeOK'
    <3>1. overwrote' \in BOOLEAN /\ moved' \in BOOLEAN
      BY <1>1, Zenon DEF IInv, TypeOK, vars
    <3> QED
      BY <1>1, <3>1 DEF IInv, TypeOK, vars
  <2> QED
    BY <1>1, <2>1 DEF IInv, ClaimKept, LinkIsBooked, SeenLinkIsBooked, Converting,
                      Accounted, vars
<1>2. ASSUME NEW r \in Requests, Step(r)
      PROVE  IInv'
  <2>1. CASE \E m \in Members : Claim(r, m)
    BY <2>1, ClaimKeeps
  <2>2. CASE \E m \in Owners : Assign(r, m)
    BY <2>2, AssignKeeps
  <2>3. CASE \E u \in Updates : BeginUpdate(r, u)
    <3> PICK u \in Updates : BeginUpdate(r, u)
      BY <2>3
    <3>1. updates' \in [Requests -> Update]
      BY LeadConstants DEF IInv, TypeOK, BeginUpdate
    <3> QED
      BY <3>1, ReadKeeps DEF BeginUpdate
  <2>4. CASE WriteUpdate(r)
    BY <2>4, WriteUpdateKeeps
  <2>5. CASE LogStage(r)
    <3>1. PICK entries \in SUBSET Stages : Log(r, entries)
      <4>1. StageChanged(r) => updates[r].stage \in Stages
        BY DEF StageChanged, IInv, TypeOK, Update
      <4> QED
        BY <2>5, <4>1 DEF LogStage
    <3> QED
      BY <2>5, <3>1, LogKeeps DEF LogStage
  <2>6. CASE BeginConvert(r)
    <3>1. updates' \in [Requests -> Update]
      BY <2>6 DEF IInv, TypeOK, BeginConvert
    <3> QED
      BY <2>6, <3>1, ReadKeeps DEF BeginConvert
  <2>7. CASE Book(r)
    BY <2>7, BookKeeps
  <2>8. CASE Link(r)
    BY <2>8, LinkKeeps
  <2>9. CASE LogConversion(r)
    BY <2>9, LogKeeps, LeadConstants DEF LogConversion
  <2>10. CASE Die(r)
    BY <2>10, DieKeeps
  <2> QED
    BY <1>2, <2>1, <2>2, <2>3, <2>4, <2>5, <2>6, <2>7, <2>8, <2>9, <2>10 DEF Step
<1> QED
  BY <1>1, <1>2 DEF Next

----------------------------------------------------------------------------
(* The timeline *)

\* The timeline tells of a stage, is about to, or a handler was cut short before
\* it could.
Told(s) ==
    \/ s \in log
    \/ \E q \in Requests :
          \/ pc[q] = "died"
          \/ pc[q] = "linked" /\ s = "Won"
          \/ pc[q] = "written" /\ StageChanged(q) /\ s = updates[q].stage

\* So it does of the lead's stage, and of the stage of every row that was read:
\* a stale row puts no other stage back.
StagesTold ==
    /\ FirstStage \in log
    /\ Told(lead.stage)
    /\ \A r \in Requests : Told(seen[r].stage)

\* What an update or a conversion wrote is told once it is logged, or the handler
\* is cut short: no step takes a stage back.
LEMMA ToldStays ==
    ASSUME TypeOK, [Next]_vars, NEW s, Told(s)
    PROVE  Told(s)'
<1>1. ASSUME NEW r \in Requests, log \subseteq log',
             \A q \in Requests \ {r} :
                pc'[q] = pc[q] /\ seen'[q] = seen[q] /\ updates'[q] = updates[q],
             \/ pc'[r] = "died"
             \/ pc[r] \notin {"linked", "written", "died"}
             \/ pc[r] = "linked" /\ "Won" \in log'
             \/ pc[r] = "written" /\ (StageChanged(r) => updates[r].stage \in log')
      PROVE  Told(s)'
  <2>1. CASE s \in log
    BY <1>1, <2>1 DEF Told
  <2>2. ASSUME NEW q \in Requests,
               \/ pc[q] = "died"
               \/ pc[q] = "linked" /\ s = "Won"
               \/ pc[q] = "written" /\ StageChanged(q) /\ s = updates[q].stage
        PROVE  Told(s)'
    <3>1. CASE q = r
      BY <1>1, <2>2, <3>1 DEF Told
    <3>2. CASE q # r
      BY <1>1, <2>2, <3>2 DEF Told, StageChanged
    <3> QED
      BY <3>1, <3>2
  <2> QED
    BY <2>1, <2>2 DEF Told
<1>2. CASE UNCHANGED vars
  BY <1>2 DEF vars, Told, StageChanged
<1>3. ASSUME NEW r \in Requests, NEW m, Claim(r, m) \/ Assign(r, m)
      PROVE  Told(s)'
  BY <1>1, <1>3 DEF Claim, Assign, Goto, TypeOK
<1>4. ASSUME NEW r \in Requests, NEW u \in Updates, BeginUpdate(r, u)
      PROVE  Told(s)'
  BY <1>1, <1>4 DEF BeginUpdate, Read, Goto, TypeOK
<1>5. ASSUME NEW r \in Requests, WriteUpdate(r) \/ BeginConvert(r) \/ Book(r) \/ Link(r)
      PROVE  Told(s)'
  BY <1>1, <1>5 DEF WriteUpdate, BeginConvert, Book, Link, Read, Goto, TypeOK
<1>6. ASSUME NEW r \in Requests, NEW entries, Log(r, entries),
             \/ pc[r] = "linked" /\ "Won" \in entries
             \/ pc[r] = "written" /\ (StageChanged(r) => updates[r].stage \in entries)
      PROVE  Told(s)'
  <2>1. log \subseteq log' /\ (pc'[r] = "died" \/ log' = log \cup entries)
    BY <1>6 DEF Log, Finish, Goto, TypeOK
  <2>2. \A q \in Requests \ {r} :
           pc'[q] = pc[q] /\ seen'[q] = seen[q] /\ updates'[q] = updates[q]
    BY <1>6 DEF Log, Finish, Goto, TypeOK
  <2> QED
    BY <1>1, <1>6, <2>1, <2>2
<1>7. ASSUME NEW r \in Requests, LogStage(r) \/ LogConversion(r)
      PROVE  Told(s)'
  BY <1>6, <1>7 DEF LogStage, LogConversion
<1>8. ASSUME NEW r \in Requests, Die(r)
      PROVE  Told(s)'
  <2>1. \A q \in Requests \ {r} :
           pc'[q] = pc[q] /\ seen'[q] = seen[q] /\ updates'[q] = updates[q]
    BY <1>8 DEF Die, Finish, Goto, TypeOK
  <2>2. pc'[r] = "died" \/ pc[r] \in {"editing", "converting"}
    BY <1>8 DEF Die, Finish, Goto, TypeOK
  <2> QED
    BY <1>1, <1>8, <2>1, <2>2 DEF Die
<1> QED
  BY <1>2, <1>3, <1>4, <1>5, <1>7, <1>8 DEF Next, Step

\* A row that is written back has a stage that is told of, or that its handler is
\* about to tell of.
LEMMA StagesToldNext == IInv /\ StagesTold /\ [Next]_vars => StagesTold'
<1> SUFFICES ASSUME IInv, StagesTold, [Next]_vars
             PROVE  StagesTold'
  OBVIOUS
<1>0. TypeOK /\ \A s : Told(s) => Told(s)'
  BY ToldStays DEF IInv
<1>1. ASSUME lead'.stage = lead.stage,
             \A r \in Requests :
                seen'[r].stage \in {lead.stage, FirstStage, seen[r].stage},
             FirstStage \in log'
      PROVE  StagesTold'
  <2>1. Told(FirstStage) /\ Told(lead.stage) /\ \A r \in Requests : Told(seen[r].stage)
    BY DEF StagesTold, Told
  <2> QED
    BY <1>0, <1>1, <2>1 DEF StagesTold
<1>2. CASE UNCHANGED vars
  BY <1>1, <1>2 DEF vars, StagesTold
<1>3. ASSUME NEW r \in Requests, NEW m \in Owners, Claim(r, m) \/ Assign(r, m)
      PROVE  StagesTold'
  <2>1. lead'.stage = lead.stage /\ UNCHANGED <<seen, log>>
    BY <1>0, <1>3 DEF Claim, Assign, TypeOK, Lead
  <2> QED
    BY <1>1, <2>1 DEF StagesTold
<1>4. ASSUME NEW r \in Requests, NEW p, Read(r, p), UNCHANGED <<lead, log>>
      PROVE  StagesTold'
  BY <1>0, <1>1, <1>4 DEF Read, TypeOK, StagesTold
<1>5. ASSUME NEW r \in Requests, WriteUpdate(r)
      PROVE  StagesTold'
  <2>1. lead'.stage = Pick(updates[r].stage, seen[r].stage) /\ UNCHANGED <<seen, updates, log>>
    BY <1>5 DEF WriteUpdate, Write, Merged
  <2>2. CASE StageChanged(r)
    <3>1. lead'.stage = updates[r].stage /\ StageChanged(r)' /\ pc'[r] = "written"
      BY <1>0, <1>5, <2>1, <2>2 DEF StageChanged, Pick, WriteUpdate, Goto, TypeOK
    <3>2. Told(lead.stage)'
      BY <2>1, <3>1 DEF Told
    <3> QED
      BY <1>0, <2>1, <3>2 DEF StagesTold
  <2>3. CASE ~StageChanged(r)
    <3>1. lead'.stage = seen[r].stage
      BY <2>1, <2>3 DEF StageChanged, Pick
    <3> QED
      BY <1>0, <2>1, <3>1 DEF StagesTold
  <2> QED
    BY <2>2, <2>3
<1>6. ASSUME NEW r \in Requests, Book(r)
      PROVE  StagesTold'
  BY <1>1, <1>6 DEF Book, StagesTold
<1>7. ASSUME NEW r \in Requests, Link(r)
      PROVE  StagesTold'
  <2>1. lead'.stage = "Won" /\ pc'[r] = "linked" /\ UNCHANGED <<seen, log>>
    BY <1>0, <1>7 DEF Link, Write, Goto, TypeOK, Lead
  <2>2. Told(lead.stage)'
    BY <2>1 DEF Told
  <2> QED
    BY <1>0, <2>1, <2>2 DEF StagesTold
<1>8. ASSUME NEW r \in Requests, NEW p, Finish(r, p), UNCHANGED lead, log \subseteq log'
      PROVE  StagesTold'
  <2>1. \A q \in Requests : seen'[q].stage \in {FirstStage, seen[q].stage}
    BY <1>0, <1>8 DEF Finish, TypeOK, NewLead
  <2> QED
    BY <1>1, <1>8, <2>1 DEF StagesTold
<1>9. ASSUME NEW r \in Requests, LogStage(r) \/ LogConversion(r) \/ Die(r)
      PROVE  StagesTold'
  <2>1. log \subseteq log' /\ UNCHANGED lead /\ \E p : Finish(r, p)
    BY <1>9 DEF LogStage, LogConversion, Die, Log
  <2> QED
    BY <1>8, <2>1
<1> QED
  BY <1>2, <1>3, <1>4, <1>5, <1>6, <1>7, <1>9
  DEF Next, Step, Owners, BeginUpdate, BeginConvert

----------------------------------------------------------------------------
(* Theorems *)

\* The inductive invariant holds in every reachable state.
THEOREM Inductive == Spec => []IInv
  BY IInvInit, IInvNext, PTL DEF Spec

\* A claim that was granted lasts (claimLead), however many members race for the
\* lead, until it is given away or a stale row is written back.
THEOREM ClaimLasts == Spec => []ClaimKept
<1>1. IInv => ClaimKept
  BY DEF IInv
<1> QED
  BY <1>1, Inductive, PTL

\* The booking a lead is linked to was made from it (convertToBooking), whatever
\* is lost, fails or runs beside the conversion.
THEOREM LinkNamesABooking == Spec => []LinkIsBooked
<1>1. IInv => LinkIsBooked
  BY DEF IInv
<1> QED
  BY <1>1, Inductive, PTL

\* One lead, one booking, and the lead names it (convertToBooking), unless a stale
\* row was written back or a conversion was cut short.
THEOREM OneBookingEach == Spec => []OneBooking
<1>1. IInv => OneBooking
  <2> SUFFICES ASSUME IInv, Settled, ~overwrote
               PROVE  bookings = IF lead.converted = Unset THEN {} ELSE {lead.converted}
    BY DEF OneBooking
  <2>1. \A r \in bookings : r \in Requests /\ lead.converted = r
    BY DEF IInv, TypeOK, Accounted, Settled
  <2>2. lead.converted # Unset => lead.converted \in bookings
    BY DEF IInv, LinkIsBooked
  <2>3. Unset \notin bookings
    BY LeadConstants DEF IInv, TypeOK
  <2> QED
    BY <2>1, <2>2, <2>3
<1> QED
  BY <1>1, Inductive, PTL

\* The lead's timeline (insertFollowUp) tells of the stage it is in once every
\* handler has ended and none was cut short, however many stale rows updateLead
\* and convertToBooking put back.
THEOREM TimelineTells == Spec => []TimelineTellsStage
<1>1. Init => StagesTold
  BY DEF Init, StagesTold, Told, NewLead
<1>2. StagesTold => TimelineTellsStage
  BY DEF StagesTold, Told, TimelineTellsStage, Settled
<1> QED
  BY <1>1, <1>2, Inductive, StagesToldNext, PTL DEF Spec
=============================================================================
