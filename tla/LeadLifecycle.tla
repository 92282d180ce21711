--------------------------- MODULE LeadLifecycle ---------------------------
(***************************************************************************)
(* One lead of one tenant, the requests that change it, and the bookings   *)
(* made from it:                                                           *)
(*   claim    claimLead: one UPDATE of a lead that nobody has              *)
(*   update   updateLead (also the stage change, the AI auto-fill and the  *)
(*            soft delete): read the row, write every column back later    *)
(*   convert  convertToBooking: read the lead, create a booking, write     *)
(*            the lead that was read back as Won and linked                *)
(* Beside them the chat inbox and the team settings write assigned_to.     *)
(* A handler is one action per query that another request may come before. *)
(*                                                                         *)
(* A booking is named by the request that made it; BookingLedger is about  *)
(* what follows. Left out: how a lead is found or created, contact details, *)
(* and the WhatsApp chat whose assignment follows the lead's.              *)
(***************************************************************************)
EXTENDS Naturals, FiniteSets

CONSTANTS
    Requests,     \* HTTP requests; each runs at most one handler
    Members,      \* names of team members
    Stages,       \* pipeline stages
    FirstStage,   \* the stage the lead was created in
    Updates,      \* what updates may carry
    Nobody,       \* assigned_to is empty: the lead is in the pool
    Unset         \* a field the updates lack; a lead without a booking

Owners == Members \cup {Nobody}
Lead   == [stage : Stages, assignedTo : Owners, converted : Requests \cup {Unset},
           deleted : BOOLEAN]
Update == [stage : Stages \cup {Unset}, assignedTo : Owners \cup {Unset},
           deleted : {TRUE, Unset}]

ASSUME LeadConstants ==
    /\ Updates \subseteq Update
    /\ {"Won", FirstStage} \subseteq Stages
    /\ Nobody \notin Members
    /\ Unset \notin Stages \cup Owners \cup Requests

VARIABLES
    lead,         \* the row of leads
    bookings,     \* requests that made a booking of it
    log,          \* follow_up_logs: stages and bookings it tells of
    pc,           \* where each request's handler is
    seen,         \* the row a handler read
    updates,      \* the updates it was asked for
    claimant,     \* history: the name each claim that was granted was for
    overwrote,    \* history: some write put a row back that had changed since
    moved         \* history: somebody was given the lead, or it was put in the pool

vars == <<lead, bookings, log, pc, seen, updates, claimant, overwrote, moved>>

NoUpdate == [stage |-> Unset, assignedTo |-> Unset, deleted |-> Unset]
NewLead  == [stage |-> FirstStage, assignedTo |-> Nobody, converted |-> Unset,
             deleted |-> FALSE]

Active == {"editing", "written", "converting", "booked", "linked"}

TypeOK ==
    /\ lead \in Lead
    /\ bookings \subseteq Requests
    /\ log \subseteq Stages \cup Requests
    /\ pc \in [Requests -> {"idle", "done", "died"} \cup Active]
    /\ seen \in [Requests -> Lead]
    /\ updates \in [Requests -> Update]
    /\ claimant \in [Requests -> Owners]
    /\ overwrote \in BOOLEAN /\ moved \in BOOLEAN

Init ==
    /\ lead = NewLead
    /\ bookings = {} /\ log = {FirstStage}
    /\ pc = [r \in Requests |-> "idle"]
    /\ seen = [r \in Requests |-> NewLead]
    /\ updates = [r \in Requests |-> NoUpdate]
    /\ claimant = [r \in Requests |-> Nobody]
    /\ overwrote = FALSE /\ moved = FALSE

----------------------------------------------------------------------------

Goto(r, phase) == pc' = [pc EXCEPT ![r] = phase]

\* The handler ends: its locals are gone.
Finish(r, phase) ==
    /\ Goto(r, phase)
    /\ seen' = [seen EXCEPT ![r] = NewLead]
    /\ updates' = [updates EXCEPT ![r] = NoUpdate]

Pick(new, old) == IF new = Unset THEN old ELSE new

\* getLeadById finds no deleted lead: 404.
Read(r, phase) ==
    /\ pc[r] = "idle" /\ ~lead.deleted
    /\ seen' = [seen EXCEPT ![r] = lead]
    /\ Goto(r, phase)

\* UPDATE leads SET every column, whatever became of the row since.
Write(r, row) ==
    /\ lead' = row
    /\ overwrote' = (overwrote \/ seen[r] # lead)

\* insertFollowUp: 404 when the lead was deleted meanwhile.
Log(r, entries) ==
    IF lead.deleted /\ entries # {}
      THEN Finish(r, "died") /\ UNCHANGED log
      ELSE Finish(r, "done") /\ log' = log \cup entries

----------------------------------------------------------------------------
(* claimLead *)

ClaimUnconditional(r, m) ==                      \* mutant: no condition in the UPDATE
    /\ pc[r] = "idle"
    /\ lead' = [lead EXCEPT !.assignedTo = m]
    /\ claimant' = [claimant EXCEPT ![r] = m]
    /\ Goto(r, "done")
    /\ UNCHANGED <<bookings, log, seen, updates, overwrote, moved>>

\* UPDATE ... WHERE nobody has it; 409 when somebody does. It does not ask
\* whether the lead is deleted.
Claim(r, m) ==
    /\ pc[r] = "idle"
    /\ IF lead.assignedTo = Nobody
         THEN /\ lead' = [lead EXCEPT !.assignedTo = m]
              /\ claimant' = [claimant EXCEPT ![r] = m]
         ELSE UNCHANGED <<lead, claimant>>
    /\ Goto(r, "done")
    /\ UNCHANGED <<bookings, log, seen, updates, overwrote, moved>>

----------------------------------------------------------------------------
(* updateLead, updateStage, softDeleteLead *)

BeginUpdate(r, u) ==
    /\ Read(r, "editing")
    /\ updates' = [updates EXCEPT ![r] = u]
    /\ UNCHANGED <<lead, bookings, log, claimant, overwrote, moved>>

\* { ...existing, ...updates }
Merged(row, u) ==
    [stage |-> Pick(u.stage, row.stage), assignedTo |-> Pick(u.assignedTo, row.assignedTo),
     converted |-> row.converted, deleted |-> Pick(u.deleted, row.deleted)]

WriteUpdate(r) ==
    /\ pc[r] = "editing"
    /\ Write(r, Merged(seen[r], updates[r]))
    /\ moved' = (moved \/ updates[r].assignedTo # Unset)
    /\ Goto(r, "written")
    /\ UNCHANGED <<bookings, log, seen, updates, claimant>>

StageChangedFromNew(r) ==                        \* mutant: only the first change is logged
    seen[r].stage = FirstStage /\ updates[r].stage \notin {Unset, seen[r].stage}
StageChanged(r) == updates[r].stage \notin {Unset, seen[r].stage}

LogStage(r) ==
    /\ pc[r] = "written"
    /\ Log(r, IF StageChanged(r) THEN {updates[r].stage} ELSE {})
    /\ UNCHANGED <<lead, bookings, claimant, overwrote, moved>>

----------------------------------------------------------------------------
(* convertToBooking *)

BeginConvertAgain(r) ==                          \* mutant: no "already been converted"
    /\ Read(r, "converting")
    /\ UNCHANGED <<lead, bookings, log, updates, claimant, overwrote, moved>>

BeginConvert(r) ==
    /\ Read(r, "converting")
    /\ lead.converted = Unset
    /\ UNCHANGED <<lead, bookings, log, updates, claimant, overwrote, moved>>

BookAfterwards(r) ==                             \* mutant: linked before it exists
    /\ pc[r] = "converting"
    /\ Goto(r, "booked")
    /\ UNCHANGED <<lead, bookings, log, seen, updates, claimant, overwrote, moved>>

\* createBooking.
Book(r) ==
    /\ pc[r] = "converting"
    /\ bookings' = bookings \cup {r}
    /\ Goto(r, "booked")
    /\ UNCHANGED <<lead, log, seen, updates, claimant, overwrote, moved>>

\* The lead that was read, Won and linked.
Link(r) ==
    /\ pc[r] = "booked"
    /\ Write(r, [seen[r] EXCEPT !.stage = "Won", !.converted = r])
    /\ Goto(r, "linked")
    /\ UNCHANGED <<bookings, log, seen, updates, claimant, moved>>

\* "Converted to Booking" tells of the booking and of Won.
LogConversion(r) ==
    /\ pc[r] = "linked"
    /\ Log(r, {"Won", r})
    /\ UNCHANGED <<lead, bookings, claimant, overwrote, moved>>

----------------------------------------------------------------------------
(* Others who write the row *)

\* assignChat sets the lead's owner, reassignTeamMemberName moves a renamed or
\* removed member's leads: one UPDATE each, deleted or not.
Assign(r, m) ==
    /\ pc[r] = "idle"
    /\ lead' = [lead EXCEPT !.assignedTo = m]
    /\ moved' = TRUE
    /\ Goto(r, "done")
    /\ UNCHANGED <<bookings, log, seen, updates, claimant, overwrote>>

\* A query fails or the process stops: what was written stays written.
Die(r) ==
    /\ pc[r] \in Active
    /\ Finish(r, IF pc[r] \in {"editing", "converting"} THEN "done" ELSE "died")
    /\ UNCHANGED <<lead, bookings, log, claimant, overwrote, moved>>

----------------------------------------------------------------------------

Step(r) ==
    \/ \E m \in Members : Claim(r, m)
    \/ \E m \in Owners : Assign(r, m)
    \/ \E u \in Updates : BeginUpdate(r, u)
    \/ WriteUpdate(r) \/ LogStage(r)
    \/ BeginConvert(r) \/ Book(r) \/ Link(r) \/ LogConversion(r)
    \/ Die(r)

Next == \E r \in Requests : Step(r)

Spec == Init /\ [][Next]_vars

----------------------------------------------------------------------------
(* Properties *)

\* Every handler has ended, and none between two writes that belong together.
Settled == \A r \in Requests : pc[r] \in {"idle", "done"}

\* A granted claim lasts: unless the lead is given to somebody or a stale row is
\* written back, it belongs to whoever claimed it, and so to one member only.
ClaimKept ==
    ~overwrote /\ ~moved =>
        \A r \in Requests : claimant[r] # Nobody => lead.assignedTo = claimant[r]

\* The booking a lead names is one that was made from it: lost updates, failures
\* and concurrent conversions leave no dangling link.
LinkIsBooked == lead.converted # Unset => lead.converted \in bookings

\* A lead yields one booking and names it, when no row was overwritten and no
\* conversion was cut short: only these two can lead to a second booking or to
\* one the lead does not name.
OneBooking ==
    Settled /\ ~overwrote =>
        bookings = IF lead.converted = Unset THEN {} ELSE {lead.converted}

\* The lead's timeline tells of the stage it is in, even when a stale row put an
\* older stage back, provided that no handler was cut short.
TimelineTellsStage == Settled => lead.stage \in log
=============================================================================
