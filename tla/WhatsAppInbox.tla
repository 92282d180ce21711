--------------------------- MODULE WhatsAppInbox ---------------------------
(***************************************************************************)
(* One WhatsApp chat: what customers write is stored, and the AI answers   *)
(* it when the chat is the AI's. Messages come from Meta's webhook, which  *)
(* is answered 200 before anything is done, or from the socket of a linked *)
(* phone; each may come more than once. Agents reply, switch the AI on and *)
(* off, and the allowance of the month is shared with the other AI calls.  *)
(*                                                                         *)
(* A job is one delivery, one catch-up message or one reply of a person,   *)
(* cut at its awaits. The reply lock of a chat (inFlight) lives in the     *)
(* process; everything else is in Postgres.                                *)
(*                                                                         *)
(* Left out: texts and media, creation of the chat, leads, unread counts,  *)
(* delivery ticks, the 24 hour window, the age of queued messages.         *)
(***************************************************************************)
EXTENDS Naturals, Sequences, FiniteSets

CONSTANTS
    Messages,      \* what the customer writes
    Stops,         \* of these, the ones that ask us to stop
    Web,           \* of these, the ones that reach the linked phone, not Meta
    Jobs,          \* jobs under way at one time
    Limit,         \* AI actions of the month
    MaxDeliveries, \* deliveries: a bound
    MaxRequests,   \* acts of agents: a bound
    MaxIncidents   \* failures and restarts: a bound

ASSUME InboxConstants ==
    /\ Stops \subseteq Messages /\ Web \subseteq Messages
    /\ Limit \in Nat /\ MaxDeliveries \in Nat /\ MaxRequests \in Nat /\ MaxIncidents \in Nat

VARIABLES
    chat,       \* the chat's row: ai_enabled, needs_human, opted_out
    stored,     \* messages of the customer that are in whatsapp_messages
    lastIn,     \* the last message of the thread is the customer's
    used,       \* AI actions used this month
    inFlight,   \* whatsappAiPolicy.inFlight has the chat
    job,        \* each job: its kind, where it is and what it holds
    deliveries, requests, incidents,
    delivered,  \* history: messages that were delivered
    cut,        \* history: messages whose job met an error or a restart
    replies,    \* history: automated messages sent, by the message they were triggered by
    covered,    \* history: messages some automated message took into account
    unread,     \* history: messages a prompt went without, its history query having failed
    joined,     \* history: messages left to the job that was about to answer
    crossed,    \* history: a delivery met a message that another one was storing
    forPeople,  \* history: messages that came when the chat was not the AI's, and has not been since
    leaked,     \* history: a job went away and kept the reply lock
    toOptedOut  \* history: an automated message of a job that knew of the opt-out

bounds == <<deliveries, requests, incidents>>
row    == <<chat, stored, lastIn, used>>
told   == <<delivered, unread, cut, replies, covered, joined, crossed, forPeople, leaked, toOptedOut>>
vars   == <<row, inFlight, job, bounds, told>>

Chats == [ai : BOOLEAN, needsHuman : BOOLEAN, optedOut : BOOLEAN]
Kinds == {"none", "meta", "web", "catchUp", "person"}
Points == {"idle", "checking", "saving", "inserting", "saved", "reading", "claiming",
           "claimed", "prompting", "generating", "handingOver", "recording", "takingOver"}
Batches == {<<>>} \cup {<<m>> : m \in Messages} \cup (Messages \X Messages)

NoJob == [kind |-> "none", at |-> "idle", todo |-> <<>>,
          seen |-> [ai |-> FALSE, needsHuman |-> FALSE, optedOut |-> FALSE], covers |-> {}]

TypeOK ==
    /\ chat \in Chats
    /\ stored \subseteq Messages /\ lastIn \in BOOLEAN /\ used \in 0..Limit /\ inFlight \in BOOLEAN
    /\ job \in [Jobs -> [kind : Kinds, at : Points, todo : Batches, seen : Chats,
                         covers : SUBSET Messages]]

Init ==
    /\ chat \in {[ai |-> b, needsHuman |-> FALSE, optedOut |-> FALSE] : b \in BOOLEAN}
    /\ stored = {} /\ lastIn = FALSE /\ used = 0 /\ inFlight = FALSE
    /\ job = [j \in Jobs |-> NoJob]
    /\ deliveries = 0 /\ requests = 0 /\ incidents = 0
    /\ delivered = {} /\ cut = {} /\ replies = [m \in Messages |-> 0]
    /\ covered = {} /\ unread = {} /\ joined = {}
    /\ crossed = {} /\ forPeople = {} /\ leaked = FALSE /\ toOptedOut = FALSE

----------------------------------------------------------------------------

Request == requests < MaxRequests /\ requests' = requests + 1 /\ UNCHANGED <<deliveries, incidents>>
Incident == incidents < MaxIncidents /\ incidents' = incidents + 1 /\ UNCHANGED <<deliveries, requests>>

\* A new job takes any slot that is free; which one makes no difference.
Free(j) == job[j] = NoJob /\ j = CHOOSE k \in Jobs : job[k] = NoJob

At(j, points) == job[j].at \in points
Msg(j) == Head(job[j].todo)
Moves(j, to) == job' = [job EXCEPT ![j].at = to]

\* The jobs that write a reply, between claim and release.
Writing == {"claimed", "prompting", "generating", "handingOver", "recording"}
Writers == {j \in Jobs : At(j, Writing)}

\* What a job does when it is done with a message: the rest of the batch.
Rest(b) == IF Len(b.todo) < 2 THEN NoJob
                              ELSE [NoJob EXCEPT !.kind = b.kind, !.at = "checking", !.todo = Tail(b.todo)]
Done(j) == job' = [job EXCEPT ![j] = Rest(job[j])]

\* The chat is the AI's.
AiMayReply(c) == c.ai /\ ~c.needsHuman /\ ~c.optedOut

----------------------------------------------------------------------------
(* A message arrives *)

Starts(j, kind, todo, at, seen) ==
    /\ Free(j)
    /\ deliveries < MaxDeliveries /\ deliveries' = deliveries + 1
    /\ UNCHANGED <<requests, incidents>>
    /\ job' = [job EXCEPT ![j] = [NoJob EXCEPT !.kind = kind, !.todo = todo, !.at = at, !.seen = seen]]
    /\ LET came == {todo[i] : i \in DOMAIN todo}
       IN  /\ delivered' = delivered \cup came
           /\ forPeople' = IF AiMayReply(chat) THEN forPeople ELSE forPeople \cup (came \ delivered)
    /\ UNCHANGED <<row, inFlight, unread, cut, replies, covered, joined, crossed, leaked, toOptedOut>>

\* A webhook brings a batch, in the order it was written; one that is delivered
\* again may be a part of another batch.
Deliver(j) ==
    \E todo \in Batches \ {<<>>} :
        /\ \A i \in DOMAIN todo : todo[i] \notin Web
        /\ Len(todo) = 2 => todo[1] # todo[2]
        /\ Starts(j, "meta", todo, "checking", NoJob.seen)

\* The socket brings one message; the chat is read first.
DeliverWeb(j) == \E m \in Web : Starts(j, "web", <<m>>, "inserting", chat)

CheckReturning(j) ==                             \* mutant: a duplicate ends the batch
    /\ At(j, {"checking"})
    /\ IF Msg(j) \in stored THEN job' = [job EXCEPT ![j] = NoJob] ELSE Moves(j, "saving")
    /\ UNCHANGED <<row, inFlight, bounds, told>>

\* messageExistsByMessageId; then an attachment is downloaded.
Check(j) ==
    /\ At(j, {"checking"})
    /\ IF Msg(j) \in stored THEN Done(j) ELSE Moves(j, "saving")
    /\ UNCHANGED <<row, inFlight, bounds, told>>

\* saveMessage up to the chat's row. A message that has been stored meanwhile is
\* a duplicate, which nobody looks at afterwards.
Save(j) ==
    /\ At(j, {"saving"})
    /\ job' = [job EXCEPT ![j].at = IF Msg(j) \in stored THEN "saved" ELSE "inserting",
                          ![j].seen = chat]
    /\ crossed' = IF Msg(j) \in stored THEN crossed \cup {Msg(j)} ELSE crossed
    /\ UNCHANGED <<row, inFlight, bounds, delivered, unread, cut, replies, covered, joined, forPeople,
                   leaked, toOptedOut>>

\* The INSERT of saveMessage. The id is unique: the loser of a race throws, and
\* the rest of its batch goes with it.
Insert(j) ==
    /\ At(j, {"inserting"}) /\ job[j].kind = "meta"
    /\ stored' = stored \cup {Msg(j)}
    /\ IF Msg(j) \in stored
         THEN job' = [job EXCEPT ![j] = NoJob] /\ crossed' = crossed \cup {Msg(j)} /\ UNCHANGED lastIn
         ELSE Moves(j, "saved") /\ lastIn' = TRUE /\ UNCHANGED crossed
    /\ UNCHANGED <<chat, used, inFlight, bounds, delivered, unread, cut, replies, covered, joined,
                   forPeople, leaked, toOptedOut>>

InsertWebAnyway(j) ==                            \* mutant: what was stored already is answered again
    /\ At(j, {"inserting"}) /\ job[j].kind = "web"
    /\ stored' = stored \cup {Msg(j)} /\ lastIn' = TRUE
    /\ Moves(j, "saved")
    /\ UNCHANGED <<chat, used, inFlight, bounds, told>>

\* insertMessage: ON CONFLICT DO NOTHING, and nothing more is done.
InsertWeb(j) ==
    /\ At(j, {"inserting"}) /\ job[j].kind = "web"
    /\ stored' = stored \cup {Msg(j)}
    /\ IF Msg(j) \in stored THEN Done(j) /\ UNCHANGED lastIn
                            ELSE Moves(j, "saved") /\ lastIn' = TRUE
    /\ UNCHANGED <<chat, used, inFlight, bounds, told>>

\* "STOP" ends it: setChatOptedOut.
OptOut(j) ==
    /\ At(j, {"saved"}) /\ Msg(j) \in Stops
    /\ chat' = [chat EXCEPT !.optedOut = TRUE, !.ai = FALSE]
    /\ Done(j)
    /\ UNCHANGED <<stored, lastIn, used, inFlight, bounds, told>>

----------------------------------------------------------------------------
(* The reply lock and the reply *)

MayClaimAlways == TRUE                           \* mutant: no lock
\* claim, whatsappAiPolicy's.
MayClaim == ~inFlight

AllowedAnyway(b) == b.seen.ai /\ used < Limit    \* mutant: only the switch is looked at
\* canAiReply, of the row that was read; the allowance is looked at, not spent.
Allowed(b) == AiMayReply(b.seen) /\ used < Limit

\* canAiReply and claim. A job that finds the chat claimed leaves the message to
\* the one that holds it.
Judge(j) ==
    /\ At(j, {"saved"}) /\ Msg(j) \notin Stops
    /\ \/ /\ Allowed(job[j]) /\ MayClaim
          /\ inFlight' = TRUE /\ Moves(j, "claimed")
          /\ joined' = {}
       \/ /\ ~Allowed(job[j]) \/ ~MayClaim
          /\ Done(j)
          /\ joined' = IF Allowed(job[j]) /\ \E w \in Jobs : At(w, {"claimed", "prompting"})
                         THEN joined \cup {Msg(j)} ELSE joined
          /\ UNCHANGED inFlight
    /\ UNCHANGED <<row, bounds, delivered, unread, cut, replies, covered, crossed, forPeople, leaked,
                   toOptedOut>>

\* release, at the end of a reply that went out or that nobody is promised.
Releases(j) == inFlight' = FALSE /\ Done(j)

ConsumeKeeping(j) ==                             \* mutant: a refusal keeps the lock
    /\ At(j, {"claimed"})
    /\ \/ /\ used < Limit /\ used' = used + 1
          /\ Moves(j, "prompting")
          /\ UNCHANGED <<inFlight, joined>>
       \/ /\ used = Limit
          /\ Done(j) /\ joined' = {} /\ UNCHANGED <<used, inFlight>>
    /\ UNCHANGED <<chat, stored, lastIn, bounds, delivered, unread, cut, replies, covered, crossed,
                   forPeople, leaked, toOptedOut>>

\* The burst was waited for; tryConsume spends an action, or the chat waits for a
\* person.
Consume(j) ==
    /\ At(j, {"claimed"})
    /\ \/ /\ used < Limit /\ used' = used + 1
          /\ Moves(j, "prompting")
          /\ UNCHANGED <<inFlight, joined>>
       \/ /\ used = Limit
          /\ Releases(j) /\ joined' = {} /\ UNCHANGED used
    /\ UNCHANGED <<chat, stored, lastIn, bounds, delivered, unread, cut, replies, covered, crossed,
                   forPeople, leaked, toOptedOut>>

PromptOwn(j, read) ==                            \* mutant: the history is not read
    /\ At(j, {"prompting"})
    /\ job' = [job EXCEPT ![j].at = "generating",
                          ![j].covers = read \cap {job[j].todo[i] : i \in DOMAIN job[j].todo}]
    /\ read = stored /\ UNCHANGED <<bounds, unread>>
    /\ UNCHANGED <<row, inFlight, delivered, cut, replies, covered, joined, crossed, forPeople, leaked,
                   toOptedOut>>

\* generateWhatsappReply reads the history of the chat: what is stored by now goes
\* into the prompt. The query may fail, which is only logged. The prompt is then
\* about the message itself or, after a webhook, about whichever rows
\* listRecentInboundMessages found: the ids it orders by are random.
Prompt(j, read) ==
    /\ At(j, {"prompting"})
    /\ job' = [job EXCEPT ![j].at = "generating", ![j].covers = read]
    /\ \/ read = stored /\ UNCHANGED <<bounds, unread>>
       \/ read # stored /\ Incident /\ unread' = unread \cup (stored \ read)
    /\ UNCHANGED <<row, inFlight, delivered, cut, replies, covered, joined, crossed, forPeople, leaked,
                   toOptedOut>>

\* An automated message goes out.
Sends(j) ==
    /\ replies' = IF job[j].kind = "catchUp" THEN replies ELSE [replies EXCEPT ![Msg(j)] = @ + 1]
    /\ covered' = covered \cup job[j].covers
    /\ toOptedOut' = (toOptedOut \/ job[j].seen.optedOut)

\* The model has an answer, or asks for a person: a handoff message is sent, and
\* then the chat is given back. A catch-up hands over without a word.
Generate(j, next) ==
    /\ At(j, {"generating"})
    /\ next \in {"recording", "handingOver"}
    /\ Moves(j, next)
    /\ IF job[j].kind = "catchUp" /\ next = "handingOver"
         THEN covered' = covered \cup job[j].covers /\ UNCHANGED <<replies, toOptedOut>>
         ELSE Sends(j)
    /\ UNCHANGED <<row, inFlight, bounds, delivered, unread, cut, joined, crossed, forPeople, leaked>>

\* No answer, or none that can be sent: an error, which is caught.
GenerateNothing(j) ==
    /\ At(j, {"generating"})
    /\ Incident
    /\ Releases(j) /\ joined' = {}
    /\ UNCHANGED <<row, delivered, unread, cut, replies, covered, crossed, forPeople, leaked,
                   toOptedOut>>

\* setChatAiEnabled after a webhook, flagChatForHuman otherwise.
HandOver(j) ==
    /\ At(j, {"handingOver"})
    /\ chat' = [chat EXCEPT !.ai = FALSE, !.needsHuman = @ \/ job[j].kind # "meta"]
    /\ Releases(j)
    /\ UNCHANGED <<stored, lastIn, used, bounds, told>>

\* The reply is in the thread.
Record(j) ==
    /\ At(j, {"recording"})
    /\ lastIn' = FALSE
    /\ Releases(j)
    /\ UNCHANGED <<chat, stored, used, bounds, told>>

----------------------------------------------------------------------------
(* Agents *)

\* toggleChatAi, setAiEnabledForAllChats, setChatManagement; to switch it on in
\* one chat asks for a catch-up message.
SwitchOn(j) ==
    /\ Request
    /\ Free(j)
    /\ chat' = [chat EXCEPT !.ai = TRUE, !.needsHuman = FALSE]
    /\ forPeople' = IF chat.optedOut THEN forPeople ELSE {}
    /\ job' = [job EXCEPT ![j] = [NoJob EXCEPT !.kind = "catchUp", !.at = "reading"]]
    /\ UNCHANGED <<stored, lastIn, used, inFlight, delivered, unread, cut, replies, covered, joined,
                   crossed, leaked, toOptedOut>>

SwitchOff ==
    /\ Request
    /\ chat' = [chat EXCEPT !.ai = FALSE]
    /\ UNCHANGED <<stored, lastIn, used, inFlight, job, told>>

\* sendAiCatchUpMessage reads the chat and its last message: the customer waits.
CatchUp(j) ==
    /\ At(j, {"reading"})
    /\ IF lastIn THEN job' = [job EXCEPT ![j].at = "claiming", ![j].seen = chat] ELSE Done(j)
    /\ UNCHANGED <<row, inFlight, bounds, told>>

CatchUpClaims(j) ==
    /\ At(j, {"claiming"})
    /\ IF MayClaim THEN inFlight' = TRUE /\ Moves(j, "claimed") /\ joined' = {}
                   ELSE Done(j) /\ UNCHANGED <<inFlight, joined>>
    /\ UNCHANGED <<row, bounds, delivered, unread, cut, replies, covered, crossed, forPeople, leaked,
                   toOptedOut>>

\* An agent answers, here or on the phone: the message, then the takeover.
PersonReplies(j) ==
    /\ Request
    /\ Free(j)
    /\ lastIn' = FALSE
    /\ job' = [job EXCEPT ![j] = [NoJob EXCEPT !.kind = "person", !.at = "takingOver"]]
    /\ UNCHANGED <<chat, stored, used, inFlight, told>>

\* recordHumanReplyOnChat.
TakeOver(j) ==
    /\ At(j, {"takingOver"})
    /\ chat' = [chat EXCEPT !.ai = FALSE, !.needsHuman = FALSE]
    /\ Done(j)
    /\ UNCHANGED <<stored, lastIn, used, inFlight, bounds, told>>

\* Another chat or feature spends an AI action.
SpendElsewhere ==
    /\ Request
    /\ used < Limit /\ used' = used + 1
    /\ UNCHANGED <<chat, stored, lastIn, inFlight, job, told>>

----------------------------------------------------------------------------
(* Failures *)

\* A query or a send fails. Before the reply the error leaves the webhook, with
\* the rest of the batch; from canAiReply on it is caught, and the next message
\* is looked at. The lock is given up when the error comes after the allowance
\* was spent, and in all but the webhook before.
Fail(j) ==
    /\ Incident
    /\ job[j] # NoJob
    /\ LET leaks == At(j, {"claimed"}) /\ job[j].kind = "meta"
       IN  /\ leaked' = (leaked \/ leaks)
           /\ inFlight' = IF At(j, Writing) /\ ~leaks THEN FALSE ELSE inFlight
    /\ LET out == ~At(j, Writing) /\ ~(At(j, {"saved"}) /\ Msg(j) \notin Stops)
       IN  /\ job' = [job EXCEPT ![j] = IF out THEN NoJob ELSE Rest(job[j])]
           /\ cut' = IF out THEN cut \cup {job[j].todo[i] : i \in DOMAIN job[j].todo} ELSE cut
    /\ joined' = IF At(j, Writing) THEN {} ELSE joined
    /\ UNCHANGED <<row, delivered, unread, replies, covered, crossed, forPeople, toOptedOut>>

\* The process stops and starts: nothing that was under way is taken up again.
Restart ==
    /\ Incident
    /\ job' = [j \in Jobs |-> NoJob]
    /\ inFlight' = FALSE /\ leaked' = FALSE
    /\ cut' = cut \cup (delivered \ stored) /\ joined' = {}
    /\ UNCHANGED <<row, delivered, unread, replies, covered, crossed, forPeople, toOptedOut>>

----------------------------------------------------------------------------

\* What a job does next when what it awaits is answered.
Step(j) ==
    \/ Check(j) \/ Save(j) \/ Insert(j) \/ InsertWeb(j) \/ OptOut(j) \/ Judge(j)
    \/ Consume(j) \/ Prompt(j, stored) \/ HandOver(j) \/ Record(j)
    \/ \E next \in {"recording", "handingOver"} : Generate(j, next)
    \/ CatchUp(j) \/ CatchUpClaims(j) \/ TakeOver(j)

Next ==
    \/ \E j \in Jobs : \/ Deliver(j) \/ DeliverWeb(j) \/ SwitchOn(j) \/ PersonReplies(j)
                       \/ Step(j) \/ GenerateNothing(j) \/ Fail(j)
                       \/ \E read \in SUBSET stored : Prompt(j, read)
    \/ SwitchOff \/ SpendElsewhere \/ Restart

\* Queries, sends and the model answer, or fail; nobody has to write or to act.
Spec == Init /\ [][Next]_vars /\ \A j \in Jobs : WF_vars(Step(j))

----------------------------------------------------------------------------
(* Properties *)

\* "Chats with a reply already being generated": one job at most writes a reply,
\* and the lock is taken as long as it does; it is taken without a writer only
\* when a webhook's job failed between claim and allowance.
OneWriter ==
    /\ TypeOK
    /\ \A j, k \in Writers : j = k
    /\ inFlight <=> (Writers # {} \/ leaked)

\* No message is answered twice by itself, however often it is delivered, unless
\* Meta's deliveries of it met before it was stored.
AnsweredOnce == \A m \in Messages : replies[m] > 1 => m \in crossed /\ m \notin Web

\* "The rest of the batch still runs": when every job is done, what Meta and the
\* phone delivered is stored, unless an error or a restart cut it short, or two
\* deliveries met.
AckedIsStored ==
    (\A j \in Jobs : job[j] = NoJob) /\ crossed = {} => delivered \subseteq stored \cup cut

\* A message that came after the customer said STOP, or after a person took over,
\* starts no automated reply, unless the AI is switched on again for a customer
\* who did not say STOP. (It is not left unread: the reply under way, whose job
\* read the chat earlier, and the catch-up an agent asks for still go out and may
\* take it into account.)
ForPeopleStartsNone == \A m \in forPeople : replies[m] = 0

\* "The claim holder answers the whole burst": what other jobs left to the one
\* that had not read the history yet is in the reply it sends, unless the history
\* could not be read. What comes while the model writes is left to nobody.
BurstAnswered == ~inFlight => joined \subseteq covered \cup unread

\* The chat is never silent for good: a reply that is being written ends, and its
\* lock is given up, unless the lock was lost to a failure.
WriterFinishes == inFlight /\ ~leaked ~> ~inFlight \/ leaked

\* "An earlier opt-out still stands, whatever the flags say": no automated
\* message comes from a job that read an opted-out chat. Not true of the code:
\* sendAiCatchUpMessage does not look.
OptOutStands == ~toOptedOut
=============================================================================
