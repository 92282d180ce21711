-------------------------- MODULE WhatsAppSession --------------------------
(***************************************************************************)
(* The WhatsApp Web session of one account in one process: the sockets,    *)
(* the entry of activeSockets that names one of them, the reconnect        *)
(* timers, the status in whatsapp_sessions and the login in                *)
(* whatsapp_auth_state.                                                    *)
(*                                                                         *)
(* initWhatsAppSession and disconnectSession are calls, cut at their       *)
(* awaits. The connection.update handler of a socket runs up to its first  *)
(* await when the event arrives; what it awaits is a task, and what it     *)
(* does afterwards happens when the task is done. Nothing orders the tasks *)
(* of two sockets, or of a socket and a call.                              *)
(*                                                                         *)
(* Left out: messages, the import of a session from disk, the keys beside  *)
(* the credentials (AuthKeyStore), a second process (a rival client).      *)
(***************************************************************************)
EXTENDS Naturals, FiniteSets

CONSTANTS
    Sockets,      \* sockets open, or with a handler under way, at one time
    Calls,        \* calls of initWhatsAppSession and disconnectSession at one time
    MaxRequests,  \* requests to connect, resume or disconnect, and scans: a bound
    MaxIncidents, \* losses, takeovers, failures and restarts: a bound
    None          \* no socket

ASSUME SessionConstants ==
    /\ IsFiniteSet(Sockets) /\ IsFiniteSet(Calls)
    /\ MaxRequests \in Nat /\ MaxIncidents \in Nat
    /\ None \notin Sockets

VARIABLES
    sock,         \* each socket: its state, and whether its login is paired (creds.me)
    entry,        \* what activeSockets has for the account
    row,          \* whatsapp_sessions.status
    linked,       \* whatsapp_auth_state has a paired login
    tasks,        \* what the handlers of sockets are waiting for
    timers,       \* reconnect timers set
    call,         \* each call: where it is and what it holds
    requests,     \* requests so far
    incidents,    \* incidents so far
    lastClose,    \* history: why a socket closed last
    failed,       \* history: an incident took away what was to come next
    crossed,      \* history: two statuses were on their way to the row at once
    lateQr,       \* history: a QR was drawn for a socket that had closed
    crowded,      \* history: a call was under way beside anything else
    out           \* history: the session was quiet when it was disconnected, and nothing was asked since

vars == <<sock, entry, row, linked, tasks, timers, call, requests, incidents,
          lastClose, failed, crossed, lateQr, crowded, out>>
events == <<requests, incidents>>
told == <<lastClose, failed, crossed, lateQr, crowded, out>>

States   == {"free", "dialing", "scanned", "open", "replaced", "closed"}
Statuses == {"disconnected", "qrcode", "connecting", "connected"}
Reasons  == {"none", "ended", "expired", "replaced", "loggedOut", "lost", "restart"}
Points   == {"idle", "asked", "judging", "clearing", "loading", "loaded",
             "loggingOut", "forgetting", "markingOut"}
Jobs     == {"drawQr", "saveQr", "saveCreds", "markConnected", "setDisconnected",
             "setThenRedial", "clear", "markLoggedOut"}

Unused  == [state |-> "free", paired |-> FALSE]
NoEntry == [sock |-> None, status |-> "none"]
NoCall  == [at |-> "idle", force |-> FALSE, paired |-> FALSE, sock |-> None]

\* A task: what is awaited, for which socket, and the status it writes.
Task(job, s, status) == [job |-> job, sock |-> s, status |-> status]

TypeOK ==
    /\ sock \in [Sockets -> [state : States, paired : BOOLEAN]]
    /\ entry \in [sock : Sockets \cup {None}, status : Statuses \cup {"none"}]
    /\ row \in Statuses /\ linked \in BOOLEAN
    /\ tasks \subseteq [job : Jobs, sock : Sockets, status : Statuses \cup {"none"}]
    /\ timers \in Nat
    /\ call \in [Calls -> [at : Points, force : BOOLEAN, paired : BOOLEAN,
                           sock : Sockets \cup {None}]]
    /\ requests \in 0..MaxRequests /\ incidents \in 0..MaxIncidents
    /\ lastClose \in Reasons
    /\ {failed, crossed, lateQr, crowded, out} \subseteq BOOLEAN

Resumable(status) == status \in {"connected", "connecting"}

\* The server starts: a linked account is resumed by a timer, or nobody has
\* linked the account yet.
Init ==
    /\ sock = [s \in Sockets |-> Unused]
    /\ entry = NoEntry
    /\ \/ row = "connected" /\ linked = TRUE /\ timers = 1
       \/ row = "disconnected" /\ linked = FALSE /\ timers = 0
    /\ tasks = {}
    /\ call = [c \in Calls |-> NoCall]
    /\ requests = 0 /\ incidents = 0
    /\ lastClose = "none"
    /\ failed = FALSE /\ crossed = FALSE /\ lateQr = FALSE /\ crowded = FALSE /\ out = FALSE

----------------------------------------------------------------------------

Request  == requests < MaxRequests /\ requests' = requests + 1 /\ UNCHANGED incidents
Incident == incidents < MaxIncidents /\ incidents' = incidents + 1 /\ UNCHANGED requests

Live(s) == sock[s].state \in {"dialing", "scanned", "open", "replaced"}
LiveSockets == {s \in Sockets : Live(s)}
Pending(s) == {t \in tasks : t.sock = s}
Running == {c \in Calls : call[c].at # "idle"}

\* sock.user, the library's: known once the socket is open, unknown before
\* anybody paired, and otherwise it may be either.
UserKnown(s) ==
    IF s = None THEN {FALSE}
    ELSE {b \in BOOLEAN : (sock[s].state = "open" => b) /\ (~sock[s].paired => ~b)}

EndedSocket(s) == [sock EXCEPT ![s] = [state |-> "closed", paired |-> sock[s].paired]]

\* Another status is on its way to the row.
Crosses(status) ==
    \/ \E t \in tasks : t.status \notin {"none", status}
    \/ status # "disconnected" /\ \E c \in Calls : call[c].at = "markingOut"

\* A handler that awaited what is not in `others` goes on to await t.
Await(others, t) ==
    /\ tasks' = others \cup {t}
    /\ crossed' = (crossed \/ (t.status # "none" /\ Crosses(t.status)))

----------------------------------------------------------------------------
(* initWhatsAppSession *)

\* Nothing is under way but the socket the call is about.
Alone(force) ==
    /\ Running = {} /\ timers' = 0
    /\ tasks = {}
    /\ LiveSockets \subseteq IF force THEN {entry.sock} ELSE {}

\* A user that is known ends the call at once, unless a new session is asked for.
StartInit(c, force) ==
    /\ call[c].at = "idle"
    /\ \/ /\ ~force /\ TRUE \in UserKnown(entry.sock)
          /\ UNCHANGED <<call, crowded>>
       \/ /\ force \/ FALSE \in UserKnown(entry.sock)
          /\ call' = [call EXCEPT ![c] = [NoCall EXCEPT !.at = "asked", !.force = force]]
          /\ crowded' = (crowded \/ ~Alone(force))
    /\ UNCHANGED <<sock, entry, row, linked, tasks, lastClose, crossed, lateQr>>

\* Connect in the settings.
Connect(c) ==
    /\ Request
    /\ timers' = timers
    /\ StartInit(c, TRUE)
    /\ failed' = FALSE /\ out' = FALSE

\* A message is sent with no live socket, and the row is worth a resume.
Resume(c) ==
    /\ Request
    /\ Resumable(row)
    /\ timers' = timers
    /\ StartInit(c, FALSE)
    /\ out' = FALSE /\ UNCHANGED failed

\* The reconnect timer, or the staggered one of the boot.
Redial(c) ==
    /\ timers > 0 /\ timers' = timers - 1
    /\ StartInit(c, FALSE)
    /\ UNCHANGED <<events, failed, out>>

At(c, point, next) ==
    /\ call[c].at = point
    /\ call' = [call EXCEPT ![c].at = next]

EndOldLeaving(c) ==                              \* mutant: the old socket is not ended
    /\ call[c].at = "asked"
    /\ call' = [call EXCEPT ![c] = [NoCall EXCEPT !.at = IF call[c].force THEN "judging" ELSE "loading"]]
    /\ entry' = IF call[c].force THEN NoEntry ELSE entry
    /\ UNCHANGED <<sock, lastClose, row, linked, tasks, timers, events, failed,
                   crossed, lateQr, crowded, out>>

\* hasStoredCreds has answered; a new session ends the old one.
EndOld(c) ==
    /\ call[c].at = "asked"
    /\ call' = [call EXCEPT ![c] = [NoCall EXCEPT !.at = IF call[c].force THEN "judging" ELSE "loading"]]
    /\ IF call[c].force /\ entry.sock # None
         THEN sock' = EndedSocket(entry.sock) /\ lastClose' = "ended"
         ELSE UNCHANGED <<sock, lastClose>>
    /\ entry' = IF call[c].force THEN NoEntry ELSE entry
    /\ UNCHANGED <<row, linked, tasks, timers, events, failed, crossed, lateQr, crowded, out>>

\* isPaired reads the credentials.
JudgePairing(c) ==
    /\ At(c, "judging", IF linked THEN "loading" ELSE "clearing")
    /\ UNCHANGED <<sock, entry, row, linked, tasks, timers, events, told>>

ClearStored(c) ==
    /\ At(c, "clearing", "loading")
    /\ linked' = FALSE
    /\ UNCHANGED <<sock, entry, row, tasks, timers, events, told>>

\* usePostgresAuthState reads the whole login; the version is fetched next.
LoadAuth(c) ==
    /\ call[c].at = "loading"
    /\ call' = [call EXCEPT ![c].at = "loaded", ![c].paired = linked]
    /\ UNCHANGED <<sock, entry, row, linked, tasks, timers, events, told>>

\* A new socket takes any slot that is free; which one makes no difference.
FreeSlots == {s \in Sockets : /\ ~Live(s) /\ entry.sock # s /\ Pending(s) = {}
                              /\ \A c \in Calls : call[c].sock # s}

\* makeWASocket, in the map at once.
OpenSocket(c) ==
    /\ call[c].at = "loaded"
    /\ FreeSlots # {}
    /\ LET s == CHOOSE x \in FreeSlots : TRUE
       IN  /\ sock' = [sock EXCEPT ![s] = [state |-> "dialing", paired |-> call[c].paired]]
           /\ entry' = [sock |-> s, status |-> "connecting"]
    /\ call' = [call EXCEPT ![c] = NoCall]
    /\ UNCHANGED <<row, linked, tasks, timers, events, told>>

----------------------------------------------------------------------------
(* The connection.update handler of a socket: events *)

\* A QR code arrives; drawing it is awaited.
QrArrives(s) ==
    /\ sock[s].state = "dialing" /\ ~sock[s].paired
    /\ \A t \in tasks : t.sock = s => t.job \notin {"drawQr", "saveQr"}
    /\ Await(tasks, Task("drawQr", s, "none"))
    /\ crowded' = (crowded \/ Running # {})
    /\ UNCHANGED <<sock, entry, row, linked, timers, call, events,
                   lastClose, failed, lateQr, out>>

\* The phone scans the code on the screen: the login is paired and saved.
Scan(s) ==
    /\ Request
    /\ sock[s].state = "dialing" /\ ~sock[s].paired
    /\ entry = [sock |-> s, status |-> "qrcode"]
    /\ sock' = [sock EXCEPT ![s] = [state |-> "scanned", paired |-> TRUE]]
    /\ Await(tasks, Task("saveCreds", s, "none"))
    /\ out' = FALSE
    /\ UNCHANGED <<entry, row, linked, timers, call, lastClose, failed, lateQr, crowded>>

\* The credentials of an open socket change now and then (creds.update).
CredsChange(s) ==
    /\ sock[s].state = "open" /\ Task("saveCreds", s, "none") \notin tasks
    /\ Await(tasks, Task("saveCreds", s, "none"))
    /\ UNCHANGED <<sock, entry, row, linked, timers, call, events,
                   lastClose, failed, lateQr, crowded, out>>

\* WhatsApp keeps the newest connection of an account and replaces the others.
Opens(s) ==
    /\ sock[s].state = "dialing" /\ sock[s].paired
    /\ sock' = [x \in Sockets |->
                  IF x = s THEN [sock[x] EXCEPT !.state = "open"]
                  ELSE IF sock[x].state = "open" THEN [sock[x] EXCEPT !.state = "replaced"]
                  ELSE sock[x]]
    /\ entry' = [sock |-> s, status |-> "connected"]
    /\ Await(tasks, Task("markConnected", s, "connected"))
    /\ UNCHANGED <<row, linked, timers, call, events, lastClose, failed, lateQr, crowded, out>>

\* A second server or a browser takes the account over.
RivalOpens ==
    /\ Incident
    /\ \E s \in Sockets : sock[s].state = "open"
    /\ sock' = [x \in Sockets |-> IF sock[x].state = "open"
                                    THEN [sock[x] EXCEPT !.state = "replaced"] ELSE sock[x]]
    /\ UNCHANGED <<entry, row, linked, tasks, timers, call, told>>

Closes(s, reason, calls) ==
    /\ sock' = EndedSocket(s)
    /\ lastClose' = reason
    /\ crowded' = (crowded \/ calls # {})

\* 440: it stands down.
CloseReplaced(s) ==
    /\ sock[s].state = "replaced"
    /\ Closes(s, "replaced", Running)
    /\ entry' = NoEntry
    /\ Await(tasks, Task("setDisconnected", s, "disconnected"))
    /\ UNCHANGED <<row, linked, timers, call, events, failed, lateQr, out>>

\* The login was revoked: it is forgotten first, the entry stays until then.
LoggedOut(s, calls) ==
    /\ Closes(s, "loggedOut", calls)
    /\ Await(tasks, Task("clear", s, "none"))

\* ... on the phone.
CloseLoggedOut(s) ==
    /\ Incident
    /\ sock[s].state \in {"dialing", "open"} /\ sock[s].paired
    /\ LoggedOut(s, Running)
    /\ UNCHANGED <<entry, row, linked, timers, call, failed, lateQr, out>>

CloseUnscannedRedialling(s) ==                   \* mutant: an expired QR code is a loss
    /\ sock[s].state = "dialing" /\ ~sock[s].paired
    /\ Closes(s, "expired", Running)
    /\ entry' = NoEntry
    /\ Await(tasks, Task("setThenRedial", s, "disconnected"))
    /\ UNCHANGED <<row, linked, timers, call, events, failed, lateQr, out>>

\* Nobody scanned the QR code.
CloseUnscanned(s) ==
    /\ sock[s].state = "dialing" /\ ~sock[s].paired
    /\ Closes(s, "expired", Running)
    /\ entry' = NoEntry
    /\ Await(tasks, Task("setDisconnected", s, "disconnected"))
    /\ UNCHANGED <<row, linked, timers, call, events, failed, lateQr, out>>

\* 515 follows a scan, anything else is a lost connection; both dial again.
CloseRedialling(s, reason) ==
    /\ \/ reason = "restart" /\ sock[s].state = "scanned" /\ UNCHANGED events
       \/ reason = "lost" /\ sock[s].state \in {"dialing", "scanned", "open"} /\ sock[s].paired /\ Incident
    /\ Closes(s, reason, Running)
    /\ LET status == IF reason = "restart" THEN "connecting" ELSE "disconnected"
       IN  /\ entry' = [sock |-> None, status |-> status]
           /\ Await(tasks, Task("setThenRedial", s, status))
    /\ out' = FALSE
    /\ UNCHANGED <<row, linked, timers, call, failed, lateQr>>

----------------------------------------------------------------------------
(* The connection.update handler of a socket: after an await *)

Kept == UNCHANGED <<sock, call, lastClose, crowded>>

\* The QR code is drawn, and the entry is of this socket again.
QrDrawn(s) ==
    LET t == Task("drawQr", s, "none")
    IN  /\ t \in tasks
        /\ entry' = [sock |-> s, status |-> "qrcode"]
        /\ lateQr' = (lateQr \/ ~Live(s))
        /\ Await(tasks \ {t}, Task("saveQr", s, "qrcode"))
        /\ Kept /\ UNCHANGED <<row, linked, timers, events, failed, out>>

StatusWrittenOnly(t) ==                          \* mutant: no timer is set
    /\ t \in tasks /\ t.status # "none"
    /\ tasks' = tasks \ {t}
    /\ row' = t.status
    /\ UNCHANGED timers
    /\ Kept /\ UNCHANGED <<entry, linked, events, failed, crossed, lateQr, out>>

\* saveQrCode, markConnected, setSessionStatus, markLoggedOut.
StatusWritten(t) ==
    /\ t \in tasks /\ t.status # "none"
    /\ tasks' = tasks \ {t}
    /\ row' = t.status
    /\ timers' = IF t.job = "setThenRedial" THEN timers + 1 ELSE timers
    /\ Kept /\ UNCHANGED <<entry, linked, events, failed, crossed, lateQr, out>>

\* saveCreds: an upsert, whatever was deleted meanwhile.
CredsSaved(s) ==
    LET t == Task("saveCreds", s, "none")
    IN  /\ t \in tasks
        /\ tasks' = tasks \ {t}
        /\ linked' = TRUE
        /\ out' = (out /\ Live(s))
        /\ Kept /\ UNCHANGED <<entry, row, timers, events, failed, crossed, lateQr>>

\* clearAuthState is over (an error is caught): the entry goes, whosever it is.
Cleared(s) ==
    LET t == Task("clear", s, "none")
    IN  /\ t \in tasks
        /\ \/ linked' = FALSE /\ UNCHANGED <<events, failed>>
           \/ UNCHANGED linked /\ Incident /\ failed' = TRUE
        /\ entry' = NoEntry
        /\ Await(tasks \ {t}, Task("markLoggedOut", s, "disconnected"))
        /\ Kept /\ UNCHANGED <<row, timers, lateQr, out>>

\* What was awaited fails, and the rest of the handler is not run.
TaskFails(t) ==
    /\ Incident
    /\ t \in tasks /\ t.job # "clear"
    /\ tasks' = tasks \ {t}
    /\ failed' = TRUE
    /\ Kept /\ UNCHANGED <<entry, row, linked, timers, crossed, lateQr, out>>

----------------------------------------------------------------------------
(* disconnectSession *)

\* Nothing is under way but an open socket, and the map names it.
Quiet ==
    /\ Running = {} /\ timers = 0 /\ tasks = {}
    /\ IF entry.sock = None THEN LiveSockets = {}
                            ELSE LiveSockets = {entry.sock} /\ sock[entry.sock].state = "open"

Disconnect(c) ==
    /\ Request
    /\ call[c].at = "idle"
    /\ IF entry.sock = None
         THEN /\ call' = [call EXCEPT ![c] = [NoCall EXCEPT !.at = "forgetting"]]
              /\ entry' = NoEntry
         ELSE /\ call' = [call EXCEPT ![c] = [NoCall EXCEPT !.at = "loggingOut", !.sock = entry.sock]]
              /\ UNCHANGED entry
    /\ out' = Quiet
    /\ crowded' = (crowded \/ ~Quiet)
    /\ UNCHANGED <<sock, row, linked, tasks, timers, lastClose, failed, crossed, lateQr>>

\* sock.logout() closes the socket as logged out. It fails on a socket that is
\* not open, and may on one that is; the error is swallowed.
LoggedOutNow(c) ==
    LET s == call[c].sock
    IN  /\ At(c, "loggingOut", "forgetting")
        /\ \/ Live(s) /\ LoggedOut(s, Running \ {c}) /\ UNCHANGED <<events, out>>
           \/ /\ IF sock[s].state = "open" THEN Incident ELSE UNCHANGED events
              /\ crowded' = (crowded \/ Live(s))
              /\ out' = (out /\ ~Live(s))
              /\ UNCHANGED <<sock, tasks, lastClose, crossed>>
        /\ entry' = NoEntry
        /\ UNCHANGED <<row, linked, timers, failed, lateQr>>

ForgetNothing(c) ==                              \* mutant: the login stays in the database
    /\ At(c, "forgetting", "markingOut")
    /\ crossed' = (crossed \/ Crosses("disconnected"))
    /\ UNCHANGED <<sock, entry, row, linked, tasks, timers, events, lastClose, failed, lateQr, crowded, out>>

Forget(c) ==
    /\ At(c, "forgetting", "markingOut")
    /\ linked' = FALSE
    /\ crossed' = (crossed \/ Crosses("disconnected"))
    /\ UNCHANGED <<sock, entry, row, tasks, timers, events, lastClose, failed, lateQr, crowded, out>>

MarkOut(c) ==
    /\ call[c].at = "markingOut"
    /\ call' = [call EXCEPT ![c] = NoCall]
    /\ row' = "disconnected"
    /\ UNCHANGED <<sock, entry, linked, tasks, timers, events, told>>

----------------------------------------------------------------------------
(* Failures, restart *)

\* A query of a call fails, or the version cannot be fetched.
CallFails(c) ==
    /\ Incident
    /\ call[c].at \notin {"idle", "loggingOut"}
    /\ call' = [call EXCEPT ![c] = NoCall]
    /\ failed' = TRUE /\ out' = FALSE
    /\ UNCHANGED <<sock, entry, row, linked, tasks, timers, lastClose, crossed, lateQr, crowded>>

\* shutdownAllSessions or a crash, and the server starts again: every socket and
\* all that was under way is gone. A QR code stays in the row.
Restart ==
    /\ Incident
    /\ sock' = [s \in Sockets |-> Unused]
    /\ entry' = NoEntry
    /\ tasks' = {}
    /\ call' = [c \in Calls |-> NoCall]
    /\ timers' = IF Resumable(row) THEN 1 ELSE 0
    /\ lastClose' = "none"
    /\ failed' = (row = "qrcode")
    /\ crossed' = FALSE /\ lateQr' = FALSE /\ crowded' = FALSE /\ out' = FALSE
    /\ UNCHANGED <<row, linked>>

----------------------------------------------------------------------------

CallSteps(c) ==
    \/ EndOld(c) \/ JudgePairing(c) \/ ClearStored(c) \/ LoadAuth(c)
    \/ OpenSocket(c)
    \/ LoggedOutNow(c) \/ Forget(c) \/ MarkOut(c)

TaskSteps(s) == QrDrawn(s) \/ CredsSaved(s) \/ Cleared(s) \/ \E t \in Pending(s) : StatusWritten(t)

SocketEvents(s) ==
    \/ QrArrives(s) \/ Scan(s) \/ CredsChange(s) \/ Opens(s)
    \/ CloseReplaced(s) \/ CloseLoggedOut(s) \/ CloseUnscanned(s)
    \/ \E reason \in {"restart", "lost"} : CloseRedialling(s, reason)

Redialling == \E c \in Calls : Redial(c)

Next ==
    \/ \E c \in Calls : Connect(c) \/ Resume(c) \/ Disconnect(c) \/ CallSteps(c) \/ CallFails(c)
    \/ Redialling
    \/ \E s \in Sockets : SocketEvents(s) \/ TaskSteps(s)
    \/ \E t \in tasks : TaskFails(t)
    \/ RivalOpens \/ Restart

\* Timers fire and what is awaited is answered; what WhatsApp, phones and
\* people do need not happen.
Fairness ==
    /\ \A c \in Calls : WF_vars(CallSteps(c))
    /\ \A s \in Sockets : WF_vars(TaskSteps(s))
    /\ WF_vars(Redialling)

Spec == Init /\ [][Next]_vars /\ Fairness

----------------------------------------------------------------------------
(* Properties *)

\* Nothing is left to happen: no socket, call, timer or handler under way.
Resting == Running = {} /\ tasks = {} /\ timers = 0 /\ LiveSockets = {}

\* getSessionStatus, with no live socket.
ReportedStatus ==
    IF entry.status \notin {"none", "connected"} THEN entry.status
    ELSE IF Resumable(row) THEN "connecting" ELSE row

\* A live socket is the one activeSockets names, so that sends use it and nobody
\* opens another: there are two, or one nobody knows of, only when a call was
\* begun beside another, beside a handler or timer, or beside a socket.
MapNamesSocket ==
    /\ TypeOK
    /\ ~crowded => \A s \in Sockets : Live(s) => entry.sock = s

\* "A stored session with no live socket is 'connecting': we intend to resume
\* it". When nothing is left to happen a connection that dropped, or restarted
\* after a scan, has been dialled again, and the status says disconnected, so
\* that people know to connect; only an incident, two statuses that crossed or a
\* QR code drawn too late leave it otherwise.
RestIsReported ==
    Resting /\ ~failed /\ ~lateQr =>
        /\ linked => lastClose \notin {"lost", "restart"}
        /\ ~crossed => ReportedStatus = "disconnected"

\* Disconnecting a quiet session ends it: no socket comes back, and neither the
\* row nor the stored login promise one, unless a save of the credentials that
\* was under way came after the deletion.
DisconnectSticks ==
    out /\ Running = {} /\ tasks = {} =>
        ~linked /\ row = "disconnected" /\ LiveSockets = {} /\ entry.sock = None

\* No reconnect loop: sessions that replace each other, or show QR codes nobody
\* scans, do not dial for ever. In the end no session is being opened.
DialsEnd == <>[](Running = {})

\* "Whoever connected last should keep it": when all is quiet around one open
\* socket, the map names it. Not true of the code: the handler of a socket that
\* was replaced deletes the entry of the one that replaced it.
NewestIsKept ==
    Running = {} /\ tasks = {} /\ timers = 0 =>
        \A s \in Sockets : sock[s].state = "open" /\ LiveSockets = {s} => entry.sock = s
=============================================================================
