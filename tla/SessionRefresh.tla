--------------------------- MODULE SessionRefresh ---------------------------
(***************************************************************************)
(* The session of one browser: its tabs share the pair of tokens in        *)
(* localStorage, and trade the refresh token for a new pair when a request *)
(* is answered 401. The server takes each refresh token once.              *)
(*                                                                         *)
(* A tab is a process; what it does between two awaits is one step. The    *)
(* tabs' refreshes are serialized by a Web Lock where the browser has one. *)
(* A call of /auth/refresh or /auth/logout is a process of the server, cut *)
(* at its queries, and goes on when the tab that made it is gone.          *)
(*                                                                         *)
(* Left out: hf_user and what the pages show, impersonation, the password, *)
(* a user that is deleted, requests that are refused for another reason,   *)
(* the access token alone that a purchase is answered with, and /auth/me   *)
(* after a sign-in with Google, which forgets the tokens on any error.     *)
(***************************************************************************)
EXTENDS Naturals, Sequences, FiniteSets

CONSTANTS
    Tabs,
    Requests,      \* requests of pages, each made once
    Calls,         \* calls of /auth/refresh and /auth/logout under way at one time
    MaxLogins,     \* more sign-ins: a bound
    MaxChanges,    \* sign-ins and sign-outs: a bound
    MaxPairs,      \* pairs of tokens the server issues: a bound
    MaxIncidents,  \* failures, closed tabs and ended sessions: a bound
    None           \* no tab

ASSUME RefreshConstants ==
    /\ None \notin Tabs
    /\ MaxLogins \in Nat /\ MaxChanges \in Nat /\ MaxPairs \in Nat \ {0} /\ MaxIncidents \in Nat

VARIABLES
    locks,     \* the browser has Web Locks; it does not change
    queue,     \* the tabs that asked for the lock; the first one has it
    stored,    \* hf_token and hf_refresh_token in localStorage; 0 is none
    fresh,     \* access tokens that have not expired
    live,      \* refresh tokens that are neither revoked nor expired
    issued,    \* pairs issued: the n-th pair is access token n and refresh token n
    tab,       \* each tab's refreshPromise: where it is and what it holds
    call,      \* each call: where the server is with it, and who waits for it
    req,       \* each request: the tab that made it and where it is
    incidents,
    login,     \* history: how often the user signed in or out
    pairOf,    \* history: the value of `login` each pair was issued for
    spent,     \* history: how many pairs each refresh token was traded for
    raced,     \* history: two calls had the same refresh token at once
    crossed,   \* history: the user signed in or out beside a refresh
    dropped    \* history: refresh tokens that were let go without telling the server

server == <<fresh, live, issued>>
told   == <<login, pairOf, spent, raced, crossed, dropped>>
vars   == <<locks, queue, stored, server, tab, call, req, incidents, told>>

Pairs == 1 .. MaxPairs

NoTab  == [at |-> "none", before |-> 0, token |-> 0]
NoCall == [at |-> "none", tab |-> None, refresh |-> 0, pair |-> 0]
NoRequest == [at |-> "new", tab |-> None, token |-> 0, retried |-> FALSE]

TabStates == [at : {"none", "queued", "posting", "refreshed", "failed"},
              before : 0 .. MaxPairs, token : 0 .. MaxPairs]
CallStates == [at : {"none", "finding", "revoking", "issuing", "answering", "refusing", "loggingOut"},
               tab : Tabs \cup {None}, refresh : 0 .. MaxPairs, pair : 0 .. MaxPairs]
RequestStates == [at : {"new", "sent", "refreshing", "answered", "rejected", "signedOut", "gone"},
                  tab : Tabs \cup {None}, token : 0 .. MaxPairs, retried : BOOLEAN]

TypeOK ==
    /\ locks \in BOOLEAN /\ queue \in Seq(Tabs)
    /\ stored \in [token : 0 .. MaxPairs, refresh : 0 .. MaxPairs]
    /\ fresh \subseteq Pairs /\ live \subseteq Pairs /\ issued \in 0 .. MaxPairs
    /\ tab \in [Tabs -> TabStates] /\ call \in [Calls -> CallStates]
    /\ req \in [Requests -> RequestStates]
    /\ \A r \in Requests : req[r].at = "new" \/ req[r].tab # None
    /\ incidents \in 0 .. MaxIncidents
    /\ login \in Nat /\ pairOf \in [Pairs -> Nat] /\ spent \in [Pairs -> Nat]
    /\ raced \in BOOLEAN /\ crossed \in BOOLEAN /\ dropped \subseteq Pairs

\* The user is signed in.
Init ==
    /\ locks \in BOOLEAN /\ queue = <<>>
    /\ stored = [token |-> 1, refresh |-> 1]
    /\ fresh = {1} /\ live = {1} /\ issued = 1
    /\ tab = [t \in Tabs |-> NoTab]
    /\ call = [c \in Calls |-> NoCall]
    /\ req = [r \in Requests |-> NoRequest]
    /\ incidents = 0
    /\ login = 1 /\ pairOf = [n \in Pairs |-> 1] /\ spent = [n \in Pairs |-> 0]
    /\ raced = FALSE /\ crossed = FALSE /\ dropped = {}

----------------------------------------------------------------------------

Incident == incidents < MaxIncidents /\ incidents' = incidents + 1

NoTokens == [token |-> 0, refresh |-> 0]

\* The refresh token of localStorage goes, and the server is not told.
Drops == dropped' = dropped \cup ({stored.refresh} \ {0})

\* The requests that wait for the promise of tab t.
Waiting(t) == {r \in Requests : req[r].tab = t /\ req[r].at = "refreshing"}
Pending(t) == {r \in Requests : req[r].tab = t /\ req[r].at \in {"sent", "refreshing"}}

\* The page of tab t is left: what it had under way gets no answer.
Leaves(t) ==
    req' = [r \in Requests |-> IF r \in Pending(t) THEN [req[r] EXCEPT !.at = "gone"] ELSE req[r]]

FreeCalls == {c \in Calls : call[c].at = "none"}
Refreshing == {c \in Calls : call[c].at \in {"finding", "revoking", "issuing", "answering"}}

\* A new call takes any slot that is free; which one makes no difference.
Starts(at, t, refresh) ==
    /\ FreeCalls # {}
    /\ call' = [call EXCEPT ![CHOOSE c \in FreeCalls : TRUE] =
                   [at |-> at, tab |-> t, refresh |-> refresh, pair |-> 0]]

\* Tab t leaves the queue; it is in it once at most.
Without(q, t) ==
    IF \E i \in 1 .. Len(q) : q[i] = t
      THEN LET place == CHOOSE i \in 1 .. Len(q) : q[i] = t
           IN  [i \in 1 .. Len(q) - 1 |-> IF i < place THEN q[i] ELSE q[i + 1]]
      ELSE q

----------------------------------------------------------------------------
(* Requests of the pages *)

Unsent == {r \in Requests : req[r] = NoRequest}

\* The access token of localStorage goes with it, if there is one. Which request
\* is made next makes no difference, nor which tab makes the first.
Send(r, t) ==
    /\ r \in Unsent /\ r = CHOOSE x \in Unsent : TRUE
    /\ Unsent = Requests => t = CHOOSE x \in Tabs : TRUE
    /\ req' = [req EXCEPT ![r] = [NoRequest EXCEPT !.at = "sent", !.tab = t, !.token = stored.token]]
    /\ UNCHANGED <<locks, queue, stored, server, tab, call, incidents, told>>

Accepted(r) ==
    /\ req[r].at = "sent" /\ req[r].token \in fresh
    /\ req' = [req EXCEPT ![r].at = "answered"]
    /\ UNCHANGED <<locks, queue, stored, server, tab, call, incidents, told>>

\* 401: the second one is the page's, and if it is the answer to /auth/me, which
\* any request may be, AuthProvider forgets the tokens; the first one makes the
\* request wait for the tab's refresh, which is begun if there is none. (Without
\* Web Locks it goes on at once; here another tab may come between.)
Unauthorized(r) ==
    LET t == req[r].tab
    IN  /\ req[r].at = "sent" /\ req[r].token \notin fresh
        /\ IF req[r].retried
             THEN /\ \/ req' = [req EXCEPT ![r].at = "rejected"] /\ UNCHANGED <<stored, dropped>>
                     \/ req' = [req EXCEPT ![r].at = "signedOut"] /\ stored' = NoTokens /\ Drops
                  /\ UNCHANGED <<tab, queue>>
             ELSE /\ req' = [req EXCEPT ![r].at = "refreshing", ![r].retried = TRUE]
                  /\ IF tab[t].at = "none"
                       THEN /\ tab' = [tab EXCEPT ![t] = [at |-> "queued", before |-> stored.refresh, token |-> 0]]
                            /\ queue' = IF locks THEN Append(queue, t) ELSE queue
                       ELSE UNCHANGED <<tab, queue>>
                  /\ UNCHANGED <<stored, dropped>>
        /\ UNCHANGED <<locks, server, call, incidents, login, pairOf, spent, raced, crossed>>

----------------------------------------------------------------------------
(* refreshAccessToken *)

MayEnterAnyway(t) == tab[t].at = "queued"        \* mutant: no Web Lock
\* runOnce: the lock, or at once in browsers that have none.
MayEnter(t) == tab[t].at = "queued" /\ (locks => queue # <<>> /\ Head(queue) = t)

Unlock(t) == queue' = Without(queue, t)

\* Another tab has refreshed; there is nothing to refresh with; or the call.
EnterKeeping(t) ==                               \* mutant: the lock is kept when there is nothing to do
    /\ MayEnter(t)
    /\ IF stored.refresh \notin {0, tab[t].before}
         THEN tab' = [tab EXCEPT ![t].at = "refreshed", ![t].token = stored.token] /\ UNCHANGED <<queue, call, raced>>
         ELSE IF stored.refresh = 0
         THEN tab' = [tab EXCEPT ![t].at = "failed"] /\ Unlock(t) /\ UNCHANGED <<call, raced>>
         ELSE /\ tab' = [tab EXCEPT ![t].at = "posting"] /\ UNCHANGED queue
              /\ Starts("finding", t, stored.refresh)
              /\ raced' = (raced \/ \E c \in Refreshing : call[c].refresh = stored.refresh)
    /\ UNCHANGED <<locks, stored, server, req, incidents, login, pairOf, spent, crossed, dropped>>

Enter(t) ==
    /\ MayEnter(t)
    /\ \/ /\ stored.refresh \notin {0, tab[t].before}
          /\ tab' = [tab EXCEPT ![t].at = "refreshed", ![t].token = stored.token]
          /\ Unlock(t) /\ UNCHANGED <<call, raced>>
       \/ /\ stored.refresh = 0
          /\ tab' = [tab EXCEPT ![t].at = "failed"]
          /\ Unlock(t) /\ UNCHANGED <<call, raced>>
       \/ /\ stored.refresh = tab[t].before /\ stored.refresh # 0
          /\ tab' = [tab EXCEPT ![t].at = "posting"]
          /\ Starts("finding", t, stored.refresh)
          /\ raced' = (raced \/ \E c \in Refreshing : call[c].refresh = stored.refresh)
          /\ UNCHANGED queue
    /\ UNCHANGED <<locks, stored, server, req, incidents, login, pairOf, spent, crossed, dropped>>

\* The answer arrives: the pair is stored, whatever is there meanwhile.
Arrives(c) ==
    LET t == call[c].tab
    IN  /\ call[c].at = "answering"
        /\ call' = [call EXCEPT ![c] = NoCall]
        /\ IF t = None
             THEN UNCHANGED <<stored, tab, queue>>
             ELSE /\ stored' = [token |-> call[c].pair, refresh |-> call[c].pair]
                  /\ tab' = [tab EXCEPT ![t].at = "refreshed", ![t].token = call[c].pair]
                  /\ Unlock(t)
        /\ UNCHANGED <<locks, server, req, incidents, told>>

\* The call was refused, and the lock is given up.
Refused(c) ==
    LET t == call[c].tab
    IN  /\ call[c].at = "refusing"
        /\ call' = [call EXCEPT ![c] = NoCall]
        /\ IF t = None
             THEN UNCHANGED <<tab, queue>>
             ELSE tab' = [tab EXCEPT ![t].at = "failed"] /\ Unlock(t)
        /\ UNCHANGED <<locks, stored, server, req, incidents, told>>

AgainUnchanged(t, token) ==                      \* mutant: with the token it had
    /\ req' = [r \in Requests |-> IF r \in Waiting(t) THEN [req[r] EXCEPT !.at = "sent"] ELSE req[r]]
    /\ tab' = [tab EXCEPT ![t] = NoTab]

\* The requests that waited are sent again, with the token of localStorage if
\* there is one.
Again(t, token) ==
    /\ req' = [r \in Requests |->
                 IF r \in Waiting(t)
                   THEN [req[r] EXCEPT !.at = "sent", !.token = IF stored.token # 0 THEN stored.token ELSE token]
                   ELSE req[r]]
    /\ tab' = [tab EXCEPT ![t] = NoTab]

Retry(t) ==
    /\ tab[t].at = "refreshed"
    /\ Again(t, tab[t].token)
    /\ UNCHANGED <<locks, queue, stored, server, call, incidents, told>>

\* The last check of refreshAccessToken: another tab has landed a pair.
Rescued(t) == stored.token # 0 /\ stored.refresh \notin {0, tab[t].before}

\* ... or the session is over: clearAuth, and the page is left for the login.
GiveUp(t) ==
    /\ tab[t].at = "failed"
    /\ IF Rescued(t)
         THEN Again(t, stored.token) /\ UNCHANGED stored
         ELSE /\ stored' = NoTokens
              /\ req' = [r \in Requests |->
                           IF r \in Waiting(t) THEN [req[r] EXCEPT !.at = "rejected"]
                           ELSE IF r \in Pending(t) THEN [req[r] EXCEPT !.at = "gone"] ELSE req[r]]
              /\ tab' = [tab EXCEPT ![t] = NoTab]
    /\ UNCHANGED <<locks, queue, server, call, incidents, told>>

----------------------------------------------------------------------------
(* The server *)

\* findValidRefreshToken, and the user.
Find(c) ==
    /\ call[c].at = "finding"
    /\ call' = [call EXCEPT ![c].at = IF call[c].refresh \in live THEN "revoking" ELSE "refusing"]
    /\ UNCHANGED <<locks, queue, stored, server, tab, req, incidents, told>>

RevokeNothing(c) ==                              \* mutant: the old token is not revoked
    /\ call[c].at = "revoking"
    /\ call' = [call EXCEPT ![c].at = "issuing"]
    /\ UNCHANGED <<locks, queue, stored, server, tab, req, incidents, told>>

\* revokeRefreshToken.
Revoke(c) ==
    /\ call[c].at = "revoking"
    /\ live' = live \ {call[c].refresh}
    /\ call' = [call EXCEPT ![c].at = "issuing"]
    /\ UNCHANGED <<locks, queue, stored, fresh, issued, tab, req, incidents, told>>

Issues(session) ==
    /\ issued < MaxPairs /\ issued' = issued + 1
    /\ live' = live \cup {issued'} /\ fresh' = fresh \cup {issued'}
    /\ pairOf' = [pairOf EXCEPT ![issued'] = session]

\* issueTokenPair.
Issue(c) ==
    /\ call[c].at = "issuing"
    /\ Issues(pairOf[call[c].refresh])
    /\ call' = [call EXCEPT ![c].at = "answering", ![c].pair = issued']
    /\ spent' = [spent EXCEPT ![call[c].refresh] = @ + 1]
    /\ UNCHANGED <<locks, queue, stored, tab, req, incidents, login, raced, crossed, dropped>>

\* A logout's revokeRefreshToken; nobody waits for it.
RevokeAtLogout(c) ==
    /\ call[c].at = "loggingOut"
    /\ live' = live \ {call[c].refresh}
    /\ call' = [call EXCEPT ![c] = NoCall]
    /\ UNCHANGED <<locks, queue, stored, fresh, issued, tab, req, incidents, told>>

----------------------------------------------------------------------------
(* The user *)

\* A refresh is under way in some tab, or on the server.
Underway == Refreshing # {} \/ \E t \in Tabs : tab[t].at \in {"posting", "refreshed"}

\* logout: the token is sent away to be revoked, and forgotten. (With no token
\* there, nothing is sent and nothing changes.)
Logout ==
    /\ stored.token # 0 /\ login <= MaxChanges
    /\ Starts("loggingOut", None, stored.refresh)
    /\ stored' = NoTokens
    /\ login' = login + 1
    /\ crossed' = (crossed \/ Underway)
    /\ UNCHANGED <<locks, queue, server, tab, req, incidents, pairOf, spent, raced, dropped>>

\* login, register: a pair of its own is stored, over whatever is there.
Login ==
    /\ login <= MaxChanges /\ Cardinality({pairOf[n] : n \in 1 .. issued}) <= MaxLogins
    /\ login' = login + 1
    /\ Issues(login')
    /\ stored' = [token |-> issued', refresh |-> issued']
    /\ Drops
    /\ crossed' = (crossed \/ Underway)
    /\ UNCHANGED <<locks, queue, tab, call, req, incidents, spent, raced>>

----------------------------------------------------------------------------
(* Time and failures *)

\* An access token expires, the rest of the session does not; all live equally long.
Expire(n) ==
    /\ n \in fresh /\ \A m \in fresh : n <= m
    /\ fresh' = fresh \ {n}
    /\ UNCHANGED <<locks, queue, stored, live, issued, tab, call, req, incidents, told>>

\* Refresh tokens expire, too.
EndSession(n) ==
    /\ Incident
    /\ n \in live
    /\ live' = live \ {n} /\ fresh' = fresh \ {n}
    /\ UNCHANGED <<locks, queue, stored, issued, tab, call, req, told>>

\* A query fails: the call is refused, too, with 401.
CallFails(c) ==
    /\ Incident
    /\ call[c].at \in {"finding", "revoking", "issuing", "loggingOut"}
    /\ call' = [call EXCEPT ![c] = IF call[c].at = "loggingOut" THEN NoCall ELSE [call[c] EXCEPT !.at = "refusing"]]
    /\ UNCHANGED <<locks, queue, stored, server, tab, req, told>>

\* The connection breaks: the tab has no answer, and the server goes on.
ConnectionLost(c) ==
    /\ Incident
    /\ call[c].tab # None
    /\ call' = [call EXCEPT ![c].tab = None]
    /\ tab' = [tab EXCEPT ![call[c].tab].at = "failed"]
    /\ Unlock(call[c].tab)
    /\ UNCHANGED <<locks, stored, server, req, told>>

\* A tab is closed or loaded again; the browser gives its lock up.
CloseTab(t) ==
    /\ Incident
    /\ tab[t] # NoTab
    /\ Leaves(t)
    /\ tab' = [tab EXCEPT ![t] = NoTab]
    /\ Unlock(t)
    /\ call' = [c \in Calls |-> IF call[c].tab = t THEN [call[c] EXCEPT !.tab = None] ELSE call[c]]
    /\ UNCHANGED <<locks, stored, server, told>>

----------------------------------------------------------------------------

TabSteps(t) == Enter(t) \/ Retry(t) \/ GiveUp(t)
CallSteps(c) ==
    Find(c) \/ Revoke(c) \/ Issue(c) \/ RevokeAtLogout(c) \/ Arrives(c) \/ Refused(c)
Answers(r) == Accepted(r) \/ Unauthorized(r)

Next ==
    \/ \E r \in Requests : Answers(r) \/ \E t \in Tabs : Send(r, t)
    \/ \E t \in Tabs : TabSteps(t) \/ CloseTab(t)
    \/ \E c \in Calls : CallSteps(c) \/ CallFails(c) \/ ConnectionLost(c)
    \/ Logout \/ Login
    \/ \E n \in Pairs : Expire(n) \/ EndSession(n)

\* The server answers and a tab that may go on goes on.
Fairness ==
    /\ \A r \in Requests : WF_vars(Answers(r))
    /\ \A t \in Tabs : WF_vars(TabSteps(t))
    /\ \A c \in Calls : WF_vars(CallSteps(c))

Spec == Init /\ [][Next]_vars /\ Fairness

----------------------------------------------------------------------------
(* Properties *)

\* "The refresh token is single-use server-side": no token is traded twice unless
\* two calls had it at once. With the Web Lock "only one tab in the whole browser
\* is ever inside the critical section", so that they do only when a call was
\* given up that the server went on with.
SingleUse ==
    /\ TypeOK
    /\ \A n \in Pairs : spent[n] > 1 => raced
    /\ raced /\ locks => incidents > 0

\* "Two tabs refreshing around the same moment": an expired access token goes
\* unnoticed. As long as nothing fails, a request is refused only when a new token
\* expired as well, and the user is signed out only when the request that was
\* refused twice was /auth/me; without Web Locks, only as long as no two tabs
\* refresh at once.
SilentRefresh ==
    incidents = 0 /\ ~raced /\ login = 1 =>
        /\ stored.token = 0 => \E r \in Requests : req[r].at = "signedOut"
        /\ (\E r \in Requests : req[r].at \in {"rejected", "signedOut"}) =>
              \E n \in 2 .. issued : n \notin fresh

Quiet == (\A t \in Tabs : tab[t] = NoTab) /\ \A c \in Calls : call[c] = NoCall

\* localStorage holds the session the user chose last, and when nothing is under
\* way the server knows the refresh token it holds, and no other but those that
\* were let go without a sign-out, by a sign-in over a session or by a /auth/me
\* that was refused twice: "so it can't be silently used again". Not so when the
\* user signs in or out beside a refresh, whose answer is stored in any case.
ServerAgrees ==
    /\ ~crossed => stored.refresh = 0 \/ pairOf[stored.refresh] = login
    /\ Quiet /\ incidents = 0 /\ ~raced /\ ~crossed =>
          /\ stored.refresh \in live \cup {0}
          /\ live \subseteq {stored.refresh} \cup dropped

\* Every request gets an answer, or its page is left: no tab waits for a lock or
\* a refresh that never ends.
Settles == \A r \in Requests : req[r].at = "sent" ~> req[r].at \in {"answered", "rejected", "signedOut", "gone"}
=============================================================================
