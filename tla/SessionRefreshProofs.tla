------------------------ MODULE SessionRefreshProofs ------------------------
(***************************************************************************)
(* What SessionRefresh promises for any number of tabs, requests and       *)
(* calls, checked by the TLA+ proof system.                                *)
(***************************************************************************)
EXTENDS SessionRefresh, TLAPS

\* The server works on a refresh for call c, or has an answer for it.
Working(c) == call[c].at \in {"finding", "revoking", "issuing", "answering"}

\* Tokens and calls are about pairs that were issued.
Issued ==
    /\ stored.refresh <= issued
    /\ \A n \in Pairs : n > issued => n \notin live /\ spent[n] = 0
    /\ \A c \in Calls : Working(c) => call[c].refresh \in 1 .. issued /\ call[c].pair <= issued

\* A token is dead when it is about to be traded.
Dying == \A c \in Calls : call[c].at = "issuing" => call[c].refresh \notin live

\* Each call has its token to itself, a token that lives was never traded, and
\* none was traded twice.
Apart ==
    /\ \A c, d \in Calls : Working(c) /\ Working(d) /\ call[c].refresh = call[d].refresh => c = d
    /\ \A n \in live : spent[n] = 0
    /\ \A n \in Pairs : spent[n] <= 1
    /\ \A c \in Calls : call[c].at \in {"revoking", "issuing"} => spent[call[c].refresh] = 0

\* Refresh tokens and what became of them.
Uses == Issued /\ Dying /\ (~raced => Apart)

\* Somebody may be waiting for call c.
Active(c) == Working(c) \/ call[c].at = "refusing"

\* With the Web Lock, and as long as nothing fails, there is one call at most: it
\* belongs to the tab that has the lock.
OneCall ==
    /\ \A c \in Calls : Active(c) =>
          /\ call[c].tab \in Tabs /\ tab[call[c].tab].at = "posting"
          /\ queue # <<>> /\ Head(queue) = call[c].tab
    /\ \A c, d \in Calls : Active(c) /\ Active(d) => c = d

Locked == locks /\ incidents = 0 => ~raced /\ OneCall

IInv == TypeOK /\ Uses /\ Locked

----------------------------------------------------------------------------
(* Lemmas about the operators *)

\* A queue that a tab leaves is a queue.
LEMMA WithoutType ==
    ASSUME NEW q \in Seq(Tabs), NEW t \in Tabs
    PROVE  Without(q, t) \in Seq(Tabs)
<1>1. CASE \E i \in 1 .. Len(q) : q[i] = t
  <2> DEFINE place == CHOOSE i \in 1 .. Len(q) : q[i] = t
             rest  == [i \in 1 .. Len(q) - 1 |-> IF i < place THEN q[i] ELSE q[i + 1]]
  <2>1. place \in 1 .. Len(q)
    BY <1>1
  <2>2. Len(q) \in Nat /\ Len(q) - 1 \in Nat
    BY <2>1
  <2>3. \A i \in 1 .. Len(q) - 1 : rest[i] \in Tabs
    BY <2>2
  <2>4. rest \in Seq(Tabs)
    BY <2>2, <2>3
  <2> QED
    BY <1>1, <2>4 DEF Without
<1>2. CASE ~\E i \in 1 .. Len(q) : q[i] = t
  BY <1>2 DEF Without
<1> QED
  BY <1>1, <1>2

\* Nothing is a tab's, a call's and a request's state.
LEMMA NothingType ==
    /\ NoTab \in TabStates /\ NoCall \in CallStates /\ NoRequest \in RequestStates
    /\ NoTokens \in [token : 0 .. MaxPairs, refresh : 0 .. MaxPairs]
  BY RefreshConstants DEF NoTab, NoCall, NoRequest, NoTokens, TabStates, CallStates, RequestStates

\* A tab that leaves the queue leaves a queue.
LEMMA UnlockType ==
    ASSUME TypeOK, NEW t \in Tabs, Unlock(t)
    PROVE  queue' \in Seq(Tabs)
  BY WithoutType DEF Unlock, TypeOK

\* A call that starts takes a slot that was free.
LEMMA StartsCall ==
    ASSUME TypeOK, NEW at, NEW t, NEW refresh, Starts(at, t, refresh)
    PROVE  \E c \in Calls :
              /\ call[c].at = "none"
              /\ call' = [call EXCEPT ![c] = [at |-> at, tab |-> t, refresh |-> refresh, pair |-> 0]]
<1>1. (CHOOSE c \in FreeCalls : TRUE) \in FreeCalls
  BY DEF Starts
<1> QED
  BY <1>1 DEF Starts, FreeCalls

\* A call, a tab or a request that moves on is still one.
LEMMA CallMoves ==
    ASSUME TypeOK, NEW c \in Calls,
           NEW at \in {"none", "finding", "revoking", "issuing", "answering", "refusing", "loggingOut"}
    PROVE  [call EXCEPT ![c].at = at] \in [Calls -> CallStates]
  BY DEF TypeOK, CallStates

LEMMA TabMoves ==
    ASSUME TypeOK, NEW t \in Tabs, NEW token \in 0 .. MaxPairs,
           NEW at \in {"none", "queued", "posting", "refreshed", "failed"}
    PROVE  /\ [tab EXCEPT ![t].at = at] \in [Tabs -> TabStates]
           /\ [tab EXCEPT ![t].at = at, ![t].token = token] \in [Tabs -> TabStates]
           /\ [tab EXCEPT ![t] = [at |-> at, before |-> token, token |-> 0]] \in [Tabs -> TabStates]
<1>1. 0 \in 0 .. MaxPairs
  BY RefreshConstants
<1>2. [tab EXCEPT ![t].at = at] \in [Tabs -> TabStates]
  BY DEF TypeOK, TabStates
<1>3. [tab EXCEPT ![t].at = at, ![t].token = token] \in [Tabs -> TabStates]
  BY DEF TypeOK, TabStates
<1>4. [at |-> at, before |-> token, token |-> 0] \in TabStates
  BY <1>1 DEF TabStates
<1> QED
  BY <1>2, <1>3, <1>4 DEF TypeOK

LEMMA RequestMoves ==
    ASSUME TypeOK, NEW r \in Requests, NEW retried \in BOOLEAN,
           NEW at \in {"sent", "refreshing", "answered", "rejected", "signedOut", "gone"}
    PROVE  /\ [req EXCEPT ![r].at = at] \in [Requests -> RequestStates]
           /\ [req EXCEPT ![r].at = at, ![r].retried = retried] \in [Requests -> RequestStates]
  BY DEF TypeOK, RequestStates

\* What is let go is a refresh token.
LEMMA DropsType ==
    ASSUME TypeOK, Drops
    PROVE  dropped' \subseteq Pairs
<1>1. stored.refresh \in 0 .. MaxPairs /\ dropped \subseteq Pairs
  BY DEF TypeOK
<1>2. stored.refresh = 0 \/ stored.refresh \in Pairs
  BY <1>1, RefreshConstants DEF Pairs
<1> QED
  BY <1>1, <1>2 DEF Drops

\* The refresh token of a call under way is one that was issued.
LEMMA RefreshInPairs ==
    ASSUME IInv, NEW c \in Calls, Working(c)
    PROVE  call[c].refresh \in Pairs
  BY RefreshConstants DEF IInv, Uses, Issued, TypeOK, Pairs

----------------------------------------------------------------------------
(* Every step keeps the types *)

\* Types are kept.
LEMMA TypeStep == IInv /\ [Next]_vars => TypeOK'
<1> SUFFICES ASSUME IInv, [Next]_vars PROVE TypeOK'
  OBVIOUS
<1> USE RefreshConstants
<1>0. TypeOK
  BY DEF IInv
<1> USE <1>0
<1>1. ASSUME NEW r \in Requests, NEW t \in Tabs, Send(r, t)
      PROVE  TypeOK'
  BY <1>1, NothingType DEF Send, server, told, TypeOK, TabStates, CallStates, RequestStates, Pairs, NoRequest
<1>2. ASSUME NEW r \in Requests, Accepted(r)
      PROVE  TypeOK'
  BY ZenonT(60), <1>2 DEF Accepted, server, told, TypeOK, TabStates, CallStates, RequestStates, Pairs
<1>3. ASSUME NEW r \in Requests, Unauthorized(r)
      PROVE  TypeOK'
  <2>1. PICK t \in Tabs : t = req[r].tab
    BY <1>3 DEF Unauthorized, TypeOK, RequestStates
  <2>2. stored.refresh \in 0 .. MaxPairs
    BY DEF TypeOK
  <2>3. CASE req[r].retried
    <3>1. /\ req' = [req EXCEPT ![r].at = "rejected"] \/ req' = [req EXCEPT ![r].at = "signedOut"]
          /\ UNCHANGED <<tab, queue>>
      BY <1>3, <2>3 DEF Unauthorized
    <3>2. req' \in [Requests -> RequestStates]
      <4>1. /\ [req EXCEPT ![r].at = "rejected"] \in [Requests -> RequestStates]
            /\ [req EXCEPT ![r].at = "signedOut"] \in [Requests -> RequestStates]
        BY RequestMoves
      <4> QED
        BY <3>1, <4>1
    <3>3. \A q \in Requests : req'[q].at = "new" \/ req'[q].tab # None
      <4>1. \A q \in Requests : req'[q].tab = req[q].tab /\ (q # r => req'[q] = req[q])
        BY <3>1 DEF TypeOK, RequestStates
      <4>2. req[r].at = "sent"
        BY <1>3 DEF Unauthorized
      <4> QED
        BY <4>1, <4>2 DEF TypeOK
    <3>4. stored' \in [token : 0 .. MaxPairs, refresh : 0 .. MaxPairs] /\ dropped' \subseteq Pairs
      <4>1. UNCHANGED <<stored, dropped>> \/ (stored' = NoTokens /\ Drops)
        BY <1>3, <2>3 DEF Unauthorized
      <4>2. CASE UNCHANGED <<stored, dropped>>
        BY <4>2 DEF TypeOK
      <4>3. CASE stored' = NoTokens /\ Drops
        BY <2>2, <4>3, NothingType, DropsType DEF TypeOK
      <4> QED
        BY <4>1, <4>2, <4>3
    <3> QED
      BY <1>3, <3>1, <3>2, <3>3, <3>4 DEF Unauthorized, server, TypeOK
  <2>4. CASE ~req[r].retried
    <3>1. req' = [req EXCEPT ![r].at = "refreshing", ![r].retried = TRUE]
      BY <1>3, <2>4 DEF Unauthorized
    <3>2. req' \in [Requests -> RequestStates]
      BY <3>1, RequestMoves
    <3>3. \A q \in Requests : req'[q].at = "new" \/ req'[q].tab # None
      BY <1>3, <3>1 DEF Unauthorized, TypeOK, RequestStates
    <3>4. tab' \in [Tabs -> TabStates] /\ queue' \in Seq(Tabs)
      <4>1. CASE tab[t].at = "none"
        <5>1. /\ tab' = [tab EXCEPT ![t] = [at |-> "queued", before |-> stored.refresh, token |-> 0]]
              /\ queue' = IF locks THEN Append(queue, t) ELSE queue
          BY <1>3, <2>1, <2>4, <4>1 DEF Unauthorized
        <5>2. Append(queue, t) \in Seq(Tabs)
          BY DEF TypeOK
        <5> QED
          BY <2>2, <5>1, <5>2, TabMoves DEF TypeOK
      <4>2. CASE tab[t].at # "none"
        BY <1>3, <2>1, <2>4, <4>2 DEF Unauthorized, TypeOK
      <4> QED
        BY <4>1, <4>2
    <3>5. UNCHANGED <<stored, dropped>>
      BY <1>3, <2>4 DEF Unauthorized
    <3> QED
      BY <1>3, <3>2, <3>3, <3>4, <3>5 DEF Unauthorized, server, TypeOK
  <2> QED
    BY <2>3, <2>4
<1>4. ASSUME NEW t \in Tabs, Enter(t)
      PROVE  TypeOK'
  <2>1. stored.refresh \in 0 .. MaxPairs /\ stored.token \in 0 .. MaxPairs
    BY DEF TypeOK
  <2>2. tab' \in [Tabs -> TabStates]
    <3>1. \/ tab' = [tab EXCEPT ![t].at = "refreshed", ![t].token = stored.token]
          \/ tab' = [tab EXCEPT ![t].at = "failed"]
          \/ tab' = [tab EXCEPT ![t].at = "posting"]
      BY <1>4 DEF Enter
    <3>2. [tab EXCEPT ![t].at = "refreshed", ![t].token = stored.token] \in [Tabs -> TabStates]
      BY <2>1, TabMoves
    <3>3. /\ [tab EXCEPT ![t].at = "failed"] \in [Tabs -> TabStates]
          /\ [tab EXCEPT ![t].at = "posting"] \in [Tabs -> TabStates]
      BY <2>1, TabMoves
    <3> QED
      BY <3>1, <3>2, <3>3
  <2>3. queue' \in Seq(Tabs)
    BY <1>4, UnlockType DEF Enter, TypeOK
  <2>4. call' \in [Calls -> CallStates]
    <3>1. CASE UNCHANGED call
      BY <3>1 DEF TypeOK
    <3>2. CASE Starts("finding", t, stored.refresh)
      <4>1. PICK c \in Calls :
              call' = [call EXCEPT ![c] = [at |-> "finding", tab |-> t, refresh |-> stored.refresh, pair |-> 0]]
        BY <3>2, StartsCall
      <4>2. [at |-> "finding", tab |-> t, refresh |-> stored.refresh, pair |-> 0] \in CallStates
        BY <2>1 DEF CallStates
      <4> QED
        BY <4>1, <4>2 DEF TypeOK
    <3> QED
      BY <1>4, <3>1, <3>2 DEF Enter
  <2>5. raced' \in BOOLEAN
    <3>1. CASE UNCHANGED raced
      BY <3>1 DEF TypeOK
    <3>2. CASE raced' = (raced \/ \E c \in Refreshing : call[c].refresh = stored.refresh)
      BY <3>2, Zenon DEF TypeOK
    <3> QED
      BY <1>4, <3>1, <3>2 DEF Enter
  <2> QED
    BY <1>4, <2>2, <2>3, <2>4, <2>5 DEF Enter, server, told, TypeOK
<1>5. ASSUME NEW t \in Tabs, Retry(t)
      PROVE  TypeOK'
  <2>1. stored.token \in 0 .. MaxPairs /\ tab[t].token \in 0 .. MaxPairs
    BY DEF TypeOK, TabStates
  <2>2. req' \in [Requests -> RequestStates] /\ \A q \in Requests : req'[q].at = "new" \/ req'[q].tab # None
    BY ZenonT(60), <1>5, <2>1 DEF Retry, Again, Waiting, TypeOK, RequestStates
  <2>3. tab' \in [Tabs -> TabStates]
    BY <1>5, NothingType DEF Retry, Again, TypeOK
  <2> QED
    BY <1>5, <2>2, <2>3 DEF Retry, server, told, TypeOK
<1>6. ASSUME NEW t \in Tabs, GiveUp(t)
      PROVE  TypeOK'
  <2>1. stored.token \in 0 .. MaxPairs /\ tab[t].token \in 0 .. MaxPairs
    BY DEF TypeOK, TabStates
  <2>2. req' \in [Requests -> RequestStates] /\ \A q \in Requests : req'[q].at = "new" \/ req'[q].tab # None
    <3>1. CASE Rescued(t)
      <4>1. req' = [r \in Requests |->
                      IF r \in Waiting(t)
                        THEN [req[r] EXCEPT !.at = "sent", !.token = stored.token]
                        ELSE req[r]]
        BY <1>6, <3>1 DEF GiveUp, Again
      <4> QED
        BY ZenonT(60), <2>1, <4>1 DEF TypeOK, RequestStates, Waiting
    <3>2. CASE ~Rescued(t)
      <4>1. req' = [r \in Requests |->
                      IF r \in Waiting(t) THEN [req[r] EXCEPT !.at = "rejected"]
                      ELSE IF r \in Pending(t) THEN [req[r] EXCEPT !.at = "gone"] ELSE req[r]]
        BY <1>6, <3>2 DEF GiveUp
      <4> QED
        BY ZenonT(60), <4>1 DEF TypeOK, RequestStates, Waiting, Pending
    <3> QED
      BY <3>1, <3>2
  <2>3. tab' \in [Tabs -> TabStates]
    BY <1>6, NothingType DEF GiveUp, Again, TypeOK
  <2>4. stored' \in [token : 0 .. MaxPairs, refresh : 0 .. MaxPairs]
    BY <1>6, NothingType DEF GiveUp, TypeOK
  <2> QED
    BY <1>6, <2>2, <2>3, <2>4 DEF GiveUp, server, told, TypeOK
<1>7. ASSUME NEW t \in Tabs, CloseTab(t)
      PROVE  TypeOK'
  <2>1. req' \in [Requests -> RequestStates] /\ \A q \in Requests : req'[q].at = "new" \/ req'[q].tab # None
    BY <1>7 DEF CloseTab, Leaves, Pending, TypeOK, RequestStates
  <2>2. tab' \in [Tabs -> TabStates] /\ queue' \in Seq(Tabs)
    BY <1>7, NothingType, UnlockType DEF CloseTab, TypeOK
  <2>3. call' \in [Calls -> CallStates]
    BY <1>7 DEF CloseTab, TypeOK, CallStates
  <2>4. incidents' \in 0 .. MaxIncidents
    BY <1>7 DEF CloseTab, Incident, TypeOK
  <2> QED
    BY <1>7, <2>1, <2>2, <2>3, <2>4 DEF CloseTab, server, told, TypeOK
<1>8. ASSUME NEW c \in Calls, Find(c)
      PROVE  TypeOK'
  <2>1. call' = [call EXCEPT ![c].at = "revoking"] \/ call' = [call EXCEPT ![c].at = "refusing"]
    BY <1>8 DEF Find
  <2>2. call' \in [Calls -> CallStates]
    BY <2>1, CallMoves
  <2> QED
    BY <1>8, <2>2 DEF Find, server, told, TypeOK
<1>9. ASSUME NEW c \in Calls, Revoke(c)
      PROVE  TypeOK'
  <2>1. call' \in [Calls -> CallStates]
    BY <1>9, CallMoves DEF Revoke
  <2> QED
    BY <1>9, <2>1 DEF Revoke, told, TypeOK
<1>10. ASSUME NEW c \in Calls, Issue(c)
      PROVE  TypeOK'
  <2>1. issued' \in Pairs /\ issued' \in 0 .. MaxPairs
    BY <1>10 DEF Issue, Issues, TypeOK, Pairs
  <2>2. live' \subseteq Pairs /\ fresh' \subseteq Pairs
    BY <1>10, <2>1 DEF Issue, Issues, TypeOK
  <2>3. call' \in [Calls -> CallStates]
    <3>1. PICK n \in 0 .. MaxPairs : n = issued'
      BY <2>1
    <3>2. call' = [call EXCEPT ![c].at = "answering", ![c].pair = n]
      BY <1>10, <3>1 DEF Issue
    <3> QED
      BY ZenonT(60), <3>2 DEF TypeOK, CallStates
  <2>4. PICK n \in Pairs : n = call[c].refresh
    BY <1>10, RefreshInPairs DEF Issue, Working
  <2>5. pairOf[n] \in Nat /\ spent[n] + 1 \in Nat
    BY <2>4 DEF TypeOK
  <2>6. pairOf' \in [Pairs -> Nat]
    BY <1>10, <2>1, <2>4, <2>5 DEF Issue, Issues, TypeOK
  <2>7. spent' = [spent EXCEPT ![n] = spent[n] + 1]
    BY <1>10, <2>4 DEF Issue
  <2>8. spent' \in [Pairs -> Nat]
    BY <2>4, <2>5, <2>7 DEF TypeOK
  <2> QED
    BY <1>10, <2>1, <2>2, <2>3, <2>6, <2>8 DEF Issue, TypeOK
<1>11. ASSUME NEW c \in Calls, RevokeAtLogout(c)
      PROVE  TypeOK'
  BY <1>11, NothingType DEF RevokeAtLogout, TypeOK, told
<1>12. ASSUME NEW c \in Calls, Arrives(c)
      PROVE  TypeOK'
  <2>1. call' \in [Calls -> CallStates]
    BY <1>12, NothingType DEF Arrives, TypeOK
  <2>2. CASE call[c].tab = None
    BY <1>12, <2>1, <2>2 DEF Arrives, server, told, TypeOK
  <2>3. CASE call[c].tab # None
    <3>1. PICK t \in Tabs : t = call[c].tab
      BY <2>3 DEF TypeOK, CallStates
    <3>2. PICK n \in 0 .. MaxPairs : n = call[c].pair
      BY DEF TypeOK, CallStates
    <3>3. /\ stored' = [token |-> n, refresh |-> n]
          /\ tab' = [tab EXCEPT ![t].at = "refreshed", ![t].token = n]
      BY <1>12, <2>3, <3>1, <3>2 DEF Arrives
    <3>5. stored' \in [token : 0 .. MaxPairs, refresh : 0 .. MaxPairs] /\ tab' \in [Tabs -> TabStates]
      BY <3>3, TabMoves
    <3>4. queue' \in Seq(Tabs)
      BY <1>12, <2>3, <3>1, UnlockType DEF Arrives
    <3> QED
      BY <1>12, <2>1, <3>4, <3>5 DEF Arrives, server, told, TypeOK
  <2> QED
    BY <2>2, <2>3
<1>13. ASSUME NEW c \in Calls, Refused(c)
      PROVE  TypeOK'
  <2>1. call' \in [Calls -> CallStates]
    BY <1>13, NothingType DEF Refused, TypeOK
  <2>2. CASE call[c].tab = None
    BY <1>13, <2>1, <2>2 DEF Refused, server, told, TypeOK
  <2>3. CASE call[c].tab # None
    <3>1. PICK t \in Tabs : t = call[c].tab
      BY <2>3 DEF TypeOK, CallStates
    <3>4. tab' = [tab EXCEPT ![t].at = "failed"]
      BY <1>13, <2>3, <3>1 DEF Refused
    <3>2. tab' \in [Tabs -> TabStates]
      <4>1. 0 \in 0 .. MaxPairs
        BY RefreshConstants
      <4> QED
        BY <3>4, <4>1, TabMoves
    <3>3. queue' \in Seq(Tabs)
      BY <1>13, <2>3, <3>1, UnlockType DEF Refused
    <3> QED
      BY <1>13, <2>1, <3>2, <3>3 DEF Refused, server, told, TypeOK
  <2> QED
    BY <2>2, <2>3
<1>14. ASSUME NEW c \in Calls, CallFails(c)
      PROVE  TypeOK'
  <2>1. call' \in [Calls -> CallStates]
    BY <1>14, NothingType DEF CallFails, TypeOK, CallStates
  <2>2. incidents' \in 0 .. MaxIncidents
    BY <1>14 DEF CallFails, Incident, TypeOK
  <2> QED
    BY <1>14, <2>1, <2>2 DEF CallFails, server, told, TypeOK
<1>15. ASSUME NEW c \in Calls, ConnectionLost(c)
      PROVE  TypeOK'
  <2>1. PICK t \in Tabs : t = call[c].tab
    BY <1>15 DEF ConnectionLost, TypeOK, CallStates
  <2>2. call' \in [Calls -> CallStates]
    BY <1>15 DEF ConnectionLost, TypeOK, CallStates
  <2>3. tab' \in [Tabs -> TabStates] /\ queue' \in Seq(Tabs)
    BY <1>15, <2>1, UnlockType DEF ConnectionLost, TypeOK, TabStates
  <2>4. incidents' \in 0 .. MaxIncidents
    BY <1>15 DEF ConnectionLost, Incident, TypeOK
  <2> QED
    BY <1>15, <2>2, <2>3, <2>4 DEF ConnectionLost, server, told, TypeOK
<1>16. CASE Logout
  <2>1. call' \in [Calls -> CallStates]
    <3>1. PICK n \in 0 .. MaxPairs : n = stored.refresh
      BY DEF TypeOK
    <3>2. PICK c \in Calls :
            call' = [call EXCEPT ![c] = [at |-> "loggingOut", tab |-> None, refresh |-> n, pair |-> 0]]
      BY <1>16, <3>1, StartsCall DEF Logout
    <3>3. [at |-> "loggingOut", tab |-> None, refresh |-> n, pair |-> 0] \in CallStates
      BY DEF CallStates
    <3> QED
      BY <3>2, <3>3 DEF TypeOK
  <2>2. stored' \in [token : 0 .. MaxPairs, refresh : 0 .. MaxPairs]
    BY <1>16, NothingType DEF Logout
  <2>3. crossed' \in BOOLEAN
    BY <1>16, Zenon DEF Logout, TypeOK
  <2> QED
    BY <1>16, <2>1, <2>2, <2>3 DEF Logout, server, TypeOK
<1>17. CASE Login
  <2>1. issued' \in Pairs /\ issued' \in 0 .. MaxPairs
    BY <1>17 DEF Login, Issues, TypeOK, Pairs
  <2>2. live' \subseteq Pairs /\ fresh' \subseteq Pairs
    BY <1>17, <2>1 DEF Login, Issues, TypeOK
  <2>3. login' \in Nat
    BY <1>17 DEF Login, TypeOK
  <2>4. pairOf' \in [Pairs -> Nat]
    BY <1>17, <2>1, <2>3 DEF Login, Issues, TypeOK
  <2>5. crossed' \in BOOLEAN
    BY <1>17, Zenon DEF Login, TypeOK
  <2>6. stored' \in [token : 0 .. MaxPairs, refresh : 0 .. MaxPairs]
    BY <1>17, <2>1 DEF Login
  <2> QED
    BY <1>17, <2>1, <2>2, <2>3, <2>4, <2>5, <2>6, DropsType DEF Login, TypeOK
<1>18. ASSUME NEW n \in Pairs, Expire(n)
      PROVE  TypeOK'
  BY <1>18 DEF Expire, TypeOK, told
<1>19. ASSUME NEW n \in Pairs, EndSession(n)
      PROVE  TypeOK'
  BY <1>19 DEF EndSession, Incident, TypeOK, told
<1>20. CASE UNCHANGED vars
  BY <1>20 DEF vars, server, told, TypeOK
<1> QED
  BY <1>1, <1>2, <1>3, <1>4, <1>5, <1>6, <1>7, <1>8, <1>9, <1>10, <1>11, <1>12, <1>13, <1>14, <1>15, <1>16, <1>17, <1>18, <1>19, <1>20 DEF Next, Answers, TabSteps, CallSteps

----------------------------------------------------------------------------
(* Every step keeps the account of the refresh tokens *)

\* What does not touch tokens and calls keeps the account.
LEMMA UsesSame ==
    ASSUME Uses, UNCHANGED <<stored, live, issued, call, spent, raced>>
    PROVE  Uses'
  BY DEF Uses, Issued, Dying, Apart, Working

\* The account of the refresh tokens is kept.
LEMMA UsesStep == IInv /\ [Next]_vars => Uses'
<1> SUFFICES ASSUME IInv, [Next]_vars PROVE Uses'
  OBVIOUS
<1> USE RefreshConstants
<1>0. TypeOK /\ Uses
  BY DEF IInv
<1> USE <1>0
<1>1. ASSUME NEW r \in Requests, NEW t \in Tabs, Send(r, t)
      PROVE  Uses'
  BY <1>1, UsesSame DEF Send, Again, server, told
<1>2. ASSUME NEW r \in Requests, Accepted(r)
      PROVE  Uses'
  BY <1>2, UsesSame DEF Accepted, Again, server, told
<1>3. ASSUME NEW r \in Requests, Unauthorized(r)
      PROVE  Uses'
  <2>1. /\ UNCHANGED <<live, issued, call, spent, raced>>
        /\ UNCHANGED stored \/ stored' = NoTokens
    BY <1>3 DEF Unauthorized, server
  <2>2. CASE UNCHANGED stored
    BY <2>1, <2>2, UsesSame
  <2>3. CASE stored' = NoTokens
    BY <2>1, <2>3 DEF Uses, Issued, Dying, Apart, Working, NoTokens, TypeOK
  <2> QED
    BY <2>1, <2>2, <2>3
<1>4. ASSUME NEW t \in Tabs, Enter(t)
      PROVE  Uses'
  <2>1. UNCHANGED <<stored, live, issued, spent>>
    BY <1>4 DEF Enter, server
  <2>2. CASE UNCHANGED <<call, raced>>
    BY <2>1, <2>2, UsesSame
  <2>3. CASE /\ Starts("finding", t, stored.refresh) /\ stored.refresh # 0
             /\ raced' = (raced \/ \E c \in Refreshing : call[c].refresh = stored.refresh)
    <3>1. PICK n \in 1 .. MaxPairs : n = stored.refresh /\ n <= issued
      BY <2>3 DEF TypeOK, Uses, Issued
    <3>2. PICK c \in Calls :
            /\ call[c].at = "none"
            /\ call' = [call EXCEPT ![c] = [at |-> "finding", tab |-> t, refresh |-> n, pair |-> 0]]
      BY <2>3, <3>1, StartsCall
    <3>3. call'[c] = [at |-> "finding", tab |-> t, refresh |-> n, pair |-> 0] /\ ~Working(c)
      BY <3>2 DEF TypeOK, Working
    <3>4. \A d \in Calls : d # c => call'[d] = call[d]
      BY <3>2 DEF TypeOK
    <3>5. Issued'
      BY SMTT(30), <2>1, <3>1, <3>3, <3>4 DEF Uses, Issued, Working, TypeOK
    <3>6. Dying'
      BY <2>1, <3>3, <3>4 DEF Uses, Dying
    <3>7. ASSUME ~raced'
          PROVE  Apart'
      <4>1. ~raced /\ \A d \in Refreshing : call[d].refresh # n
        BY <2>3, <3>1, <3>7
      <4>2. \A d \in Calls : d # c /\ Working(d)' => call'[d].refresh # n
        BY <3>4, <4>1 DEF Working, Refreshing
      <4>3. \A d, e \in Calls : Working(d)' /\ Working(e)' /\ call'[d].refresh = call'[e].refresh => d = e
        BY <3>3, <3>4, <4>1, <4>2 DEF Uses, Apart, Working
      <4> QED
        BY <2>1, <3>3, <3>4, <4>1, <4>3 DEF Uses, Apart
    <3> QED
      BY <3>5, <3>6, <3>7 DEF Uses
  <2> QED
    BY <1>4, <2>2, <2>3 DEF Enter
<1>5. ASSUME NEW t \in Tabs, Retry(t)
      PROVE  Uses'
  BY <1>5, UsesSame DEF Retry, Again, server, told
<1>6. ASSUME NEW t \in Tabs, GiveUp(t)
      PROVE  Uses'
  <2>1. stored'.refresh <= issued
    BY <1>6, RefreshConstants DEF GiveUp, NoTokens, Uses, Issued, TypeOK
  <2> QED
    BY <1>6, <2>1 DEF GiveUp, server, told, Uses, Issued, Dying, Apart, Working
<1>7. ASSUME NEW t \in Tabs, CloseTab(t)
      PROVE  Uses'
  BY <1>7 DEF CloseTab, Incident, NoCall, server, told, Uses, Issued, Dying, Apart, Working, TypeOK, CallStates, Pairs
<1>8. ASSUME NEW c \in Calls, Find(c)
      PROVE  Uses'
  BY <1>8, SMTT(30) DEF Find, Incident, NoCall, server, told, Uses, Issued, Dying, Apart, Working, TypeOK, CallStates, Pairs
<1>9. ASSUME NEW c \in Calls, Revoke(c)
      PROVE  Uses'
  BY SMTT(30), <1>9 DEF Revoke, Incident, NoCall, server, told, Uses, Issued, Dying, Apart, Working, TypeOK, CallStates, Pairs
<1>10. ASSUME NEW c \in Calls, Issue(c)
      PROVE  Uses'
  <2>1. PICK n \in Pairs : n = call[c].refresh /\ n <= issued
    BY <1>10, RefreshInPairs DEF Issue, Working, Uses, Issued
  <2>2. /\ issued \in 0 .. MaxPairs /\ issued' = issued + 1 /\ issued' \in Pairs
        /\ live' = live \cup {issued + 1}
    BY <1>10 DEF Issue, Issues, TypeOK, Pairs
  <2>3. /\ UNCHANGED <<stored, raced>>
        /\ spent' = [spent EXCEPT ![n] = spent[n] + 1]
        /\ call' = [call EXCEPT ![c].at = "answering", ![c].pair = issued']
        /\ call[c].at = "issuing" /\ n \notin live
    BY <1>10, <2>1 DEF Issue, Uses, Dying
  <2>4. /\ call'[c].at = "answering" /\ call'[c].pair = issued + 1 /\ call'[c].refresh = n
        /\ \A d \in Calls : d # c => call'[d] = call[d]
    BY <2>1, <2>2, <2>3 DEF TypeOK, CallStates
  <2>5. /\ spent[n] \in Nat /\ spent'[n] = spent[n] + 1
        /\ \A m \in Pairs : m # n => spent'[m] = spent[m]
    BY <2>3 DEF TypeOK
  <2>6. \A m \in Pairs : m > issued + 1 => m \notin live' /\ spent'[m] = 0
    BY <2>1, <2>2, <2>5 DEF Uses, Issued, Pairs
  <2>7. \A d \in Calls : Working(d)' => call'[d].refresh \in 1 .. issued + 1 /\ call'[d].pair <= issued + 1
    <3> SUFFICES ASSUME NEW d \in Calls, Working(d)'
                 PROVE  call'[d].refresh \in 1 .. issued + 1 /\ call'[d].pair <= issued + 1
      OBVIOUS
    <3>1. CASE d = c
      BY <2>1, <2>2, <2>4, <3>1 DEF Pairs
    <3>2. CASE d # c
      <4>1. Working(d) /\ call'[d] = call[d]
        BY <2>4, <3>2 DEF Working
      <4>2. PICK m \in 0 .. MaxPairs, k \in 0 .. MaxPairs :
              m = call[d].refresh /\ k = call[d].pair /\ m \in 1 .. issued /\ k <= issued
        BY <4>1 DEF Uses, Issued, TypeOK, CallStates
      <4> QED
        BY <2>2, <4>1, <4>2
    <3> QED
      BY <3>1, <3>2
  <2>8. Issued'
    BY <2>2, <2>3, <2>6, <2>7 DEF Uses, Issued, Working, TypeOK
  <2>9. Dying'
    <3> SUFFICES ASSUME NEW d \in Calls, call'[d].at = "issuing" PROVE call'[d].refresh \notin live'
      BY DEF Dying
    <3>1. d # c /\ call'[d] = call[d] /\ call[d].refresh \notin live /\ call[d].refresh <= issued
      BY <2>2, <2>4 DEF Uses, Dying, Issued, Working
    <3> QED
      BY <2>2, <3>1 DEF TypeOK, CallStates
  <2>10. ASSUME ~raced
         PROVE  Apart'
    <3>1. Apart /\ spent[n] = 0 /\ spent'[n] = 1
      BY <2>1, <2>3, <2>5, <2>10 DEF Uses, Apart
    <3>2. \A d, e \in Calls : Working(d)' /\ Working(e)' /\ call'[d].refresh = call'[e].refresh => d = e
      <4> SUFFICES ASSUME NEW d \in Calls, NEW e \in Calls,
                          Working(d)', Working(e)', call'[d].refresh = call'[e].refresh
                   PROVE  d = e
        OBVIOUS
      <4>1. \A x \in {d, e} : (Working(x)' => Working(x)) /\ call'[x].refresh = call[x].refresh
        BY <2>1, <2>3, <2>4 DEF Working
      <4> QED
        BY <3>1, <4>1 DEF Apart
    <3>3. \A m \in live' : spent'[m] = 0
      <4>1. n # issued + 1 /\ spent'[issued + 1] = 0
        BY <2>1, <2>2, <2>5 DEF Uses, Issued, Pairs
      <4>2. \A m \in live : m # n /\ spent'[m] = 0
        BY <2>3, <2>5, <3>1 DEF Apart, TypeOK
      <4> QED
        BY <2>2, <4>1, <4>2
    <3>4. \A m \in Pairs : spent'[m] <= 1
      BY <2>5, <3>1 DEF Apart
    <3>5. \A d \in Calls : call'[d].at \in {"revoking", "issuing"} => spent'[call'[d].refresh] = 0
      <4> SUFFICES ASSUME NEW d \in Calls, call'[d].at \in {"revoking", "issuing"}
                   PROVE  spent'[call'[d].refresh] = 0
        OBVIOUS
      <4>1. d # c /\ call'[d] = call[d] /\ Working(d) /\ Working(c)
        BY <2>3, <2>4 DEF Working
      <4>2. PICK m \in Pairs : m = call[d].refresh /\ m # n /\ spent[m] = 0
        BY <2>1, <3>1, <4>1, RefreshInPairs DEF Apart
      <4> QED
        BY <2>5, <4>1, <4>2
    <3> QED
      BY <3>2, <3>3, <3>4, <3>5 DEF Apart
  <2> QED
    BY <2>3, <2>8, <2>9, <2>10 DEF Uses
<1>11. ASSUME NEW c \in Calls, RevokeAtLogout(c)
      PROVE  Uses'
  BY <1>11 DEF RevokeAtLogout, Incident, NoCall, server, told, Uses, Issued, Dying, Apart, Working, TypeOK, CallStates, Pairs
<1>12. ASSUME NEW c \in Calls, Arrives(c)
      PROVE  Uses'
  <2>1. call' = [call EXCEPT ![c] = NoCall] /\ UNCHANGED <<live, issued, spent, raced>>
    BY <1>12 DEF Arrives, server, told
  <2>2. \A d \in Calls : call'[d] = call[d] \/ call'[d].at = "none"
    BY <2>1 DEF TypeOK, NoCall
  <2>3. stored'.refresh <= issued
    BY <1>12 DEF Arrives, Uses, Issued, Working
  <2>4. Issued' /\ Dying'
    BY <2>1, <2>2, <2>3 DEF Uses, Issued, Dying, Working
  <2>5. Apart => Apart'
    BY <2>1, <2>2 DEF Apart, Working
  <2> QED
    BY <2>1, <2>4, <2>5 DEF Uses
<1>13. ASSUME NEW c \in Calls, Refused(c)
      PROVE  Uses'
  BY <1>13 DEF Refused, Incident, NoCall, server, told, Uses, Issued, Dying, Apart, Working, TypeOK, CallStates, Pairs
<1>14. ASSUME NEW c \in Calls, CallFails(c)
      PROVE  Uses'
  BY <1>14 DEF CallFails, Incident, NoCall, server, told, Uses, Issued, Dying, Apart, Working, TypeOK, CallStates, Pairs
<1>15. ASSUME NEW c \in Calls, ConnectionLost(c)
      PROVE  Uses'
  BY SMTT(30), <1>15 DEF ConnectionLost, Incident, NoCall, server, told, Uses, Issued, Dying, Apart, Working, TypeOK, CallStates, Pairs
<1>16. CASE Logout
  <2>1. PICK c \in Calls :
          /\ call[c].at = "none"
          /\ call' = [call EXCEPT ![c] = [at |-> "loggingOut", tab |-> None, refresh |-> stored.refresh, pair |-> 0]]
    BY <1>16, StartsCall DEF Logout
  <2>2. \A d \in Calls : call'[d] = call[d] \/ call'[d].at = "loggingOut"
    BY <2>1 DEF TypeOK
  <2>3. UNCHANGED <<live, issued, spent, raced>> /\ stored'.refresh <= issued
    BY <1>16 DEF Logout, server, NoTokens, TypeOK
  <2>4. Issued' /\ Dying'
    BY <2>2, <2>3 DEF Uses, Issued, Dying, Working
  <2>5. Apart => Apart'
    BY <2>2, <2>3 DEF Apart, Working
  <2> QED
    BY <2>3, <2>4, <2>5 DEF Uses
<1>17. CASE Login
  <2>1. /\ issued \in 0 .. MaxPairs /\ issued' = issued + 1 /\ issued' \in Pairs
        /\ live' = live \cup {issued + 1} /\ stored'.refresh = issued + 1
        /\ UNCHANGED <<call, spent, raced>>
    BY <1>17 DEF Login, Issues, TypeOK, Pairs
  <2>2. Issued'
    <3>1. \A n \in Pairs : n > issued + 1 => n \notin live' /\ spent'[n] = 0
      BY <2>1 DEF Uses, Issued, Pairs
    <3>2. \A c \in Calls : Working(c)' => call'[c].refresh \in 1 .. issued + 1 /\ call'[c].pair <= issued + 1
      <4> SUFFICES ASSUME NEW c \in Calls, Working(c)
                   PROVE  call[c].refresh \in 1 .. issued + 1 /\ call[c].pair <= issued + 1
        BY <2>1 DEF Working
      <4>1. PICK m \in 0 .. MaxPairs, k \in 0 .. MaxPairs :
              m = call[c].refresh /\ k = call[c].pair /\ m \in 1 .. issued /\ k <= issued
        BY DEF Uses, Issued, TypeOK, CallStates
      <4> QED
        BY <2>1, <4>1
    <3>3. stored'.refresh <= issued'
      BY <2>1
    <3>4. \A n \in Pairs : n > issued' => n \notin live' /\ spent'[n] = 0
      BY <2>1, <3>1
    <3>5. \A c \in Calls : Working(c)' => call'[c].refresh \in 1 .. issued' /\ call'[c].pair <= issued'
      BY <2>1, <3>2
    <3> QED
      BY ONLY <3>3, <3>4, <3>5 DEF Issued, Pairs
  <2>3. \A c \in Calls : Working(c) => call[c].refresh # issued + 1
    BY <2>1 DEF Uses, Issued, TypeOK, CallStates
  <2>4. Dying'
    BY <2>1, <2>3 DEF Uses, Dying, Working
  <2>5. spent[issued + 1] = 0
    BY <2>1 DEF Uses, Issued
  <2>6. Apart => Apart'
    BY <2>1, <2>5 DEF Apart, Working
  <2> QED
    BY <2>1, <2>2, <2>4, <2>6 DEF Uses
<1>18. ASSUME NEW n \in Pairs, Expire(n)
      PROVE  Uses'
  BY <1>18, UsesSame DEF Expire, Again, server, told
<1>19. ASSUME NEW n \in Pairs, EndSession(n)
      PROVE  Uses'
  BY <1>19 DEF EndSession, Incident, NoCall, server, told, Uses, Issued, Dying, Apart, Working, TypeOK, CallStates, Pairs
<1>20. CASE UNCHANGED vars
  BY <1>20, UsesSame DEF vars, server, told
<1> QED
  BY <1>1, <1>2, <1>3, <1>4, <1>5, <1>6, <1>7, <1>8, <1>9, <1>10, <1>11, <1>12, <1>13, <1>14, <1>15, <1>16, <1>17, <1>18, <1>19, <1>20 DEF Next, Answers, TabSteps, CallSteps

----------------------------------------------------------------------------
(* With the lock there is one call *)

\* What does not touch tabs, the lock and calls keeps it so.
LEMMA LockedSame ==
    ASSUME Locked, UNCHANGED <<locks, incidents, raced, call, tab, queue>>
    PROVE  Locked'
  BY DEF Locked, OneCall, Active, Working

\* The call of the tab that has the lock stays the only one.
LEMMA LockedStep == IInv /\ [Next]_vars => Locked'
<1> SUFFICES ASSUME IInv, [Next]_vars PROVE Locked'
  OBVIOUS
<1> USE RefreshConstants
<1>0. TypeOK /\ Locked
  BY DEF IInv
<1> USE <1>0
<1>1. ASSUME NEW r \in Requests, NEW t \in Tabs, Send(r, t)
      PROVE  Locked'
  BY <1>1, LockedSame DEF Send, Issues, server, told
<1>2. ASSUME NEW r \in Requests, Accepted(r)
      PROVE  Locked'
  BY <1>2, LockedSame DEF Accepted, Issues, server, told
<1>3. ASSUME NEW r \in Requests, Unauthorized(r)
      PROVE  Locked'
  <2>1. UNCHANGED <<locks, incidents, raced, call>>
    BY <1>3 DEF Unauthorized, told
  <2>2. \A t \in Tabs : tab[t].at = "posting" => tab'[t] = tab[t]
    BY <1>3 DEF Unauthorized, TypeOK
  <2>3. queue # <<>> => queue' # <<>> /\ Head(queue') = Head(queue)
    <3>1. PICK t \in Tabs : t = req[r].tab
      BY <1>3 DEF Unauthorized, TypeOK, RequestStates
    <3>2. queue' = queue \/ queue' = Append(queue, t)
      BY <1>3, <3>1 DEF Unauthorized
    <3>3. queue \in Seq(Tabs)
      BY DEF TypeOK
    <3>4. ASSUME queue # <<>>
          PROVE  Append(queue, t) # <<>> /\ Head(Append(queue, t)) = Head(queue)
      <4>1. Len(queue) \in Nat /\ Len(queue) >= 1
        BY <3>3, <3>4
      <4>2. Len(Append(queue, t)) = Len(queue) + 1 /\ Append(queue, t)[1] = queue[1]
        BY <3>1, <3>3, <4>1
      <4> QED
        BY <3>1, <3>3, <4>1, <4>2
    <3> QED
      BY <3>2, <3>4
  <2> QED
    BY <2>1, <2>2, <2>3 DEF Locked, OneCall, Active, Working
<1>4. ASSUME NEW t \in Tabs, Enter(t)
      PROVE  Locked'
  <2> SUFFICES ASSUME locks, incidents = 0 PROVE ~raced' /\ OneCall'
    BY <1>4 DEF Enter, Locked
  <2>1. ~raced /\ OneCall /\ queue # <<>> /\ Head(queue) = t /\ tab[t].at = "queued"
    BY <1>4 DEF Enter, MayEnter, Locked
  <2>2. \A d \in Calls : ~Active(d)
    BY <2>1 DEF OneCall
  <2>3. CASE UNCHANGED <<call, raced>>
    BY <2>1, <2>2, <2>3 DEF OneCall, Active, Working
  <2>4. CASE /\ tab' = [tab EXCEPT ![t].at = "posting"]
             /\ Starts("finding", t, stored.refresh)
             /\ raced' = (raced \/ \E c \in Refreshing : call[c].refresh = stored.refresh)
             /\ UNCHANGED queue
    <3>1. PICK c \in Calls :
            call' = [call EXCEPT ![c] = [at |-> "finding", tab |-> t, refresh |-> stored.refresh, pair |-> 0]]
      BY <2>4, StartsCall
    <3>2. call'[c].tab = t /\ \A d \in Calls : d # c => ~Active(d)'
      BY <2>2, <3>1 DEF TypeOK, Active, Working
    <3>3. tab'[t].at = "posting"
      BY <2>4 DEF TypeOK, TabStates
    <3>4. Refreshing = {}
      BY <2>2 DEF Refreshing, Active, Working
    <3>5. ~raced'
      BY <2>1, <2>4, <3>4
    <3> QED
      BY <2>1, <2>4, <3>2, <3>3, <3>5 DEF OneCall
  <2> QED
    BY <1>4, <2>3, <2>4 DEF Enter
<1>5. ASSUME NEW t \in Tabs, Retry(t)
      PROVE  Locked'
  <2>1. UNCHANGED <<locks, incidents, raced, call, queue>>
    BY <1>5 DEF Retry, told
  <2>2. \A u \in Tabs : tab[u].at = "posting" => tab'[u] = tab[u]
    BY <1>5 DEF Retry, Again, TypeOK
  <2> QED
    BY <2>1, <2>2 DEF Locked, OneCall, Active, Working
<1>6. ASSUME NEW t \in Tabs, GiveUp(t)
      PROVE  Locked'
  <2>1. UNCHANGED <<locks, incidents, raced, call, queue>>
    BY <1>6 DEF GiveUp, told
  <2>2. \A u \in Tabs : tab[u].at = "posting" => tab'[u] = tab[u]
    BY <1>6 DEF GiveUp, Again, TypeOK
  <2> QED
    BY <2>1, <2>2 DEF Locked, OneCall, Active, Working
<1>7. ASSUME NEW t \in Tabs, CloseTab(t)
      PROVE  Locked'
  BY <1>7 DEF CloseTab, Incident, TypeOK, Locked
<1>8. ASSUME NEW c \in Calls, Find(c)
      PROVE  Locked'
  <2>1. UNCHANGED <<locks, incidents, raced, tab, queue>>
    BY <1>8 DEF Find, told
  <2>2. \A d \in Calls : call'[d].tab = call[d].tab /\ (Active(d)' => Active(d))
    BY <1>8 DEF Find, TypeOK, CallStates, Active, Working
  <2> QED
    BY <2>1, <2>2 DEF Locked, OneCall
<1>9. ASSUME NEW c \in Calls, Revoke(c)
      PROVE  Locked'
  <2>1. UNCHANGED <<locks, incidents, raced, tab, queue>>
    BY <1>9 DEF Revoke, told
  <2>2. \A d \in Calls : call'[d].tab = call[d].tab /\ (Active(d)' => Active(d))
    BY <1>9 DEF Revoke, TypeOK, CallStates, Active, Working
  <2> QED
    BY <2>1, <2>2 DEF Locked, OneCall
<1>10. ASSUME NEW c \in Calls, Issue(c)
      PROVE  Locked'
  <2>1. UNCHANGED <<locks, incidents, raced, tab, queue>>
    BY <1>10 DEF Issue, told
  <2>2. \A d \in Calls : call'[d].tab = call[d].tab /\ (Active(d)' => Active(d))
    BY <1>10 DEF Issue, TypeOK, CallStates, Active, Working
  <2> QED
    BY <2>1, <2>2 DEF Locked, OneCall
<1>11. ASSUME NEW c \in Calls, RevokeAtLogout(c)
      PROVE  Locked'
  <2>1. UNCHANGED <<locks, incidents, raced, tab, queue>>
    BY <1>11 DEF RevokeAtLogout, told
  <2>2. \A d \in Calls : call'[d] = call[d] \/ call'[d].at = "none"
    BY <1>11 DEF RevokeAtLogout, TypeOK, NoCall
  <2> QED
    BY <2>1, <2>2 DEF Locked, OneCall, Active, Working
<1>12. ASSUME NEW c \in Calls, Arrives(c)
      PROVE  Locked'
  <2> SUFFICES ASSUME locks, incidents = 0 PROVE ~raced' /\ OneCall'
    BY <1>12 DEF Arrives, Locked
  <2>1. ~raced /\ OneCall /\ Active(c) /\ UNCHANGED raced
    BY <1>12 DEF Arrives, Locked, Active, Working, told
  <2>2. \A d \in Calls : d # c => ~Active(d) /\ call'[d] = call[d]
    BY <1>12, <2>1 DEF Arrives, OneCall, TypeOK
  <2>3. call'[c].at = "none"
    BY <1>12 DEF Arrives, TypeOK, NoCall
  <2>4. \A d \in Calls : ~Active(d)'
    BY <2>2, <2>3 DEF Active, Working
  <2> QED
    BY <2>1, <2>4 DEF OneCall
<1>13. ASSUME NEW c \in Calls, Refused(c)
      PROVE  Locked'
  <2> SUFFICES ASSUME locks, incidents = 0 PROVE ~raced' /\ OneCall'
    BY <1>13 DEF Refused, Locked
  <2>1. ~raced /\ OneCall /\ Active(c) /\ UNCHANGED raced
    BY <1>13 DEF Refused, Locked, Active, Working, told
  <2>2. \A d \in Calls : d # c => ~Active(d) /\ call'[d] = call[d]
    BY <1>13, <2>1 DEF Refused, OneCall, TypeOK
  <2>3. call'[c].at = "none"
    BY <1>13 DEF Refused, TypeOK, NoCall
  <2>4. \A d \in Calls : ~Active(d)'
    BY <2>2, <2>3 DEF Active, Working
  <2> QED
    BY <2>1, <2>4 DEF OneCall
<1>14. ASSUME NEW c \in Calls, CallFails(c)
      PROVE  Locked'
  BY <1>14 DEF CallFails, Incident, TypeOK, Locked
<1>15. ASSUME NEW c \in Calls, ConnectionLost(c)
      PROVE  Locked'
  BY <1>15 DEF ConnectionLost, Incident, TypeOK, Locked
<1>16. CASE Logout
  <2>1. UNCHANGED <<locks, incidents, raced, tab, queue>>
    BY <1>16 DEF Logout
  <2>2. \A d \in Calls : call'[d] = call[d] \/ call'[d].at = "loggingOut"
    BY <1>16, StartsCall DEF Logout, TypeOK
  <2> QED
    BY <2>1, <2>2 DEF Locked, OneCall, Active, Working
<1>17. CASE Login
  BY <1>17, LockedSame DEF Login, Issues, server, told
<1>18. ASSUME NEW n \in Pairs, Expire(n)
      PROVE  Locked'
  BY <1>18, LockedSame DEF Expire, Issues, server, told
<1>19. ASSUME NEW n \in Pairs, EndSession(n)
      PROVE  Locked'
  BY <1>19 DEF EndSession, Incident, TypeOK, Locked
<1>20. CASE UNCHANGED vars
  BY <1>20, LockedSame DEF vars, server, told
<1> QED
  BY <1>1, <1>2, <1>3, <1>4, <1>5, <1>6, <1>7, <1>8, <1>9, <1>10, <1>11, <1>12, <1>13, <1>14, <1>15, <1>16, <1>17, <1>18, <1>19, <1>20 DEF Next, Answers, TabSteps, CallSteps

----------------------------------------------------------------------------
(* The theorems *)

\* The initial state satisfies the inductive invariant.
LEMMA IInvInit == Init => IInv
<1> SUFFICES ASSUME Init PROVE IInv
  OBVIOUS
<1> USE RefreshConstants
<1>1. raced \in BOOLEAN /\ crossed \in BOOLEAN
  BY Zenon DEF Init
<1>2. <<>> \in Seq(Tabs) /\ 1 \in Pairs /\ 1 \in 0 .. MaxPairs
  BY DEF Pairs
<1>3. TypeOK
  <2>1. /\ stored \in [token : 0 .. MaxPairs, refresh : 0 .. MaxPairs] /\ fresh \subseteq Pairs /\ live \subseteq Pairs
        /\ dropped \subseteq Pairs /\ issued \in 0 .. MaxPairs
    BY <1>2 DEF Init
  <2>2. /\ tab \in [Tabs -> TabStates] /\ call \in [Calls -> CallStates] /\ req \in [Requests -> RequestStates]
        /\ \A r \in Requests : req[r].at = "new" \/ req[r].tab # None
    BY NothingType DEF Init, NoRequest
  <2>3. /\ locks \in BOOLEAN /\ queue \in Seq(Tabs) /\ incidents \in 0 .. MaxIncidents
        /\ login \in Nat /\ pairOf \in [Pairs -> Nat] /\ spent \in [Pairs -> Nat]
    BY <1>2 DEF Init
  <2> QED
    BY <1>1, <2>1, <2>2, <2>3 DEF TypeOK
<1>4. Uses
  BY <1>2 DEF Init, Uses, Issued, Dying, Apart, Working, NoCall, Pairs
<1>5. Locked
  BY DEF Init, Locked, OneCall, Active, Working, NoCall
<1> QED
  BY <1>3, <1>4, <1>5 DEF IInv

\* The inductive invariant holds in every state.
LEMMA IInvAlways == Spec => []IInv
<1>1. IInv /\ [Next]_vars => IInv'
  BY TypeStep, UsesStep, LockedStep DEF IInv
<1> QED
  BY <1>1, IInvInit, PTL DEF Spec

\* The single use of refresh tokens: however many tabs, requests, failures, logins
\* and logouts cross, no refresh token is traded twice unless two calls had it at
\* once, and with Web Locks that takes a failure first.
THEOREM TradedOnce == Spec => []SingleUse
<1>1. IInv => SingleUse
  <2> SUFFICES ASSUME IInv PROVE SingleUse
    OBVIOUS
  <2>1. \A n \in Pairs : spent[n] > 1 => raced
    BY DEF IInv, TypeOK, Uses, Apart
  <2>2. raced /\ locks => incidents > 0
    BY DEF IInv, TypeOK, Locked
  <2> QED
    BY <2>1, <2>2 DEF IInv, SingleUse
<1> QED
  BY <1>1, IInvAlways, PTL

----------------------------------------------------------------------------
(* What the browser holds and what the server knows *)

\* Whatever is stored, carried or waited for was issued, and a pair is newer than
\* the one it was traded for.
Known ==
    /\ stored.token = stored.refresh
    /\ \A t \in Tabs : tab[t].before <= issued /\ tab[t].token <= issued
    /\ \A r \in Requests : req[r].token <= issued
    /\ \A c \in Calls : call[c].at = "loggingOut" => call[c].refresh \in 1 .. issued
    /\ \A c \in Calls : call[c].at = "answering" => call[c].refresh < call[c].pair
    /\ login >= 1 /\ (crossed => login > 1)

\* What is stored and what is traded for it is of the session chosen last.
OneSession ==
    /\ stored.refresh # 0 => pairOf[stored.refresh] = login
    /\ \A c \in Calls : Working(c) => pairOf[call[c].refresh] = login
    /\ \A c \in Calls : call[c].at = "answering" => pairOf[call[c].pair] = login

\* One refresh at a time trades the token that is stored, unless it was let go
\* meanwhile. The server finds it, and no call is refused.
Trading ==
    /\ \A c, d \in Calls : Working(c) /\ Working(d) => c = d
    /\ \A c \in Calls : Working(c) => call[c].tab # None /\ stored.refresh \in {0, call[c].refresh}
    /\ \A c \in Calls : call[c].at # "refusing"
    /\ \A c \in Calls : call[c].at \in {"finding", "revoking"} => call[c].refresh \in live
    /\ \A c \in Calls : call[c].at = "answering" => call[c].refresh \notin live /\ call[c].pair \in live

\* The tokens that live are the one that is stored, or is about to be, those that
\* were let go, and those a logout is about to revoke.
Accounted ==
    /\ \/ stored.refresh \in live \cup {0}
       \/ \E c \in Calls : call[c].at \in {"issuing", "answering"}
    /\ \A n \in live :
          \/ n = stored.refresh \/ n \in dropped
          \/ \E c \in Calls : call[c].at = "answering" /\ call[c].pair = n
          \/ \E c \in Calls : call[c].at = "loggingOut" /\ call[c].refresh = n
    /\ \A c \in Calls : call[c].at = "loggingOut" =>
          /\ call[c].refresh # stored.refresh
          /\ \A d \in Calls : Working(d) => call[c].refresh # call[d].refresh
          /\ \A d \in Calls : call[d].at = "answering" => call[c].refresh # call[d].pair

\* A tab that gives up finds the pair of another, or nothing is stored; a new pair
\* is new to every tab.
Rescues ==
    /\ \A t \in Tabs : tab[t].at = "failed" => stored.refresh = 0 \/ stored.refresh # tab[t].before
    /\ \A c \in Calls, t \in Tabs : call[c].at = "answering" => tab[t].before < call[c].pair

Orderly == Trading /\ Accounted /\ Rescues

\* A /auth/me was refused twice.
MeRefused == \E r \in Requests : req[r].at = "signedOut"

\* The first session goes on, until a /auth/me is refused twice: before that no
\* tab gives up, and a request that is sent again has a token of a refresh.
Forward ==
    /\ stored.refresh # 0 \/ MeRefused
    /\ \A t \in Tabs :
          /\ tab[t].at = "failed" => MeRefused
          /\ tab[t].at = "refreshed" => tab[t].token >= 2
          /\ stored.refresh = 1 => /\ tab[t].at \notin {"failed", "refreshed"}
                                   /\ tab[t].at = "queued" => tab[t].before = 1
    /\ \A r \in Requests : req[r].at = "sent" /\ req[r].retried => req[r].token >= 2
    /\ (\E r \in Requests : req[r].at \in {"rejected", "signedOut"}) => \E n \in 2 .. issued : n \notin fresh

\* Nothing failed and no two calls had one token at once.
Smooth == incidents = 0 /\ ~raced

Sessions ==
    /\ Known
    /\ ~crossed => OneSession
    /\ Smooth /\ ~crossed => Orderly
    /\ Smooth /\ login = 1 => Forward

\* A pair that is issued is new, and the pairs before it keep their session.
LEMMA IssuesPair ==
    ASSUME TypeOK, NEW session, Issues(session)
    PROVE  /\ issued \in 0 .. MaxPairs /\ issued' = issued + 1 /\ issued + 1 \in Pairs
           /\ live' = live \cup {issued + 1} /\ fresh' = fresh \cup {issued + 1}
           /\ pairOf'[issued + 1] = session
           /\ \A n \in 1 .. issued : pairOf'[n] = pairOf[n]
  BY RefreshConstants DEF Issues, TypeOK, Pairs

\* What went wrong stays so.
Onward == (Smooth' => Smooth /\ incidents' = incidents) /\ (crossed => crossed')

\* No step makes the course smooth again.
LEMMA GoesOnward == TypeOK /\ [Next]_vars => Onward
<1> SUFFICES ASSUME TypeOK, [Next]_vars PROVE Onward
  OBVIOUS
<1>1. ASSUME UNCHANGED <<raced, crossed>>, UNCHANGED incidents \/ Incident
      PROVE  Onward
  BY <1>1, RefreshConstants DEF Incident, Smooth, Onward, TypeOK
<1>2. ASSUME NEW r \in Requests, Answers(r) \/ \E t \in Tabs : Send(r, t)
      PROVE  Onward
  BY <1>1, <1>2 DEF Answers, Accepted, Unauthorized, Send, told
<1>3. ASSUME NEW t \in Tabs, TabSteps(t) \/ CloseTab(t)
      PROVE  Onward
  <2>1. CASE Enter(t)
    <3>1. UNCHANGED <<incidents, crossed>>
      BY <2>1 DEF Enter
    <3>2. UNCHANGED raced \/ raced' = (raced \/ \E c \in Refreshing : call[c].refresh = stored.refresh)
      BY <2>1 DEF Enter
    <3>3. raced => raced'
      BY Zenon, <3>2
    <3> QED
      BY <3>1, <3>3 DEF Onward, Smooth
  <2> QED
    BY <1>1, <1>3, <2>1 DEF TabSteps, Retry, GiveUp, CloseTab, told
<1>4. ASSUME NEW c \in Calls, CallSteps(c) \/ CallFails(c) \/ ConnectionLost(c)
      PROVE  Onward
  BY <1>1, <1>4 DEF CallSteps, Find, Revoke, Issue, RevokeAtLogout, Arrives, Refused, CallFails, ConnectionLost, told
<1>5. CASE Logout \/ Login
  <2>1. UNCHANGED <<incidents, raced>> /\ (crossed => crossed')
    BY Zenon, <1>5 DEF Logout, Login
  <2> QED
    BY <2>1 DEF Onward, Smooth
<1>6. ASSUME NEW n \in Pairs, Expire(n) \/ EndSession(n)
      PROVE  Onward
  BY <1>1, <1>6 DEF Expire, EndSession, told
<1>7. CASE UNCHANGED vars
  BY <1>1, <1>7 DEF vars, told
<1> QED
  BY <1>2, <1>3, <1>4, <1>5, <1>6, <1>7 DEF Next

\* What a step makes of a tab: it leaves it, forgets what it held, or begins,
\* ends or fails its refresh.
TabGoes(t) ==
    \/ tab'[t] \in {tab[t], NoTab}
    \/ tab'[t] = [at |-> "queued", before |-> stored.refresh, token |-> 0]
    \/ tab'[t] = [tab[t] EXCEPT !.at = "posting"]
    \/ /\ tab'[t] = [tab[t] EXCEPT !.at = "failed"]
       /\ \/ stored.refresh = 0 /\ UNCHANGED stored
          \/ ~UNCHANGED incidents
          \/ \E c \in Calls : call[c].at = "refusing"
    \/ /\ tab'[t] = [tab[t] EXCEPT !.at = "refreshed", !.token = stored'.token]
       /\ \/ tab[t].at = "queued" /\ stored.refresh \notin {0, tab[t].before} /\ UNCHANGED stored
          \/ \E c \in Calls : call[c].at = "answering" /\ stored'.refresh = call[c].pair

\* Whatever a step does to the tabs, it does one of these things to each.
LEMMA TabsGo == TypeOK /\ [Next]_vars => \A t \in Tabs : TabGoes(t)
<1> SUFFICES ASSUME TypeOK, [Next]_vars PROVE \A t \in Tabs : TabGoes(t)
  OBVIOUS
<1>1. ASSUME UNCHANGED tab
      PROVE  \A t \in Tabs : TabGoes(t)
  BY <1>1 DEF TabGoes
<1>2. ASSUME NEW u \in Tabs, NEW new, tab' = [tab EXCEPT ![u] = new], tab'[u] = new => TabGoes(u)
      PROVE  \A t \in Tabs : TabGoes(t)
  <2>1. tab'[u] = new /\ \A t \in Tabs : t # u => tab'[t] = tab[t]
    BY <1>2 DEF TypeOK
  <2>2. \A t \in Tabs : t # u => TabGoes(t)
    BY <2>1 DEF TabGoes
  <2> QED
    BY <1>2, <2>1, <2>2
<1>3. ASSUME NEW r \in Requests, Unauthorized(r)
      PROVE  \A t \in Tabs : TabGoes(t)
  <2>1. PICK t \in Tabs : t = req[r].tab
    BY <1>3 DEF Unauthorized, TypeOK, RequestStates
  <2>2. \/ UNCHANGED tab
        \/ tab' = [tab EXCEPT ![t] = [at |-> "queued", before |-> stored.refresh, token |-> 0]]
    BY <1>3, <2>1 DEF Unauthorized
  <2>3. tab'[t] = [at |-> "queued", before |-> stored.refresh, token |-> 0] => TabGoes(t)
    BY DEF TabGoes
  <2> QED
    BY <1>1, <1>2, <2>2, <2>3
<1>4. ASSUME NEW t \in Tabs, Enter(t)
      PROVE  \A u \in Tabs : TabGoes(u)
  <2>1. CASE stored.refresh \notin {0, tab[t].before}
    <3> DEFINE new == [tab[t] EXCEPT !.at = "refreshed", !.token = stored'.token]
    <3>1. tab[t].at = "queued" /\ UNCHANGED stored /\ tab' = [tab EXCEPT ![t].at = "refreshed", ![t].token = stored.token]
      BY <1>4, <2>1 DEF Enter, MayEnter
    <3>2. tab' = [tab EXCEPT ![t] = new]
      BY <3>1 DEF TypeOK
    <3>3. tab'[t] = new => TabGoes(t)
      BY <2>1, <3>1 DEF TabGoes
    <3> QED
      BY <1>2, <3>2, <3>3
  <2>2. CASE stored.refresh = 0
    <3> DEFINE new == [tab[t] EXCEPT !.at = "failed"]
    <3>1. UNCHANGED stored /\ tab' = [tab EXCEPT ![t] = new]
      BY <1>4, <2>2 DEF Enter
    <3>2. tab'[t] = new => TabGoes(t)
      BY <2>2, <3>1 DEF TabGoes
    <3> QED
      BY <1>2, <3>1, <3>2
  <2>3. CASE stored.refresh = tab[t].before /\ stored.refresh # 0
    <3> DEFINE new == [tab[t] EXCEPT !.at = "posting"]
    <3>1. tab' = [tab EXCEPT ![t] = new]
      BY <1>4, <2>3 DEF Enter
    <3>2. tab'[t] = new => TabGoes(t)
      BY DEF TabGoes
    <3> QED
      BY <1>2, <3>1, <3>2
  <2> QED
    BY <2>1, <2>2, <2>3
<1>5. ASSUME NEW t \in Tabs, Retry(t) \/ GiveUp(t) \/ CloseTab(t)
      PROVE  \A u \in Tabs : TabGoes(u)
  <2>1. tab' = [tab EXCEPT ![t] = NoTab]
    BY <1>5 DEF Retry, GiveUp, Again, CloseTab
  <2>2. tab'[t] = NoTab => TabGoes(t)
    BY DEF TabGoes
  <2> QED
    BY <1>2, <2>1, <2>2
<1>6. ASSUME NEW c \in Calls, Arrives(c)
      PROVE  \A t \in Tabs : TabGoes(t)
  <2>1. CASE call[c].tab = None
    BY <1>1, <1>6, <2>1 DEF Arrives
  <2>2. CASE call[c].tab # None
    <3>1. PICK t \in Tabs : t = call[c].tab
      BY <2>2 DEF TypeOK, CallStates
    <3> DEFINE new == [tab[t] EXCEPT !.at = "refreshed", !.token = stored'.token]
    <3>2. /\ call[c].at = "answering"
          /\ tab' = [tab EXCEPT ![t].at = "refreshed", ![t].token = call[c].pair]
          /\ stored' = [token |-> call[c].pair, refresh |-> call[c].pair]
      BY <1>6, <2>2, <3>1 DEF Arrives
    <3>3. tab' = [tab EXCEPT ![t] = new]
      BY <3>2 DEF TypeOK
    <3>4. tab'[t] = new => TabGoes(t)
      BY <3>2 DEF TabGoes
    <3> QED
      BY <1>2, <3>3, <3>4
  <2> QED
    BY <2>1, <2>2
<1>7. ASSUME NEW c \in Calls, Refused(c) \/ ConnectionLost(c)
      PROVE  \A t \in Tabs : TabGoes(t)
  <2>1. CASE UNCHANGED tab
    BY <1>1, <2>1
  <2>2. CASE ~UNCHANGED tab
    <3>1. PICK t \in Tabs : t = call[c].tab
      BY <1>7, <2>2 DEF Refused, ConnectionLost, TypeOK, CallStates
    <3> DEFINE new == [tab[t] EXCEPT !.at = "failed"]
    <3>2. tab' = [tab EXCEPT ![t] = new]
      BY <1>7, <2>2, <3>1 DEF Refused, ConnectionLost
    <3>3. call[c].at = "refusing" \/ ~UNCHANGED incidents
      BY <1>7, RefreshConstants DEF Refused, ConnectionLost, Incident, TypeOK
    <3>4. tab'[t] = new => TabGoes(t)
      BY <3>3 DEF TabGoes
    <3> QED
      BY <1>2, <3>2, <3>4
  <2> QED
    BY <2>1, <2>2
<1>8. ASSUME NEW c \in Calls, Find(c) \/ Revoke(c) \/ Issue(c) \/ RevokeAtLogout(c) \/ CallFails(c)
      PROVE  \A t \in Tabs : TabGoes(t)
  BY <1>1, <1>8 DEF Find, Revoke, Issue, RevokeAtLogout, CallFails
<1>9. CASE \/ \E r \in Requests : Accepted(r) \/ \E t \in Tabs : Send(r, t)
           \/ Logout \/ Login \/ (\E n \in Pairs : Expire(n) \/ EndSession(n)) \/ UNCHANGED vars
  BY <1>1, <1>9 DEF Accepted, Send, Logout, Login, Expire, EndSession, vars
<1> QED
  BY <1>3, <1>4, <1>5, <1>6, <1>7, <1>8, <1>9 DEF Next, Answers, TabSteps, CallSteps

\* What a tab holds is what it held, nothing, or what is stored.
LEMMA TabsHold ==
    ASSUME TypeOK, [Next]_vars, NEW t \in Tabs
    PROVE  /\ tab'[t].before \in {tab[t].before, 0, stored.refresh}
           /\ tab'[t].token \in {tab[t].token, 0, stored'.token}
<1>1. TabGoes(t) /\ tab[t] \in TabStates
  BY TabsGo DEF TypeOK
<1>2. CASE tab'[t] = [tab[t] EXCEPT !.at = "posting"] \/ tab'[t] = [tab[t] EXCEPT !.at = "failed"]
  BY <1>1, <1>2 DEF TabStates
<1>3. CASE tab'[t] = [tab[t] EXCEPT !.at = "refreshed", !.token = stored'.token]
  BY <1>1, <1>3 DEF TabStates
<1> QED
  BY <1>1, <1>2, <1>3 DEF TabGoes, NoTab

\* What a step makes of a request that has no answer yet.
RequestGoes(r) ==
    \/ req'[r] = req[r]
    \/ req[r] = NoRequest /\ req'[r].token = stored.token /\ ~req'[r].retried /\ req'[r].at = "sent"
    \/ /\ req'[r].token = req[r].token /\ req'[r].at \in {"answered", "gone"}
    \/ /\ req'[r].token = req[r].token /\ req'[r].at = "refreshing"
    \/ /\ req'[r].token = req[r].token /\ req'[r].at \in {"rejected", "signedOut"}
       /\ \/ req[r].at = "sent" /\ req[r].retried /\ req[r].token \notin fresh
          \/ \E t \in Tabs : tab[t].at = "failed" /\ ~Rescued(t)
    \/ /\ req'[r].at = "sent"
       /\ \E t \in Tabs :
             /\ tab[t].at = "refreshed" \/ (tab[t].at = "failed" /\ Rescued(t))
             /\ req'[r].token = IF stored.token # 0 THEN stored.token ELSE tab[t].token

\* Whatever a step does to the requests, it does one of these things to each.
LEMMA RequestsGo == TypeOK /\ [Next]_vars => \A r \in Requests : RequestGoes(r)
<1> SUFFICES ASSUME TypeOK, [Next]_vars PROVE \A r \in Requests : RequestGoes(r)
  OBVIOUS
<1>1. ASSUME UNCHANGED req
      PROVE  \A r \in Requests : RequestGoes(r)
  BY <1>1 DEF RequestGoes
<1>2. ASSUME NEW r \in Requests, NEW t \in Tabs, Send(r, t)
      PROVE  \A x \in Requests : RequestGoes(x)
  BY <1>2 DEF Send, Unsent, NoRequest, RequestGoes, TypeOK
<1>3. ASSUME NEW r \in Requests, Accepted(r)
      PROVE  \A x \in Requests : RequestGoes(x)
  BY <1>3 DEF Accepted, RequestGoes, TypeOK, RequestStates
<1>4. ASSUME NEW r \in Requests, Unauthorized(r)
      PROVE  \A x \in Requests : RequestGoes(x)
  <2>1. /\ req[r].at = "sent" /\ req[r].token \notin fresh
        /\ \/ req[r].retried /\ req' = [req EXCEPT ![r].at = "rejected"]
           \/ req[r].retried /\ req' = [req EXCEPT ![r].at = "signedOut"]
           \/ req' = [req EXCEPT ![r].at = "refreshing", ![r].retried = TRUE]
    BY <1>4 DEF Unauthorized
  <2> QED
    BY <2>1 DEF RequestGoes, TypeOK, RequestStates
<1>5. ASSUME NEW t \in Tabs, Retry(t)
      PROVE  \A x \in Requests : RequestGoes(x)
  <2> SUFFICES ASSUME NEW x \in Requests PROVE RequestGoes(x)
    OBVIOUS
  <2>1. CASE x \notin Waiting(t)
    BY <1>5, <2>1 DEF Retry, Again, RequestGoes
  <2>2. CASE x \in Waiting(t)
    <3>1. /\ tab[t].at = "refreshed"
          /\ req'[x] = [req[x] EXCEPT !.at = "sent", !.token = IF stored.token # 0 THEN stored.token ELSE tab[t].token]
      BY <1>5, <2>2 DEF Retry, Again
    <3>2. /\ req'[x].at = "sent"
          /\ req'[x].token = IF stored.token # 0 THEN stored.token ELSE tab[t].token
      BY <3>1 DEF TypeOK, RequestStates
    <3> QED
      BY Zenon, <3>1, <3>2 DEF RequestGoes
  <2> QED
    BY <2>1, <2>2
<1>6. ASSUME NEW t \in Tabs, GiveUp(t)
      PROVE  \A x \in Requests : RequestGoes(x)
  <2> SUFFICES ASSUME NEW x \in Requests PROVE RequestGoes(x)
    OBVIOUS
  <2>1. CASE Rescued(t)
    <3>1. CASE x \notin Waiting(t)
      BY <1>6, <2>1, <3>1 DEF GiveUp, Again, RequestGoes
    <3>2. CASE x \in Waiting(t)
      <4>1. /\ tab[t].at = "failed" /\ stored.token # 0
            /\ req'[x] = [req[x] EXCEPT !.at = "sent", !.token = stored.token]
        BY <1>6, <2>1, <3>2 DEF GiveUp, Again, Rescued
      <4>2. req'[x].at = "sent" /\ req'[x].token = stored.token
        BY <4>1 DEF TypeOK, RequestStates
      <4> QED
        BY <2>1, <4>1, <4>2 DEF RequestGoes
    <3> QED
      BY <3>1, <3>2
  <2>2. CASE ~Rescued(t)
    <3>1. /\ tab[t].at = "failed"
          /\ req'[x] \in {[req[x] EXCEPT !.at = "rejected"], [req[x] EXCEPT !.at = "gone"], req[x]}
      BY <1>6, <2>2 DEF GiveUp
    <3> QED
      BY <2>2, <3>1 DEF RequestGoes, TypeOK, RequestStates
  <2> QED
    BY <2>1, <2>2
<1>7. ASSUME NEW t \in Tabs, CloseTab(t)
      PROVE  \A x \in Requests : RequestGoes(x)
  BY <1>7 DEF CloseTab, Leaves, RequestGoes, TypeOK, RequestStates
<1>8. CASE \/ \E t \in Tabs : Enter(t)
           \/ \E c \in Calls : CallSteps(c) \/ CallFails(c) \/ ConnectionLost(c)
           \/ Logout \/ Login \/ (\E n \in Pairs : Expire(n) \/ EndSession(n)) \/ UNCHANGED vars
  <2>1. UNCHANGED req
    BY <1>8 DEF Enter, CallSteps, Find, Revoke, Issue, RevokeAtLogout, Arrives, Refused, CallFails, ConnectionLost,
          Logout, Login, Expire, EndSession, vars
  <2> QED
    BY <1>1, <2>1
<1> QED
  BY <1>2, <1>3, <1>4, <1>5, <1>6, <1>7, <1>8 DEF Next, Answers, TabSteps

\* A request that was refused stays so.
LEMMA RefusedStays ==
    ASSUME TypeOK, [Next]_vars, NEW r \in Requests, req[r].at \in {"rejected", "signedOut"}
    PROVE  req'[r] = req[r]
<1>1. ASSUME NEW x \in Requests, Answers(x) \/ \E t \in Tabs : Send(x, t)
      PROVE  req'[r] = req[r]
  <2>1. /\ req[x].at \in {"new", "sent"}
        /\ \E new : req' = [req EXCEPT ![x] = new]
    <3>1. CASE Accepted(x)
      BY <3>1 DEF Accepted
    <3>2. CASE Unauthorized(x)
      BY <3>2 DEF Unauthorized
    <3>3. CASE \E t \in Tabs : Send(x, t)
      <4>1. PICK t \in Tabs : Send(x, t)
        BY <3>3
      <4>2. /\ x \in Unsent
            /\ req' = [req EXCEPT ![x] = [NoRequest EXCEPT !.at = "sent", !.tab = t, !.token = stored.token]]
        BY <4>1 DEF Send
      <4>3. req[x].at = "new"
        BY <4>2 DEF Unsent, NoRequest
      <4> QED
        BY <4>2, <4>3
    <3> QED
      BY <1>1, <3>1, <3>2, <3>3 DEF Answers
  <2> QED
    BY <2>1 DEF TypeOK
<1>2. ASSUME NEW t \in Tabs, TabSteps(t) \/ CloseTab(t)
      PROVE  req'[r] = req[r]
  <2>1. r \notin Waiting(t) /\ r \notin Pending(t)
    BY DEF Waiting, Pending
  <2> QED
    BY <1>2, <2>1 DEF TabSteps, Enter, Retry, GiveUp, Again, CloseTab, Leaves
<1>3. CASE \/ \E c \in Calls : CallSteps(c) \/ CallFails(c) \/ ConnectionLost(c)
           \/ Logout \/ Login \/ (\E n \in Pairs : Expire(n) \/ EndSession(n)) \/ UNCHANGED vars
  BY <1>3 DEF CallSteps, Find, Revoke, Issue, RevokeAtLogout, Arrives, Refused, CallFails, ConnectionLost,
        Logout, Login, Expire, EndSession, vars
<1> QED
  BY <1>1, <1>2, <1>3 DEF Next

\* What a step makes of a call: it starts, moves on, fails or ends.
CallGoes(c) ==
    \/ call'[c] \in {call[c], NoCall}
    \/ /\ call[c].at = "none" /\ stored.refresh # 0 /\ call'[c].refresh = stored.refresh
       /\ \/ call'[c].at = "loggingOut"
          \/ call'[c].at = "finding" /\ call'[c].tab # None
    \/ /\ call'[c].refresh = call[c].refresh /\ call'[c].tab = call[c].tab
       /\ \/ call[c].at = "finding" /\ call'[c].at = "revoking" /\ call[c].refresh \in live
          \/ call[c].at = "finding" /\ call'[c].at = "refusing" /\ call[c].refresh \notin live
          \/ call[c].at = "revoking" /\ call'[c].at = "issuing"
    \/ /\ call'[c].refresh = call[c].refresh /\ call'[c].tab = call[c].tab
       /\ call[c].at = "issuing" /\ call'[c].at = "answering" /\ call'[c].pair = issued'
       /\ issued' = issued + 1 /\ pairOf'[issued'] = pairOf[call[c].refresh]
    \/ /\ ~UNCHANGED incidents
       /\ call'[c].refresh = call[c].refresh /\ call'[c].pair = call[c].pair
       /\ call'[c].at \in {call[c].at, "refusing"}

\* Whatever a step does to the calls, it does one of these things to each.
LEMMA CallsGo == TypeOK /\ Known /\ [Next]_vars => \A c \in Calls : CallGoes(c)
<1> SUFFICES ASSUME TypeOK, Known, [Next]_vars PROVE \A c \in Calls : CallGoes(c)
  OBVIOUS
<1>1. ASSUME UNCHANGED call
      PROVE  \A c \in Calls : CallGoes(c)
  BY <1>1 DEF CallGoes
<1>2. ASSUME NEW at, NEW t, Starts(at, t, stored.refresh), stored.refresh # 0,
             at = "loggingOut" \/ (at = "finding" /\ t # None)
      PROVE  \A c \in Calls : CallGoes(c)
  <2>1. PICK c \in Calls :
          /\ call[c].at = "none"
          /\ call' = [call EXCEPT ![c] = [at |-> at, tab |-> t, refresh |-> stored.refresh, pair |-> 0]]
    BY <1>2, StartsCall
  <2> QED
    BY <1>2, <2>1 DEF CallGoes, TypeOK
<1>3. ASSUME NEW t \in Tabs, Enter(t)
      PROVE  \A c \in Calls : CallGoes(c)
  BY <1>1, <1>2, <1>3, RefreshConstants DEF Enter
<1>4. CASE Logout
  <2>1. Starts("loggingOut", None, stored.refresh) /\ stored.refresh # 0
    BY <1>4 DEF Logout, Known
  <2> QED
    BY <1>2, <2>1
<1>5. ASSUME NEW c \in Calls, CallSteps(c)
      PROVE  \A d \in Calls : CallGoes(d)
  <2>1. CASE Find(c)
    BY <2>1 DEF Find, CallGoes, TypeOK, CallStates
  <2>2. CASE Revoke(c)
    BY <2>2 DEF Revoke, CallGoes, TypeOK, CallStates
  <2>3. CASE Issue(c)
    <3>1. issued' = issued + 1 /\ pairOf'[issued'] = pairOf[call[c].refresh]
      BY <2>3, IssuesPair DEF Issue
    <3>2. call[c].at = "issuing" /\ call' = [call EXCEPT ![c].at = "answering", ![c].pair = issued']
      BY <2>3 DEF Issue
    <3> QED
      BY <3>1, <3>2 DEF CallGoes, TypeOK, CallStates
  <2>4. CASE RevokeAtLogout(c) \/ Arrives(c) \/ Refused(c)
    BY <2>4 DEF RevokeAtLogout, Arrives, Refused, CallGoes, TypeOK
  <2> QED
    BY <1>5, <2>1, <2>2, <2>3, <2>4 DEF CallSteps
<1>6. ASSUME NEW c \in Calls, CallFails(c) \/ ConnectionLost(c)
      PROVE  \A d \in Calls : CallGoes(d)
  <2>1. ~UNCHANGED incidents
    BY <1>6, RefreshConstants DEF CallFails, ConnectionLost, Incident, TypeOK
  <2> QED
    BY <1>6, <2>1 DEF CallFails, ConnectionLost, CallGoes, TypeOK, CallStates
<1>7. ASSUME NEW t \in Tabs, CloseTab(t)
      PROVE  \A c \in Calls : CallGoes(c)
  <2>1. ~UNCHANGED incidents
    BY <1>7, RefreshConstants DEF CloseTab, Incident, TypeOK
  <2> QED
    BY <1>7, <2>1 DEF CloseTab, CallGoes, TypeOK, CallStates
<1>8. CASE \/ \E r \in Requests : Answers(r) \/ \E t \in Tabs : Send(r, t)
           \/ \E t \in Tabs : Retry(t) \/ GiveUp(t)
           \/ Login \/ (\E n \in Pairs : Expire(n) \/ EndSession(n)) \/ UNCHANGED vars
  BY <1>1, <1>8 DEF Answers, Accepted, Unauthorized, Send, Retry, GiveUp, Login, Expire, EndSession, vars
<1> QED
  BY <1>3, <1>4, <1>5, <1>6, <1>7, <1>8 DEF Next, TabSteps

\* No step takes back a token that was let go.
LEMMA DroppedGrows == [Next]_vars => dropped \subseteq dropped'
  BY DEF Next, Answers, TabSteps, CallSteps, Send, Accepted, Unauthorized, Enter, Retry, GiveUp, CloseTab, Find,
        Revoke, Issue, RevokeAtLogout, Arrives, Refused, CallFails, ConnectionLost, Logout, Login, Expire, EndSession,
        vars, told, Drops

----------------------------------------------------------------------------
(* Every step keeps what is known *)

\* The sessions are counted, and nothing is crossed but by a new one.
LEMMA LoginGoes == [Next]_vars => UNCHANGED <<login, crossed>> \/ login' = login + 1
  BY DEF Next, Answers, TabSteps, CallSteps, Send, Accepted, Unauthorized, Enter, Retry, GiveUp, CloseTab, Find,
        Revoke, Issue, RevokeAtLogout, Arrives, Refused, CallFails, ConnectionLost, Logout, Login, Expire, EndSession,
        vars, told

\* What is known of tabs, requests and calls is kept.
LEMMA KnownStep == IInv /\ IInv' /\ Known /\ [Next]_vars => Known'
<1> SUFFICES ASSUME IInv, IInv', Known, [Next]_vars PROVE Known'
  OBVIOUS
<1> USE RefreshConstants
<1>0. TypeOK /\ TypeOK' /\ Issued /\ Issued'
  BY DEF IInv, Uses
<1>1. issued' \in Nat /\ issued <= issued'
  <2>1. issued' = issued \/ issued' = issued + 1
    BY DEF Next, Answers, TabSteps, CallSteps, Send, Accepted, Unauthorized, Enter, Retry, GiveUp, CloseTab, Find, Revoke,
          Issue, RevokeAtLogout, Arrives, Refused, CallFails, ConnectionLost, Logout, Login, Expire, EndSession,
          Issues, vars, server
  <2> QED
    BY <1>0, <2>1 DEF TypeOK
<1>2. stored'.token = stored'.refresh
  <2>1. UNCHANGED stored \/ stored' = NoTokens \/ \E n \in 0 .. MaxPairs : stored' = [token |-> n, refresh |-> n]
    <3>1. CASE Login
      BY <1>0, <3>1 DEF Login, TypeOK
    <3>2. ASSUME NEW c \in Calls, Arrives(c) PROVE UNCHANGED stored \/ \E n \in 0 .. MaxPairs : stored' = [token |-> n, refresh |-> n]
      BY <1>0, <3>2 DEF Arrives, TypeOK, CallStates
    <3> QED
      BY <3>1, <3>2 DEF Next, Answers, TabSteps, CallSteps, Send, Accepted, Unauthorized, Enter, Retry, GiveUp, CloseTab,
            Find, Revoke, Issue, RevokeAtLogout, Refused, CallFails, ConnectionLost, Logout, Expire, EndSession, vars
  <2> QED
    BY <2>1 DEF Known, NoTokens
<1>3. login' >= 1 /\ (crossed' => login' > 1)
  BY <1>0, LoginGoes DEF Known, TypeOK
<1>4. \A t \in Tabs : tab'[t].before <= issued' /\ tab'[t].token <= issued'
  <2> SUFFICES ASSUME NEW t \in Tabs
               PROVE  tab'[t].before <= issued' /\ tab'[t].token <= issued'
    OBVIOUS
  <2>1. /\ tab'[t].before \in {tab[t].before, 0, stored.refresh}
        /\ tab'[t].token \in {tab[t].token, 0, stored'.token}
    BY <1>0, TabsHold
  <2> QED
    BY <1>0, <1>1, <1>2, <2>1 DEF Known, Issued, TypeOK, TabStates
<1>5. \A r \in Requests : req'[r].token <= issued'
  <2> SUFFICES ASSUME NEW r \in Requests
               PROVE  req'[r].token <= issued'
    OBVIOUS
  <2>1. req'[r].token \in {req[r].token, stored.token} \/ \E t \in Tabs : req'[r].token = tab[t].token
    BY <1>0, RequestsGo DEF RequestGoes
  <2> QED
    BY <1>0, <1>1, <2>1 DEF Known, Issued, TypeOK, TabStates, RequestStates
<1>6. \A c \in Calls : call'[c].at = "loggingOut" => call'[c].refresh \in 1 .. issued'
  <2> SUFFICES ASSUME NEW c \in Calls, call'[c].at = "loggingOut"
               PROVE  call'[c].refresh \in 1 .. issued'
    OBVIOUS
  <2>1. CallGoes(c) /\ call[c] \in CallStates
    BY <1>0, CallsGo DEF TypeOK
  <2>2. (call[c].at = "loggingOut" /\ call'[c].refresh = call[c].refresh) \/ (stored.refresh # 0 /\ call'[c].refresh = stored.refresh)
    BY <2>1 DEF CallGoes, NoCall
  <2> QED
    BY <1>0, <1>1, <2>2 DEF Known, Issued, TypeOK, CallStates
<1>7. \A c \in Calls : call'[c].at = "answering" => call'[c].refresh < call'[c].pair
  <2> SUFFICES ASSUME NEW c \in Calls, call'[c].at = "answering"
               PROVE  call'[c].refresh < call'[c].pair
    OBVIOUS
  <2>1. CallGoes(c) /\ call[c] \in CallStates
    BY <1>0, CallsGo DEF TypeOK
  <2>2. \/ call[c].at = "answering" /\ call'[c].refresh = call[c].refresh /\ call'[c].pair = call[c].pair
        \/ /\ call[c].at = "issuing" /\ issued' = issued + 1
           /\ call'[c].refresh = call[c].refresh /\ call'[c].pair = issued + 1
    BY <2>1 DEF CallGoes, NoCall
  <2> QED
    BY <1>0, <2>2 DEF Known, Issued, Working, TypeOK, CallStates
<1> QED
  BY <1>2, <1>3, <1>4, <1>5, <1>6, <1>7 DEF Known

----------------------------------------------------------------------------
(* Every step that does not cross a refresh keeps to one session *)

\* The session is kept.
LEMMA OneSessionStep ==
    ASSUME IInv, IInv', Known, OneSession, [Next]_vars, ~crossed'
    PROVE  OneSession'
<1> USE RefreshConstants
<1>0. TypeOK /\ TypeOK' /\ Issued /\ Issued' /\ issued \in Nat
  BY DEF IInv, Uses, TypeOK
<1>1. ASSUME NEW c \in Calls, Working(c)
      PROVE  call[c].refresh \in 1 .. issued /\ call[c].pair <= issued
  BY <1>0, <1>1 DEF Issued
<1>2. CASE Logout
  <2>1. Refreshing = {} /\ stored' = NoTokens
    BY <1>2 DEF Logout, Underway
  <2>2. \A c \in Calls : call'[c] = call[c] \/ call'[c].at = "loggingOut"
    BY <1>0, <1>2, StartsCall DEF Logout, TypeOK
  <2>3. \A c \in Calls : ~Working(c)'
    BY <2>1, <2>2 DEF Refreshing, Working
  <2> QED
    BY <2>1, <2>3 DEF OneSession, Working, NoTokens
<1>3. CASE Login
  <2>1. Refreshing = {} /\ UNCHANGED call
    BY <1>3 DEF Login, Underway
  <2>2. \A c \in Calls : ~Working(c)'
    BY <2>1 DEF Refreshing, Working
  <2>3. stored'.refresh = issued + 1 /\ pairOf'[issued + 1] = login'
    BY <1>0, <1>3, IssuesPair DEF Login
  <2> QED
    BY <2>2, <2>3 DEF OneSession, Working
<1>4. CASE ~Logout /\ ~Login
  <2>1. UNCHANGED <<login, crossed>>
    BY <1>4 DEF Next, Answers, TabSteps, CallSteps, Send, Accepted, Unauthorized, Enter, Retry, GiveUp, CloseTab, Find,
          Revoke, Issue, RevokeAtLogout, Arrives, Refused, CallFails, ConnectionLost, Expire, EndSession, vars, told
  <2>2. \A n \in 1 .. issued : pairOf'[n] = pairOf[n]
    <3>1. ASSUME NEW c \in Calls, Issue(c)
          PROVE  \A n \in 1 .. issued : pairOf'[n] = pairOf[n]
      BY <1>0, <3>1, IssuesPair DEF Issue
    <3> QED
      BY <1>4, <3>1 DEF Next, Answers, TabSteps, CallSteps, Send, Accepted, Unauthorized, Enter, Retry, GiveUp, CloseTab,
            Find, Revoke, RevokeAtLogout, Arrives, Refused, CallFails, ConnectionLost, Expire, EndSession, vars, told
  <2>3. \/ stored'.refresh \in {stored.refresh, 0}
        \/ \E c \in Calls : call[c].at = "answering" /\ stored'.refresh = call[c].pair
    <3>1. ASSUME NEW t \in Tabs, GiveUp(t)
          PROVE  stored'.refresh \in {stored.refresh, 0}
      BY <3>1 DEF GiveUp, NoTokens
    <3>2. ASSUME NEW c \in Calls, Arrives(c)
          PROVE  stored'.refresh = stored.refresh \/ (call[c].at = "answering" /\ stored'.refresh = call[c].pair)
      BY <3>2 DEF Arrives
    <3>3. ASSUME NEW r \in Requests, Unauthorized(r)
          PROVE  stored'.refresh \in {stored.refresh, 0}
      BY <3>3 DEF Unauthorized, NoTokens
    <3>4. \/ UNCHANGED stored \/ (\E r \in Requests : Unauthorized(r))
          \/ (\E t \in Tabs : GiveUp(t)) \/ \E c \in Calls : Arrives(c)
      BY <1>4 DEF Next, Answers, TabSteps, CallSteps, Send, Accepted, Enter, Retry, CloseTab, Find,
            Revoke, Issue, RevokeAtLogout, Refused, CallFails, ConnectionLost, Expire, EndSession, vars
    <3> QED
      BY <3>1, <3>2, <3>3, <3>4
  <2>4. stored'.refresh # 0 => pairOf'[stored'.refresh] = login'
    <3>1. CASE stored'.refresh = stored.refresh
      BY <1>0, <2>1, <2>2, <3>1 DEF OneSession, Issued, TypeOK
    <3>2. ASSUME NEW c \in Calls, call[c].at = "answering", stored'.refresh = call[c].pair, stored'.refresh # 0
          PROVE  pairOf'[stored'.refresh] = login'
      <4>1. call[c].pair \in 1 .. issued /\ pairOf[call[c].pair] = login
        BY <1>0, <1>1, <3>2 DEF OneSession, Working, TypeOK, CallStates
      <4> QED
        BY <2>1, <2>2, <3>2, <4>1
    <3> QED
      BY <2>3, <3>1, <3>2
  <2>5. ASSUME NEW c \in Calls, Working(c)'
        PROVE  /\ pairOf'[call'[c].refresh] = login'
               /\ call'[c].at = "answering" => pairOf'[call'[c].pair] = login'
    <3>1. CallGoes(c)
      BY <1>0, CallsGo
    <3>2. CASE Working(c) /\ call'[c].refresh = call[c].refresh
      <4>1. pairOf'[call'[c].refresh] = login' /\ pairOf[call[c].refresh] = login
        BY <1>1, <2>1, <2>2, <3>2 DEF OneSession
      <4>2. ASSUME call'[c].at = "answering"
            PROVE  pairOf'[call'[c].pair] = login'
        <5>1. CASE call[c].at = "answering" /\ call'[c].pair = call[c].pair
          <6>1. call[c].pair \in 1 .. issued
            BY <1>0, <1>1, <5>1 DEF Known, Working, TypeOK, CallStates
          <6> QED
            BY <2>1, <2>2, <5>1, <6>1 DEF OneSession
        <5>2. CASE call'[c].pair = issued' /\ pairOf'[issued'] = pairOf[call[c].refresh]
          BY <2>1, <4>1, <5>2
        <5> QED
          BY <3>1, <4>2, <5>1, <5>2 DEF CallGoes, NoCall
      <4> QED
        BY <4>1, <4>2
    <3>3. CASE call'[c].at = "finding" /\ call'[c].refresh = stored.refresh /\ stored.refresh # 0
      BY <1>0, <2>1, <2>2, <3>3 DEF OneSession, Issued, TypeOK
    <3> QED
      BY <2>5, <3>1, <3>2, <3>3 DEF CallGoes, Working, NoCall
  <2> QED
    BY <2>4, <2>5 DEF OneSession, Working
<1> QED
  BY <1>2, <1>3, <1>4

----------------------------------------------------------------------------
(* Every smooth step keeps the account of the browser's tokens *)

\* What leaves the stored token, the calls and the tokens that live keeps it.
LEMMA AccountSame ==
    ASSUME Trading, Accounted, stored'.refresh = stored.refresh, UNCHANGED <<live, call>>, dropped \subseteq dropped'
    PROVE  Trading' /\ Accounted'
  BY DEF Trading, Accounted, Working

\* The account is kept.
LEMMA AccountStep ==
    ASSUME IInv, Known, Smooth, Orderly, [Next]_vars, Smooth', ~crossed', UNCHANGED incidents
    PROVE  Trading' /\ Accounted'
<1> USE RefreshConstants
<1>0. TypeOK /\ Issued /\ issued \in Nat /\ 0 \notin live
  BY DEF IInv, Uses, TypeOK, Pairs
<1>01. Trading /\ Accounted /\ Rescues
  BY DEF Orderly
<1>02. \A c, d \in Calls : Working(c) /\ Working(d) => c = d
  BY <1>01 DEF Trading
<1>03. dropped \subseteq dropped'
  BY DroppedGrows
<1>1. ASSUME NEW t \in Tabs, Enter(t)
      PROVE  Trading' /\ Accounted'
  <2>1. UNCHANGED <<stored, live>>
    BY <1>1 DEF Enter, server
  <2>2. CASE UNCHANGED call
    BY <1>01, <2>1, <2>2, <1>03, AccountSame
  <2>3. CASE /\ Starts("finding", t, stored.refresh) /\ stored.refresh # 0
             /\ raced' = (raced \/ \E c \in Refreshing : call[c].refresh = stored.refresh)
    <3>1. PICK c \in Calls :
            /\ call[c].at = "none"
            /\ call' = [call EXCEPT ![c] = [at |-> "finding", tab |-> t, refresh |-> stored.refresh, pair |-> 0]]
      BY <1>0, <2>3, StartsCall
    <3>2. /\ call'[c] = [at |-> "finding", tab |-> t, refresh |-> stored.refresh, pair |-> 0]
          /\ \A d \in Calls : d # c => call'[d] = call[d]
      BY <1>0, <3>1 DEF TypeOK
    <3>3. \A d \in Calls : ~Working(d)
      <4>1. ~(\E d \in Refreshing : call[d].refresh = stored.refresh)
        BY <2>3 DEF Smooth
      <4> QED
        BY <1>01, <2>3, <4>1 DEF Trading, Working, Refreshing
    <3>4. stored.refresh \in live
      BY <1>01, <2>3, <3>3 DEF Accounted, Working
    <3>5. Trading'
      BY <1>01, <2>1, <3>2, <3>3, <3>4 DEF Trading, Working
    <3>6. Accounted'
      BY <1>01, <1>03, <2>1, <3>1, <3>2, <3>3, <3>4 DEF Accounted, Working
    <3> QED
      BY <3>5, <3>6
  <2> QED
    BY <1>1, <2>2, <2>3 DEF Enter
<1>2. ASSUME NEW t \in Tabs, GiveUp(t)
      PROVE  Trading' /\ Accounted'
  <2>1. UNCHANGED <<live, call>>
    BY <1>2 DEF GiveUp, server
  <2>2. stored'.refresh = stored.refresh
    BY <1>01, <1>2 DEF GiveUp, Rescued, Rescues, Known, NoTokens
  <2> QED
    BY <1>01, <2>1, <2>2, <1>03, AccountSame
<1>3. ASSUME NEW c \in Calls, Find(c)
      PROVE  Trading' /\ Accounted'
  <2>1. /\ UNCHANGED <<stored, live>> /\ call[c].at = "finding" /\ call[c].refresh \in live
        /\ call' = [call EXCEPT ![c].at = "revoking"]
    BY <1>01, <1>3 DEF Find, server, Trading
  <2>2. /\ call'[c].at = "revoking" /\ call'[c].refresh = call[c].refresh /\ call'[c].tab = call[c].tab
        /\ \A d \in Calls : d # c => call'[d] = call[d]
    BY <1>0, <2>1 DEF TypeOK, CallStates
  <2>3. Trading'
    BY <1>01, <1>02, <2>1, <2>2 DEF Trading, Working
  <2>4. Accounted'
    BY <1>01, <1>03, <2>1, <2>2 DEF Accounted, Working
  <2> QED
    BY <2>3, <2>4
<1>4. ASSUME NEW c \in Calls, Revoke(c)
      PROVE  Trading' /\ Accounted'
  <2>1. /\ UNCHANGED stored /\ call[c].at = "revoking" /\ live' = live \ {call[c].refresh}
        /\ call' = [call EXCEPT ![c].at = "issuing"]
    BY <1>4 DEF Revoke
  <2>2. /\ call'[c].at = "issuing" /\ call'[c].refresh = call[c].refresh /\ call'[c].tab = call[c].tab
        /\ \A d \in Calls : d # c => call'[d] = call[d] /\ ~Working(d)
    BY <1>0, <1>02, <2>1 DEF TypeOK, CallStates, Working
  <2>3. Trading'
    BY <1>01, <2>1, <2>2 DEF Trading, Working
  <2>4. Accounted'
    BY <1>01, <1>03, <2>1, <2>2 DEF Accounted, Working
  <2> QED
    BY <2>3, <2>4
<1>5. ASSUME NEW c \in Calls, Issue(c)
      PROVE  Trading' /\ Accounted'
  <2>1. /\ UNCHANGED stored /\ call[c].at = "issuing" /\ live' = live \cup {issued + 1}
        /\ call' = [call EXCEPT ![c].at = "answering", ![c].pair = issued + 1]
    BY <1>0, <1>5, IssuesPair DEF Issue
  <2>2. /\ call'[c].at = "answering" /\ call'[c].refresh = call[c].refresh /\ call'[c].tab = call[c].tab
        /\ call'[c].pair = issued + 1
        /\ \A d \in Calls : d # c => call'[d] = call[d] /\ ~Working(d)
    BY <1>0, <1>02, <2>1 DEF TypeOK, CallStates, Working
  <2>3. /\ call[c].refresh \in 1 .. issued /\ call[c].refresh \notin live
        /\ stored.refresh \in {0, call[c].refresh} /\ call[c].tab # None
    BY <1>0, <1>01, <2>1 DEF IInv, Uses, Issued, Dying, Trading, Working
  <2>4. call[c].refresh \notin live'
    BY <1>0, <2>1, <2>3
  <2>5. Trading'
    <3>1. \A d \in Calls : d # c /\ call'[d].at \in {"finding", "revoking", "answering"} => FALSE
      BY <2>2 DEF Working
    <3>2. call'[c].pair \in live' /\ stored'.refresh \in {0, call'[c].refresh} /\ call'[c].tab # None
      BY <2>1, <2>2, <2>3
    <3>3. \A d \in Calls : Working(d)' => d = c
      BY <2>2 DEF Working
    <3>4. \A d \in Calls : call'[d].at # "refusing"
      BY <1>01, <2>2 DEF Trading
    <3> QED
      BY <2>2, <2>4, <3>1, <3>2, <3>3, <3>4 DEF Trading
  <2>6. \A d \in Calls : call[d].at = "loggingOut" => call[d].refresh # issued + 1
    BY <1>0 DEF Known
  <2>7. Accounted'
    <3>1. \A n \in live' :
             \/ n = stored'.refresh \/ n \in dropped'
             \/ call'[c].at = "answering" /\ call'[c].pair = n
             \/ \E d \in Calls : call'[d].at = "loggingOut" /\ call'[d].refresh = n
      <4> SUFFICES ASSUME NEW n \in live
                   PROVE  \/ n = stored.refresh \/ n \in dropped'
                          \/ \E d \in Calls : call'[d].at = "loggingOut" /\ call'[d].refresh = n
        BY <2>1, <2>2
      <4>1. \A d \in Calls : call[d].at # "answering"
        BY <2>1, <2>2 DEF Working
      <4>2. n = stored.refresh \/ n \in dropped' \/ \E d \in Calls : call[d].at = "loggingOut" /\ call[d].refresh = n
        BY <1>01, <1>03, <4>1 DEF Accounted
      <4> QED
        BY <2>1, <2>2, <4>2
    <3>2. \A d \in Calls : call'[d].at = "loggingOut" =>
             /\ call'[d].refresh # stored'.refresh /\ call'[d].refresh # issued + 1
             /\ call'[d].refresh # call'[c].refresh
      <4> SUFFICES ASSUME NEW d \in Calls, call'[d].at = "loggingOut"
                   PROVE  /\ call'[d].refresh # stored.refresh /\ call'[d].refresh # issued + 1
                          /\ call'[d].refresh # call[c].refresh
        BY <2>1, <2>2
      <4>1. d # c /\ call'[d] = call[d]
        BY <2>2
      <4> QED
        BY <1>01, <2>1, <2>6, <4>1 DEF Accounted, Working
    <3>3. \A e \in Calls : Working(e)' => e = c
      BY <2>2 DEF Working
    <3> QED
      BY <2>2, <3>1, <3>2, <3>3 DEF Accounted, Working
  <2> QED
    BY <2>5, <2>7
<1>6. ASSUME NEW c \in Calls, RevokeAtLogout(c)
      PROVE  Trading' /\ Accounted'
  <2>1. /\ UNCHANGED stored /\ call[c].at = "loggingOut" /\ live' = live \ {call[c].refresh}
        /\ call'[c].at = "none" /\ \A d \in Calls : d # c => call'[d] = call[d]
    BY <1>0, <1>6 DEF RevokeAtLogout, TypeOK, NoCall
  <2>2. Trading'
    BY <1>01, <2>1 DEF Trading, Accounted, Working
  <2>3. Accounted'
    BY <1>01, <1>03, <2>1 DEF Accounted, Working
  <2> QED
    BY <2>2, <2>3
<1>7. ASSUME NEW c \in Calls, Arrives(c)
      PROVE  Trading' /\ Accounted'
  <2>1. call[c].at = "answering" /\ call[c].tab # None /\ stored.refresh \in {0, call[c].refresh}
    BY <1>01, <1>7 DEF Arrives, Trading, Working
  <2>2. /\ UNCHANGED live /\ stored'.refresh = call[c].pair
        /\ call'[c].at = "none" /\ \A d \in Calls : d # c => call'[d] = call[d] /\ ~Working(d)
    BY <1>0, <1>02, <1>7, <2>1 DEF Arrives, server, TypeOK, NoCall, Working
  <2>3. Trading'
    BY <1>01, <2>2 DEF Trading, Working
  <2>4. stored.refresh \notin live /\ call[c].pair \in live
    BY <1>0, <1>01, <2>1 DEF Trading
  <2>5. Accounted'
    BY <1>01, <1>03, <2>1, <2>2, <2>4 DEF Accounted, Working
  <2> QED
    BY <2>3, <2>5
<1>8. ASSUME NEW c \in Calls, Refused(c)
      PROVE  Trading' /\ Accounted'
  BY <1>01, <1>8 DEF Refused, Trading
<1>9. CASE Logout
  <2>1. PICK c \in Calls :
          /\ call[c].at = "none"
          /\ call' = [call EXCEPT ![c] = [at |-> "loggingOut", tab |-> None, refresh |-> stored.refresh, pair |-> 0]]
    BY <1>0, <1>9, StartsCall DEF Logout
  <2>2. /\ UNCHANGED live /\ stored'.refresh = 0 /\ stored.refresh # 0 /\ Refreshing = {}
        /\ call'[c].at = "loggingOut" /\ call'[c].refresh = stored.refresh
        /\ \A d \in Calls : d # c => call'[d] = call[d]
    BY <1>0, <1>9, <2>1 DEF Logout, Known, Underway, server, NoTokens, TypeOK
  <2>3. \A d \in Calls : ~Working(d)
    BY <2>2 DEF Refreshing, Working
  <2>4. Trading'
    BY <1>01, <2>2, <2>3 DEF Trading, Working
  <2>5. Accounted'
    BY <1>0, <1>01, <1>03, <2>1, <2>2, <2>3 DEF Accounted, Known, Working
  <2> QED
    BY <2>4, <2>5
<1>10. CASE Login
  <2>1. /\ UNCHANGED call /\ stored'.refresh = issued + 1 /\ live' = live \cup {issued + 1} /\ Refreshing = {}
        /\ dropped' = dropped \cup ({stored.refresh} \ {0})
    BY <1>0, <1>10, IssuesPair DEF Login, Drops, Underway
  <2>2. \A d \in Calls : ~Working(d)
    BY <2>1 DEF Refreshing, Working
  <2>3. Trading'
    BY <1>01, <2>1, <2>2 DEF Trading, Working
  <2>4. \A n \in live : n \in dropped' \/ \E c \in Calls : call[c].at = "loggingOut" /\ call[c].refresh = n
    BY <1>0, <1>01, <2>1, <2>2 DEF Accounted, Working
  <2>5. \A c \in Calls : call[c].at = "loggingOut" => call[c].refresh # issued + 1
    BY <1>0 DEF Known
  <2>6. Accounted'
    BY <2>1, <2>2, <2>4, <2>5 DEF Accounted, Working
  <2> QED
    BY <2>3, <2>6
<1>11. ASSUME NEW c \in Calls, CallFails(c) \/ ConnectionLost(c)
       PROVE  FALSE
  BY <1>0, <1>11 DEF CallFails, ConnectionLost, Incident, TypeOK
<1>12. ASSUME NEW t \in Tabs, CloseTab(t)
       PROVE  FALSE
  BY <1>0, <1>12 DEF CloseTab, Incident, TypeOK
<1>13. ASSUME NEW n \in Pairs, EndSession(n)
       PROVE  FALSE
  BY <1>0, <1>13 DEF EndSession, Incident, TypeOK
<1>14. CASE \/ \E r \in Requests : Accepted(r) \/ \E t \in Tabs : Send(r, t)
            \/ (\E t \in Tabs : Retry(t)) \/ (\E n \in Pairs : Expire(n)) \/ UNCHANGED vars
  <2>1. UNCHANGED <<stored, live, call>>
    BY <1>14 DEF Accepted, Send, Retry, Expire, server, vars
  <2> QED
    BY <1>01, <2>1, <1>03, AccountSame
<1>15. ASSUME NEW r \in Requests, Unauthorized(r)
       PROVE  Trading' /\ Accounted'
  <2>1. /\ UNCHANGED <<live, call>>
        /\ UNCHANGED stored \/ (stored' = NoTokens /\ Drops)
    BY <1>15 DEF Unauthorized, server
  <2>2. CASE UNCHANGED stored
    BY <1>01, <1>03, <2>1, <2>2, AccountSame
  <2>3. CASE stored' = NoTokens /\ Drops
    <3>1. stored'.refresh = 0 /\ dropped' = dropped \cup ({stored.refresh} \ {0})
      BY <2>3 DEF NoTokens, Drops
    <3>2. Trading'
      BY <1>01, <2>1, <3>1 DEF Trading, Working
    <3>3. \A n \in live :
             \/ n \in dropped'
             \/ \E c \in Calls : call[c].at = "answering" /\ call[c].pair = n
             \/ \E c \in Calls : call[c].at = "loggingOut" /\ call[c].refresh = n
      BY <1>0, <1>01, <3>1 DEF Accounted
    <3>4. \A c \in Calls : call[c].at = "loggingOut" => call[c].refresh # 0
      BY <1>0 DEF Known
    <3>5. Accounted'
      BY <1>01, <2>1, <3>1, <3>3, <3>4 DEF Accounted, Working
    <3> QED
      BY <3>2, <3>5
  <2> QED
    BY <2>1, <2>2, <2>3
<1> QED
  BY <1>1, <1>2, <1>3, <1>4, <1>5, <1>6, <1>7, <1>8, <1>9, <1>10, <1>11, <1>12, <1>13, <1>14, <1>15
     DEF Next, Answers, TabSteps, CallSteps

\* What is stored changes only when a pair arrives, the user signs in or out, a tab
\* gives the session up or a /auth/me is refused twice.
LEMMA StoredGoes ==
    ASSUME TypeOK, [Next]_vars
    PROVE  \/ UNCHANGED stored
           \/ stored'.refresh = 0 /\ (Logout \/ MeRefused' \/ \E t \in Tabs : tab[t].at = "failed")
           \/ stored'.refresh = issued + 1 /\ Login
           \/ \E c \in Calls : call[c].at = "answering" /\ stored'.refresh = call[c].pair
<1>1. ASSUME NEW t \in Tabs, GiveUp(t)
      PROVE  UNCHANGED stored \/ (stored'.refresh = 0 /\ tab[t].at = "failed")
  BY <1>1 DEF GiveUp, NoTokens
<1>2. ASSUME NEW c \in Calls, Arrives(c)
      PROVE  UNCHANGED stored \/ (call[c].at = "answering" /\ stored'.refresh = call[c].pair)
  BY <1>2 DEF Arrives
<1>3. CASE Logout
  BY <1>3 DEF Logout, NoTokens
<1>4. CASE Login
  BY <1>4, IssuesPair DEF Login
<1>5. ASSUME NEW r \in Requests, Unauthorized(r)
      PROVE  UNCHANGED stored \/ (stored'.refresh = 0 /\ MeRefused')
  <2>1. UNCHANGED stored \/ (stored' = NoTokens /\ req' = [req EXCEPT ![r].at = "signedOut"])
    BY <1>5 DEF Unauthorized
  <2> QED
    BY <2>1 DEF NoTokens, MeRefused, TypeOK, RequestStates
<1>6. \/ UNCHANGED stored \/ Login \/ Logout \/ (\E r \in Requests : Unauthorized(r))
      \/ (\E t \in Tabs : GiveUp(t)) \/ \E c \in Calls : Arrives(c)
  BY DEF Next, Answers, TabSteps, CallSteps, Send, Accepted, Enter, Retry, CloseTab, Find,
        Revoke, Issue, RevokeAtLogout, Refused, CallFails, ConnectionLost, Expire, EndSession, vars
<1> QED
  BY <1>1, <1>2, <1>3, <1>4, <1>5, <1>6

\* A tab that gives up is rescued, still, and a new pair is new to every tab.
LEMMA RescuesStep ==
    ASSUME IInv, Known, Orderly, [Next]_vars, UNCHANGED incidents
    PROVE  Rescues'
<1> USE RefreshConstants
<1>0. TypeOK /\ Issued /\ issued \in Nat /\ stored.refresh \in Nat
  BY DEF IInv, Uses, TypeOK
<1>01. Trading /\ Rescues
  BY DEF Orderly
<1>1. ASSUME NEW t \in Tabs, tab'[t].at = "failed"
      PROVE  stored'.refresh = 0 \/ stored'.refresh # tab'[t].before
  <2>1. /\ tab'[t].before = tab[t].before
        /\ tab[t].at = "failed" \/ (stored.refresh = 0 /\ UNCHANGED stored)
    <3>1. TabGoes(t) /\ tab[t] \in TabStates
      BY <1>0, TabsGo DEF TypeOK
    <3>2. \A c \in Calls : call[c].at # "refusing"
      BY <1>01 DEF Trading
    <3>3. CASE tab'[t] \in {tab[t], NoTab}
      BY <1>1, <3>3 DEF NoTab
    <3>4. CASE /\ tab'[t] = [tab[t] EXCEPT !.at = "failed"]
               /\ stored.refresh = 0 /\ UNCHANGED stored
      BY <3>1, <3>4 DEF TabStates
    <3>5. tab'[t] # [at |-> "queued", before |-> stored.refresh, token |-> 0]
      BY <1>1
    <3>6. tab'[t] # [tab[t] EXCEPT !.at = "posting"] /\ tab'[t] # [tab[t] EXCEPT !.at = "refreshed", !.token = stored'.token]
      BY <1>1, <3>1 DEF TabStates
    <3> QED
      BY <3>1, <3>2, <3>3, <3>4, <3>5, <3>6 DEF TabGoes
  <2>2. CASE tab[t].at = "failed"
    <3>1. stored.refresh = 0 \/ stored.refresh # tab[t].before
      BY <1>01, <2>2 DEF Rescues
    <3>2. tab[t].before \in Nat /\ tab[t].before <= issued
      BY <1>0 DEF Known, TypeOK, TabStates
    <3>3. ASSUME NEW c \in Calls, call[c].at = "answering", stored'.refresh = call[c].pair
          PROVE  stored'.refresh # tab'[t].before
      <4>1. tab[t].before < call[c].pair /\ call[c].pair \in Nat
        BY <1>0, <1>01, <3>3 DEF Rescues, TypeOK, CallStates
      <4> QED
        BY <2>1, <3>2, <3>3, <4>1
    <3>4. stored'.refresh = issued + 1 => stored'.refresh # tab'[t].before
      BY <1>0, <2>1, <3>2
    <3> QED
      BY <1>0, <2>1, <3>1, <3>3, <3>4, StoredGoes
  <2> QED
    BY <2>1, <2>2
<1>2. ASSUME NEW c \in Calls, NEW t \in Tabs, call'[c].at = "answering"
      PROVE  tab'[t].before < call'[c].pair
  <2>1. tab'[t].before \in {tab[t].before, 0, stored.refresh} /\ tab[t].before \in Nat
    BY <1>0, TabsHold DEF TypeOK, TabStates
  <2>2. \/ call[c].at = "answering" /\ call'[c].pair = call[c].pair
        \/ call'[c].pair = issued + 1
    BY <1>0, <1>2, CallsGo DEF CallGoes, NoCall
  <2>3. CASE call[c].at = "answering" /\ call'[c].pair = call[c].pair
    <3>1. tab[t].before < call[c].pair /\ call[c].refresh < call[c].pair
      BY <1>01, <2>3 DEF Rescues, Known
    <3>2. stored.refresh \in {0, call[c].refresh}
      BY <1>01, <2>3 DEF Trading, Working
    <3>3. call[c].pair \in Nat /\ call[c].refresh \in Nat
      BY <1>0 DEF TypeOK, CallStates
    <3> QED
      BY <1>0, <2>1, <2>3, <3>1, <3>2, <3>3
  <2>4. CASE call'[c].pair = issued + 1
    <3>1. tab[t].before <= issued /\ stored.refresh <= issued
      BY <1>0 DEF Known, Issued
    <3> QED
      BY <1>0, <2>1, <2>4, <3>1
  <2> QED
    BY <2>2, <2>3, <2>4
<1> QED
  BY <1>1, <1>2 DEF Rescues

----------------------------------------------------------------------------
(* Every smooth step of the first session goes forward *)

\* Access tokens that were issued before become fresh no more.
LEMMA FreshGoes ==
    ASSUME TypeOK, [Next]_vars
    PROVE  /\ issued \in Nat /\ issued' \in Nat /\ issued <= issued'
           /\ \A n \in 1 .. issued : n \in fresh' => n \in fresh
<1>0. issued \in Nat
  BY DEF TypeOK
<1>1. ASSUME NEW session, Issues(session)
      PROVE  issued' = issued + 1 /\ fresh' = fresh \cup {issued + 1}
  BY <1>1, IssuesPair
<1>2. \/ issued' = issued /\ fresh' \subseteq fresh
      \/ issued' = issued + 1 /\ fresh' = fresh \cup {issued + 1}
  BY <1>1 DEF Next, Answers, TabSteps, CallSteps, Send, Accepted, Unauthorized, Enter, Retry, GiveUp, CloseTab, Find,
        Revoke, Issue, RevokeAtLogout, Arrives, Refused, CallFails, ConnectionLost, Logout, Login, Expire, EndSession,
        vars, server
<1> QED
  BY <1>0, <1>2

\* The first session goes on.
LEMMA ForwardStep ==
    ASSUME IInv, Known, Known', Orderly, Forward, [Next]_vars, UNCHANGED incidents, login' = 1
    PROVE  Forward'
<1> USE RefreshConstants
<1>0. /\ TypeOK /\ Issued /\ issued \in Nat /\ stored.refresh \in Nat
      /\ Trading /\ stored.token = stored.refresh
  BY DEF IInv, Uses, TypeOK, Orderly, Known
<1>1. ~Logout /\ ~Login
  BY <1>0 DEF Logout, Login, Known, TypeOK
<1>2. ASSUME NEW c \in Calls, call[c].at = "answering"
      PROVE  call[c].pair \in Nat /\ call[c].pair >= 2
  BY <1>0, <1>2 DEF Issued, Known, Working, TypeOK, CallStates
<1>3. MeRefused => MeRefused'
  BY <1>0, RefusedStays DEF MeRefused
<1>4. /\ stored'.refresh # 0 \/ MeRefused'
      /\ stored'.refresh = 1 => UNCHANGED stored
  BY <1>1, <1>2, <1>3, <1>0, StoredGoes DEF Forward
<1>5. ASSUME NEW t \in Tabs
      PROVE  /\ tab'[t].at = "failed" => MeRefused'
             /\ tab'[t].at = "refreshed" => tab'[t].token >= 2
             /\ stored'.refresh = 1 => /\ tab'[t].at \notin {"failed", "refreshed"}
                                       /\ tab'[t].at = "queued" => tab'[t].before = 1
  <2>1. TabGoes(t) /\ tab[t] \in TabStates
    BY <1>0, TabsGo DEF TypeOK
  <2>2. CASE tab'[t] = tab[t]
    BY <1>3, <1>4, <2>2 DEF Forward
  <2>3. CASE tab'[t] = NoTab
    BY <2>3 DEF NoTab
  <2>4. CASE tab'[t] = [at |-> "queued", before |-> stored.refresh, token |-> 0]
    BY <1>4, <2>4
  <2>5. CASE tab'[t] = [tab[t] EXCEPT !.at = "posting"]
    <3>1. tab'[t].at = "posting"
      BY <2>1, <2>5 DEF TabStates
    <3> QED
      BY <3>1
  <2>6. CASE /\ tab'[t] = [tab[t] EXCEPT !.at = "failed"]
             /\ stored.refresh = 0 /\ UNCHANGED stored
    <3>1. tab'[t].at = "failed" /\ stored'.refresh # 1
      BY <2>1, <2>6 DEF TabStates
    <3> QED
      BY <1>4, <2>6, <3>1
  <2>7. CASE /\ tab'[t] = [tab[t] EXCEPT !.at = "refreshed", !.token = stored'.token]
             /\ tab[t].at = "queued" /\ stored.refresh \notin {0, tab[t].before} /\ UNCHANGED stored
    <3>1. tab'[t].at = "refreshed" /\ tab'[t].token = stored.refresh
      BY <1>0, <2>1, <2>7 DEF TabStates
    <3>2. stored.refresh >= 2
      BY <1>0, <2>7 DEF Forward
    <3> QED
      BY <1>0, <2>7, <3>1, <3>2
  <2>8. CASE /\ tab'[t] = [tab[t] EXCEPT !.at = "refreshed", !.token = stored'.token]
             /\ \E c \in Calls : call[c].at = "answering" /\ stored'.refresh = call[c].pair
    <3>1. tab'[t].at = "refreshed" /\ tab'[t].token = stored'.token
      BY <2>1, <2>8 DEF TabStates
    <3>2. stored'.refresh >= 2 /\ stored'.refresh \in Nat
      BY <1>2, <2>8
    <3>3. stored'.token = stored'.refresh
      BY DEF Known
    <3> QED
      BY <3>1, <3>2, <3>3
  <2>9. \A c \in Calls : call[c].at # "refusing"
    BY <1>0 DEF Trading
  <2> QED
    BY <2>1, <2>2, <2>3, <2>4, <2>5, <2>6, <2>7, <2>8, <2>9 DEF TabGoes
<1>6. ASSUME NEW r \in Requests, req'[r].at = "sent", req'[r].retried
      PROVE  req'[r].token >= 2
  <2>1. \/ req'[r] = req[r]
        \/ \E t \in Tabs :
              /\ tab[t].at = "refreshed" \/ (tab[t].at = "failed" /\ Rescued(t))
              /\ req'[r].token = IF stored.token # 0 THEN stored.token ELSE tab[t].token
    BY <1>0, <1>6, RequestsGo DEF RequestGoes
  <2>2. ASSUME NEW t \in Tabs, tab[t].at \in {"refreshed", "failed"}, stored.token # 0
        PROVE  stored.token >= 2
    BY <1>0, <2>2 DEF Forward
  <2> QED
    BY <1>0, <1>6, <2>1, <2>2 DEF Forward, Rescued
<1>7. ASSUME NEW r \in Requests, req'[r].at \in {"rejected", "signedOut"}
      PROVE  \E n \in 2 .. issued' : n \notin fresh'
  <2>1. \E n \in 2 .. issued : n \notin fresh
    <3>1. CASE req'[r] = req[r]
      BY <1>7, <3>1 DEF Forward
    <3>2. CASE req[r].at = "sent" /\ req[r].retried /\ req[r].token \notin fresh
      <4>1. req[r].token \in Nat /\ req[r].token >= 2 /\ req[r].token <= issued
        BY <1>0, <3>2 DEF Forward, Known, TypeOK, RequestStates
      <4> QED
        BY <1>0, <3>2, <4>1
    <3>3. CASE \E t \in Tabs : tab[t].at = "failed"
      BY <3>3 DEF Forward, MeRefused
    <3> QED
      BY <1>0, <1>7, <3>1, <3>2, <3>3, RequestsGo DEF RequestGoes
  <2>2. PICK n \in 2 .. issued : n \notin fresh
    BY <2>1
  <2>3. n \in 1 .. issued /\ n \in 2 .. issued'
    BY <1>0, FreshGoes
  <2> QED
    BY <1>0, <2>2, <2>3, FreshGoes
<1> QED
  BY <1>4, <1>5, <1>6, <1>7 DEF Forward

----------------------------------------------------------------------------
(* The theorems about sessions *)

\* The initial state satisfies it.
LEMMA SessionsInit == Init => Sessions
<1> SUFFICES ASSUME Init PROVE Sessions
  OBVIOUS
<1> USE RefreshConstants
<1>1. Known
  BY DEF Init, Known, NoTab, NoRequest, NoCall
<1>2. OneSession
  BY DEF Init, OneSession, Working, NoCall, Pairs
<1>3. Orderly
  BY DEF Init, Orderly, Trading, Accounted, Rescues, Working, NoCall, NoTab
<1>4. Forward
  BY DEF Init, Forward, NoTab, NoRequest
<1> QED
  BY <1>1, <1>2, <1>3, <1>4 DEF Sessions

\* Every step keeps it.
LEMMA SessionsStep == IInv /\ IInv' /\ Sessions /\ [Next]_vars => Sessions'
<1> SUFFICES ASSUME IInv, IInv', Sessions, [Next]_vars PROVE Sessions'
  OBVIOUS
<1>1. TypeOK /\ TypeOK' /\ Known /\ Onward
  BY GoesOnward DEF IInv, Sessions
<1>2. Known'
  BY <1>1, KnownStep
<1>3. ASSUME ~crossed'
      PROVE  OneSession'
  BY <1>1, <1>3, OneSessionStep DEF Sessions, Onward
<1>4. ASSUME Smooth', ~crossed'
      PROVE  Orderly'
  <2>1. Smooth /\ UNCHANGED incidents /\ Orderly
    BY <1>1, <1>4 DEF Onward, Sessions
  <2>2. Trading' /\ Accounted'
    BY <1>1, <1>4, <2>1, AccountStep
  <2>3. Rescues'
    BY <1>1, <2>1, RescuesStep
  <2> QED
    BY <2>2, <2>3 DEF Orderly
<1>5. ASSUME Smooth', login' = 1
      PROVE  Forward'
  <2>1. login = 1
    BY <1>1, <1>5, LoginGoes DEF Known, TypeOK
  <2>2. ~crossed /\ Smooth /\ UNCHANGED incidents
    BY <1>1, <1>5, <2>1 DEF Known, Onward
  <2> QED
    BY <1>1, <1>2, <1>5, <2>1, <2>2, ForwardStep DEF Sessions
<1> QED
  BY <1>2, <1>3, <1>4, <1>5 DEF Sessions

\* What the browser holds, and what the server knows of it, for any number of tabs
\* and calls: whose session a stored or traded pair is, which tokens live as long
\* as nothing fails, and that the first session goes on until a /auth/me is refused
\* twice.
THEOREM SessionsKept == Spec => []Sessions
<1>1. IInv /\ IInv' /\ Sessions /\ [Next]_vars => Sessions'
  BY SessionsStep
<1> QED
  BY <1>1, SessionsInit, IInvAlways, PTL DEF Spec

\* localStorage holds the session the user chose last, and when nothing is under
\* way the server knows the token it holds, and no other but those that were let go
\* without a sign-out; unless the user signed in or out beside a refresh.
THEOREM ServerKnows == Spec => []ServerAgrees
<1>1. IInv /\ Sessions => ServerAgrees
  <2> SUFFICES ASSUME IInv, Sessions PROVE ServerAgrees
    OBVIOUS
  <2>1. ~crossed => stored.refresh = 0 \/ pairOf[stored.refresh] = login
    BY DEF Sessions, OneSession
  <2>2. ASSUME Quiet, incidents = 0, ~raced, ~crossed
        PROVE  stored.refresh \in live \cup {0} /\ live \subseteq {stored.refresh} \cup dropped
    <3>1. Accounted /\ \A c \in Calls : call[c].at = "none"
      BY <2>2 DEF Sessions, Smooth, Orderly, Quiet, NoCall
    <3>2. \A n \in live : n = stored.refresh \/ n \in dropped
      BY <3>1 DEF Accounted
    <3>3. stored.refresh \in live \cup {0}
      BY <3>1 DEF Accounted
    <3> QED
      BY <3>2, <3>3
  <2> QED
    BY <2>1, <2>2 DEF ServerAgrees
<1> QED
  BY <1>1, IInvAlways, SessionsKept, PTL

\* As long as nothing fails and no two tabs refresh with one token, an access token
\* that expires refuses a request only when a new one expired as well, and signs
\* the user out only when that request was /auth/me.
THEOREM RefreshUnnoticed == Spec => []SilentRefresh
<1>1. IInv /\ Sessions => SilentRefresh
  <2> SUFFICES ASSUME IInv, Sessions, incidents = 0, ~raced, login = 1
               PROVE  /\ stored.token = 0 => \E r \in Requests : req[r].at = "signedOut"
                      /\ (\E r \in Requests : req[r].at \in {"rejected", "signedOut"}) =>
                            \E n \in 2 .. issued : n \notin fresh
    BY DEF SilentRefresh
  <2>1. Forward /\ Known
    BY DEF Sessions, Smooth
  <2> QED
    BY <2>1 DEF Forward, Known, MeRefused
<1> QED
  BY <1>1, IInvAlways, SessionsKept, PTL

----------------------------------------------------------------------------
(* Nobody waits for nobody *)

In(q, t)    == \E i \in 1 .. Len(q) : q[i] = t
Distinct(q) == \A i, j \in 1 .. Len(q) : q[i] = q[j] => i = j

\* A tab that posts has a call under way, one, and nobody else has one.
Called ==
    /\ \A c \in Calls : call[c].tab # None => Active(c) /\ tab[call[c].tab].at = "posting"
    /\ \A c, d \in Calls : call[c].tab = call[d].tab /\ call[c].tab # None => c = d
    /\ \A t \in Tabs : tab[t].at = "posting" => \E c \in Calls : call[c].tab = t

\* Where a tab asks for the lock, or has it.
Locking == {"queued", "posting"}

\* The lock's queue has those tabs in it, each once.
Queued ==
    /\ locks => \A t \in Tabs : In(queue, t) <=> tab[t].at \in Locking
    /\ ~locks => queue = <<>>
    /\ Distinct(queue)

\* A request that waits for its tab's refresh waits for one that was begun.
Begun == \A r \in Requests : req[r].at = "refreshing" => tab[req[r].tab].at # "none"

Waits == Called /\ Queued /\ Begun

\* A tab that leaves the queue leaves the others in it.
LEMMA WithoutDrops ==
    ASSUME NEW q \in Seq(Tabs), NEW t \in Tabs, Distinct(q)
    PROVE  /\ Distinct(Without(q, t))
           /\ \A u \in Tabs : In(Without(q, t), u) <=> In(q, u) /\ u # t
<1>1. CASE ~In(q, t)
  <2>1. Without(q, t) = q
    BY <1>1 DEF Without, In
  <2> QED
    BY <1>1, <2>1
<1>2. CASE In(q, t)
  <2> DEFINE rest(p) == [i \in 1 .. Len(q) - 1 |-> IF i < p THEN q[i] ELSE q[i + 1]]
  <2>1. PICK p \in 1 .. Len(q) : q[p] = t /\ Without(q, t) = rest(p)
    BY <1>2 DEF Without, In
  <2>2. Len(q) \in Nat /\ Len(q) - 1 \in Nat /\ p \in Nat
    BY <2>1
  <2>3. /\ Len(rest(p)) = Len(q) - 1
        /\ \A i \in 1 .. Len(q) - 1 : rest(p)[i] = IF i < p THEN q[i] ELSE q[i + 1]
    <3>1. \A i \in 1 .. Len(q) - 1 : rest(p)[i] \in Tabs
      BY <2>2
    <3>2. rest(p) \in Seq(Tabs) /\ DOMAIN rest(p) = 1 .. Len(q) - 1
      BY <2>2, <3>1
    <3> QED
      BY <2>2, <3>2
  <2> HIDE DEF rest
  <2>4. Distinct(rest(p))
    BY <2>2, <2>3 DEF Distinct
  <2>5. ASSUME NEW u \in Tabs, In(rest(p), u)
        PROVE  In(q, u) /\ u # t
    <3>1. PICK i \in 1 .. Len(q) - 1 : rest(p)[i] = u
      BY <2>3, <2>5 DEF In
    <3> QED
      BY <2>1, <2>2, <2>3, <3>1 DEF In, Distinct
  <2>6. ASSUME NEW u \in Tabs, In(q, u), u # t
        PROVE  In(rest(p), u)
    <3>1. PICK i \in 1 .. Len(q) : q[i] = u
      BY <2>6 DEF In
    <3>2. CASE i < p
      BY <2>2, <2>3, <3>1, <3>2 DEF In
    <3>3. CASE i > p
      <4>1. i - 1 \in 1 .. Len(q) - 1 /\ ~(i - 1 < p) /\ (i - 1) + 1 = i
        BY <2>2, <3>3
      <4>2. rest(p)[i - 1] = u
        BY <2>3, <3>1, <4>1
      <4> QED
        BY <2>3, <4>1, <4>2 DEF In
    <3> QED
      BY <2>1, <2>2, <2>6, <3>1, <3>2, <3>3
  <2> QED
    BY <2>1, <2>4, <2>5, <2>6
<1> QED
  BY <1>1, <1>2

\* One that asks for the lock comes last.
LEMMA AppendAdds ==
    ASSUME NEW q \in Seq(Tabs), NEW t \in Tabs, Distinct(q), ~In(q, t)
    PROVE  /\ Distinct(Append(q, t))
           /\ \A u \in Tabs : In(Append(q, t), u) <=> In(q, u) \/ u = t
<1>1. /\ Len(q) \in Nat /\ Len(Append(q, t)) = Len(q) + 1
      /\ \A i \in 1 .. Len(q) : Append(q, t)[i] = q[i]
      /\ Append(q, t)[Len(q) + 1] = t
  OBVIOUS
<1>2. \A i \in 1 .. Len(q) + 1 : i \in 1 .. Len(q) \/ i = Len(q) + 1
  BY <1>1
<1>3. Distinct(Append(q, t))
  BY <1>1, <1>2 DEF Distinct, In
<1>4. \A u \in Tabs : In(Append(q, t), u) => In(q, u) \/ u = t
  BY <1>1, <1>2 DEF In
<1>5. ASSUME NEW u \in Tabs, In(q, u) \/ u = t
      PROVE  In(Append(q, t), u)
  <2>1. CASE In(q, u)
    BY <1>1, <2>1 DEF In
  <2>2. CASE u = t
    <3>1. Len(q) + 1 \in 1 .. Len(Append(q, t))
      BY <1>1
    <3> QED
      BY <1>1, <2>2, <3>1 DEF In
  <2> QED
    BY <1>5, <2>1, <2>2
<1> QED
  BY <1>3, <1>4, <1>5

\* Calls go on for the same tabs, but for those that stop to post.
LEMMA CalledGoes ==
    ASSUME Called, NEW T \in SUBSET Tabs, None \notin T,
           \A c \in Calls : call'[c].tab = IF call[c].tab \in T THEN None ELSE call[c].tab,
           \A c \in Calls : Active(c) /\ call'[c].tab # None => Active(c)',
           \A t \in Tabs : tab'[t].at = "posting" <=> tab[t].at = "posting" /\ t \notin T,
           \A c \in Calls : call[c].tab # None => call[c].tab \in Tabs
    PROVE  Called'
<1>1. \A c \in Calls : call'[c].tab # None =>
          call'[c].tab = call[c].tab /\ Active(c) /\ call[c].tab \notin T
  BY DEF Called
<1>2. ASSUME NEW c \in Calls, call'[c].tab # None
      PROVE  Active(c)' /\ tab'[call'[c].tab].at = "posting"
  BY <1>1, <1>2 DEF Called
<1>3. \A c, d \in Calls : call'[c].tab = call'[d].tab /\ call'[c].tab # None => c = d
  BY <1>1 DEF Called
<1>4. \A t \in Tabs : tab'[t].at = "posting" => \E c \in Calls : call'[c].tab = t
  BY DEF Called
<1> QED
  BY <1>2, <1>3, <1>4 DEF Called

\* The lock's queue stays, and who asks for it.
LEMMA QueuedSame ==
    ASSUME Queued, UNCHANGED <<locks, queue>>,
           \A t \in Tabs : tab'[t].at \in Locking <=> tab[t].at \in Locking
    PROVE  Queued'
  BY DEF Queued

\* A tab gives the lock up, or asks for it no more.
LEMMA QueuedLeft ==
    ASSUME TypeOK, Queued, NEW t \in Tabs, Unlock(t), UNCHANGED locks,
           tab'[t].at \notin Locking,
           \A u \in Tabs \ {t} : tab'[u].at \in Locking <=> tab[u].at \in Locking
    PROVE  Queued'
<1>1. queue \in Seq(Tabs) /\ Distinct(queue) /\ queue' = Without(queue, t)
  BY DEF TypeOK, Queued, Unlock
<1>2. Distinct(queue') /\ \A u \in Tabs : In(queue', u) <=> In(queue, u) /\ u # t
  BY <1>1, WithoutDrops
<1>3. ~locks => queue' = <<>>
  BY <1>1 DEF Queued, Without
<1>4. locks => \A u \in Tabs : In(queue', u) <=> tab'[u].at \in Locking
  BY <1>2 DEF Queued
<1> QED
  BY <1>2, <1>3, <1>4 DEF Queued

\* What a tab waits for is there, or was given up with it.
LEMMA BegunSame ==
    ASSUME TypeOK, Begun, UNCHANGED req,
           \A t \in Tabs : tab'[t].at = "none" => tab[t].at = "none"
    PROVE  Begun'
  BY DEF Begun, TypeOK, RequestStates

\* Every step keeps what tabs wait for.
LEMMA WaitsStep == TypeOK /\ Waits /\ [Next]_vars => Waits'
<1> SUFFICES ASSUME TypeOK, Waits, [Next]_vars PROVE Waits'
  OBVIOUS
<1> USE RefreshConstants
<1>0. /\ Called /\ Queued /\ Begun
      /\ \A c \in Calls : call[c].tab # None => call[c].tab \in Tabs
  BY DEF Waits, TypeOK, CallStates
<1>1. ASSUME UNCHANGED <<locks, queue, call>>, \A t \in Tabs : tab'[t].at = tab[t].at
      PROVE  Called' /\ Queued'
  <2>1. Queued'
    BY <1>0, <1>1, QueuedSame
  <2>2. Called'
    BY <1>0, <1>1 DEF Called, Active, Working
  <2> QED
    BY <2>1, <2>2
<1>2. ASSUME NEW r \in Requests, NEW t \in Tabs, Send(r, t)
      PROVE  Waits'
  <2>1. UNCHANGED <<locks, queue, call, tab>>
    BY <1>2 DEF Send
  <2>2. \A x \in Requests : req'[x].at = "refreshing" => req'[x] = req[x]
    BY <1>2 DEF Send, TypeOK, NoRequest
  <2> QED
    BY <1>0, <1>1, <2>1, <2>2 DEF Waits, Begun
<1>3. ASSUME NEW r \in Requests, Accepted(r)
      PROVE  Waits'
  <2>1. UNCHANGED <<locks, queue, call, tab>>
    BY <1>3 DEF Accepted
  <2>2. \A x \in Requests : req'[x].at = "refreshing" => req'[x] = req[x]
    BY <1>3 DEF Accepted, TypeOK, RequestStates
  <2> QED
    BY <1>0, <1>1, <2>1, <2>2 DEF Waits, Begun
<1>4. ASSUME NEW r \in Requests, Unauthorized(r)
      PROVE  Waits'
  <2>1. PICK t \in Tabs : t = req[r].tab
    BY <1>4 DEF Unauthorized, TypeOK, RequestStates
  <2>2. UNCHANGED <<locks, call>> /\ \A u \in Tabs \ {t} : tab'[u] = tab[u]
    BY <1>4, <2>1 DEF Unauthorized, TypeOK
  <2>3. CASE req[r].retried
    <3>1. /\ UNCHANGED <<tab, queue>>
          /\ req' = [req EXCEPT ![r].at = "rejected"] \/ req' = [req EXCEPT ![r].at = "signedOut"]
      BY <1>4, <2>3 DEF Unauthorized
    <3>2. \A x \in Requests : req'[x].at = "refreshing" => req'[x] = req[x]
      BY <3>1 DEF TypeOK, RequestStates
    <3> QED
      BY <1>0, <1>1, <2>2, <3>1, <3>2 DEF Waits, Begun
  <2>4. CASE ~req[r].retried
    <3>1. /\ req' = [req EXCEPT ![r].at = "refreshing", ![r].retried = TRUE]
          /\ \/ tab[t].at # "none" /\ UNCHANGED <<tab, queue>>
             \/ /\ tab[t].at = "none"
                /\ tab' = [tab EXCEPT ![t] = [at |-> "queued", before |-> stored.refresh, token |-> 0]]
                /\ queue' = IF locks THEN Append(queue, t) ELSE queue
      BY <1>4, <2>1, <2>4 DEF Unauthorized
    <3>2. \A u \in Tabs : tab'[u].at = "none" => tab[u].at = "none"
      BY <2>2, <3>1 DEF TypeOK
    <3>3. tab'[t].at # "none"
      BY <3>1 DEF TypeOK
    <3>4. /\ \A x \in Requests \ {r} : req'[x] = req[x]
          /\ req'[r].tab = t
      BY <2>1, <3>1 DEF TypeOK, RequestStates
    <3>5. \A x \in Requests \ {r} : req[x].at = "refreshing" => req[x].tab \in Tabs
      BY DEF TypeOK, RequestStates
    <3>6. Begun'
      BY <1>0, <3>2, <3>3, <3>4, <3>5 DEF Begun
    <3>7. CASE UNCHANGED <<tab, queue>>
      BY <1>1, <2>2, <3>6, <3>7 DEF Waits
    <3>8. CASE /\ tab[t].at = "none"
               /\ tab' = [tab EXCEPT ![t] = [at |-> "queued", before |-> stored.refresh, token |-> 0]]
               /\ queue' = IF locks THEN Append(queue, t) ELSE queue
      <4>1. tab'[t].at = "queued"
        BY <3>8 DEF TypeOK
      <4>2. \A u \in Tabs : tab'[u].at = "posting" <=> tab[u].at = "posting"
        BY <2>2, <3>8, <4>1
      <4>3. Called'
        <5> DEFINE T == {}
        <5>1. T \in SUBSET Tabs /\ None \notin T
              /\ \A u \in Tabs : tab'[u].at = "posting" <=> tab[u].at = "posting" /\ u \notin T
          BY <4>2
        <5>2. /\ \A c \in Calls : call'[c].tab = IF call[c].tab \in T THEN None ELSE call[c].tab
              /\ \A c \in Calls : Active(c) /\ call'[c].tab # None => Active(c)'
          BY <2>2 DEF Active, Working
        <5> HIDE DEF T
        <5> QED
          BY <1>0, <5>1, <5>2, CalledGoes
      <4>4. Queued'
        <5>1. CASE ~locks
          BY <1>0, <2>2, <3>8, <5>1 DEF Queued
        <5>2. CASE locks
          <6>1. queue \in Seq(Tabs) /\ Distinct(queue) /\ ~In(queue, t)
            BY <1>0, <3>8, <5>2 DEF TypeOK, Queued, Locking
          <6>2. /\ Distinct(queue')
                /\ \A u \in Tabs : In(queue', u) <=> In(queue, u) \/ u = t
            BY <3>8, <5>2, <6>1, AppendAdds
          <6>3. \A u \in Tabs : In(queue', u) <=> tab'[u].at \in Locking
            BY <1>0, <2>2, <4>1, <5>2, <6>2 DEF Queued, Locking
          <6> QED
            BY <2>2, <5>2, <6>2, <6>3 DEF Queued
        <5> QED
          BY <5>1, <5>2
      <4> QED
        BY <3>6, <4>3, <4>4 DEF Waits
    <3> QED
      BY <3>1, <3>7, <3>8
  <2> QED
    BY <2>3, <2>4
<1>5. ASSUME NEW t \in Tabs, Enter(t)
      PROVE  Waits'
  <2>1. tab[t].at = "queued" /\ UNCHANGED <<locks, req>>
    BY <1>5 DEF Enter, MayEnter
  <2>2. CASE Unlock(t) /\ UNCHANGED call
    <3>1. /\ tab'[t].at \in {"refreshed", "failed"}
          /\ \A u \in Tabs \ {t} : tab'[u] = tab[u]
      <4>1. CASE tab' = [tab EXCEPT ![t].at = "refreshed", ![t].token = stored.token]
        BY <4>1 DEF TypeOK, TabStates
      <4>2. CASE tab' = [tab EXCEPT ![t].at = "failed"]
        BY <4>2 DEF TypeOK, TabStates
      <4>3. CASE Starts("finding", t, stored.refresh)
        <5>1. PICK c \in Calls :
                /\ call[c].at = "none"
                /\ call' = [call EXCEPT ![c] = [at |-> "finding", tab |-> t, refresh |-> stored.refresh, pair |-> 0]]
          BY <4>3, StartsCall
        <5> QED
          BY <2>2, <5>1 DEF TypeOK
      <4> QED
        BY <1>5, <4>1, <4>2, <4>3 DEF Enter
    <3>2. Queued'
      BY <1>0, <2>1, <2>2, <3>1, QueuedLeft DEF Locking
    <3>3. Begun'
      BY <1>0, <2>1, <3>1, BegunSame
    <3>4. Called'
      <4>1. \A u \in Tabs : tab'[u].at = "posting" <=> tab[u].at = "posting"
        BY <2>1, <3>1
      <4>2. \A c \in Calls : call'[c].tab # None => tab'[call'[c].tab].at = "posting"
        BY <1>0, <2>2, <4>1 DEF Called
      <4> QED
        BY <1>0, <2>2, <4>1, <4>2 DEF Called, Active, Working
    <3> QED
      BY <3>2, <3>3, <3>4 DEF Waits
  <2>3. CASE /\ tab' = [tab EXCEPT ![t].at = "posting"]
             /\ Starts("finding", t, stored.refresh)
             /\ UNCHANGED queue
    <3>1. PICK c \in Calls :
            /\ call[c].at = "none"
            /\ call' = [call EXCEPT ![c] = [at |-> "finding", tab |-> t, refresh |-> stored.refresh, pair |-> 0]]
      BY <2>3, StartsCall
    <3>2. /\ tab'[t].at = "posting" /\ \A u \in Tabs \ {t} : tab'[u] = tab[u]
          /\ call'[c].at = "finding" /\ call'[c].tab = t
          /\ \A d \in Calls \ {c} : call'[d] = call[d]
      BY <2>3, <3>1 DEF TypeOK, TabStates
    <3>3. \A d \in Calls : call[d].tab # t
      BY <1>0, <2>1 DEF Called
    <3>4. call[c].tab = None
      BY <1>0, <3>1 DEF Called, Active, Working
    <3>5. ASSUME NEW d \in Calls, call'[d].tab # None
          PROVE  Active(d)' /\ tab'[call'[d].tab].at = "posting"
      BY <1>0, <3>2, <3>5 DEF Called, Active, Working
    <3>6. \A d, e \in Calls : call'[d].tab = call'[e].tab /\ call'[d].tab # None => d = e
      BY <1>0, <3>2, <3>3 DEF Called
    <3>7. ASSUME NEW u \in Tabs, tab'[u].at = "posting"
          PROVE  \E d \in Calls : call'[d].tab = u
      <4>1. CASE u = t
        BY <3>2, <4>1
      <4>2. CASE u # t
        <5>1. PICK d \in Calls : call[d].tab = u
          BY <1>0, <3>2, <3>7, <4>2 DEF Called
        <5>2. d # c
          BY <3>4, <5>1
        <5> QED
          BY <3>2, <5>1, <5>2
      <4> QED
        BY <4>1, <4>2
    <3>8. Called'
      BY <3>5, <3>6, <3>7 DEF Called
    <3>9. Queued'
      BY <1>0, <2>1, <2>3, <3>2, QueuedSame DEF Locking
    <3>10. Begun'
      BY <1>0, <2>1, <3>2, BegunSame
    <3> QED
      BY <3>8, <3>9, <3>10 DEF Waits
  <2> QED
    BY <1>5, <2>2, <2>3 DEF Enter
<1>6. ASSUME NEW t \in Tabs, Retry(t) \/ GiveUp(t)
      PROVE  Waits'
  <2>1. /\ tab[t].at \in {"refreshed", "failed"} /\ tab' = [tab EXCEPT ![t] = NoTab]
        /\ UNCHANGED <<locks, queue, call>>
    BY <1>6 DEF Retry, GiveUp, Again
  <2>2. tab'[t].at = "none" /\ \A u \in Tabs \ {t} : tab'[u] = tab[u]
    BY <2>1 DEF TypeOK, NoTab
  <2>3. Queued'
    BY <1>0, <2>1, <2>2, QueuedSame DEF Locking
  <2>4. Called'
    <3>1. \A u \in Tabs : tab'[u].at = "posting" <=> tab[u].at = "posting"
      BY <2>1, <2>2
    <3>2. \A c \in Calls : call'[c].tab # None => tab'[call'[c].tab].at = "posting"
      BY <1>0, <2>1, <3>1 DEF Called
    <3> QED
      BY <1>0, <2>1, <3>1, <3>2 DEF Called, Active, Working
  <2>5. ASSUME NEW x \in Requests, req'[x].at = "refreshing"
        PROVE  req'[x] = req[x] /\ req[x].tab # t
    <3>1. CASE Retry(t)
      BY <2>5, <3>1 DEF Retry, Again, Waiting, TypeOK, RequestStates
    <3>2. CASE GiveUp(t) /\ Rescued(t)
      <4>1. req' = [r \in Requests |->
                      IF r \in Waiting(t)
                        THEN [req[r] EXCEPT !.at = "sent", !.token = stored.token]
                        ELSE req[r]]
        BY <3>2 DEF GiveUp, Again
      <4>2. x \notin Waiting(t)
        BY <2>5, <4>1 DEF TypeOK, RequestStates
      <4> QED
        BY <2>5, <4>1, <4>2 DEF Waiting
    <3>3. CASE GiveUp(t) /\ ~Rescued(t)
      BY <2>5, <3>3 DEF GiveUp, Waiting, Pending, TypeOK, RequestStates
    <3> QED
      BY <1>6, <3>1, <3>2, <3>3
  <2>6. \A x \in Requests : req[x].at = "refreshing" => req[x].tab \in Tabs
    BY DEF TypeOK, RequestStates
  <2>7. Begun'
    BY <1>0, <2>2, <2>5, <2>6 DEF Begun
  <2> QED
    BY <2>3, <2>4, <2>7 DEF Waits
<1>7. ASSUME NEW t \in Tabs, CloseTab(t)
      PROVE  Waits'
  <2>1. tab'[t].at = "none" /\ (\A u \in Tabs \ {t} : tab'[u] = tab[u]) /\ UNCHANGED locks
    BY <1>7 DEF CloseTab, TypeOK, NoTab
  <2>2. Queued'
    BY <1>0, <1>7, <2>1, QueuedLeft DEF CloseTab, Locking
  <2>3. \A c \in Calls : call'[c].tab = (IF call[c].tab \in {t} THEN None ELSE call[c].tab)
                           /\ call'[c].at = call[c].at
    BY <1>7 DEF CloseTab, TypeOK, CallStates
  <2>4. Called'
    <3>1. \A c \in Calls : Active(c) /\ call'[c].tab # None => Active(c)'
      BY <2>3 DEF Active, Working
    <3>2. \A u \in Tabs : tab'[u].at = "posting" <=> tab[u].at = "posting" /\ u \notin {t}
      BY <2>1
    <3> QED
      BY <1>0, <2>3, <3>1, <3>2, CalledGoes
  <2>5. ASSUME NEW x \in Requests, req'[x].at = "refreshing"
        PROVE  req'[x] = req[x] /\ req[x].tab # t /\ req[x].tab \in Tabs
    BY <1>7, <2>5 DEF CloseTab, Leaves, Pending, TypeOK, RequestStates
  <2>6. Begun'
    BY <1>0, <2>1, <2>5 DEF Begun
  <2> QED
    BY <2>2, <2>4, <2>6 DEF Waits
<1>8. ASSUME NEW c \in Calls,
             Find(c) \/ Revoke(c) \/ Issue(c) \/ RevokeAtLogout(c) \/ CallFails(c)
      PROVE  Waits'
  <2>1. UNCHANGED <<locks, queue, tab, req>>
    BY <1>8 DEF Find, Revoke, Issue, RevokeAtLogout, CallFails
  <2>2. call[c].at = "loggingOut" => call[c].tab = None
    BY <1>0 DEF Called, Active, Working
  <2>3. /\ \A d \in Calls \ {c} : call'[d] = call[d]
        /\ call'[c].tab = call[c].tab
        /\ Active(c) => Active(c)'
    <3>1. CASE Find(c)
      BY <3>1 DEF Find, TypeOK, CallStates, Active, Working
    <3>2. CASE Revoke(c)
      BY <3>2 DEF Revoke, TypeOK, CallStates, Active, Working
    <3>3. CASE Issue(c)
      BY <3>3 DEF Issue, TypeOK, CallStates, Active, Working
    <3>4. CASE RevokeAtLogout(c)
      BY <2>2, <3>4 DEF RevokeAtLogout, TypeOK, CallStates, Active, Working, NoCall
    <3>5. CASE CallFails(c)
      BY <2>2, <3>5 DEF CallFails, TypeOK, CallStates, Active, Working, NoCall
    <3> QED
      BY <1>8, <3>1, <3>2, <3>3, <3>4, <3>5
  <2>4. Called'
    <3>1. \A d \in Calls : call'[d].tab = call[d].tab /\ (Active(d) => Active(d)')
      BY <2>3 DEF Active, Working
    <3> QED
      BY <1>0, <2>1, <3>1 DEF Called
  <2> QED
    BY <1>0, <2>1, <2>4 DEF Waits, Queued, Begun
<1>9. ASSUME NEW c \in Calls, Arrives(c) \/ Refused(c) \/ ConnectionLost(c)
      PROVE  Waits'
  <2>1. UNCHANGED <<locks, req>> /\ call'[c].tab = None /\ \A d \in Calls \ {c} : call'[d] = call[d]
    BY <1>9 DEF Arrives, Refused, ConnectionLost, TypeOK, CallStates, NoCall
  <2>2. CASE call[c].tab = None
    <3>1. UNCHANGED <<tab, queue>>
      BY <1>9, <2>2 DEF Arrives, Refused, ConnectionLost
    <3>2. Called'
      BY <1>0, <2>1, <2>2, <3>1 DEF Called, Active, Working
    <3> QED
      BY <1>0, <2>1, <3>1, <3>2 DEF Waits, Queued, Begun
  <2>3. CASE call[c].tab # None
    <3>1. PICK t \in Tabs : t = call[c].tab
      BY <1>0, <2>3
    <3>2. tab[t].at = "posting" /\ \A d \in Calls \ {c} : call[d].tab # t
      BY <1>0, <2>3, <3>1 DEF Called
    <3>3. /\ tab'[t].at \in {"refreshed", "failed"}
          /\ \A u \in Tabs \ {t} : tab'[u] = tab[u]
          /\ Unlock(t)
      <4>1. CASE Arrives(c)
        BY <2>3, <3>1, <4>1 DEF Arrives, TypeOK, TabStates
      <4>2. CASE Refused(c)
        BY <2>3, <3>1, <4>2 DEF Refused, TypeOK, TabStates
      <4>3. CASE ConnectionLost(c)
        BY <2>3, <3>1, <4>3 DEF ConnectionLost, TypeOK, TabStates
      <4> QED
        BY <1>9, <4>1, <4>2, <4>3
    <3>4. Queued'
      BY <1>0, <2>1, <3>3, QueuedLeft DEF Locking
    <3>5. Called'
      <4>1. \A d \in Calls : call'[d].tab = IF call[d].tab \in {t} THEN None ELSE call[d].tab
        BY <2>1, <3>1, <3>2
      <4>2. \A d \in Calls : Active(d) /\ call'[d].tab # None => Active(d)'
        BY <2>1 DEF Active, Working
      <4>3. \A u \in Tabs : tab'[u].at = "posting" <=> tab[u].at = "posting" /\ u \notin {t}
        BY <3>3
      <4> QED
        BY <1>0, <4>1, <4>2, <4>3, CalledGoes
    <3>6. Begun'
      BY <1>0, <2>1, <3>3, BegunSame
    <3> QED
      BY <3>4, <3>5, <3>6 DEF Waits
  <2> QED
    BY <2>2, <2>3
<1>10. CASE Logout
  <2>1. UNCHANGED <<locks, queue, tab, req>> /\ Starts("loggingOut", None, stored.refresh)
    BY <1>10 DEF Logout
  <2>2. PICK c \in Calls :
          /\ call[c].at = "none"
          /\ call' = [call EXCEPT ![c] = [at |-> "loggingOut", tab |-> None, refresh |-> stored.refresh, pair |-> 0]]
    BY <2>1, StartsCall
  <2>3. call[c].tab = None
    BY <1>0, <2>2 DEF Called, Active, Working
  <2>4. call'[c].tab = None /\ \A d \in Calls \ {c} : call'[d] = call[d]
    BY <2>2 DEF TypeOK
  <2>5. Called'
    BY <1>0, <2>1, <2>3, <2>4 DEF Called, Active, Working
  <2> QED
    BY <1>0, <2>1, <2>5 DEF Waits, Queued, Begun
<1>11. CASE Login \/ (\E n \in Pairs : Expire(n) \/ EndSession(n)) \/ UNCHANGED vars
  <2>1. UNCHANGED <<locks, queue, tab, call, req>>
    BY <1>11 DEF Login, Expire, EndSession, vars
  <2> QED
    BY <1>0, <1>1, <2>1 DEF Waits, Begun
<1> QED
  BY <1>2, <1>3, <1>4, <1>5, <1>6, <1>7, <1>8, <1>9, <1>10, <1>11
  DEF Next, Answers, TabSteps, CallSteps

\* Tab t goes on of itself, or the server owes it an answer.
Moving(t) ==
    \/ MayEnter(t) \/ tab[t].at \in {"refreshed", "failed"}
    \/ \E c \in Calls : call[c].tab = t /\ Active(c)

\* A request that waits for a refresh waits for its own tab to go on, or for the
\* one that has the lock.
NoDeadWait ==
    \A r \in Requests : req[r].at = "refreshing" =>
        \/ Moving(req[r].tab)
        \/ locks /\ queue # <<>> /\ Head(queue) \in Tabs /\ Moving(Head(queue))

\* For any number of tabs, requests and calls, with Web Locks or without, and
\* whatever fails: no tab waits for a lock that nobody gives up or for a call that
\* nobody makes. Settles is this and the fairness of tabs and server.
THEOREM NobodyStuck == Spec => []NoDeadWait
<1>1. Init => Waits
  <2> SUFFICES ASSUME Init PROVE Waits
    OBVIOUS
  <2>1. Called /\ Begun
    BY DEF Init, Called, Begun, NoCall, NoTab, NoRequest
  <2>2. Queued
    BY DEF Init, Queued, In, Distinct, NoTab, Locking
  <2> QED
    BY <2>1, <2>2 DEF Waits
<1>2. IInv /\ Waits => NoDeadWait
  <2> SUFFICES ASSUME IInv, Waits, NEW r \in Requests, req[r].at = "refreshing",
                      ~Moving(req[r].tab)
               PROVE  locks /\ queue # <<>> /\ Head(queue) \in Tabs /\ Moving(Head(queue))
    BY DEF NoDeadWait
  <2>1. PICK t \in Tabs : t = req[r].tab
    BY DEF IInv, TypeOK, RequestStates
  <2>2. ASSUME NEW u \in Tabs, tab[u].at = "posting"
        PROVE  Moving(u)
    BY <2>2, RefreshConstants DEF Moving, Waits, Called
  <2>3. tab[t].at = "queued"
    BY <2>1, <2>2 DEF Waits, Begun, Moving, IInv, TypeOK, TabStates
  <2>4. locks
    BY <2>1, <2>3 DEF Moving, MayEnter
  <2>5. In(queue, t) /\ queue \in Seq(Tabs)
    BY <2>3, <2>4 DEF Waits, Queued, Locking, IInv, TypeOK
  <2>6. 1 \in 1 .. Len(queue) /\ queue # <<>>
    BY <2>5 DEF In
  <2>7. PICK h \in Tabs : h = Head(queue) /\ h = queue[1]
    BY <2>5, <2>6
  <2>8. tab[h].at \in Locking
    BY <2>4, <2>6, <2>7 DEF Waits, Queued, In
  <2>9. Moving(h)
    BY <2>2, <2>4, <2>6, <2>7, <2>8 DEF Locking, Moving, MayEnter
  <2> QED
    BY <2>4, <2>6, <2>7, <2>9
<1>3. IInv => TypeOK
  BY DEF IInv
<1> QED
  BY <1>1, <1>2, <1>3, IInvAlways, WaitsStep, PTL DEF Spec
=============================================================================
