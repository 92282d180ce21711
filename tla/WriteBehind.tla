---------------------------- MODULE WriteBehind ----------------------------
(***************************************************************************)
(* What a write-behind store of versioned values promises: it serves every *)
(* value from memory, and what it stores for a key only ever moves forward, *)
(* to a value the key has had. A reload starts again from what is stored.  *)
(***************************************************************************)
EXTENDS Naturals

CONSTANT Keys

VARIABLES
    cache,     \* cache[k]: version of k in memory
    stored     \* stored[k]: version of k that would survive a restart

Init ==
    /\ cache = [k \in Keys |-> 0]
    /\ stored = [k \in Keys |-> 0]

Set(k) ==
    /\ cache' = [cache EXCEPT ![k] = @ + 1]
    /\ UNCHANGED stored

Store ==
    /\ stored' \in [Keys -> Nat]
    /\ \A k \in Keys : stored[k] <= stored'[k] /\ stored'[k] <= cache[k]
    /\ UNCHANGED cache

Reload ==
    /\ cache' = stored
    /\ UNCHANGED stored

Next == (\E k \in Keys : Set(k)) \/ Store \/ Reload

Spec == Init /\ [][Next]_<<cache, stored>>
=============================================================================
