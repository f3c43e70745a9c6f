------------------------------ MODULE TTLCache ------------------------------
(***************************************************************************)
(* What the response cache of lib/validation_enhanced.c promises (spec 8), *)
(* free of its linked list: a map from keys to the expiry of their fresh   *)
(* response.  A store makes the key fresh for TTL seconds and may evict at *)
(* most one other key to stay within capacity; a lookup answers a hit      *)
(* exactly when caching is on and the key is fresh; time passing expires   *)
(* keys; cleanup empties the map.  Nothing else loses a fresh response.   *)
(***************************************************************************)
EXTENDS Integers, FiniteSets, Functions

CONSTANTS Keys, Capacity, TTL, MaxTime

VARIABLES
  exp,      \* exp[k]: until when k's cached response is fresh (keys fresh now)
  now,      \* time(NULL)
  answer    \* what the last lookup returned

vars == <<exp, now, answer>>

NoAnswer == [key |-> "none", hit |-> FALSE, at |-> 0]

Init ==
  /\ exp = [k \in {} |-> 0]
  /\ now = 0
  /\ answer = NoAnswer

\* A hit exactly for a fresh key while caching is on; the map is unchanged.
Lookup(k, caching) ==
  /\ answer' = [key |-> k, hit |-> caching /\ k \in DOMAIN exp, at |-> now]
  /\ UNCHANGED <<exp, now>>

\* k fresh for TTL seconds, at most one other key evicted, within capacity.
Store(k, caching) ==
  /\ IF caching
       THEN \E evicted \in SUBSET (DOMAIN exp \ {k}) :
              /\ Cardinality(evicted) <= 1
              /\ exp' = [j \in (DOMAIN exp \ evicted) \cup {k} |->
                           IF j = k THEN now + TTL ELSE exp[j]]
              /\ Cardinality(DOMAIN exp') <= Capacity
       ELSE UNCHANGED exp
  /\ UNCHANGED <<now, answer>>

Clear ==
  /\ exp' = [k \in {} |-> 0]
  /\ UNCHANGED <<now, answer>>

\* A second passes; keys whose expiry has come are no longer fresh.
Tick ==
  /\ now < MaxTime
  /\ now' = now + 1
  /\ exp' = Restrict(exp, {k \in DOMAIN exp : exp[k] > now + 1})
  /\ UNCHANGED answer

Next ==
  \/ \E k \in Keys, c \in BOOLEAN : Lookup(k, c) \/ Store(k, c)
  \/ Clear
  \/ Tick

Spec == Init /\ [][Next]_vars
=============================================================================
