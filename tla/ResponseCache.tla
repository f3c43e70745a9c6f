---------------------------- MODULE ResponseCache ----------------------------
(***************************************************************************)
(* The response cache of lib/validation_enhanced.c: the singly linked list *)
(* cache_head of cache_entry_t {key, response, expiry}, most recently used *)
(* first, get_cached_response (hit moves to front, expired entry removed), *)
(* cache_response (drop the tail when 100 entries are counted, push the    *)
(* new entry at the head) and the cache half of validation_cleanup.        *)
(*                                                                         *)
(* The list is a sequence, head first.  The response text is always the   *)
(* literal "success" in curl_validation_enhanced, so an entry keeps only   *)
(* its key and expiry.  time(NULL) is the variable now; enable_caching is  *)
(* read by each call and passed as a parameter.                            *)
(***************************************************************************)
EXTENDS Integers, Sequences, SequencesExt

CONSTANTS
  Keys,        \* cache keys "<endpoint>:<payload>"
  Capacity,    \* the 100 of cache_response
  TTL,         \* CACHE_TTL (300 s)
  MaxTime      \* bound on time(NULL) in the model

ASSUME Capacity \in Nat \ {0}
ASSUME TTL \in Nat \ {0} /\ MaxTime \in Nat

VARIABLES
  cache,       \* the list at cache_head
  now,         \* time(NULL)
  answer,      \* what the last get_cached_response returned
  stores,      \* history: stores[k] = the times cache_response stored k
  recency      \* history: keys by most recent store or hit, most recent first

cacheVars == <<cache, now, answer, stores, recency>>

Entry == [key : Keys, expiry : 0 .. MaxTime + TTL]
NoAnswer == [key |-> "none", hit |-> FALSE, at |-> 0]

CacheTypeOK ==
  /\ cache \in BoundedSeq(Entry, Capacity)
  /\ now \in 0 .. MaxTime
  /\ answer \in [key : Keys, hit : BOOLEAN, at : 0 .. MaxTime] \cup {NoAnswer}
  /\ stores \in [Keys -> SUBSET (0 .. MaxTime)]
  /\ recency \in Seq(Keys)

CacheInit ==
  /\ cache = <<>>
  /\ now = 0
  /\ answer = NoAnswer
  /\ stores = [k \in Keys |-> {}]
  /\ recency = <<>>

\* k moved to the front of the recency history.
Touch(k) == <<k>> \o Remove(recency, k)

\* Position of the first entry for k in the list, 0 if none.
FirstIndex(c, k) == SelectInSeq(c, LAMBDA e : e.key = k)

\* Position of k in the recency history.
RecencyRank(k) == SelectInSeq(recency, LAMBDA x : x = k)

\* Mutant: an entry still counts as fresh at the second it expires.
CacheLookupInclusive(k, caching) ==
  LET i == FirstIndex(cache, k)
      fresh == i > 0 /\ cache[i].expiry >= now
  IN
  /\ cache' = CASE ~caching \/ i = 0 -> cache
                [] fresh             -> <<cache[i]>> \o RemoveAt(cache, i)
                [] OTHER             -> RemoveAt(cache, i)
  /\ answer' = [key |-> k, hit |-> caching /\ fresh, at |-> now]
  /\ recency' = IF caching /\ fresh THEN Touch(k) ELSE recency
  /\ UNCHANGED <<now, stores>>

\* Mutant: a hit is answered in place, without moving it to the head.
CacheLookupNoMove(k, caching) ==
  LET i == FirstIndex(cache, k)
      fresh == i > 0 /\ cache[i].expiry > now
  IN
  /\ cache' = CASE ~caching \/ i = 0 -> cache
                [] fresh             -> cache
                [] OTHER             -> RemoveAt(cache, i)
  /\ answer' = [key |-> k, hit |-> caching /\ fresh, at |-> now]
  /\ recency' = IF caching /\ fresh THEN Touch(k) ELSE recency
  /\ UNCHANGED <<now, stores>>

\* Mutant: a hit is unlinked from the list instead of moved to the head.
CacheLookupUnlinkHit(k, caching) ==
  LET i == FirstIndex(cache, k)
      fresh == i > 0 /\ cache[i].expiry > now
  IN
  /\ cache' = CASE ~caching \/ i = 0 -> cache
                [] OTHER             -> RemoveAt(cache, i)
  /\ answer' = [key |-> k, hit |-> caching /\ fresh, at |-> now]
  /\ recency' = IF caching /\ fresh THEN Touch(k) ELSE recency
  /\ UNCHANGED <<now, stores>>

(***************************************************************************)
(* get_cached_response(key): a miss when caching is off; otherwise the     *)
(* first entry with the key is moved to the head and answered if its       *)
(* expiry is after now, and unlinked and freed (a miss) if not.            *)
(***************************************************************************)
CacheLookup(k, caching) ==
  LET i == FirstIndex(cache, k)
      fresh == i > 0 /\ cache[i].expiry > now
  IN
  /\ cache' = CASE ~caching \/ i = 0 -> cache
                [] fresh             -> <<cache[i]>> \o RemoveAt(cache, i)
                [] OTHER             -> RemoveAt(cache, i)
  /\ answer' = [key |-> k, hit |-> caching /\ fresh, at |-> now]
  /\ recency' = IF caching /\ fresh THEN Touch(k) ELSE recency
  /\ UNCHANGED <<now, stores>>

\* Mutant: the tail is dropped only once more than Capacity entries are
\* counted.
CacheStoreOffByOne(k, caching) ==
  LET kept == IF Len(cache) > Capacity /\ Len(cache) >= 2 THEN Front(cache) ELSE cache
  IN
  /\ IF caching
       THEN /\ cache' = <<[key |-> k, expiry |-> now + TTL]>> \o kept
            /\ stores' = [stores EXCEPT ![k] = @ \cup {now}]
            /\ recency' = Touch(k)
       ELSE UNCHANGED <<cache, stores, recency>>
  /\ UNCHANGED <<now, answer>>

(***************************************************************************)
(* cache_response(key, response): nothing when caching is off; otherwise  *)
(* count the list up to Capacity and, if Capacity entries are counted,     *)
(* unlink the last entry (the code's 'if (prev)' skips this for a one-entry*)
(* list), then push {key, now + TTL} at the head.  An existing entry for  *)
(* the key is not looked for.                                              *)
(***************************************************************************)
CacheStore(k, caching) ==
  LET kept == IF Len(cache) >= Capacity /\ Len(cache) >= 2 THEN Front(cache) ELSE cache
  IN
  /\ IF caching
       THEN /\ cache' = <<[key |-> k, expiry |-> now + TTL]>> \o kept
            /\ stores' = [stores EXCEPT ![k] = @ \cup {now}]
            /\ recency' = Touch(k)
       ELSE UNCHANGED <<cache, stores, recency>>
  /\ UNCHANGED <<now, answer>>

\* The cache half of validation_cleanup: every entry freed, cache_head = NULL.
CacheClear ==
  /\ cache' = <<>>
  /\ UNCHANGED <<now, answer, stores, recency>>

\* The wall clock advances by one second.
Tick ==
  /\ now < MaxTime
  /\ now' = now + 1
  /\ UNCHANGED <<cache, answer, stores, recency>>

CacheNext ==
  \/ \E k \in Keys, c \in BOOLEAN : CacheLookup(k, c)
  \/ \E k \in Keys, c \in BOOLEAN : CacheStore(k, c)
  \/ CacheClear
  \/ Tick

CacheSpec == CacheInit /\ [][CacheNext]_cacheVars

-----------------------------------------------------------------------------
(***************************************************************************)
(* Properties                                                              *)
(***************************************************************************)

(* Spec 8 (TTL): get_cached_response answers a hit for k only while a      *)
(* cache_response of k made less than TTL seconds earlier exists; once the *)
(* newest store of k is TTL old, every lookup of k misses, even if no      *)
(* eviction ever removed it.                                               *)
HitIsFresh ==
  answer.hit => \E t \in stores[answer.key] : answer.at < t + TTL

\* The keys whose first entry, the one get_cached_response finds, has not
\* expired.
FreshKeys == {k \in Keys : FirstIndex(cache, k) > 0
                           /\ cache[FirstIndex(cache, k)].expiry > now}

\* Position i holds the entry get_cached_response would answer a hit from.
Answerable(i) == cache[i].key \in FreshKeys /\ i = FirstIndex(cache, cache[i].key)

(* LRU order: the entries a lookup can hit, read head to tail, are ordered *)
(* by the most recent store or hit of their key, so that moving a hit to   *)
(* the head (157-161) and pushing a store at the head keep the most        *)
(* recently used fresh response ahead of every older one.  An expired      *)
(* entry may sit anywhere: a lookup that unlinks an expired head (165-172) *)
(* can leave an older, also expired, duplicate of its key behind it.     *)
RecencyOrdered ==
  \A i, j \in 1 .. Len(cache) :
    i < j /\ Answerable(i) /\ Answerable(j)
      => RecencyRank(cache[i].key) < RecencyRank(cache[j].key)

(***************************************************************************)
(* Refinement.  The first entry of a key is the one get_cached_response   *)
(* finds; the keys whose first entry has not expired are the fresh keys    *)
(* of the abstract cache, with that entry's expiry.                        *)
(***************************************************************************)
FreshExpiry == [k \in FreshKeys |-> cache[FirstIndex(cache, k)].expiry]

Abstract == INSTANCE TTLCache WITH exp <- FreshExpiry

(* The linked list implements the TTL cache of spec 8: every lookup,       *)
(* store, cleanup and clock tick of the code is a step of TTLCache, so a   *)
(* hit is always a fresh key, a store makes its key fresh for exactly TTL  *)
(* seconds and evicts at most one other key, and no lookup, of its own or *)
(* of another key, ever drops a response that is still fresh.             *)
CacheRefinesTTLCache == Abstract!Spec
=============================================================================
