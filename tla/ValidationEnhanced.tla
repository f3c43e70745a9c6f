------------------------- MODULE ValidationEnhanced -------------------------
(***************************************************************************)
(* curl_validation_enhanced of lib/validation_enhanced.c: the request      *)
(* lifecycle that composes the global configuration, the response cache,   *)
(* the connection pool, the retry engine and the metrics buffer, run by    *)
(* several caller threads at once, together with validation_set_config,    *)
(* validation_cleanup and the passing of time.                             *)
(*                                                                         *)
(* A request r moves through pc[r]:                                        *)
(*   idle    -> arguments checked, key built, get_cached_response          *)
(*   acquire -> get_connection_from_pool (NULL: return OUT_OF_MEMORY)      *)
(*   setup   -> url, headers, options, certificate; enter the retry loop   *)
(*   perform -> iterations of validation_retry_with_backoff, then          *)
(*              record_metrics                                             *)
(*   cache   -> response code read, "success" cached on 2xx                *)
(*   release -> return_connection_to_pool, return                          *)
(* Each helper runs as one atomic step.  The source takes no lock, so two  *)
(* threads may interleave at a finer grain still; what goes wrong between *)
(* atomic helpers goes wrong a fortiori in the code.                       *)
(***************************************************************************)
EXTENDS Integers, Sequences, ConnectionPool, ResponseCache, ConfigStore

CONSTANTS
  Statuses,              \* HTTP codes the server may answer
  MaxMetrics,            \* MAX_METRICS (1000 in the source)
  ConfigWhileInFlight,   \* may validation_set_config run while requests are in flight?
  ConfigChoices,         \* the configurations callers pass to validation_set_config
  StringChoices          \* which of its string fields they pass non-NULL

ASSUME MaxMetrics \in Nat /\ ConfigWhileInFlight \in BOOLEAN
ASSUME ConfigChoices \subseteq Configs /\ StringChoices \subseteq SUBSET StringFields

VARIABLES
  pc,              \* pc[r]: where request r is in curl_validation_enhanced
  reqKey,          \* reqKey[r]: cache_key of the request in flight
  engine,          \* engine[r]: the locals of validation_retry_with_backoff
  code,            \* code[h]: CURLINFO_RESPONSE_CODE of handle h
  metrics_count

R == INSTANCE RetryBackoff WITH eng <- engine, attempts <- <<>>, sleeps <- <<>>,
                                PriorCodes <- {0}

reqVars == <<pc, reqKey, engine, code, metrics_count>>
vars == <<poolVars, cacheVars, configVars, reqVars>>

Phases == {"idle", "acquire", "setup", "perform", "cache", "release"}
NoKey == "nokey"

TypeOK ==
  /\ PoolTypeOK
  /\ CacheTypeOK
  /\ ConfigTypeOK
  /\ pc \in [Requests -> Phases]
  /\ reqKey \in [Requests -> Keys \cup {NoKey}]
  /\ code \in [Handles -> Statuses \cup {0}]
  /\ metrics_count \in 0 .. MaxMetrics

\* The retry locals of a request that is not inside the loop.
EngineIdle == R!RetryStart(0, 0)

Init ==
  /\ PoolInit
  /\ CacheInit
  /\ ConfigInit
  /\ pc = [r \in Requests |-> "idle"]
  /\ reqKey = [r \in Requests |-> NoKey]
  /\ engine = [r \in Requests |-> EngineIdle]
  /\ code = [h \in Handles |-> 0]
  /\ metrics_count = 0

Goto(r, p) == pc' = [pc EXCEPT ![r] = p]

\* The response codes curl_easy_getinfo may report for the pointer h: its
\* last response, or anything for a garbage pointer.
CodesOf(h) == IF h \in Handles THEN {code[h]} ELSE Statuses \cup {0}

(***************************************************************************)
(* Lines 300-316: the arguments are non-NULL (a NULL one returns before    *)
(* touching any state), the key "<endpoint>:<payload>" is one of Keys, and *)
(* get_cached_response decides: a hit returns CURLE_OK at once.            *)
(***************************************************************************)
Validate(r) ==
  /\ pc[r] = "idle"
  /\ \E k \in Keys :
       /\ CacheLookup(k, config.enable_caching)
       /\ reqKey' = [reqKey EXCEPT ![r] = IF answer'.hit THEN NoKey ELSE k]
       /\ Goto(r, IF answer'.hit THEN "idle" ELSE "acquire")
  /\ UNCHANGED <<poolVars, configVars, engine, code, metrics_count>>

\* Lines 319-325 with a connection.
Acquire(r) ==
  /\ pc[r] = "acquire"
  /\ GetConnection(r, config.enable_connection_pooling)
  /\ Goto(r, "setup")
  /\ UNCHANGED <<cacheVars, configVars, reqKey, engine, code, metrics_count>>

\* Lines 319-325 when curl_easy_init returns NULL: "Connection pool exhausted".
AcquireFails(r) ==
  /\ pc[r] = "acquire"
  /\ ~config.enable_connection_pooling \/ pool_size = 0
  /\ Goto(r, "idle")
  /\ reqKey' = [reqKey EXCEPT ![r] = NoKey]
  /\ UNCHANGED <<poolVars, cacheVars, configVars, engine, code,
                 metrics_count>>

(***************************************************************************)
(* Lines 327-353: the URL is built from base_url, the certificate and key *)
(* are set when configured, and validation_retry_with_backoff is entered   *)
(* with global_config.max_retries.                                         *)
(***************************************************************************)
Setup(r) ==
  /\ pc[r] = "setup"
  /\ ConfigRead
  /\ engine' = [engine EXCEPT ![r] = R!RetryStart(config.max_retries, 0)]
  /\ Goto(r, "perform")
  /\ UNCHANGED <<poolVars, cacheVars, reqKey, code, metrics_count>>

\* One loop iteration on the request's connection; the handle remembers the
\* response code.
Attempt(r) ==
  /\ pc[r] = "perform"
  /\ engine[r].pc = "loop"
  /\ engine[r].retry_count < engine[r].max
  /\ \E out \in R!PerformResults, st \in Statuses :
       LET e == R!AttemptStep(engine[r], out, st) IN
       /\ engine' = [engine EXCEPT ![r] = e]
       /\ code' = IF held[r] \in Handles THEN [code EXCEPT ![held[r]] = e.code]
                                         ELSE code
  /\ UNCHANGED <<poolVars, cacheVars, configVars, pc, reqKey, metrics_count>>

\* The while condition fails and the loop returns res.
LoopExit(r) ==
  /\ pc[r] = "perform"
  /\ engine[r].pc = "loop"
  /\ engine[r].retry_count >= engine[r].max
  /\ \E res \in R!LoopExitResults(engine[r]) :
       engine' = [engine EXCEPT ![r] = R!LoopExit(engine[r], res)]
  /\ UNCHANGED <<poolVars, cacheVars, configVars, pc, reqKey, code,
                 metrics_count>>

\* Mutant: the metric is appended without the MAX_METRICS check.
RecordMetricsUnbounded(r) ==
  /\ pc[r] = "perform"
  /\ engine[r].pc = "done"
  /\ metrics_count' = IF config.enable_metrics THEN metrics_count + 1 ELSE metrics_count
  /\ Goto(r, "cache")
  /\ UNCHANGED <<poolVars, cacheVars, configVars, reqKey, engine, code>>

\* Lines 355-358 and record_metrics: one metric while enabled and not full.
RecordMetrics(r) ==
  /\ pc[r] = "perform"
  /\ engine[r].pc = "done"
  /\ metrics_count' = IF config.enable_metrics /\ metrics_count < MaxMetrics
                        THEN metrics_count + 1 ELSE metrics_count
  /\ Goto(r, "cache")
  /\ UNCHANGED <<poolVars, cacheVars, configVars, reqKey, engine, code>>

\* Mutant: a failed request returns its error before
\* return_connection_to_pool.
CacheResultSkipRelease(r) ==
  /\ pc[r] = "cache"
  /\ \E c \in CodesOf(held[r]) :
       IF engine[r].res = R!CURLE_OK /\ R!Is2xx(c)
         THEN CacheStore(reqKey[r], config.enable_caching)
         ELSE UNCHANGED cacheVars
  /\ Goto(r, IF engine[r].res = R!CURLE_OK THEN "release" ELSE "idle")
  /\ UNCHANGED <<poolVars, configVars, reqKey, engine, code, metrics_count>>

(***************************************************************************)
(* Lines 360-378: on CURLE_OK the response code is read from the          *)
(* connection and a 2xx caches "success" under the key; anything else    *)
(* fills in the error.                                                     *)
(***************************************************************************)
CacheResult(r) ==
  /\ pc[r] = "cache"
  /\ \E c \in CodesOf(held[r]) :
       IF engine[r].res = R!CURLE_OK /\ R!Is2xx(c)
         THEN CacheStore(reqKey[r], config.enable_caching)
         ELSE UNCHANGED cacheVars
  /\ Goto(r, "release")
  /\ UNCHANGED <<poolVars, configVars, reqKey, engine, code, metrics_count>>

\* Lines 380-384: return_connection_to_pool, then return.
Release(r) ==
  /\ pc[r] = "release"
  /\ ReturnConnection(r, config.enable_connection_pooling)
  /\ Goto(r, "idle")
  /\ reqKey' = [reqKey EXCEPT ![r] = NoKey]
  /\ engine' = [engine EXCEPT ![r] = EngineIdle]
  /\ UNCHANGED <<cacheVars, configVars, code, metrics_count>>

AllIdle == \A r \in Requests : pc[r] = "idle"

\* validation_set_config, from a thread of its own when ConfigWhileInFlight.
Reconfigure ==
  /\ ConfigWhileInFlight \/ AllIdle
  /\ \E c \in ConfigChoices, given \in StringChoices : SetConfig(c, given)
  /\ UNCHANGED <<poolVars, cacheVars, reqVars>>

\* validation_cleanup; the spec leaves it undefined concurrently with validate.
Teardown ==
  /\ AllIdle
  /\ CacheClear
  /\ PoolCleanup
  /\ ConfigCleanup
  /\ metrics_count' = 0
  /\ UNCHANGED <<pc, reqKey, engine, code>>

Clock ==
  /\ Tick
  /\ UNCHANGED <<poolVars, configVars, reqVars>>

\* Every step of a request after it has started.
InFlight(r) ==
  \/ Acquire(r) \/ AcquireFails(r) \/ Setup(r) \/ Attempt(r) \/ LoopExit(r)
  \/ RecordMetrics(r) \/ CacheResult(r) \/ Release(r)

Next ==
  \/ \E r \in Requests : Validate(r) \/ InFlight(r)
  \/ Reconfigure
  \/ Teardown
  \/ Clock

(***************************************************************************)
(* A caller thread that has entered curl_validation_enhanced keeps being   *)
(* scheduled until it returns: the function blocks only in                 *)
(* curl_easy_perform and sleep, both of which return.  Starting a new      *)
(* request, reconfiguring, tearing down and time passing are not forced.   *)
(***************************************************************************)
Fairness == \A r \in Requests : WF_vars(InFlight(r))

Spec == Init /\ [][Next]_vars /\ Fairness

\* The state without the history variables that only the component runs'
\* properties read (last lookup answer, store times, recency, faults).
RequestView == <<poolVars, cache, now, config, strs, reqVars>>

-----------------------------------------------------------------------------
(***************************************************************************)
(* Properties                                                              *)
(***************************************************************************)

(* Spec 4.6 step 8: a connection a request obtained is always given back   *)
(* to return_connection_to_pool, on the success and every error path.      *)
ConnectionReturned ==
  \A r \in Requests : (held[r] # NoHandle) ~> (held[r] = NoHandle)
=============================================================================
