# TLA+ models of the validation request layer

This directory holds TLA+ models of the validation code in `src/lib/`, with
the TLC configurations that check them. The core is the resilient request
layer in `validation_enhanced.c`. It has a connection pool, a response cache
with TTL and LRU eviction, a retry/backoff engine, a metrics buffer and a
global configuration. `curl_validation_enhanced` ties them together for every
request, and any number of caller threads may run it at once.

Beside it are four more parts:

- the per-handle easy API of `validation.c`;
- the JSON payload builders of `validation_json.c` and `validation_payroll_ceo.c`;
- the learning engine of `ai_learning_engine.c`, with its training loop and model file;
- the AI worker and team manager of the training program `src/training/09-nvidia-technology/ai-workers.c`;
- the placeholders and tools listed below.

`spec.md` describes the intended behaviour. The models follow the C source
line by line. Where the two disagree, a violation run shows the difference.

## Inventory of the system

| Part | Source | Shared state | Modelled by |
|---|---|---|---|
| Connection pool | `validation_enhanced.c:40-45, 88-93, 119-143, 400-406` | `connection_pool` (array, `pool_size`, `current_index`) | `ConnectionPool`, checked against `IdlePool` |
| Response cache | `:47-53, 95-97, 146-216, 389-398` | `cache_head` list | `ResponseCache`, checked against `TTLCache` |
| Retry/backoff engine | `:219-260` | locals of one call, response code of the handle | `RetryBackoff` |
| Configuration | `:64-85, 276-296, 327-346, 413-416` | `global_config` and its three strings | `ConfigStore` |
| Metrics | `:99-102, 263-273, 408-411, 420-434` | `metrics_buffer`, `metrics_count` | `Metrics` (per statement, threads), counter in `ValidationEnhanced` |
| Orchestrator | `:299-385` | all of the above, with no lock | `ValidationEnhanced` |
| Error builder | `:105-116` | caller's struct | not modelled (formatting only) |
| Easy validation API | `src/lib/validation.c:77-297` | per-handle `validation_context`: five strings, header list, response dynbuf | `EasyValidation` |
| JSON payloads | `src/lib/validation_json.c:62-235`, `validation_payroll_ceo.c:52-212` | none (pure builders over a dynbuf) | `JsonPayload` (operators), checked in the `easy_validation` run |
| Learning engine | `src/lib/ai_learning_engine.c:96-379` | engine struct, model file on disk | `LearningEngine`; the floating-point Q-table update of `ai_learning_engine_feedback` is left out |
| AI workforce (training program) | `src/training/09-nvidia-technology/ai-workers.c:19-185, 255-365` | `nvidia_ai_workforce_t` (worker and team arrays) | `Workforce`, driven by `main`; `calculate_team_efficiency` and `display_workforce_status` (floats and printing) are left out |
| `curl_validation_payroll_ceo`, `validation_parse_response` | `validation_payroll_ceo.c:215-236`, `validation_json.c:238-265` | caller's handle / a copy | not modelled: set options and copy strings |
| Tool help, AI/quantum/consciousness/neural placeholders | `src/src/tool_validation.c`, `src/lib/consciousness_ai_enhanced.c`, `quantum_ai_enhanced.c`, `neural_security_enhanced.c`, `perfect_ai_integration.c` | own heap structures | not modelled: random or fixed floating-point values and report formatting, with no shared protocol |

How the parts interact: a request builds its key and looks it up in the cache.
On a miss it borrows a connection and reads the configuration (URL, certificate
paths, `max_retries`). It then runs the retry loop on that connection and
records a metric. On `CURLE_OK` it reads the connection's response code and
caches "success" if the code is 2xx. Finally it returns the connection.
`validation_set_config` and `validation_cleanup` act on the same globals from
any thread. No function takes a lock.

The easy API is separate from the enhanced layer:

1. A caller builds a payload with `validation_create_account_payload` (or the entity and CEO payroll builders).
2. It sets it and the other options on a handle with `curl_easy_setopt_validation`.
3. It calls `curl_easy_perform_validation`. This builds the header list and lets libcurl write the response into the context's dynbuf.
4. It frees everything with `curl_easy_cleanup_validation`.

The learning engine stands alone. It is created, configured, trained, saved to a file, loaded back, used for predictions and cleaned up.

The workforce program stands alone too. Its `main` creates three teams and nine workers, assigns each worker to one team, submits twelve tasks and calls `optimize_workforce`.

`struct dynbuf` (`Curl_dyn_*`) belongs to libcurl and is not in this repository. `JsonPayload` models it from libcurl's `lib/dynbuf.c`:

- An add that would reach the limit frees the buffer and fails.
- Later adds start from empty.
- `Curl_dyn_ptr` of an unwritten buffer is NULL.

## Modules

- **`ConnectionPool`** models the pool.
  - State: the array `connections` (slots hold `Uninit` until written), `allocated`, `pool_size` and `current_index`.
  - `handle[h]` is the lifecycle of each CURL* (unused, live or freed).
  - `held[r]` is the connection request `r` is using.
  - Actions: `GetConnection` and `ReturnConnection` (each takes the `enable_connection_pooling` value it reads as a parameter) and `PoolCleanup`.
  - `IdleSet`, `LiveSet` and `UsedSet` are the refinement mapping onto `IdlePool`. The idle set is the handles in the array below `pool_size` that no request holds. `get_connection_from_pool` leaves a handle in the array, so the array alone is not the idle set.
- **`IdlePool`** is the pool that spec 3 (PooledConnection) and 4.2 describe, with no array or cursor.
  - State: the `idle` set, `borrowed[r]`, and the `live` and ever-`used` handles.
  - `Acquire` takes an idle handle when pooling is on and one exists. Otherwise it creates a fresh handle.
  - `Release` keeps the handle while fewer than `Capacity` are idle and destroys it otherwise. With pooling off it always destroys it.
  - `Teardown` destroys the idle handles.
  - `ConnectionPool` instantiates it as `PoolAbstract` and states `PoolAbstract!Spec` as `PoolRefinesIdlePool`.
- **`RetryBackoff`** models the retry loop.
  - One call is a record: `retry_count`, `backoff_ms`, `res`, response `code`, `pc`, and the `slept` argument.
  - `AttemptStep` is one loop iteration and `LoopExit` is the failed `while` test.
  - `backoff_ms` is a 32-bit int that wraps (`Int32Double`). `sleep`'s argument uses C division (`CDiv`).
  - An uninitialised `res` is a nondeterministic choice among the results.
  - The standalone spec adds history (`attempts`, `sleeps`).
- **`ResponseCache`** models the cache.
  - The list is a sequence, head first, of `[key, expiry]`. The response text is always "success", so it is left out.
  - `now` is `time(NULL)`, advanced by `Tick`.
  - `CacheLookup`, `CacheStore` and `CacheClear` model the code.
  - History variables `answer`, `stores` and `recency` exist only for the properties.
  - `FreshKeys` and `FreshExpiry` are the refinement mapping: the key-to-expiry map of the keys whose first list entry (the one `get_cached_response` finds) is still fresh.
- **`TTLCache`** is the abstract cache that spec 4.3 and 8 promise, with no list.
  - State: `exp`, a map from each fresh key to its expiry, plus `now` and the last `answer`.
  - `Lookup` answers a hit exactly when caching is on and the key is fresh.
  - `Store` makes the key fresh for TTL seconds. It may evict at most one other key to stay within capacity.
  - `Tick` expires keys, and `Clear` empties the map.
  - `ResponseCache` instantiates it as `Abstract == INSTANCE TTLCache WITH exp <- FreshExpiry` and checks `Abstract!Spec` as the property `CacheRefinesTTLCache`.
- **`ConfigStore`** models the configuration.
  - The scalar fields are a record.
  - Each string field records who owns its memory: the literal, NULL, a heap copy, or freed memory.
  - `fault` records every invalid free, double free and use after free.
- **`ValidationEnhanced`** composes the four components with EXTENDS. It uses `RetryBackoff` through `INSTANCE` with a per-request engine.
  - Each request has a program counter: idle, acquire, setup, perform, cache, release.
  - There is one action per helper call of `curl_validation_enhanced`. The `NULL` connection path is `AcquireFails`.
  - `Reconfigure` is `validation_set_config`. It runs only while every request is idle unless `ConfigWhileInFlight` is set.
  - `Teardown` is `validation_cleanup`. It runs only when all requests are idle, which the spec's "undefined if concurrent" allows.
  - `Clock` advances time.
  - Each handle also remembers its last response code (`code[h]`), as a reused CURL* does.
- **`Metrics`** models the metrics buffer, one step per C statement that touches the globals, for several threads.
  - `RecordEnter`, `RecordTestBuffer`, `RecordMalloc` (which may give NULL), `RecordCheck`, and `RecordLoad`/`RecordStore` (the two halves of `metrics_count++` with the store) are `record_metrics`.
  - `GetEnter`, `GetMallocFails`, `GetCopy` and `GetCount` are `validation_get_metrics`. It reads `metrics_count` three times: at 427, 430 and 431.
  - `Cleanup` is the metrics part of `validation_cleanup`.
  - Buffers are numbered in malloc order. `faults` records every store or copy outside a buffer.
  - A metric is the number of the `record_metrics` call that stores it. `mem[b][i]` is what entry `i` of buffer `b` holds, and is garbage until a store writes it.
  - `log` is a history variable: the bounded append-only log of spec 4.5 that the calls should build. A call appends its metric when its store happens, while the log is below `MAX_METRICS`.
  - `MallocOutcomes` says whether `record_metrics`' malloc may fail.
- **`JsonPayload`** holds pure operators.
  - A C string is a record: null, or its characters.
  - `JsonEscape` folds `EscapeChar` (the `switch`, with `\u%04x` as `Hex4`) over the input with `DynAdd` at the 1024-byte limit. `PayrollJsonEscape` is the payroll file's copy.
  - The templates list each builder's `Curl_dyn_add` calls. Fixed text is kept as its length. A field is kept as its JSON key, request field and NULL default.
  - `BuildPayload` escapes every field and folds the adds with the 2048- or 4096-byte limit.
  - The reference side, from RFC 8259 and not from the code, has two parts. `Unescape` is a RECURSIVE decoder of JSON string contents. `Schema` maps each JSON key to the request field it must carry.
- **`EasyValidation`** models one handle's `validation_context`.
  - `SetOpt` is `curl_easy_setopt_validation` for the five string options. It creates the context on first use, frees the old value, and a failed strdup stores NULL. `SetOptUnknown` is the default case.
  - `Perform(failAt, out)` is `curl_easy_perform_validation` past its argument checks. `failAt` is the `curl_slist_append` that fails, or 0. `out` is the body the write callback adds to the response dynbuf, or a transfer that fails before data.
  - `Cleanup` is `curl_easy_cleanup_validation`, and `ContextCleanup` is its call of `validation_context_cleanup`.
  - `liveStrings` and `liveNodes` count heap strings and list nodes allocated and not freed.
  - It EXTENDS `JsonPayload`: the payload a caller sets is one the account builder made.
- **`LearningEngine`** models one engine pointer and one model file.
  - `Create` and `Configure` (a memcpy, no validation) are the set-up calls.
  - `TrainStart`, `EpochBegin`, `BatchStep` and `EpochEnd` are the training loop, with early stopping; `Finish` sets `is_trained`.
  - The loss is a placeholder that is the same every epoch. So an epoch "improves" only first (best is INFINITY), or always with a negative threshold.
  - `Save(crash)` truncates the file, and a crash before `fclose` leaves it partial and the engine gone.
  - `Load(hasConfig)` reads what the file holds and sets `is_trained` regardless. A partial file holds the config when the crash came after its `fwrite` (`hasConfig`), and nothing else.
  - `Predict` is a successful `ai_learning_engine_predict`, which only requires `is_trained`. The history `served` records, for each one, whether a training run completed for the model. `ai_learning_engine_feedback` always fails, because `rl_state` is never allocated, and `get_metrics` only copies.
  - `Cleanup` frees the engine.
  - The history field `eng.trained` records whether a training run completed for this model.
- **`Workforce`** models `nvidia_ai_workforce_t`: the sequences `workers` and `teams` (team members are worker ids, from 1) and `pc`, the call of `main` made next.
  - `CreateWorker`, `CreateTeam`, `AssignWorkerToTeam`, `ProcessValidationTask(t, type, ok)` and `OptimizeWorkforce` are the functions. `ok` is the outcome of `rand() % 100 < 95`.
  - `MainCalls` is `main`'s sequence of 34 calls. `Perform` makes one call. A task that finds no idle member of its type returns -1, which `main` ignores. The create and assign calls never hit their early returns in this program.
- The **`MC_*`** modules add symmetry sets, restricted next-state relations and constant definitions for the configs.

## Runs

| Run | Expect | What it shows |
|---|---|---|
| `pool_leak` | pass | No live CURL* is ever unreachable from the pool array and the requests, whatever the pooling flag does. |
| `pool_refinement` | violation | The pool does not implement `IdlePool` (`PoolRefinesIdlePool`). In four steps, a handle still borrowed by one request is handed to a second. With one request, turning pooling off between a get and its return destroys a handle the array still holds. The same property also fails for the full-pool return and for `current_index` after cleanup. |
| `retry_engine` | pass | Only 5xx, connect and timeout answers are retried. Sleeps double, 1 s then 2 s, with none after the last attempt (with at most three attempts there are at most two sleeps). |
| `cache_lru_ttl` | pass | The list stays within capacity. A hit is younger than TTL. The entries a lookup can answer (`Answerable`: fresh, and the first of their key) are in LRU order; an expired duplicate left behind is not, and never can be answered, since an older duplicate always expires first. The list implements `TTLCache` (`CacheRefinesTTLCache`). So no step loses a fresh response except the one tail eviction a store may make. This covers an expired entry being unlinked while an older duplicate of its key stays behind it. |
| `config_memory` | violation | The literal `base_url` is freed, and cleanup leaves dangling pointers. |
| `orchestrator` | pass | Every connection a request borrows is eventually returned, on the success and every error path, and the metrics count stays within `MAX_METRICS`. |
| `metrics_log` | violation | The buffer is not the bounded append-only log of spec 4.5 (`MetricsKeptAsLog`). TLC's trace is `validation_get_metrics` copying more entries than it malloc'd, because the count is re-read at line 430. Without that conjunct, the next trace is the line-267 race: a second malloc replaces a buffer that already holds a metric. |
| `easy_validation` | pass | Each option string is owned exactly once, through resets, failed strdups and cleanup. The payload a handle holds escapes every explored string so that it decodes back exactly, and every builder puts each request field under its own JSON key. |
| `easy_header_leak` | violation | A second perform, or a failing `curl_slist_append`, leaves list nodes that `ctx->headers` no longer names. |
| `learning_engine` | pass | Every training call with a positive batch size ends and its epoch stays within `max_epochs`, across configure, save, load and cleanup. The run also reaches a `batch_size = 0` call, which never ends; `TrainTerminates` is stated for positive batch sizes only, which is all the code guarantees. |
| `learning_load_untrained` | violation | A save cut short by a crash loads as a trained engine with a zeroed config, and `ai_learning_engine_predict` serves it. |
| `workforce` | pass | Over every success or failure of `main`'s twelve tasks, the team member arrays name created workers and the counters and states keep their types. The run's main use is to show the refusals described under "Not modelled"; the module has no deeper property the code or spec states. |

Earlier versions of this project had more violation runs. The project keeps
at most twelve runs, so those were retired. What each of them showed
still holds of the code and is listed under "hazards" in `PROJECT.json`:

- `backoff_ms` overflowing at `max_retries = 24`;
- a stale 200 cached with `max_retries = 0` (the uninitialised `res` read as `CURLE_OK`, and the reused handle's response code from an earlier request);
- duplicate cache keys from two threads (a check-then-act between `get_cached_response` and `cache_response`);
- the retry loop making `max_retries` attempts against an always-503 server, where spec §8 says `1 + max_retries` (the loop test `retry_count < max_retries` at line 224 counts attempts, not retries).

The orchestrator run has one caller thread and `max_retries` of 1 or 2. Neither the stale 200 nor the duplicate key can happen in it, so it states no property about them.

Every property of a passing run also has a mutant in `PROJECT.json`. A mutant
is a plausible bug in the modelled code, such as a dropped bound, an
off-by-one, a missed move-to-front, or skipping the release on an error path.
TLC finds each mutant.

## Bounds

- **Pool:** 3 handles, 2 requests and a capacity of 2. This is enough for a full pool, an overflowing return, wrap-around of the cursor, and a refill after cleanup.
- **Retry:** `max_retries` ranges over 0..3, with answers 200/404/503 and all four transport results. This covers every branch of the loop and both sleeps of the schedule (1 s and 2 s).
- **Cache:** 2 keys, capacity 3, TTL 2 and a clock up to 3. Entries can expire, be refreshed, be evicted, and be hit at the boundary second. Capacity 3 lets a refreshed key sit in the list next to its own expired duplicate, the case where the raw list is not in LRU order; a third key made the run exceed five minutes.
- **Orchestrator:** one request, 2 handles, a pool of one, 2 keys, TTL 1, and a clock up to 1.
  - `max_retries` is 1 or 2, and reconfiguration keeps metrics on and sets at most `base_url`. This keeps the state space near 600k states.
  - `VIEW RequestView` leaves the component-only history variables out of the fingerprint. No action's enabling condition reads them.
- **Metrics:** two threads, `MAX_METRICS` = 1, at most two mallocs, at most three `record_metrics` calls, and malloc never failing (`MallocOutcomes = {TRUE}`). A failing malloc gives a shorter one-thread trace: the store at line 271 writes through NULL. That trace would hide the races, so this run pins malloc to succeed. One entry is the smallest buffer in which the bound test can be passed by two threads at once; the code's 1000 differs only in how many stores come first.
- **Easy API:** one value per option, two response bodies (1200 and 2000 bytes) that overflow the 3000-byte `DYN_DOH_RESPONSE` limit together, and at most 10 list nodes, enough for two performs.
- **JSON:**
  - Every string of up to 2 characters over `a " \ \b \n \x01 1 .` is explored. These are a plain letter, each escape kind, a `\u` code and the digits of an amount.
  - Each builder gets a request in which each field holds its own name. Each field in turn is also replaced by each explored string or NULL. Any swapped slot or lost escape then shows.
  - The dynbuf limits are the code's.
- **Learning engine:**
  - Four configurations: the defaults (early stopping after 50 epochs); 3 epochs without early stopping in batches of 2; a negative threshold with patience 1; and `batch_size = 0`, which `ai_learning_engine_configure` accepts.
  - 1 or 3 samples, so the last batch is both full and partial.
- **Workforce:** `main`'s own calls, with `MAX_WORKERS` = 64 and `MAX_TEAMS` = 8 as in the source. The only choice is the outcome of each task, so the run covers every outcome of main's twelve tasks (452 states). The depth of 35 states is `main`'s 34 calls, so every run of `main` reaches `optimize_workforce`.

## Fairness

`ValidationEnhanced` assumes weak fairness for each request's in-flight steps
(`InFlight(r)`). Once a thread has entered `curl_validation_enhanced`, it keeps
being scheduled until it returns. It blocks only in `curl_easy_perform` and
`sleep`, and both return. Nothing forces a new request, a reconfiguration, a
teardown or a tick.

`LearningEngine` assumes weak fairness of `Training`, the steps of a started
`ai_learning_engine_train`. The call runs on the caller's thread and waits on
nothing. Nothing forces a caller to create, train, save or load.

`Metrics`, `EasyValidation` and `Workforce` check only safety and assume no fairness. The `workforce` run turns the deadlock check off because `main` returns after its last call.

## Not modelled, and the plan for later sittings

- **`batch_size = 0`.** `ai_learning_engine_configure` copies the config without validating it. With a batch size of 0 the mini-batch loop (line 202) never advances, so training never returns. The `learning_engine` run reaches this hang; `TrainTerminates` is conditional on a positive batch size, and the unconditional form fails on it. No violation run for this fits the twelve-run budget.
- **The payroll amount.** `validation_create_payroll_ceo_payload` writes `amount` without quotes (line 184) and does not check that it is a number. `json_escape_string(NULL)` returns `""`, so the `"0.00"` default never applies, and a NULL amount gives `"amount": ,`, which is invalid JSON.
  - The tests expect `"amount":2500.00`. But the builder writes a space after every colon, so their `strstr` checks would fail on a correct payload too.
  - `validation_create_payroll_payload` is declared but never defined.
  - These were found while modelling. The twelve-run budget leaves no slot to check them.
- **Workforce refusals.** A worker that completes a task stays in `WORKER_COMPLETED`. Nothing sets it back to idle, not even `optimize_workforce`, which resets only `WORKER_ERROR`. So the fraud team of three runs at most three of its five tasks, and the compliance team, with one compliance worker, one of its four. The rest return -1 and `main` ignores it, so its "Total tasks processed" is at most 6 of the 12 tasks submitted. `Workforce` reaches these states. Neither the code nor a spec says that every task must run, so no run checks it.
- **The account payload** hardcodes the entity name "Jane Abbot". It escapes `financial_institution_id` and `entity_type` and never uses them. `PayloadCarriesFields` checks only the keys that carry request fields.
- **Finer interleaving of the cache list walk and the pool cursor.** Each helper is still one atomic step of `ResponseCache` and `ConnectionPool`. Splitting the list walk would show use after free between threads.
- **Config during requests.** This needs `ConfigWhileInFlight = TRUE` with the config read split across steps, and a run slot for it.
- **`perfect_ai_integration.c` and `training/01-basics/main.c` do not build.**
  - `perfect_ai_integration.c` calls `creative_problem_solve` and `generate_empathic_response`. `include/curl/consciousness_ai_enhanced.h` declares them extern, but `consciousness_ai_enhanced.c` defines them `static`.
  - It also calls `creative_solution_destroy`, `empathic_response_destroy` and `conscious_ai_destroy_entity`, which are declared but defined nowhere.
  - `01-basics/main.c` calls `validation_create_context`, `validation_validate` and `validation_destroy_context`, which no file defines.
  - There is no program to model for either file.
- **`curl_consciousness_validate` leaks.** It never frees its memory and experience arrays and structs, and its own comment says so. It also writes through unchecked `malloc` results. Either would only be a violation run, and the twelve-run budget has no room for one.
- **The AI placeholders, the tool help text, `validation_parse_response` and `curl_validation_payroll_ceo`.** They hold no protocol state: they fill structures with fixed or random floating-point values, format text, or copy strings. `curl_validation_payroll_ceo` frees the payload while `CURLOPT_POSTFIELDS` still points at it. This is a hazard for the caller's next perform, which is outside the modelled code.
