------------------------------- MODULE Metrics -------------------------------
(***************************************************************************)
(* The metrics buffer of lib/validation_enhanced.c: record_metrics, run by *)
(* every request, validation_get_metrics and the metrics part of          *)
(* validation_cleanup.  No function takes a lock, so each C statement that *)
(* reads or writes the globals metrics_buffer and metrics_count is a step  *)
(* of its own, and the caller threads interleave between them.            *)
(*                                                                         *)
(* Buffers are named 1 .. MaxAllocs in the order they are malloc'd; NULL   *)
(* is 0.  A metric's fields (times, sizes) are left out: a metric is the   *)
(* number of the record_metrics call that passed it, and mem[b][i] is what *)
(* entry i of buffer b holds (Garbage until a store writes it).  log is    *)
(* the bounded append-only log of spec 4.5 that the calls should build.    *)
(***************************************************************************)
EXTENDS Integers, FiniteSets

CONSTANTS
  Threads,      \* caller threads
  MaxMetrics,   \* MAX_METRICS (1000 in the source)
  MaxAllocs,    \* bound on the number of malloc calls explored
  MaxCalls,     \* bound on the number of record_metrics calls explored
  MallocOutcomes \* whether record_metrics' malloc succeeds: {TRUE} or BOOLEAN

ASSUME MaxMetrics \in Nat \ {0} /\ MaxAllocs \in Nat /\ MaxCalls \in Nat
ASSUME MallocOutcomes \in {{TRUE}, BOOLEAN}

NULL == 0
\* Arrays of validation_metrics_t (lines 55-61), whose fields are left out.
Buffers == 1 .. MaxAllocs
Calls == 1 .. MaxCalls
Garbage == 0
Entries == 0 .. MaxMetrics - 1

VARIABLES
  enable_metrics,   \* global_config.enable_metrics
  metrics_buffer,   \* the global pointer: NULL or a buffer
  metrics_count,    \* the global counter
  allocs,           \* buffers malloc'd so far (the next one is allocs + 1)
  tpc,              \* tpc[t]: the statement thread t executes next
  loaded,           \* loaded[t]: metrics_count as thread t read it
  result,           \* result[t]: what validation_get_metrics gave thread t
  faults,           \* history: accesses outside a buffer ("overrun" and
                    \* "null" stores, "copy_overrun" and "null_read" copies)
  mem,              \* mem[b][i]: the metric entry i of buffer b holds
  calls,            \* record_metrics calls made so far
  callid,           \* callid[t]: the metric thread t is recording
  log               \* history: the metrics spec 4.5 appends, since cleanup

vars == <<enable_metrics, metrics_buffer, metrics_count, allocs, tpc, loaded,
          result, faults, mem, calls, callid, log>>
memVars == <<mem, calls, callid, log>>

Steps == {"idle", "rec_buf", "rec_malloc", "rec_check", "rec_load",
          "rec_store", "get_malloc", "get_count"}
\* The return value of validation_get_metrics with *count and the number of
\* entries the returned copy holds.  NotCalled, a value the function never
\* returns, marks a thread that has not called it yet.
NotCalled == 1
Results == [ret : {NotCalled, 0, -1}, copied : 0 .. MaxMetrics + 2,
            count : 0 .. MaxMetrics + 2]
Returned(ret, copied, count) == [ret |-> ret, copied |-> copied, count |-> count]

TypeOK ==
  /\ enable_metrics \in BOOLEAN
  /\ metrics_buffer \in {NULL} \cup Buffers
  /\ metrics_count \in 0 .. MaxMetrics + Cardinality(Threads)
  /\ allocs \in 0 .. MaxAllocs
  /\ tpc \in [Threads -> Steps]
  /\ loaded \in [Threads -> Nat]
  /\ result \in [Threads -> Results]
  /\ faults \subseteq {"overrun", "null", "copy_overrun", "null_read"}
  /\ mem \in [Buffers -> [Entries -> {Garbage} \cup Calls]]
  /\ calls \in 0 .. MaxCalls
  /\ callid \in [Threads -> {Garbage} \cup Calls]
  /\ log \subseteq Calls

Init ==
  /\ enable_metrics \in BOOLEAN
  /\ metrics_buffer = NULL
  /\ metrics_count = 0
  /\ allocs = 0
  /\ tpc = [t \in Threads |-> "idle"]
  /\ loaded = [t \in Threads |-> 0]
  /\ result = [t \in Threads |-> Returned(NotCalled, 0, 0)]
  /\ faults = {}
  /\ mem = [b \in Buffers |-> [i \in Entries |-> Garbage]]
  /\ calls = 0
  /\ callid = [t \in Threads |-> Garbage]
  /\ log = {}

Go(t, s) == tpc' = [tpc EXCEPT ![t] = s]

\* Line 264: "if (!global_config.enable_metrics) return;".
RecordEnter(t) ==
  /\ tpc[t] = "idle"
  /\ calls < MaxCalls
  /\ calls' = calls + 1
  /\ callid' = [callid EXCEPT ![t] = calls + 1]
  /\ Go(t, IF enable_metrics THEN "rec_buf" ELSE "idle")
  /\ UNCHANGED <<enable_metrics, metrics_buffer, metrics_count, allocs,
                 loaded, result, faults, mem, log>>

\* Line 266: the test of metrics_buffer against NULL.
RecordTestBuffer(t) ==
  /\ tpc[t] = "rec_buf"
  /\ Go(t, IF metrics_buffer = NULL THEN "rec_malloc" ELSE "rec_check")
  /\ UNCHANGED <<enable_metrics, metrics_buffer, metrics_count, allocs,
                 loaded, result, faults>>
  /\ UNCHANGED memVars

\* Line 267: metrics_buffer = malloc(...), which may return NULL.  A buffer
\* another thread installed in between is overwritten and leaked.
RecordMalloc(t) ==
  /\ tpc[t] = "rec_malloc"
  /\ allocs < MaxAllocs
  /\ allocs' = allocs + 1
  /\ \E ok \in MallocOutcomes : metrics_buffer' = IF ok THEN allocs + 1 ELSE NULL
  /\ Go(t, "rec_check")
  /\ UNCHANGED <<enable_metrics, metrics_count, loaded, result, faults>>
  /\ UNCHANGED memVars

\* Line 270: "if (metrics_count < MAX_METRICS)".
RecordCheck(t) ==
  /\ tpc[t] = "rec_check"
  /\ Go(t, IF metrics_count < MaxMetrics THEN "rec_load" ELSE "idle")
  /\ UNCHANGED <<enable_metrics, metrics_buffer, metrics_count, allocs,
                 loaded, result, faults>>
  /\ UNCHANGED memVars

\* Line 271, first half: metrics_count++ loads the counter.
RecordLoad(t) ==
  /\ tpc[t] = "rec_load"
  /\ loaded' = [loaded EXCEPT ![t] = metrics_count]
  /\ Go(t, "rec_store")
  /\ UNCHANGED <<enable_metrics, metrics_buffer, metrics_count, allocs,
                 result, faults>>
  /\ UNCHANGED memVars

\* Line 271, second half: the metric is stored at the loaded index of the
\* buffer the pointer names now, and the incremented value written back.
RecordStore(t) ==
  /\ tpc[t] = "rec_store"
  /\ metrics_count' = loaded[t] + 1
  /\ faults' = faults
               \cup (IF metrics_buffer = NULL THEN {"null"} ELSE {})
               \cup (IF loaded[t] >= MaxMetrics THEN {"overrun"} ELSE {})
  /\ mem' = IF metrics_buffer # NULL /\ loaded[t] < MaxMetrics
              THEN [mem EXCEPT ![metrics_buffer][loaded[t]] = callid[t]]
              ELSE mem
  /\ log' = IF Cardinality(log) < MaxMetrics THEN log \cup {callid[t]} ELSE log
  /\ Go(t, "idle")
  /\ UNCHANGED <<enable_metrics, metrics_buffer, allocs, loaded, result,
                 calls, callid>>

\* Lines 421-425 and 427: disabled metrics give (NULL, 0); otherwise a copy
\* of metrics_count entries is malloc'd, with the count read here.
GetEnter(t) ==
  /\ tpc[t] = "idle"
  /\ IF enable_metrics
       THEN /\ loaded' = [loaded EXCEPT ![t] = metrics_count]
            /\ Go(t, "get_malloc")
            /\ UNCHANGED result
       ELSE /\ result' = [result EXCEPT ![t] = Returned(0, 0, 0)]
            /\ UNCHANGED <<tpc, loaded>>
  /\ UNCHANGED <<enable_metrics, metrics_buffer, metrics_count, allocs, faults>>
  /\ UNCHANGED memVars

\* Line 428: malloc fails, or malloc(0) returns NULL, and -1 is returned.
GetMallocFails(t) ==
  /\ tpc[t] = "get_malloc"
  /\ result' = [result EXCEPT ![t] = Returned(-1, 0, 0)]
  /\ Go(t, "idle")
  /\ UNCHANGED <<enable_metrics, metrics_buffer, metrics_count, allocs,
                 loaded, faults>>
  /\ UNCHANGED memVars

\* Line 430: memcpy of metrics_count entries, the counter read again: more
\* than were malloc'd at line 427 when another thread stored in between,
\* and a read through NULL when no buffer was ever installed.
GetCopy(t) ==
  /\ tpc[t] = "get_malloc"
  /\ loaded' = [loaded EXCEPT ![t] = metrics_count]
  /\ faults' = faults
               \cup (IF metrics_count > loaded[t] THEN {"copy_overrun"} ELSE {})
               \cup (IF metrics_buffer = NULL /\ metrics_count > 0
                     THEN {"null_read"} ELSE {})
  /\ Go(t, "get_count")
  /\ UNCHANGED <<enable_metrics, metrics_buffer, metrics_count, allocs, result>>
  /\ UNCHANGED memVars

\* Line 431: *count = metrics_count, read once more.
GetCount(t) ==
  /\ tpc[t] = "get_count"
  /\ result' = [result EXCEPT ![t] = Returned(0, loaded[t], metrics_count)]
  /\ Go(t, "idle")
  /\ UNCHANGED <<enable_metrics, metrics_buffer, metrics_count, allocs,
                 loaded, faults>>
  /\ UNCHANGED memVars

\* Lines 408-411 of validation_cleanup, with no thread inside the functions.
Cleanup ==
  /\ \A t \in Threads : tpc[t] = "idle"
  /\ metrics_buffer' = NULL
  /\ metrics_count' = 0
  /\ log' = {}
  /\ UNCHANGED <<enable_metrics, allocs, tpc, loaded, result, faults, mem,
                 calls, callid>>

Next ==
  \/ \E t \in Threads :
       \/ RecordEnter(t) \/ RecordTestBuffer(t) \/ RecordMalloc(t)
       \/ RecordCheck(t) \/ RecordLoad(t) \/ RecordStore(t)
       \/ GetEnter(t) \/ GetMallocFails(t) \/ GetCopy(t) \/ GetCount(t)
  \/ Cleanup

Spec == Init /\ [][Next]_vars

-----------------------------------------------------------------------------
(* The metrics the buffer keeps: entries 0 .. metrics_count-1 of the      *)
(* buffer metrics_buffer names (none when it is NULL).                     *)
Recorded ==
  IF metrics_buffer = NULL THEN {}
  ELSE {mem[metrics_buffer][i] : i \in {j \in Entries : j < metrics_count}}

(* The metrics recorder is the bounded append-only log of spec 4.5: the    *)
(* entries below metrics_count in the buffer metrics_buffer names are       *)
(* exactly the metrics record_metrics appended while capacity remained,    *)
(* each once, so no store is lost to a buffer another thread's malloc      *)
(* replaced (line 267), to an index another thread also loaded (line 271), *)
(* or past the MAX_METRICS entries; and validation_get_metrics copies no   *)
(* more entries than it malloc'd (lines 427-430).                          *)
MetricsKeptAsLog ==
  /\ metrics_count = Cardinality(log)
  /\ Recorded = log
  /\ "copy_overrun" \notin faults
=============================================================================
