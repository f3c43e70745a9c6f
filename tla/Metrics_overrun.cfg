\* Two caller threads record metrics into a buffer of one entry.  The malloc
\* and call bounds stop new buffers and calls, so a thread may wait at malloc
\* for ever: deadlock is not a property of the code here.
CONSTANTS
  Threads = {t1, t2}
  MaxMetrics = 1
  MaxAllocs = 2
  MaxCalls = 3
  MallocOutcomes = {TRUE}
SPECIFICATION Spec
INVARIANT MetricsKeptAsLog
SYMMETRY ThreadSymmetry
CHECK_DEADLOCK FALSE
