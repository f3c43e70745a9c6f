\* Every answer sequence for max_retries 0..3 and a fresh or reused handle.
CONSTANTS
  Statuses = {200, 404, 503}
  RetryChoices = {0, 1, 2, 3}
  PriorCodes = {0, 200}
SPECIFICATION RetrySpec
INVARIANT RetryTypeOK
INVARIANT OnlyRetryableRetried
INVARIANT BackoffSchedule
\* The loop returns; nothing runs after it in this module.
CHECK_DEADLOCK FALSE
