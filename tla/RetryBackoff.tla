---------------------------- MODULE RetryBackoff ----------------------------
(***************************************************************************)
(* validation_retry_with_backoff of lib/validation_enhanced.c: the loop    *)
(* that calls curl_easy_perform on one connection, reads the response      *)
(* code, retries 5xx answers and connect/timeout failures, and sleeps with *)
(* a doubling int backoff_ms between attempts.                             *)
(*                                                                         *)
(* The engine state of one call is a record; the operators below are what *)
(* the orchestrator composes, and the standalone specification at the end  *)
(* runs one call with its max_retries argument and the handle's previous  *)
(* response code chosen among the values a caller can pass.                *)
(***************************************************************************)
EXTENDS Integers, Sequences

CONSTANTS
  Statuses,          \* HTTP response codes the server may answer
  RetryChoices,      \* values of global_config.max_retries (an int)
  PriorCodes         \* response codes a reused CURL* still reports

\* CURLcode results of curl_easy_perform, abstracted to the four the loop tells apart.
CURLE_OK == "CURLE_OK"
CURLE_COULDNT_CONNECT == "CURLE_COULDNT_CONNECT"
CURLE_OPERATION_TIMEDOUT == "CURLE_OPERATION_TIMEDOUT"
CURLE_OTHER == "CURLE_OTHER"
PerformResults == {CURLE_OK, CURLE_COULDNT_CONNECT, CURLE_OPERATION_TIMEDOUT, CURLE_OTHER}

\* 'res' before the first curl_easy_perform: an uninitialised local.
Unset == "unset"

\* 'x *= 2' on a 32-bit int that wraps (two's complement), computed without
\* leaving the int range: 2x - 2^32 = -2(2^31 - x) and 2x + 2^32 = 2(x + 2^31).
IntMax == 2147483647
Int32Double(x) ==
  CASE x > IntMax \div 2       -> -2 * (IntMax - x + 1)
    [] x < -(IntMax \div 2) - 1 -> 2 * (x + IntMax + 1)
    [] OTHER                    -> 2 * x
\* C's int division truncates toward zero.
CDiv(a, b) == IF a >= 0 THEN a \div b ELSE -((-a) \div b)

Is2xx(code) == code >= 200 /\ code < 300

\* Mutant: the counter starts at -1, an off-by-one meant to count retries
\* rather than attempts.
RetryStartFromMinusOne(max, code0) ==
  [retry_count |-> -1, backoff_ms |-> 1000, max |-> max,
   res |-> Unset, code |-> code0, pc |-> "loop", slept |-> <<>>]

\* The engine entering the loop: retry_count = 0, backoff_ms = 1000.
RetryStart(max, code0) ==
  [retry_count |-> 0, backoff_ms |-> 1000, max |-> max,
   res |-> Unset, code |-> code0, pc |-> "loop", slept |-> <<>>]

(***************************************************************************)
(* One iteration of the while loop: curl_easy_perform answers 'out' and,   *)
(* on CURLE_OK, the HTTP status 'st'.  A 2xx returns; a 5xx and a          *)
(* connect/timeout failure count a retry and sleep when another attempt is *)
(* allowed; any other answer, and a network failure with no retry left,    *)
(* breaks.  'slept' holds the sleep() argument of this iteration, if any.  *)
(***************************************************************************)
\* sleep(backoff_ms / 1000); backoff_ms *= 2.  'slept' holds the int argument:
\* sleep() reads a negative one as an unsigned value above 2^31.
Backoff(e) ==
  [e EXCEPT !.backoff_ms = Int32Double(e.backoff_ms),
            !.slept = <<CDiv(e.backoff_ms, 1000)>>]

\* Mutant: every HTTP error (>= 400) is retried, 4xx included.
AttemptStepRetry4xx(e, out, st) ==
  LET a == [e EXCEPT !.res = out,
                     !.code = IF out = CURLE_OK THEN st ELSE 0,
                     !.slept = <<>>]
      rc == e.retry_count + 1
      r == [a EXCEPT !.retry_count = rc]
  IN CASE out = CURLE_OK /\ Is2xx(st)
            -> [a EXCEPT !.pc = "done"]
       [] out = CURLE_OK /\ st >= 400
            -> IF rc < e.max THEN Backoff(r) ELSE r
       [] out \in {CURLE_COULDNT_CONNECT, CURLE_OPERATION_TIMEDOUT}
            -> IF rc < e.max THEN Backoff(r) ELSE [r EXCEPT !.pc = "done"]
       [] OTHER
            -> [a EXCEPT !.pc = "done"]

\* Mutant: a 5xx sleeps before the retry budget is checked, so the last
\* attempt is followed by a useless sleep.
AttemptStepSleepLast(e, out, st) ==
  LET a == [e EXCEPT !.res = out,
                     !.code = IF out = CURLE_OK THEN st ELSE 0,
                     !.slept = <<>>]
      rc == e.retry_count + 1
      r == [a EXCEPT !.retry_count = rc]
  IN CASE out = CURLE_OK /\ Is2xx(st)
            -> [a EXCEPT !.pc = "done"]
       [] out = CURLE_OK /\ st >= 500
            -> Backoff(r)
       [] out \in {CURLE_COULDNT_CONNECT, CURLE_OPERATION_TIMEDOUT}
            -> IF rc < e.max THEN Backoff(r) ELSE [r EXCEPT !.pc = "done"]
       [] OTHER
            -> [a EXCEPT !.pc = "done"]

AttemptStep(e, out, st) ==
  LET a == [e EXCEPT !.res = out,
                     !.code = IF out = CURLE_OK THEN st ELSE 0,
                     !.slept = <<>>]
      rc == e.retry_count + 1
      r == [a EXCEPT !.retry_count = rc]
  IN CASE out = CURLE_OK /\ Is2xx(st)
            -> [a EXCEPT !.pc = "done"]
       [] out = CURLE_OK /\ st >= 500
            -> IF rc < e.max THEN Backoff(r) ELSE r
       [] out \in {CURLE_COULDNT_CONNECT, CURLE_OPERATION_TIMEDOUT}
            -> IF rc < e.max THEN Backoff(r) ELSE [r EXCEPT !.pc = "done"]
       [] OTHER
            -> [a EXCEPT !.pc = "done"]

\* The while condition failing: the function returns 'res', which is the
\* garbage of an uninitialised local when the body never ran.
LoopExitResults(e) == IF e.res = Unset THEN PerformResults ELSE {e.res}

LoopExit(e, res) == [e EXCEPT !.res = res, !.pc = "done", !.slept = <<>>]

-----------------------------------------------------------------------------
(***************************************************************************)
(* One call of validation_retry_with_backoff.  'attempts' and 'sleeps' are *)
(* history: the answers of every curl_easy_perform and every sleep().      *)
(***************************************************************************)
VARIABLES eng, attempts, sleeps

retryVars == <<eng, attempts, sleeps>>

RetryTypeOK ==
  /\ eng.retry_count \in Nat
  /\ eng.res \in PerformResults \cup {Unset}
  /\ eng.pc \in {"loop", "done"}
  /\ attempts \in Seq([out : PerformResults, st : Statuses])
  /\ sleeps \in Seq(Int)

RetryInit ==
  /\ \E max \in RetryChoices, c0 \in PriorCodes : eng = RetryStart(max, c0)
  /\ attempts = <<>>
  /\ sleeps = <<>>

\* One iteration against a transport whose answers are drawn from Outs x Sts.
AttemptOf(Outs, Sts) ==
  /\ eng.pc = "loop"
  /\ eng.retry_count < eng.max
  /\ \E out \in Outs, st \in Sts :
       /\ eng' = AttemptStep(eng, out, st)
       /\ attempts' = Append(attempts, [out |-> out, st |-> st])
       /\ sleeps' = sleeps \o eng'.slept

Attempt == AttemptOf(PerformResults, Statuses)

Exit ==
  /\ eng.pc = "loop"
  /\ eng.retry_count >= eng.max
  /\ \E res \in LoopExitResults(eng) : eng' = LoopExit(eng, res)
  /\ UNCHANGED <<attempts, sleeps>>

RetryNext == Attempt \/ Exit

RetrySpec == RetryInit /\ [][RetryNext]_retryVars

-----------------------------------------------------------------------------
(***************************************************************************)
(* Properties                                                              *)
(***************************************************************************)

Retryable(a) ==
  \/ a.out = CURLE_OK /\ a.st >= 500
  \/ a.out \in {CURLE_COULDNT_CONNECT, CURLE_OPERATION_TIMEDOUT}

(* Only a retryable answer (5xx, connect failure, timeout) is ever         *)
(* followed by another curl_easy_perform: a 2xx, 4xx or other transport    *)
(* error ends the loop at once (spec 4.4, 7).                              *)
OnlyRetryableRetried ==
  \A i \in 1 .. Len(attempts) - 1 : Retryable(attempts[i])

(* Backoff schedule (spec 8): the k-th sleep lasts 2^(k-1) seconds, and    *)
(* there is exactly one sleep between two attempts and none after the      *)
(* last, so the delay before attempt n is 2^(n-2) seconds.                 *)
BackoffSchedule ==
  /\ \A k \in 1 .. Len(sleeps) : sleeps[k] = 2^(k - 1)
  /\ Len(sleeps) = IF eng.pc = "loop" /\ eng.retry_count < eng.max
                     THEN Len(attempts)
                     ELSE IF Len(attempts) = 0 THEN 0 ELSE Len(attempts) - 1
=============================================================================
