-------------------------------- MODULE Retry --------------------------------
(***************************************************************************)
(* One call of a function that `with_retry` wraps: src/src/redstring/llm/  *)
(* retry.py.  Delays are counted in percents of initial_delay; jitter      *)
(* draws any whole number of them.                                         *)
(***************************************************************************)
EXTENDS Integers, Sequences

CONSTANTS
  MaxRetriesSet, \* what max_retries may be
  Jitters,       \* what jitter may be, in percent
  Multiplier,    \* multiplier
  MaxDelay,      \* max_delay, in percents of initial_delay
  DelayGrid      \* draws are multiples of this many percents

VARIABLES
  maxRetries, jitter,  \* the policy
  attempt,   \* attempts begun
  outcomes,  \* what each ended with
  delays,    \* what was slept after each
  result     \* "running", or what the caller gets

vars == <<maxRetries, jitter, attempt, outcomes, delays, result>>

Init ==
  /\ maxRetries \in MaxRetriesSet
  /\ jitter \in Jitters
  /\ attempt = 0 /\ outcomes = <<>> /\ delays = <<>>
  /\ result = "running"

(* Mutant: the first attempt is one of the retries. *)
RetriesOnly == maxRetries

TotalAttempts == maxRetries + 1

Smaller(a, b) == IF a < b THEN a ELSE b

(* get_delay: exponential, capped, then jittered either way. *)
Backoff[n \in Nat] == IF n = 0 THEN 100 ELSE Multiplier * Backoff[n - 1]
BaseDelay(n) == Smaller(Backoff[n], MaxDelay)
Delays(n) == {d \in 0..(2 * BaseDelay(n)) :
                /\ 100 * (d - BaseDelay(n)) \in (-(jitter * BaseDelay(n)))..(jitter * BaseDelay(n))
                /\ (d - BaseDelay(n)) % DelayGrid = 0}

(* The function is called. *)
Call ==
  /\ result = "running" /\ attempt = Len(delays) /\ attempt < TotalAttempts
  /\ attempt' = attempt + 1
  /\ UNCHANGED <<maxRetries, jitter, outcomes, delays, result>>

Succeed ==
  /\ attempt > Len(outcomes)
  /\ outcomes' = Append(outcomes, "value")
  /\ result' = "value"
  /\ UNCHANGED <<maxRetries, jitter, attempt, delays>>

(* An exception that is not retryable, or the task's cancellation. *)
Propagate ==
  /\ attempt > Len(outcomes)
  /\ outcomes' = Append(outcomes, "other")
  /\ result' = "other"
  /\ UNCHANGED <<maxRetries, jitter, attempt, delays>>

(* A retryable exception sleeps, except after the last attempt. *)
Fail ==
  /\ attempt > Len(outcomes)
  /\ outcomes' = Append(outcomes, "retryable")
  /\ IF attempt < TotalAttempts
     THEN /\ \E d \in Delays(attempt - 1) : delays' = Append(delays, d)
          /\ UNCHANGED result
     ELSE result' = "exhausted" /\ UNCHANGED delays
  /\ UNCHANGED <<maxRetries, jitter, attempt>>

(* Cancelled while it sleeps. *)
CancelSleep ==
  /\ result = "running" /\ attempt = Len(outcomes) /\ attempt = Len(delays) /\ attempt > 0
  /\ result' = "other"
  /\ UNCHANGED <<maxRetries, jitter, attempt, outcomes, delays>>

Next == Call \/ Succeed \/ Propagate \/ Fail \/ CancelSleep

Spec == Init /\ [][Next]_vars

-----------------------------------------------------------------------------
(* Properties *)

(* The caller gets the first answer there was, RetryExhausted only once the
   function failed one time more than it may be retried, and no pause outgrows
   the cap by more than the jitter (retry.py:172-191, 258-304). *)
RetryKeepsItsPromise ==
  /\ \A i \in DOMAIN outcomes : outcomes[i] # "retryable" => i = Len(outcomes)
  /\ result = "value" => outcomes[Len(outcomes)] = "value"
  /\ result = "exhausted" => Len(outcomes) = maxRetries + 1 /\ Len(delays) = maxRetries
  /\ Len(outcomes) <= maxRetries + 1
  /\ \A i \in DOMAIN delays : 100 * delays[i] <= MaxDelay * (100 + jitter)
=============================================================================
