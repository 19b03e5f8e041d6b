---------------------------- MODULE MCCallGuards ----------------------------
(***************************************************************************)
(* What may stand before a model call, for TLC: the circuit breaker, the   *)
(* rate limiter, the cache under both and the retrying of one call.  They  *)
(* share nothing here, so a behaviour moves one of them and the others     *)
(* stay as they start.                                                     *)
(***************************************************************************)
EXTENDS RateLimiter, Sequences

CONSTANTS
  Workers, Threshold, MaxProbes, Shared, MaxTurns,           \* CircuitBreaker
  Processes, TimeToLive, WindowWidth, Values, Never, Nothing,
  LastInstant, MaxCount,                                     \* CacheAdapters
  MaxRetriesSet, Jitters, Multiplier, MaxDelay, DelayGrid,   \* Retry
  Which                                                      \* the parts that move

(* What the constructor accepts (circuit_breaker.py:105-110). *)
ASSUME BreakerAssumption ==
  IsFiniteSet(Workers) /\ Threshold \in Nat \ {0} /\ MaxProbes \in Nat \ {0}

(* The wiring keeps hits twice the window it counts (rate_limiter.py:146), and
   sentinels are no numbers. *)
ASSUME CacheAssumption ==
  /\ TimeToLive \in Nat /\ WindowWidth \in Nat /\ WindowWidth < TimeToLive
  /\ LastInstant \in Nat
  /\ Never \notin Int /\ Nothing \notin Nat

(* What the policy's constructor accepts (retry.py:131-140). *)
ASSUME RetryAssumption ==
  /\ MaxRetriesSet \subseteq Nat /\ Jitters \subseteq 0..100
  /\ Multiplier \in Nat \ {0} /\ MaxDelay \in Nat

VARIABLES
  which,
  state, failures, opened, calls, breakerPc, writes, turns, probes, lost,
  instant, memory, redis, step, died, late,
  maxRetries, jitter, attempt, outcomes, delays, result

Breaker == INSTANCE CircuitBreaker WITH pc <- breakerPc
Adapters == INSTANCE CacheAdapters
Retrying == INSTANCE Retry

breakerVars == <<state, failures, opened, calls, breakerPc, writes, turns, probes, lost>>
cacheVars == <<instant, memory, redis, step, died, late>>
retryVars == <<maxRetries, jitter, attempt, outcomes, delays, result>>
all == <<which, vars, breakerVars, cacheVars, retryVars>>

(* The others start anywhere they may. *)
MCInit ==
  /\ which \in Which
  /\ Init /\ (which # "limiter" => ~ shared)
  /\ Breaker!Init /\ Adapters!Init
  /\ Retrying!Init
  /\ which # "retry" => /\ maxRetries = CHOOSE n \in MaxRetriesSet : TRUE
                        /\ jitter = CHOOSE j \in Jitters : TRUE

MCNext ==
  /\ UNCHANGED which
  /\ \/ /\ which = "breaker" /\ Breaker!Next
        /\ UNCHANGED <<vars, cacheVars, retryVars>>
     \/ /\ which = "limiter" /\ Next
        /\ UNCHANGED <<breakerVars, cacheVars, retryVars>>
     \/ /\ which = "cache" /\ Adapters!Next
        /\ UNCHANGED <<vars, breakerVars, retryVars>>
     \/ /\ which = "retry" /\ Retrying!Next
        /\ UNCHANGED <<vars, breakerVars, cacheVars>>

MCSpec == MCInit /\ [][MCNext]_all

(* Every breaker method runs to its end, and a call ends or is abandoned. *)
MCFairSpec ==
  MCSpec /\ \A w \in Workers : WF_breakerVars(Breaker!Continue(w) \/ Breaker!Abandon(w))

(* The properties of the other modules, under the names they have there. *)

(* CircuitBreaker: a half-open circuit that lost no probe has one to give. *)
NotWedged == Breaker!NotWedged

(* CircuitBreaker: recovery is probed by no more calls than allowed. *)
ProbesBounded == Breaker!ProbesBounded

(* CircuitBreaker: an open circuit is not opened again (known limit). *)
OpensOnce == Breaker!OpensOnce

(* CircuitBreaker: a half-open circuit that lost no probe is decided. *)
HalfOpenResolves == Breaker!HalfOpenResolves

(* CacheAdapters: a caller cannot tell the adapters apart. *)
AdaptersAgree == Adapters!AdaptersAgree

(* CacheAdapters: a counter decays unless its maker died. *)
CountersExpire == Adapters!CountersExpire

(* CacheAdapters: a counter decays (known limit). *)
CountersAlwaysExpire == Adapters!CountersAlwaysExpire

(* Retry: the first answer, or as many failures as were allowed. *)
RetryKeepsItsPromise == Retrying!RetryKeepsItsPromise
=============================================================================
