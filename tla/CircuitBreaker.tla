--------------------------- MODULE CircuitBreaker ---------------------------
(***************************************************************************)
(* Workers sharing one circuit breaker: src/src/redstring/llm/             *)
(* circuit_breaker.py over the key/value half of the `Cache` port.         *)
(*                                                                         *)
(* Every breaker method is a run of cache operations.  Over `MemoryCache`  *)
(* none of them suspends, so a method is never interrupted; over           *)
(* `RedisCache` each is a round trip and other workers run between any two *)
(* (Shared).  A worker follows docs/how-to/harden-model-calls.md: ask,     *)
(* call the model, report the outcome.                                     *)
(***************************************************************************)
EXTENDS Integers, Sequences, FiniteSets

CONSTANTS
  Workers,    \* tasks or processes that use the circuit
  Threshold,  \* failure_threshold
  MaxProbes,  \* half_open_max_calls
  Shared,     \* the cache is a RedisCache
  MaxTurns    \* bound on how often each worker asks or resets

VARIABLES
  state,      \* the stored circuit state
  failures,   \* the failure counter, 0 when absent
  opened,     \* opened_at: absent, not yet recovery_timeout ago, or due
  calls,      \* half_open_calls, 0 when absent
  pc,         \* what each worker does next
  writes,     \* the cache writes left of the transition it is making
  turns,      \* how often each worker asked or reset
  probes,     \* for the properties: whose calls this half-open period admitted
  lost        \* for the properties: one of those calls ended unreported

cache == <<state, failures, opened, calls>>
history == <<probes, lost>>
vars == <<state, failures, opened, calls, pc, writes, turns, probes, lost>>

States == {"closed", "open", "half_open"}
OpenedAt == {"absent", "recent", "due"}

(* Between methods: nothing to do, or the model is being called. *)
Outside == {"idle", "calling"}

Steps == Outside \union {"ask", "check", "admit", "succeeded", "failed", "count", "write"}

(* The writes of each transition, in the order the code makes them; a
   transition to half-open goes on to count its caller as a probe. *)
OpenWrites == <<"state:open", "opened_at:now", "-calls">>
HalfOpenWrites == <<"-calls", "state:half_open">>
ClosedWrites == <<"state:closed", "-failures", "-opened_at", "-calls">>

Writes == {"state:open", "state:half_open", "state:closed", "opened_at:now",
           "-calls", "-failures", "-opened_at"}

-----------------------------------------------------------------------------
Init ==
  /\ state = "closed"
  /\ failures = 0
  /\ opened = "absent"
  /\ calls = 0
  /\ pc = [w \in Workers |-> "idle"]
  /\ writes = [w \in Workers |-> <<>>]
  /\ turns = [w \in Workers |-> 0]
  /\ probes = {}
  /\ lost = FALSE

(* A MemoryCache never hands control over inside a method. *)
MayRun(w) == Shared \/ \A v \in Workers \ {w} : pc[v] \in Outside

Goto(w, label) == pc' = [pc EXCEPT ![w] = label]

Begin(w, transition) ==
  /\ Goto(w, "write")
  /\ writes' = [writes EXCEPT ![w] = transition]

-----------------------------------------------------------------------------
(* allow_request *)

Ask(w) ==
  /\ pc[w] = "idle"
  /\ MayRun(w)
  /\ turns[w] < MaxTurns
  /\ turns' = [turns EXCEPT ![w] = @ + 1]
  /\ Goto(w, CASE state = "closed" -> "calling"
               [] state = "open" -> "check"
               [] state = "half_open" -> "admit")
  /\ UNCHANGED <<cache, writes, history>>

(* _recovery_is_due: a lost opened_at counts as due. *)
RecoveryIsDue == opened # "recent"

CheckRecovery(w) ==
  /\ pc[w] = "check"
  /\ MayRun(w)
  /\ IF RecoveryIsDue
     THEN Begin(w, HalfOpenWrites)
     ELSE Goto(w, "idle") /\ UNCHANGED writes
  /\ UNCHANGED <<cache, turns, history>>

(* Count this call as a probe, and admit it if the allowance is not spent. *)
Admit(w) ==
  /\ pc[w] = "admit"
  /\ MayRun(w)
  /\ calls' = calls + 1
  /\ IF calls + 1 <= MaxProbes
     THEN Goto(w, "calling") /\ probes' = probes \union {w}
     ELSE Goto(w, "idle") /\ UNCHANGED probes
  /\ UNCHANGED <<state, failures, opened, writes, turns, lost>>

-----------------------------------------------------------------------------
(* The model's answer, and record_success or record_failure *)

Answer(w) ==
  /\ pc[w] = "calling"
  /\ MayRun(w)
  /\ \E outcome \in {"succeeded", "failed"} : Goto(w, outcome)
  /\ UNCHANGED <<cache, writes, turns, history>>

(* Mutant: a success is reported in the closed state only. *)
SuccessForgotten(w) ==
  /\ pc[w] = "succeeded"
  /\ MayRun(w)
  /\ CASE state = "closed" -> Begin(w, <<"-failures">>)
       [] state # "closed" -> Goto(w, "idle") /\ UNCHANGED writes
  /\ UNCHANGED <<cache, turns, history>>

RecordSuccess(w) ==
  /\ pc[w] = "succeeded"
  /\ MayRun(w)
  /\ CASE state = "half_open" -> Begin(w, ClosedWrites)
       [] state = "closed" -> Begin(w, <<"-failures">>)
       [] state = "open" -> Goto(w, "idle") /\ UNCHANGED writes
  /\ UNCHANGED <<cache, turns, history>>

RecordFailure(w) ==
  /\ pc[w] = "failed"
  /\ MayRun(w)
  /\ CASE state = "half_open" -> Begin(w, OpenWrites)
       [] state = "closed" -> Goto(w, "count") /\ UNCHANGED writes
       [] state = "open" -> Goto(w, "idle") /\ UNCHANGED writes
  /\ UNCHANGED <<cache, turns, history>>

CountFailure(w) ==
  /\ pc[w] = "count"
  /\ MayRun(w)
  /\ failures' = failures + 1
  /\ IF failures + 1 >= Threshold
     THEN Begin(w, OpenWrites)
     ELSE Goto(w, "idle") /\ UNCHANGED writes
  /\ UNCHANGED <<state, opened, calls, turns, history>>

(* One write of _to_open, _to_half_open, _to_closed, or of a success in the
   closed state. *)
Write(w) ==
  LET k == Head(writes[w]) IN
    /\ pc[w] = "write"
    /\ MayRun(w)
    /\ state' = CASE k = "state:open" -> "open"
                  [] k = "state:half_open" -> "half_open"
                  [] k = "state:closed" -> "closed"
                  [] OTHER -> state
    /\ failures' = IF k = "-failures" THEN 0 ELSE failures
    /\ opened' = CASE k = "opened_at:now" -> "recent"
                   [] k = "-opened_at" -> "absent"
                   [] OTHER -> opened
    /\ calls' = IF k = "-calls" THEN 0 ELSE calls
    /\ IF k = "state:half_open"
       THEN probes' = {} /\ lost' = FALSE
       ELSE UNCHANGED history
    /\ writes' = [writes EXCEPT ![w] = Tail(@)]
    /\ Goto(w, IF Len(writes[w]) > 1 THEN "write"
               ELSE IF k = "state:half_open" THEN "admit" ELSE "idle")
    /\ UNCHANGED turns

(* reset, for operators. *)
Reset(w) ==
  /\ pc[w] = "idle"
  /\ MayRun(w)
  /\ turns[w] < MaxTurns
  /\ turns' = [turns EXCEPT ![w] = @ + 1]
  /\ Begin(w, ClosedWrites)
  /\ UNCHANGED <<cache, history>>

(* The call ends and nothing is reported: the task is cancelled, or the
   exception is one the caller does not count. *)
Abandon(w) ==
  /\ pc[w] = "calling"
  /\ MayRun(w)
  /\ Goto(w, "idle")
  /\ lost' = (lost \/ w \in probes)
  /\ UNCHANGED <<cache, writes, turns, probes>>

(* recovery_timeout passes, or the failure counter's time to live does. *)
Elapse ==
  \/ /\ opened = "recent"
     /\ opened' = "due"
     /\ UNCHANGED <<state, failures, calls, pc, writes, turns, history>>
  \/ /\ failures > 0
     /\ failures' = 0
     /\ UNCHANGED <<state, opened, calls, pc, writes, turns, history>>

(* A worker inside a method, or with a call in flight, goes on. *)
Continue(w) ==
  \/ CheckRecovery(w) \/ Admit(w) \/ Answer(w)
  \/ RecordSuccess(w) \/ RecordFailure(w) \/ CountFailure(w) \/ Write(w)

Next ==
  \/ \E w \in Workers : Ask(w) \/ Continue(w) \/ Reset(w) \/ Abandon(w)
  \/ Elapse

Spec == Init /\ [][Next]_vars

(* Every method runs to its end, and a call ends or is abandoned. *)
FairSpec == Spec /\ \A w \in Workers : WF_vars(Continue(w) \/ Abandon(w))

-----------------------------------------------------------------------------
(* Properties *)

TypeOK ==
  /\ state \in States
  /\ failures \in Nat
  /\ opened \in OpenedAt
  /\ calls \in Nat
  /\ pc \in [Workers -> Steps]
  /\ writes \in [Workers -> Seq(Writes)]
  /\ turns \in [Workers -> 0..MaxTurns]
  /\ probes \in SUBSET Workers
  /\ lost \in BOOLEAN

(* Recovery is probed by at most half_open_max_calls requests, the one that
   made the circuit half-open included (circuit_breaker.py:23-27). *)
ProbesBounded == Cardinality(probes) <= MaxProbes

(* "The other order leaves a window in which the circuit is half-open with the
   previous attempt's exhausted counter, so every probe is refused and the
   circuit never recovers" (_to_half_open): while no method runs and no call
   is in flight, a half-open circuit that lost no probe has one to give. *)
NotWedged ==
  (\A w \in Workers : pc[w] = "idle") /\ state = "half_open" /\ ~ lost
    => calls < MaxProbes

(* Reporting the failure of an already open circuit does not open it again
   and so does not push its recovery out
   (docs/how-to/harden-model-calls.md:984-987). *)
OpensOnce ==
  [][ \A w \in Workers :
        pc[w] = "write" /\ Head(writes[w]) = "state:open" /\ writes'[w] # writes[w]
          => state # "open" ]_vars

(* A half-open circuit is decided: unless the outcome of one is never
   reported, the probes it admitted close or reopen it, whoever else reports
   what and when. *)
HalfOpenResolves == state = "half_open" ~> state # "half_open" \/ lost
=============================================================================
