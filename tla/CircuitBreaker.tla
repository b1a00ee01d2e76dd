--------------------------- MODULE CircuitBreaker ---------------------------
(* infra/circuit_breaker.py: a breaker that several callers share, over        *)
(* process memory or over a Redis key with a time to live.                     *)
EXTENDS Naturals

CONSTANTS
  Callers,        \* concurrent callers of the breaker
  Storages,       \* subset of {"memory", "redis"}
  FailMax,        \* fail_max
  Cooldown,       \* cooldown_secs, in the units of the clock
  MaxTime, MaxCalls    \* bounds of the instance

VARIABLES
  storage,    \* which storage this breaker has
  now,        \* the clock
  failures, openUntil,   \* the stored state; (0, 0) when there is none
  expires,    \* when Redis drops the stored state; 0: never
  call,       \* call[p]: where p is, the open_until and the failures it has read
  calls,      \* calls made so far
  \* History, read by the properties only:
  streak,     \* failures since the last success
  tripped     \* the breaker has opened since the last success

vars == <<storage, now, failures, openUntil, expires, call, calls, streak, tripped>>

Idle == [at |-> "idle", seen |-> 0, read |-> 0]

Init ==
  /\ storage \in Storages
  /\ now = 1 /\ failures = 0 /\ openUntil = 0 /\ expires = 0
  /\ call = [p \in Callers |-> Idle]
  /\ calls = 0 /\ streak = 0 /\ tripped = FALSE

(* call: the state is read and the call attempted unless the breaker is open. *)
Begin(p) ==
  /\ call[p].at = "idle" /\ calls < MaxCalls
  /\ openUntil <= now
  /\ call' = [call EXCEPT ![p] = [at |-> "calling", seen |-> openUntil, read |-> 0]]
  /\ calls' = calls + 1
  /\ UNCHANGED <<storage, now, failures, openUntil, expires, streak, tripped>>

(* func succeeds: the stored state is cleared. *)
Succeed(p) ==
  /\ call[p].at = "calling"
  /\ call' = [call EXCEPT ![p] = Idle]
  /\ failures' = 0 /\ openUntil' = 0 /\ expires' = 0
  /\ streak' = 0 /\ tripped' = FALSE
  /\ UNCHANGED <<storage, now, calls>>

(* func raises: the failures are read again. *)
Fail(p) ==
  /\ call[p].at = "calling"
  /\ call' = [call EXCEPT ![p].at = "failed", ![p].read = failures]
  /\ UNCHANGED <<storage, now, failures, openUntil, expires, calls, streak, tripped>>

(* Threshold reached, or the half-open probe failed. *)
OpensAtThreshold(count, seen) == count > FailMax
Opens(count, seen) == count >= FailMax \/ seen > 0

(* set_state: in Redis the key lives for the whole seconds of the cooldown     *)
(* that are left when it is written, and for one second when it is closed.     *)
Lifetimes(open) == IF open THEN {Cooldown - 1, Cooldown} \ {0} ELSE {1}

Record(p) ==
  LET count == call[p].read + 1
      open == Opens(count, call[p].seen) IN
  /\ call[p].at = "failed"
  /\ call' = [call EXCEPT ![p] = Idle]
  /\ failures' = count
  /\ openUntil' = IF open THEN now + Cooldown ELSE 0
  /\ IF storage = "redis"
     THEN \E ttl \in Lifetimes(open) : expires' = now + ttl
     ELSE expires' = 0
  /\ streak' = streak + 1
  /\ tripped' = (tripped \/ open)
  /\ UNCHANGED <<storage, now, calls>>

(* Time passes, and Redis drops a key whose time is over.  In memory nothing   *)
(* is awaited between a failure and its record.                                *)
Tick ==
  /\ now < MaxTime
  /\ storage = "memory" => \A p \in Callers : call[p].at # "failed"
  /\ now' = now + 1
  /\ IF expires # 0 /\ expires <= now'
     THEN failures' = 0 /\ openUntil' = 0 /\ expires' = 0
     ELSE UNCHANGED <<failures, openUntil, expires>>
  /\ UNCHANGED <<storage, call, calls, streak, tripped>>

(* MemoryBreakerStorage never suspends: a failure is recorded at once. *)
Undisturbed(p) ==
  storage = "memory" => \A q \in Callers \ {p} : call[q].at # "failed"

Next ==
  \/ Tick
  \/ \E p \in Callers :
       /\ Undisturbed(p)
       /\ Begin(p) \/ Succeed(p) \/ Fail(p) \/ Record(p)

Spec == Init /\ [][Next]_vars

---------------------------------------------------------------------------
(* The stored state and the callers have their types. *)
TypeOK ==
  /\ storage \in Storages /\ now \in 1 .. MaxTime
  /\ failures \in 0 .. MaxCalls /\ openUntil \in 0 .. MaxTime + Cooldown
  /\ expires \in 0 .. MaxTime + Cooldown
  /\ call \in [Callers -> [at : {"idle", "calling", "failed"},
                           seen : 0 .. MaxTime + Cooldown, read : 0 .. MaxCalls]]
  /\ streak \in 0 .. MaxCalls /\ tripped \in BOOLEAN

(* In memory, however calls overlap, fail_max failures with no success between *)
(* them open the breaker, and it stays half-open (a failed probe opens it      *)
(* again) until a call succeeds.                                               *)
MemoryTrips == storage = "memory" /\ streak >= FailMax => tripped /\ openUntil > 0
=============================================================================
