--------------------------- MODULE ServiceTheorems --------------------------
(* Proofs about the services that MCServices runs side by side: the circuit    *)
(* breaker, authentication, the store, the requests of a thread, the           *)
(* assistants, the start of a server and the crons.  Each theorem is about the *)
(* specification of one service, so a variable, or a constant, that two        *)
(* services name alike (req, row, Users) stands for each of them in turn; what *)
(* a service needs of its constants is the ASSUME of its theorem.              *)
EXTENDS Naturals, Sequences, FiniteSets, TLAPS, WellFoundedInduction, SequenceTheorems,
        FiniteSetTheorems

CONSTANTS
  Requests, AuthRequests, AssistantRequests, Users, StoreUsers, Ids,
  Callers, Storages, FailMax, Cooldown, MaxTime, MaxCalls,       \* CircuitBreaker
  Limit, MaxPasses,                                              \* RequestAuth
  Attributes, Configs, Sent, MaxOps, Labels, AttributeNames,     \* Store
  Kinds, SettleAttempts,                                         \* ThreadRequests
  Values, Keys, MaxWrites,                                       \* Assistants
  Instances, Options, Revisions, MaxBoots, MaxFaults,            \* Startup
  Crons, Pollers, Clients, Periods, Zones, Ends,                 \* CronScheduler
  ClaimDuration, MaxPerUser, BatchSize, MaxFire, MaxUpdates

VARIABLES
  row, req,
  storage, now, failures, openUntil, expires, call, calls, streak, tripped,
  wired, passes, spent, hits,
  config, items, given, ops,
  run, naming, stale,
  versions, writes, reborn, behind,
  options, revision, seeded, proc, boots, faults,
  held, job, client, fired, twice, lapsed, raced, late

Breaker == INSTANCE CircuitBreaker
Auth == INSTANCE RequestAuth WITH Requests <- AuthRequests
Items == INSTANCE Store WITH Users <- StoreUsers
Request == INSTANCE ThreadRequests
Assist == INSTANCE Assistants WITH Requests <- AssistantRequests
Server == INSTANCE Startup
Cron == INSTANCE CronScheduler

(* The least number of a set of numbers. *)
LEMMA LeastNumber ==
  ASSUME NEW T \in SUBSET Nat, T # {}
  PROVE  \E n \in T : \A m \in T : n <= m
<1> DEFINE R == OpToRel(<, Nat)
<1>1. IsWellFoundedOn(R, Nat)
  BY NatLessThanWellFounded
<1>2. \A x, y \in Nat : x < y => <<x, y>> \in R
  BY DEF OpToRel
<1> HIDE DEF R
<1>3. PICK n \in T : \A y \in T : <<y, n>> \notin R
  BY <1>1, WFMin
<1>4. ASSUME NEW m \in T PROVE n <= m
  <2>1. m \in Nat /\ n \in Nat
    OBVIOUS
  <2>2. ~ (m < n)
    BY <1>2, <1>3, <2>1, Zenon
  <2> QED BY <2>1, <2>2, SMT
<1> QED BY <1>4

-----------------------------------------------------------------------------
(* The circuit breaker.                                                       *)

(* In memory nothing suspends between a failure and its record, so the failure *)
(* a caller has read is the stored one, the stored count is the streak, and    *)
(* the last record of a long streak opened the breaker.                        *)
BreakerInv ==
  /\ now \in Nat \ {0} /\ failures \in Nat /\ openUntil \in Nat /\ streak \in Nat
  /\ call \in [Callers -> [at : {"idle", "calling", "failed"}, seen : Nat, read : Nat]]
  /\ storage = "memory" =>
       /\ expires = 0 /\ failures = streak
       /\ \A c \in Callers : call[c].at = "failed" => call[c].read = failures
       /\ streak >= FailMax => tripped /\ openUntil > 0

LEMMA BreakerStep ==
  ASSUME FailMax \in Nat \ {0}, Cooldown \in Nat, BreakerInv, [Breaker!Next]_(Breaker!vars)
  PROVE  BreakerInv'
<1>1. CASE Breaker!Tick
  BY <1>1 DEF Breaker!Tick, BreakerInv
<1>2. ASSUME NEW c \in Callers, Breaker!Undisturbed(c), Breaker!Begin(c) PROVE BreakerInv'
  BY <1>2 DEF Breaker!Begin, BreakerInv
<1>3. ASSUME NEW c \in Callers, Breaker!Undisturbed(c), Breaker!Succeed(c) PROVE BreakerInv'
  BY <1>3 DEF Breaker!Succeed, Breaker!Undisturbed, Breaker!Idle, BreakerInv
<1>4. ASSUME NEW c \in Callers, Breaker!Undisturbed(c), Breaker!Fail(c) PROVE BreakerInv'
  BY <1>4 DEF Breaker!Fail, BreakerInv
<1>5. ASSUME NEW c \in Callers, Breaker!Undisturbed(c), Breaker!Record(c) PROVE BreakerInv'
  <2> DEFINE count == call[c].read + 1
             open  == Breaker!Opens(count, call[c].seen)
  <2>1. /\ call[c].at = "failed" /\ count \in Nat
        /\ call' = [call EXCEPT ![c] = [at |-> "idle", seen |-> 0, read |-> 0]]
        /\ failures' = count /\ streak' = streak + 1 /\ tripped' = (tripped \/ open)
        /\ openUntil' = IF open THEN now + Cooldown ELSE 0
        /\ storage = "memory" => expires' = 0
        /\ UNCHANGED <<storage, now>>
    BY <1>5 DEF Breaker!Record, Breaker!Idle, BreakerInv
  <2>2. count >= FailMax => open
    BY DEF Breaker!Opens
  <2>3. open \in BOOLEAN
    BY DEF Breaker!Opens
  <2> HIDE DEF open
  <2>4. openUntil' \in Nat /\ (open => openUntil' > 0)
    BY <2>1, <2>3 DEF BreakerInv
  <2>5. call' \in [Callers -> [at : {"idle", "calling", "failed"}, seen : Nat, read : Nat]]
    BY <2>1 DEF BreakerInv
  <2>6. storage = "memory" => \A q \in Callers : call'[q].at # "failed"
    BY <1>5, <2>1 DEF Breaker!Undisturbed, BreakerInv
  <2>7. storage = "memory" => failures' = streak'
    BY <2>1 DEF BreakerInv
  <2>8. storage = "memory" /\ streak' >= FailMax => tripped' /\ openUntil' > 0
    BY <2>1, <2>2, <2>4, <2>7
  <2> QED
    BY <2>1, <2>4, <2>5, <2>6, <2>7, <2>8 DEF BreakerInv
<1>6. CASE UNCHANGED Breaker!vars
  BY <1>6 DEF Breaker!vars, BreakerInv
<1> QED
  BY <1>1, <1>2, <1>3, <1>4, <1>5, <1>6 DEF Breaker!Next

(* CircuitBreaker, for any number of callers and any threshold: in memory,     *)
(* however calls overlap, fail_max failures without a success between them     *)
(* have opened the breaker, and it stays open or half-open until a success.    *)
THEOREM BreakerOpens ==
  ASSUME FailMax \in Nat \ {0}, Cooldown \in Nat
  PROVE  Breaker!Spec => []Breaker!MemoryTrips
<1>1. Breaker!Init => BreakerInv
  BY DEF Breaker!Init, Breaker!Idle, BreakerInv
<1>2. BreakerInv => Breaker!MemoryTrips
  BY DEF BreakerInv, Breaker!MemoryTrips
<1>3. BreakerInv /\ [Breaker!Next]_(Breaker!vars) => BreakerInv'
  BY BreakerStep
<1> QED
  BY <1>1, <1>2, <1>3, PTL DEF Breaker!Spec

-----------------------------------------------------------------------------
(* Authentication and authorization of a request.                             *)

AuthAnswers == {"none", "200", "401", "403", "429", "500", "503"}
AuthRequest ==
  [at : {"none", "enforce", "deps", "done"}, route : Auth!Routes, user : Users \cup {"none"},
   left : SUBSET Auth!Dependencies, scope : BOOLEAN, calls : Nat, events : Nat,
   policy : {"unasked", "allowed", "refused"}, answer : AuthAnswers]

(* A request on its way: the backend has been called iff its result is in the  *)
(* scope, which it is once a dependency has resolved; the enforcer stands      *)
(* before the dependencies of an enforced route and dispatches once.           *)
AuthPasses(t) ==
  /\ t.at = "none" => ~t.scope /\ t.calls = 0 /\ t.events = 0 /\ t.answer = "none"
  /\ t.at = "enforce" =>
       /\ ~t.scope /\ t.calls = 0 /\ t.events = 0
       /\ t.route = "enforced" /\ t.answer = "none"
  /\ t.at = "deps" =>
       /\ t.answer = "none"
       /\ t.scope => t.calls = 1
       /\ ~t.scope => t.calls = 0 /\ t.left = Auth!DependenciesOf(t.route) /\ t.route # "enforced"
       /\ t.route = "public" => ~t.scope
       /\ t.events = IF t.route = "enforced" THEN 1 ELSE 0
  /\ t.at = "done" =>
       /\ t.answer # "none" /\ t.calls = IF t.route = "public" THEN 0 ELSE 1
       /\ t.answer = "200" =>
            /\ t.events = IF Auth!Mapped(t.route) THEN 1 ELSE 0
            /\ t.route = "hub" => t.policy = "allowed"

(* One pass or many wire the enforced routes once, before any request.         *)
AuthInv ==
  /\ passes \in Nat
  /\ wired = [route \in Auth!Routes |-> IF passes > 0 /\ route = "enforced" THEN 1 ELSE 0]
  /\ req \in [AuthRequests -> AuthRequest]
  /\ \A r \in AuthRequests : AuthPasses(req[r]) /\ (req[r].at # "none" => passes > 0)

(* The step of one request. *)
LEMMA AuthMoves ==
  ASSUME AuthInv, NEW r \in AuthRequests, NEW t \in AuthRequest, AuthPasses(t), passes > 0,
         req' = [req EXCEPT ![r] = t], UNCHANGED <<wired, passes>>
  PROVE  AuthInv'
<1>1. req' \in [AuthRequests -> AuthRequest] /\ \A q \in AuthRequests : req'[q] = IF q = r THEN t ELSE req[q]
  BY DEF AuthInv
<1> QED
  BY <1>1 DEF AuthInv

(* The fields that require_auth does not touch. *)
AuthSame(u, t) ==
  /\ u.at = t.at /\ u.route = t.route /\ u.user = t.user /\ u.left = t.left
  /\ u.events = t.events /\ u.policy = t.policy /\ u.answer = t.answer

(* require_auth: what it makes of a request whose scope tells the calls.       *)
LEMMA AuthOutcome ==
  ASSUME NEW r, NEW t \in AuthRequest, NEW accepts \in BOOLEAN,
         t.scope => t.calls = 1, ~t.scope => t.calls = 0
  PROVE  LET a == Auth!Authenticated(r, t, accepts) IN
         /\ a.ok \in BOOLEAN
         /\ a.record \in AuthRequest /\ AuthSame(a.record, t) /\ a.record.calls = 1
         /\ a.ok => a.record.scope
<1>1. CASE t.scope
  <2>1. Auth!Authenticated(r, t, accepts) = [ok |-> TRUE, record |-> t]
    BY <1>1 DEF Auth!Authenticated, Auth!FromScope
  <2> QED
    BY <1>1, <2>1 DEF AuthSame
<1>2. CASE ~t.scope
  <2> DEFINE u == [t EXCEPT !.calls = @ + 1]
             v == [u EXCEPT !.scope = TRUE]
  <2>1. u \in AuthRequest /\ AuthSame(u, t) /\ u.calls = 1
    BY <1>2 DEF AuthRequest, AuthAnswers, AuthSame
  <2>2. v \in AuthRequest /\ AuthSame(v, t) /\ v.calls = 1 /\ v.scope
    <3> HIDE DEF u
    <3> QED BY <2>1 DEF AuthRequest, AuthAnswers, AuthSame
  <2>3. Auth!Authenticated(r, t, accepts) =
          IF accepts /\ r \notin spent THEN [ok |-> TRUE, record |-> v]
          ELSE [ok |-> FALSE, record |-> u]
    BY <1>2 DEF Auth!Authenticated, Auth!FromScope
  <2> HIDE DEF u, v
  <2> QED
    BY <2>1, <2>2, <2>3
<1> QED
  BY <1>1, <1>2

(* A request that is refused before its route's body. *)
LEMMA AuthRefused ==
  ASSUME AuthInv, NEW r \in AuthRequests, NEW t \in AuthRequest, NEW answer \in AuthAnswers \ {"none", "200"},
         t.calls = 1, t.route # "public", passes > 0, Auth!Answer(r, t, answer), UNCHANGED <<wired, passes>>
  PROVE  AuthInv'
<1> DEFINE u == [t EXCEPT !.at = "done", !.answer = answer]
<1>1. u \in AuthRequest /\ u.at = "done" /\ u.answer = answer /\ u.calls = 1 /\ u.route # "public"
  BY DEF AuthRequest, AuthAnswers
<1>2. req' = [req EXCEPT ![r] = u]
  BY DEF Auth!Answer
<1> HIDE DEF u
<1>3. AuthPasses(u)
  BY <1>1 DEF AuthPasses
<1> QED
  BY <1>1, <1>2, <1>3, AuthMoves

LEMMA AuthEnforces ==
  ASSUME AuthInv, NEW r \in AuthRequests, NEW accepts \in BOOLEAN, NEW verdict \in Auth!Verdicts,
         Auth!Enforce(r, accepts, verdict)
  PROVE  AuthInv'
<1> DEFINE a == Auth!Authenticated(r, req[r], accepts)
           told == [a.record EXCEPT !.events = @ + wired[req[r].route], !.at = "deps"]
<1>1. /\ req[r] \in AuthRequest /\ req[r].at = "enforce" /\ req[r].route = "enforced"
      /\ ~req[r].scope /\ req[r].calls = 0 /\ req[r].events = 0 /\ req[r].answer = "none"
      /\ passes > 0 /\ wired["enforced"] = 1
  BY DEF AuthInv, AuthPasses, Auth!Enforce, Auth!Routes
<1>2. /\ a.ok \in BOOLEAN
      /\ a.record \in AuthRequest /\ AuthSame(a.record, req[r]) /\ a.record.calls = 1
      /\ a.ok => a.record.scope
  BY <1>1, AuthOutcome
<1>3. UNCHANGED <<wired, passes>>
  BY DEF Auth!Enforce
<1>4. CASE ~a.ok
  <2>1. Auth!Answer(r, a.record, "401")
    BY <1>4 DEF Auth!Enforce
  <2> HIDE DEF a
  <2> QED
    BY <1>1, <1>2, <1>3, <2>1, AuthRefused DEF AuthAnswers, AuthSame
<1>5. CASE a.ok
  <2>1. /\ verdict # "allow" => Auth!Answer(r, told, Auth!Refusal(verdict))
        /\ verdict = "allow" => req' = [req EXCEPT ![r] = told]
    BY <1>5 DEF Auth!Enforce
  <2> HIDE DEF a
  <2>a. /\ a.record.events + wired[req[r].route] = 1 /\ a.record.scope
        /\ a.record.route = "enforced" /\ a.record.answer = "none"
    BY <1>1, <1>2, <1>5 DEF AuthSame
  <2>b. told = [a.record EXCEPT !.events = 1, !.at = "deps"]
    BY <2>a
  <2>2. /\ told \in AuthRequest /\ told.calls = 1 /\ told.scope /\ told.events = 1
        /\ told.route = "enforced" /\ told.at = "deps" /\ told.answer = "none"
    <3> HIDE DEF told
    <3> QED BY <1>2, <2>a, <2>b DEF AuthRequest
  <2> HIDE DEF told
  <2>3. CASE verdict # "allow"
    <3>1. Auth!Refusal(verdict) \in AuthAnswers \ {"none", "200"}
      BY DEF Auth!Refusal, AuthAnswers
    <3> QED
      BY <1>1, <1>3, <2>1, <2>2, <2>3, <3>1, AuthRefused DEF AuthAnswers
  <2>4. CASE verdict = "allow"
    <3>1. AuthPasses(told)
      BY <2>2 DEF AuthPasses
    <3> QED
      BY <1>1, <1>3, <2>1, <2>2, <2>4, <3>1, AuthMoves
  <2> QED
    BY <2>3, <2>4
<1> QED
  BY <1>2, <1>4, <1>5

(* Dependencies: require_auth of the router, the endpoint or the rate limit.   *)
LEMMA AuthDepends ==
  ASSUME AuthInv, NEW r \in AuthRequests, NEW accepts \in BOOLEAN, req[r].at = "deps", req[r].left # {}
  PROVE  LET a == Auth!Authenticated(r, req[r], accepts) IN
         /\ passes > 0 /\ a.ok \in BOOLEAN /\ a.record \in AuthRequest /\ a.record.calls = 1
         /\ a.record.route # "public"
         /\ a.ok => \A d : LET t == [a.record EXCEPT !.left = @ \ {d}] IN
                            t \in AuthRequest /\ AuthPasses(t)
<1> DEFINE a == Auth!Authenticated(r, req[r], accepts)
<1>1. /\ req[r] \in AuthRequest
      /\ (req[r].scope => req[r].calls = 1) /\ (~req[r].scope => req[r].calls = 0)
      /\ req[r].events = IF req[r].route = "enforced" THEN 1 ELSE 0
      /\ req[r].answer = "none" /\ passes > 0 /\ req[r].route # "public"
  BY DEF AuthInv, AuthPasses, Auth!DependenciesOf
<1>2. /\ a.ok \in BOOLEAN
      /\ a.record \in AuthRequest /\ AuthSame(a.record, req[r]) /\ a.record.calls = 1
      /\ a.ok => a.record.scope
  BY <1>1, AuthOutcome
<1> HIDE DEF a
<1>4. ASSUME a.ok, NEW d
      PROVE  LET t == [a.record EXCEPT !.left = @ \ {d}] IN t \in AuthRequest /\ AuthPasses(t)
  <2> DEFINE t == [a.record EXCEPT !.left = @ \ {d}]
  <2>1. /\ a.record.scope /\ a.record.at = "deps" /\ a.record.answer = "none" /\ a.record.route # "public"
        /\ a.record.events = IF a.record.route = "enforced" THEN 1 ELSE 0
    BY <1>1, <1>2, <1>4 DEF AuthSame
  <2>2. /\ t \in AuthRequest /\ t.calls = 1 /\ t.scope /\ t.at = "deps" /\ t.answer = "none"
        /\ t.route # "public" /\ t.events = IF t.route = "enforced" THEN 1 ELSE 0
    BY <1>2, <2>1 DEF AuthRequest, AuthAnswers
  <2> HIDE DEF t
  <2>3. AuthPasses(t)
    BY <2>2 DEF AuthPasses
  <2> QED
    BY <2>2, <2>3 DEF t
<1> QED
  BY <1>1, <1>2, <1>4 DEF a, AuthSame

LEMMA AuthResolves ==
  ASSUME AuthInv, NEW r \in AuthRequests, NEW accepts \in BOOLEAN,
         NEW d, Auth!ResolveUser(r, d, accepts) \/ Auth!RateLimit(r, accepts)
  PROVE  AuthInv'
<1> DEFINE a == Auth!Authenticated(r, req[r], accepts)
           went(e) == [a.record EXCEPT !.left = @ \ {e}]
<1>1. req[r].at = "deps" /\ req[r].left # {} /\ UNCHANGED <<wired, passes>>
  BY DEF Auth!ResolveUser, Auth!RateLimit
<1>2. /\ passes > 0 /\ a.ok \in BOOLEAN /\ a.record \in AuthRequest /\ a.record.calls = 1
      /\ a.record.route # "public"
      /\ a.ok => \A e : went(e) \in AuthRequest /\ AuthPasses(went(e))
  BY <1>1, AuthDepends
<1>3. \/ Auth!Answer(r, a.record, "401") \/ Auth!Answer(r, a.record, "429")
      \/ a.ok /\ \E e : req' = [req EXCEPT ![r] = went(e)]
  <2>1. CASE Auth!ResolveUser(r, d, accepts)
    BY <2>1 DEF Auth!ResolveUser
  <2>2. CASE Auth!RateLimit(r, accepts)
    BY <2>2 DEF Auth!RateLimit
  <2> QED
    BY <2>1, <2>2
<1> HIDE DEF a
<1>4. CASE Auth!Answer(r, a.record, "401") \/ Auth!Answer(r, a.record, "429")
  BY <1>1, <1>2, <1>4, AuthRefused DEF AuthAnswers
<1>5. CASE a.ok /\ \E e : req' = [req EXCEPT ![r] = went(e)]
  <2> HIDE DEF went
  <2> QED BY <1>1, <1>2, <1>5, AuthMoves
<1> QED
  BY <1>3, <1>4, <1>5

(* The body of a route, which is reached when every dependency has resolved.   *)
LEMMA AuthBodies ==
  ASSUME AuthInv, NEW r \in AuthRequests,
         \/ \E verdict \in Auth!Verdicts : Auth!Body(r, verdict)
         \/ \E local, closed \in BOOLEAN, opa \in {"allow", "deny", "down"} :
              Auth!HubBody(r, local, opa, closed)
  PROVE  AuthInv'
<1>1. /\ req[r] \in AuthRequest /\ req[r].at = "deps" /\ req[r].left = {}
      /\ UNCHANGED <<wired, passes>>
  BY DEF Auth!Body, Auth!HubBody, AuthInv
<1>2. /\ req[r].calls = IF req[r].route = "public" THEN 0 ELSE 1
      /\ passes > 0 /\ req[r].route \in Auth!Routes
      /\ req[r].events = IF req[r].route = "enforced" THEN 1 ELSE 0
  BY <1>1 DEF AuthInv, AuthPasses, AuthRequest, Auth!Dependencies, Auth!DependenciesOf
<1>3. ASSUME NEW verdict \in Auth!Verdicts, Auth!Body(r, verdict) PROVE AuthInv'
  <2> DEFINE told == [req[r] EXCEPT !.events = @ + 1]
             t == [told EXCEPT !.at = "done", !.answer = "200"]
             u == [req[r] EXCEPT !.at = "done", !.answer = "200"]
  <2>1. told \in AuthRequest /\ told.calls = req[r].calls /\ told.route = req[r].route /\ told.events = req[r].events + 1
    BY <1>1, <1>2 DEF AuthRequest, AuthAnswers
  <2>2. CASE req[r].route = "self" /\ verdict # "allow"
    <3>1. Auth!Answer(r, told, Auth!Refusal(verdict))
      BY <1>3, <2>2 DEF Auth!Body, Auth!SelfDispatching
    <3>2. Auth!Refusal(verdict) \in AuthAnswers \ {"none", "200"}
      BY DEF Auth!Refusal, AuthAnswers
    <3>3. told.calls = 1 /\ told.route # "public"
      BY <1>2, <2>1, <2>2
    <3> HIDE DEF told
    <3> QED
      BY <1>1, <1>2, <2>1, <3>1, <3>2, <3>3, AuthRefused DEF AuthAnswers
  <2>3. CASE req[r].route = "self" /\ verdict = "allow"
    <3>1. req' = [req EXCEPT ![r] = t]
      BY <1>3, <2>3 DEF Auth!Body, Auth!SelfDispatching, Auth!Answer
    <3>a. told.route = "self" /\ told.events = 1 /\ told.calls = 1
      BY <1>2, <2>1, <2>3
    <3> HIDE DEF told
    <3>2. t \in AuthRequest /\ t.at = "done" /\ t.answer = "200" /\ t.calls = 1 /\ t.route = "self" /\ t.events = 1
      BY <2>1, <3>a DEF AuthRequest, AuthAnswers
    <3> HIDE DEF t
    <3>3. AuthPasses(t)
      BY <3>2 DEF AuthPasses, Auth!Mapped
    <3> QED
      BY <1>1, <1>2, <3>1, <3>2, <3>3, AuthMoves
  <2>4. CASE req[r].route # "self"
    <3>1. req' = [req EXCEPT ![r] = u] /\ req[r].route # "hub"
      BY <1>3, <2>4 DEF Auth!Body, Auth!SelfDispatching, Auth!Answer
    <3>2. /\ u \in AuthRequest /\ u.at = "done" /\ u.answer = "200" /\ u.calls = req[r].calls
          /\ u.route = req[r].route /\ u.events = req[r].events
      BY <1>1, <1>2 DEF AuthRequest, AuthAnswers
    <3> HIDE DEF u
    <3>3. AuthPasses(u)
      BY <1>2, <2>4, <3>1, <3>2 DEF AuthPasses, Auth!Mapped, Auth!Routes
    <3> QED
      BY <1>1, <1>2, <3>1, <3>2, <3>3, AuthMoves
  <2> QED
    BY <2>2, <2>3, <2>4
<1>4. ASSUME NEW local \in BOOLEAN, NEW closed \in BOOLEAN, NEW opa \in {"allow", "deny", "down"},
             Auth!HubBody(r, local, opa, closed)
      PROVE  AuthInv'
  <2> DEFINE allowed == local /\ (opa = "allow" \/ (opa = "down" /\ ~closed))
             asked == [req[r] EXCEPT !.policy = IF allowed THEN "allowed" ELSE "refused"]
             t == [asked EXCEPT !.at = "done", !.answer = "200"]
  <2>1. /\ asked \in AuthRequest /\ asked.calls = 1 /\ asked.route = "hub"
        /\ asked.events = 0 /\ (allowed => asked.policy = "allowed")
    BY <1>1, <1>2, <1>4 DEF AuthRequest, Auth!HubBody
  <2>2. CASE allowed
    <3>1. req' = [req EXCEPT ![r] = t]
      BY <1>4, <2>2 DEF Auth!HubBody, Auth!Answer, Auth!Opa
    <3> HIDE DEF asked
    <3>2. /\ t \in AuthRequest /\ t.at = "done" /\ t.answer = "200" /\ t.calls = 1
          /\ t.route = "hub" /\ t.events = 0 /\ t.policy = "allowed"
      BY <2>1, <2>2 DEF AuthRequest, AuthAnswers
    <3> HIDE DEF t
    <3>3. AuthPasses(t)
      BY <3>2 DEF AuthPasses, Auth!Mapped
    <3> QED
      BY <1>1, <1>2, <3>1, <3>2, <3>3, AuthMoves
  <2>3. CASE ~allowed
    <3>1. PICK answer \in {"403", "503"} : Auth!Answer(r, asked, answer)
      BY <1>4, <2>3 DEF Auth!HubBody, Auth!Opa
    <3> HIDE DEF asked
    <3> QED
      BY <1>1, <1>2, <2>1, <3>1, AuthRefused DEF AuthAnswers
  <2> QED
    BY <2>2, <2>3
<1> QED
  BY <1>3, <1>4

LEMMA AuthStep == AuthInv /\ [Auth!Next]_(Auth!vars) => AuthInv'
<1> SUFFICES ASSUME AuthInv, [Auth!Next]_(Auth!vars) PROVE AuthInv'
  OBVIOUS
<1>1. CASE Auth!ApplyEnforcement
  <2>1. passes' = passes + 1 /\ passes' \in Nat /\ passes' > 0 /\ req' = req
    BY <1>1 DEF Auth!ApplyEnforcement, AuthInv
  <2>2. \A route \in Auth!Routes :
          wired[route] + (IF Auth!Wires(route) THEN 1 ELSE 0) = IF route = "enforced" THEN 1 ELSE 0
    BY DEF AuthInv, Auth!Routes, Auth!Wires, Auth!Mapped, Auth!SelfDispatching
  <2>3. wired' = [route \in Auth!Routes |-> IF route = "enforced" THEN 1 ELSE 0]
    BY <1>1, <2>2 DEF Auth!ApplyEnforcement
  <2> QED
    BY <2>1, <2>3 DEF AuthInv
<1>2. ASSUME NEW r \in AuthRequests, NEW route \in Auth!Routes, NEW u \in Users, Auth!Arrive(r, route, u)
      PROVE  AuthInv'
  <2> DEFINE t == [Auth!NoRequest EXCEPT !.at = IF wired[route] > 0 THEN "enforce" ELSE "deps",
                                  !.route = route, !.user = u, !.left = Auth!DependenciesOf(route)]
  <2>1. req' = [req EXCEPT ![r] = t] /\ passes > 0 /\ UNCHANGED <<wired, passes>>
    BY <1>2 DEF Auth!Arrive, AuthInv
  <2>2. /\ Auth!NoRequest \in AuthRequest /\ ~Auth!NoRequest.scope /\ Auth!NoRequest.calls = 0
        /\ Auth!NoRequest.events = 0 /\ Auth!NoRequest.answer = "none"
    BY DEF Auth!NoRequest, AuthRequest, AuthAnswers, Auth!Routes
  <2>3. /\ t \in AuthRequest /\ ~t.scope /\ t.calls = 0 /\ t.events = 0 /\ t.answer = "none"
        /\ t.at = (IF wired[route] > 0 THEN "enforce" ELSE "deps")
        /\ t.route = route /\ t.left = Auth!DependenciesOf(route)
    <3>1. Auth!DependenciesOf(route) \in SUBSET Auth!Dependencies
      BY DEF Auth!DependenciesOf
    <3> QED BY <2>2, <3>1 DEF AuthRequest
  <2>4. wired[route] = IF route = "enforced" THEN 1 ELSE 0
    BY <2>1 DEF AuthInv
  <2>5. AuthPasses(t)
    <3> HIDE DEF t
    <3> QED BY <2>3, <2>4 DEF AuthPasses
  <2> HIDE DEF t
  <2> QED
    BY <2>1, <2>3, <2>5, AuthMoves
<1>3. ASSUME NEW r \in AuthRequests, NEW accepts \in BOOLEAN, NEW verdict \in Auth!Verdicts,
             Auth!Enforce(r, accepts, verdict)
      PROVE  AuthInv'
  BY <1>3, AuthEnforces
<1>4. ASSUME NEW r \in AuthRequests, NEW accepts \in BOOLEAN, NEW d \in Auth!Dependencies,
             Auth!ResolveUser(r, d, accepts)
      PROVE  AuthInv'
  BY <1>4, AuthResolves
<1>5. ASSUME NEW r \in AuthRequests, NEW accepts \in BOOLEAN, Auth!RateLimit(r, accepts) PROVE AuthInv'
  BY <1>5, AuthResolves
<1>6. ASSUME NEW r \in AuthRequests,
             \/ \E verdict \in Auth!Verdicts : Auth!Body(r, verdict)
             \/ \E local, closed \in BOOLEAN, opa \in {"allow", "deny", "down"} :
                  Auth!HubBody(r, local, opa, closed)
      PROVE  AuthInv'
  BY <1>6, AuthBodies
<1>7. CASE (\E u \in Users : Auth!Forget(u)) \/ UNCHANGED Auth!vars
  BY <1>7 DEF Auth!Forget, Auth!vars, AuthInv
<1> QED
  BY <1>1, <1>2, <1>3, <1>4, <1>5, <1>6, <1>7 DEF Auth!Next

(* RequestAuth, for any number of requests and of passes over the routes: in   *)
(* whatever order FastAPI resolves the dependencies of a request, and whatever *)
(* the backend, the handlers and the policy engines answer, a credential is    *)
(* presented once, unless the route is public, and a request that is served    *)
(* was authorized by exactly one layer when its route is in the registry.      *)
THEOREM AuthorizedOnce ==
  Auth!Spec => [](Auth!AuthenticatesOnce /\ Auth!OneAuthorization)
<1>1. Auth!Init => AuthInv
  BY DEF Auth!Init, Auth!NoRequest, AuthInv, AuthPasses, AuthRequest, AuthAnswers, Auth!Routes
<1>2. AuthInv => Auth!AuthenticatesOnce /\ Auth!OneAuthorization
  <2> SUFFICES ASSUME AuthInv, NEW r \in AuthRequests
               PROVE  /\ req[r].calls <= 1
                      /\ req[r].answer \notin {"none", "401"} =>
                           req[r].calls = IF req[r].route = "public" THEN 0 ELSE 1
                      /\ req[r].answer = "200" =>
                           /\ req[r].events = IF Auth!Mapped(req[r].route) THEN 1 ELSE 0
                           /\ req[r].route = "hub" => req[r].policy = "allowed"
    BY DEF Auth!AuthenticatesOnce, Auth!OneAuthorization
  <2>1. req[r].at \in {"none", "enforce", "deps", "done"} /\ req[r].scope \in BOOLEAN
        /\ AuthPasses(req[r])
    BY DEF AuthInv, AuthRequest
  <2> QED
    BY <2>1 DEF AuthPasses
<1> QED
  BY <1>1, <1>2, AuthStep, PTL DEF Auth!Spec

-----------------------------------------------------------------------------
(* The store.                                                                 *)

(* The sums of the first n items: defined for every n, by the least n for     *)
(* which they were not.                                                       *)
Sums(f, seqs, n) ==
  f = [i \in 1 .. n |-> IF i = 1 THEN seqs[i] ELSE f[i - 1] \o seqs[i]]

LEMMA FlattenedLabels ==
  ASSUME NEW S, NEW seqs \in Seq(Seq(S))
  PROVE  Items!FlattenSeq(seqs) \in Seq(S)
<1>1. \A n \in Nat : \E f : Sums(f, seqs, n)
  <2> DEFINE Bad == {n \in Nat : ~\E f : Sums(f, seqs, n)}
  <2> SUFFICES ASSUME Bad # {} PROVE FALSE
    OBVIOUS
  <2>1. PICK n \in Bad : \A m \in Bad : n <= m
    BY LeastNumber
  <2>2. n # 0
    <3> SUFFICES ASSUME n = 0 PROVE FALSE
      OBVIOUS
    <3> DEFINE e == [i \in 1 .. 0 |-> i]
    <3>1. e = [i \in 1 .. 0 |-> IF i = 1 THEN seqs[i] ELSE e[i - 1] \o seqs[i]]
      OBVIOUS
    <3> QED BY <3>1 DEF Sums
  <2>3. PICK f : Sums(f, seqs, n - 1)
    <3>1. n - 1 \in Nat /\ n - 1 \notin Bad
      BY <2>1, <2>2
    <3> QED BY <3>1
  <2>4. DOMAIN f = 1 .. n - 1 /\ \A i \in 1 .. n - 1 : f[i] = IF i = 1 THEN seqs[i] ELSE f[i - 1] \o seqs[i]
    BY <2>3 DEF Sums
  <2> DEFINE g == [i \in 1 .. n |-> IF i = n THEN (IF i = 1 THEN seqs[i] ELSE f[i - 1] \o seqs[i]) ELSE f[i]]
  <2>5. \A i \in 1 .. n : g[i] = IF i = 1 THEN seqs[i] ELSE g[i - 1] \o seqs[i]
    <3> TAKE i \in 1 .. n
    <3>0. g[i] = IF i = n THEN (IF i = 1 THEN seqs[i] ELSE f[i - 1] \o seqs[i]) ELSE f[i]
      OBVIOUS
    <3>a. i # n => i \in 1 .. n - 1
      OBVIOUS
    <3>1. CASE i = 1
      <4> HIDE DEF g
      <4> QED BY <2>4, <3>0, <3>a, <3>1
    <3>2. CASE i # 1
      <4>1. i - 1 \in 1 .. n /\ i - 1 # n
        BY <3>2
      <4>2. g[i - 1] = f[i - 1]
        BY <4>1
      <4>3. g[i] = f[i - 1] \o seqs[i]
        <5> HIDE DEF g
        <5> QED BY <2>4, <3>0, <3>a, <3>2
      <4> QED BY <3>2, <4>2, <4>3
    <3> QED BY <3>1, <3>2
  <2>6. g = [i \in 1 .. n |-> IF i = 1 THEN seqs[i] ELSE g[i - 1] \o seqs[i]]
    <3>1. g = [i \in 1 .. n |-> g[i]]
      OBVIOUS
    <3> HIDE DEF g
    <3> QED BY <2>5, <3>1
  <2> QED BY <2>6 DEF Sums
<1> DEFINE N == Len(seqs)
           F == CHOOSE f : Sums(f, seqs, N)
<1>2. N \in Nat
  BY LenProperties
<1>3. Sums(F, seqs, N)
  BY <1>1, <1>2
<1>4. Items!FlattenSeq(seqs) = IF N = 0 THEN seqs ELSE F[N]
  BY DEF Items!FlattenSeq, Sums
<1>5. \A i \in 1 .. N : F[i] = IF i = 1 THEN seqs[i] ELSE F[i - 1] \o seqs[i]
  <2> HIDE DEF F
  <2> QED BY <1>3 DEF Sums
<1>6. \A i \in 1 .. N : F[i] \in Seq(S)
  <2> HIDE DEF F, N
  <2> DEFINE Bad == {i \in Nat : i \in 1 .. N /\ F[i] \notin Seq(S)}
  <2> SUFFICES ASSUME Bad # {} PROVE FALSE
    BY <1>2
  <2>1. PICK i \in Bad : \A m \in Bad : i <= m
    BY LeastNumber
  <2>2. seqs[i] \in Seq(S)
    BY <2>1 DEF N
  <2>3. i # 1
    BY <1>5, <2>1, <2>2
  <2>4. i - 1 \in 1 .. N /\ i - 1 \notin Bad
    BY <1>2, <2>1, <2>3
  <2>5. F[i - 1] \in Seq(S)
    BY <2>4
  <2>6. F[i - 1] \o seqs[i] \in Seq(S)
    BY <2>2, <2>5
  <2> QED BY <1>5, <2>1, <2>3, <2>6
<1>7. CASE N = 0
  <2>1. seqs = << >>
    BY <1>7
  <2> QED BY <1>4, <1>7, <2>1
<1>8. CASE N # 0
  BY <1>2, <1>4, <1>6, <1>8
<1> QED BY <1>7, <1>8

LEMMA PrefixItems ==
  ASSUME NEW S, NEW s \in Seq(S), NEW t \in Seq(S)
  PROVE  Items!IsPrefix(s, t) <=> Len(s) <= Len(t) /\ \A i \in 1 .. Len(s) : s[i] = t[i]
<1>1. Len(s) \in Nat /\ Len(t) \in Nat
  BY LenProperties
<1>2. ASSUME Len(s) <= Len(t)
      PROVE  SubSeq(s, 1, Len(s)) = SubSeq(t, 1, Len(s)) <=> \A i \in 1 .. Len(s) : s[i] = t[i]
  <2>1. SubSeq(s, 1, Len(s)) = [i \in 1 .. Len(s) |-> s[i]]
    BY <1>1
  <2>2. SubSeq(t, 1, Len(s)) = [i \in 1 .. Len(s) |-> t[i]]
    BY <1>1, <1>2
  <2> QED
    BY <2>1, <2>2
<1> QED
  BY <1>2 DEF Items!IsPrefix

(* A deployment: labels are what a namespace is made of, identities and        *)
(* attribute values are labels, and a scope lists attributes.                  *)
StoreDeployment ==
  /\ StoreUsers \subseteq Labels /\ Items!UserScope \in Labels
  /\ Sent \subseteq Seq(Seq(Labels))
  /\ \A u \in StoreUsers : \A a \in AttributeNames : Attributes[u][a] \in Labels
  /\ \A c \in Configs : \A x \in DOMAIN c : c[x] \in Seq(AttributeNames)

StoreItem == [at : Seq(Labels), by : StoreUsers, asked : Sent]

(* An item lies where its writer's scope puts what was asked for. *)
StoreInv ==
  /\ config \in Configs
  /\ items \in SUBSET StoreItem
  /\ given \in [StoreUsers -> SUBSET StoreItem]
  /\ \A i \in items :
       i.at = Items!apply_namespace_scoping(Items!normalize_namespace(i.asked), i.by)
  /\ Items!Isolated

(* The head of a namespace: its first label tells the scope, and it has one    *)
(* label for the scope of a user and one for each attribute of a group.        *)
LEMMA StoreHead ==
  ASSUME StoreDeployment, config \in Configs, NEW n \in Seq(Labels), NEW u \in StoreUsers
  PROVE  LET h == Items!ScopeHead(n, u) IN
         /\ h \in Seq(Labels)
         /\ Items!InScope(n) =>
              /\ h[1] = n[1] /\ n[1] # Items!UserScope /\ Len(h) = 1 + Len(config[n[1]])
         /\ ~Items!InScope(n) => h[1] = Items!UserScope /\ h[2] = u /\ Len(h) = 2
<1> DEFINE h == Items!ScopeHead(n, u)
<1>1. CASE Items!InScope(n)
  <2> DEFINE c == config[n[1]]
             a == [i \in DOMAIN c |-> Attributes[u][c[i]]]
  <2>1. n # << >> /\ n[1] \in DOMAIN config /\ n[1] # Items!UserScope
    BY <1>1 DEF Items!InScope, Items!scope_attr_map
  <2>2. c \in Seq(AttributeNames)
    BY <2>1 DEF StoreDeployment
  <2> HIDE DEF c
  <2>3. DOMAIN c = 1 .. Len(c) /\ Len(c) \in Nat /\ \A i \in 1 .. Len(c) : c[i] \in AttributeNames
    BY <2>2, LenProperties, ElementOfSeq
  <2>4. a \in [1 .. Len(c) -> Labels]
    BY <2>3 DEF StoreDeployment
  <2>5. a \in Seq(Labels) /\ Len(a) = Len(c)
    BY <2>3, <2>4, IsASeq, LenProperties
  <2>6. h = <<n[1]>> \o a
    BY <1>1 DEF Items!ScopeHead, c
  <2>7. n[1] \in Labels /\ <<n[1]>> \in Seq(Labels) /\ Len(<<n[1]>>) = 1
    BY <2>1, EmptySeq, ElementOfSeq
  <2> HIDE DEF a, h
  <2>8. h \in Seq(Labels) /\ Len(h) = 1 + Len(c) /\ h[1] = n[1]
    BY <2>3, <2>5, <2>6, <2>7
  <2> QED
    BY <1>1, <2>1, <2>8 DEF h, c
<1>2. CASE ~Items!InScope(n)
  <2>1. h = <<Items!UserScope, u>>
    BY <1>2 DEF Items!ScopeHead
  <2>2. u \in Labels /\ Items!UserScope \in Labels
    BY DEF StoreDeployment
  <2> HIDE DEF h
  <2> QED
    BY <1>2, <2>1, <2>2 DEF h
<1> QED
  BY <1>1, <1>2

(* What is scoped begins with the head of its scope. *)
LEMMA StoreScoped ==
  ASSUME StoreDeployment, config \in Configs, NEW n \in Seq(Labels), NEW u \in StoreUsers
  PROVE  LET s == Items!apply_namespace_scoping(n, u) IN
         s \in Seq(Labels) /\ Items!IsPrefix(Items!ScopeHead(n, u), s)
<1> DEFINE h == Items!ScopeHead(n, u)
<1>1. h \in Seq(Labels)
  BY StoreHead
<1>2. Items!apply_namespace_scoping(n, u) = IF Items!IsPrefix(h, n) THEN n ELSE h \o n
  BY DEF Items!apply_namespace_scoping, Items!scope
<1> HIDE DEF h
<1>3. h \o n \in Seq(Labels) /\ Len(h \o n) = Len(h) + Len(n)
      /\ \A i \in 1 .. Len(h) : (h \o n)[i] = h[i]
  BY <1>1
<1>4. Items!IsPrefix(h, h \o n)
  <2>1. Len(h) \in Nat /\ Len(n) \in Nat
    BY <1>1, LenProperties
  <2>2. Len(h) <= Len(h \o n)
    BY <1>3, <2>1
  <2> QED
    BY <1>1, <1>3, <2>2, PrefixItems
<1> QED
  BY <1>2, <1>3, <1>4 DEF h

(* Two scopes that share an item. *)
LEMMA StoreShares ==
  ASSUME StoreDeployment, config \in Configs, NEW m \in Seq(Labels), NEW n \in Seq(Labels),
         NEW u \in StoreUsers, NEW v \in StoreUsers, NEW s \in Seq(Labels),
         Items!IsPrefix(Items!ScopeHead(n, u), s), Items!IsPrefix(Items!ScopeHead(m, v), s)
  PROVE  v = u \/ (Items!InScope(m) /\ Items!ScopeHead(m, u) = Items!ScopeHead(m, v))
<1> DEFINE g == Items!ScopeHead(n, u)
           h == Items!ScopeHead(m, v)
<1>1. /\ g \in Seq(Labels)
      /\ Items!InScope(n) => g[1] = n[1] /\ n[1] # Items!UserScope /\ Len(g) = 1 + Len(config[n[1]])
      /\ ~Items!InScope(n) => g[1] = Items!UserScope /\ g[2] = u /\ Len(g) = 2
  BY StoreHead
<1>2. /\ h \in Seq(Labels)
      /\ Items!InScope(m) => h[1] = m[1] /\ m[1] # Items!UserScope /\ Len(h) = 1 + Len(config[m[1]])
      /\ ~Items!InScope(m) => h[1] = Items!UserScope /\ h[2] = v /\ Len(h) = 2
  BY StoreHead
<1>3. Items!InScope(n) => Len(config[n[1]]) \in Nat
  BY LenProperties DEF Items!InScope, Items!scope_attr_map, StoreDeployment
<1>4. Items!InScope(m) => Len(config[m[1]]) \in Nat
  BY LenProperties DEF Items!InScope, Items!scope_attr_map, StoreDeployment
<1>5. Items!InScope(n) /\ Items!InScope(m) /\ n[1] = m[1] => g = Items!ScopeHead(m, u)
  BY DEF Items!ScopeHead
<1>6. Items!IsPrefix(g, s) /\ Items!IsPrefix(h, s)
  OBVIOUS
<1> HIDE DEF g, h
<1>7. /\ \A i \in 1 .. Len(g) : g[i] = s[i]
      /\ \A i \in 1 .. Len(h) : h[i] = s[i]
  BY <1>1, <1>2, <1>6, PrefixItems
<1>8. g[1] = s[1] /\ h[1] = s[1]
  BY <1>1, <1>2, <1>3, <1>4, <1>7, SMTT(30)
<1>9. CASE Items!InScope(n) /\ Items!InScope(m)
  <2>1. n[1] = m[1] /\ Len(g) = Len(h)
    BY <1>1, <1>2, <1>8, <1>9
  <2>2. \A i \in 1 .. Len(g) : g[i] = h[i]
    BY <1>7, <2>1
  <2>3. g = h
    BY <1>1, <1>2, <2>1, <2>2, SeqEqual
  <2> QED
    BY <1>5, <1>9, <2>1, <2>3 DEF h
<1>10. CASE ~Items!InScope(n) /\ ~Items!InScope(m)
  BY <1>1, <1>2, <1>7, <1>10, SMTT(30)
<1> QED
  BY <1>1, <1>2, <1>8, <1>9, <1>10

LEMMA StoreNamespace ==
  ASSUME StoreDeployment, NEW sent \in Sent
  PROVE  Items!normalize_namespace(sent) \in Seq(Labels)
BY FlattenedLabels DEF StoreDeployment, Items!normalize_namespace

LEMMA StorePrefixTransitive ==
  ASSUME NEW r \in Seq(Labels), NEW s \in Seq(Labels), NEW t \in Seq(Labels),
         Items!IsPrefix(r, s), Items!IsPrefix(s, t)
  PROVE  Items!IsPrefix(r, t)
<1>1. Len(r) \in Nat /\ Len(s) \in Nat /\ Len(t) \in Nat
  BY LenProperties
<1>2. /\ Len(r) <= Len(s) /\ \A i \in 1 .. Len(r) : r[i] = s[i]
      /\ Len(s) <= Len(t) /\ \A i \in 1 .. Len(s) : s[i] = t[i]
  BY PrefixItems
<1>3. Len(r) <= Len(t) /\ \A i \in 1 .. Len(r) : r[i] = t[i]
  BY <1>1, <1>2
<1> QED
  BY <1>3, PrefixItems

(* What a request finds is the user's to see. *)
LEMMA StoreFinds ==
  ASSUME StoreDeployment, StoreInv, NEW u \in StoreUsers, NEW sent \in Sent, NEW i \in items,
         Items!IsPrefix(Items!apply_namespace_scoping(Items!normalize_namespace(sent), u), i.at)
  PROVE  Items!Shares(u, i)
<1> DEFINE n == Items!normalize_namespace(sent)
           m == Items!normalize_namespace(i.asked)
           s == Items!apply_namespace_scoping(n, u)
<1>1. config \in Configs /\ i.by \in StoreUsers /\ i.asked \in Sent /\ i.at \in Seq(Labels)
      /\ i.at = Items!apply_namespace_scoping(m, i.by)
  BY DEF StoreInv, StoreItem
<1>2. n \in Seq(Labels) /\ m \in Seq(Labels)
  BY <1>1, StoreNamespace
<1>3. s \in Seq(Labels) /\ Items!IsPrefix(Items!ScopeHead(n, u), s) /\ Items!IsPrefix(s, i.at)
  BY <1>1, <1>2, StoreScoped
<1>4. Items!IsPrefix(Items!ScopeHead(m, i.by), i.at)
  BY <1>1, <1>2, StoreScoped
<1>5. Items!ScopeHead(n, u) \in Seq(Labels)
  BY <1>1, <1>2, StoreHead
<1> HIDE DEF n, s
<1>6. Items!IsPrefix(Items!ScopeHead(n, u), i.at)
  BY <1>1, <1>3, <1>5, StorePrefixTransitive
<1>7. i.by = u \/ (Items!InScope(m) /\ Items!ScopeHead(m, u) = Items!ScopeHead(m, i.by))
  <2> HIDE DEF m
  <2> QED BY <1>1, <1>2, <1>4, <1>6, StoreShares
<1> QED
  BY <1>7 DEF Items!Shares

LEMMA PrefixReflexive ==
  ASSUME NEW s \in Seq(Labels) PROVE Items!IsPrefix(s, s)
BY LenProperties, PrefixItems

LEMMA StoreStep ==
  ASSUME StoreDeployment, StoreInv, [Items!Next]_(Items!vars)
  PROVE  StoreInv'
<1>1. CASE UNCHANGED Items!vars
  BY <1>1, SMTT(30) DEF Items!vars, StoreInv, Items!Isolated, Items!Shares, Items!InScope, Items!ScopeHead,
              Items!scope_attr_map, Items!apply_namespace_scoping
<1>2. ASSUME NEW u \in StoreUsers, NEW sent \in Sent,
             \/ Items!PutItem(u, sent) \/ Items!GetItem(u, sent)
             \/ Items!DeleteItem(u, sent) \/ Items!SearchItems(u, sent)
      PROVE  StoreInv'
  <2> DEFINE n == Items!normalize_namespace(sent)
             at == Items!apply_namespace_scoping(n, u)
  <2>1. config' = config
    BY <1>2 DEF Items!PutItem, Items!GetItem, Items!DeleteItem, Items!SearchItems, Items!Request
  <2>2. /\ \A m, w : Items!apply_namespace_scoping(m, w)' = Items!apply_namespace_scoping(m, w)
        /\ \A w, i : Items!Shares(w, i)' = Items!Shares(w, i)
    BY <2>1 DEF Items!Shares, Items!InScope, Items!ScopeHead, Items!scope_attr_map,
                Items!apply_namespace_scoping
  <2>3. config \in Configs /\ at \in Seq(Labels)
    BY StoreNamespace, StoreScoped DEF StoreInv
  <2>4. CASE Items!PutItem(u, sent) \/ Items!DeleteItem(u, sent)
    <3> DEFINE new == [at |-> at, by |-> u, asked |-> sent]
    <3>1. new \in StoreItem /\ new.at = at /\ new.by = u /\ new.asked = sent
      BY <2>3 DEF StoreItem
    <3>2. given' = given /\ items' \subseteq items \cup {new}
      BY <2>4 DEF Items!PutItem, Items!DeleteItem
    <3> HIDE DEF new
    <3>3. items' \in SUBSET StoreItem
      BY <3>1, <3>2 DEF StoreInv
    <3>4. \A i \in items' : i.at = Items!apply_namespace_scoping(Items!normalize_namespace(i.asked), i.by)
      BY <3>1, <3>2 DEF StoreInv
    <3> HIDE DEF at, n
    <3> QED
      BY <2>1, <2>2, <2>3, <3>2, <3>3, <3>4 DEF StoreInv, Items!Isolated
  <2>5. CASE Items!GetItem(u, sent) \/ Items!SearchItems(u, sent)
    <3>1. /\ items' = items
          /\ \E found \in SUBSET items :
               /\ \A i \in found : Items!IsPrefix(at, i.at)
               /\ given' = [given EXCEPT ![u] = @ \cup found]
      <4>1. CASE Items!GetItem(u, sent)
        <5> DEFINE found == {i \in items : i.at = at}
        <5>1. items' = items /\ given' = [given EXCEPT ![u] = @ \cup found]
          BY <4>1 DEF Items!GetItem
        <5>2. \A i \in found : Items!IsPrefix(at, i.at)
          BY <2>3, PrefixReflexive
        <5> QED BY <5>1, <5>2
      <4>2. CASE Items!SearchItems(u, sent)
        <5> DEFINE found == {i \in items : Items!IsPrefix(at, i.at)}
        <5>1. items' = items /\ given' = [given EXCEPT ![u] = @ \cup found]
          BY <4>2 DEF Items!SearchItems, Items!Under
        <5> QED BY <5>1
      <4> QED BY <2>5, <4>1, <4>2
    <3>2. PICK found \in SUBSET items :
            /\ \A i \in found : Items!IsPrefix(at, i.at)
            /\ given' = [given EXCEPT ![u] = @ \cup found]
      BY <3>1
    <3>3. \A i \in found : Items!Shares(u, i)
      BY <3>2, StoreFinds
    <3>4. /\ given' \in [StoreUsers -> SUBSET StoreItem]
          /\ \A w \in StoreUsers : given'[w] = IF w = u THEN given[w] \cup found ELSE given[w]
      BY <3>2 DEF StoreInv
    <3>5. \A w \in StoreUsers : \A i \in given'[w] : Items!Shares(w, i)
      BY <3>3, <3>4 DEF StoreInv, Items!Isolated
    <3> HIDE DEF at, n
    <3> QED
      BY <2>1, <2>2, <2>3, <3>1, <3>4, <3>5 DEF StoreInv, Items!Isolated
  <2> QED
    BY <1>2, <2>4, <2>5
<1> QED
  BY <1>1, <1>2 DEF Items!Next

(* Store, for any users, groups, scope configurations and namespaces that      *)
(* clients and handlers send, another user's and another group's included: a   *)
(* user is only given what is his own or what a member of the same group put   *)
(* into a scope of that group, and finds what he put where he put it.          *)
THEOREM StoreIsolates ==
  ASSUME StoreDeployment
  PROVE  Items!Spec => [](Items!Isolated /\ Items!FindsOwn)
<1>1. Items!Init => StoreInv
  BY DEF Items!Init, StoreInv, Items!Isolated
<1>2. StoreInv => Items!Isolated /\ Items!FindsOwn
  <2> SUFFICES ASSUME StoreInv, NEW i \in items PROVE i \in Items!Under(i.by, i.asked)
    BY DEF StoreInv, Items!FindsOwn
  <2>1. i.at \in Seq(Labels)
        /\ i.at = Items!apply_namespace_scoping(Items!normalize_namespace(i.asked), i.by)
    BY DEF StoreInv, StoreItem
  <2>2. Items!IsPrefix(i.at, i.at)
    BY <2>1, PrefixReflexive
  <2> QED
    BY <2>1, <2>2 DEF Items!Under
<1>3. StoreInv /\ [Items!Next]_(Items!vars) => StoreInv'
  BY StoreStep
<1> QED
  BY <1>1, <1>2, <1>3, PTL DEF Items!Spec

-----------------------------------------------------------------------------
(* Requests on a thread.                                                      *)

ThreadRow ==
  [status : {"absent", "idle", "busy", "interrupted"}, ttl : Requests \cup {"none"},
   claimed : BOOLEAN, meta : [Request!Metadata -> Requests \cup {"none", "generated"}]]
ThreadRequest ==
  [kind : Kinds \cup {"none", "resume"},
   pc : {"unsent", "sent", "write", "prepare", "poll", "commit", "name", "done"},
   saw : ThreadRow, polls : Nat,
   reply : {"none", "created", "existing", "409", "404", "ok", "no_such_run", "400", "500"}]

RequestShape ==
  /\ row \in ThreadRow
  /\ run \in [Requests -> {"none", "active", "announced", "interrupted", "success"}]
  /\ req \in [Requests -> ThreadRequest]
  /\ naming \in SUBSET Requests /\ calls \in Nat

(* A run is created by requests that create runs, and nothing is answered      *)
(* before the end.                                                             *)
RequestWay(t) ==
  /\ t.pc \in {"prepare", "poll", "commit", "name"} =>
       t.kind \notin {"patchTag", "patchTitle", "create", "createOrGet"}
  /\ t.pc # "done" => t.reply = "none"

(* Nobody has written to a thread that does not exist. *)
RequestAbsent ==
  row.status = "absent" =>
    /\ row = Request!NoThread /\ naming = {}
    /\ \A r \in Requests :
         /\ run[r] = "none" /\ req[r].saw = Request!NoThread
         /\ req[r].pc \notin {"write", "name"} /\ req[r].reply # "created"
         /\ ~(req[r].kind = "patchTag" /\ req[r].reply = "ok")

(* What the row keeps of what was acknowledged; who names the thread has       *)
(* claimed it.                                                                 *)
RequestKept ==
  /\ calls = IF row.claimed THEN 1 ELSE 0
  /\ \A r \in Requests :
       /\ req[r].reply = "created" => row.ttl = r
       /\ req[r].kind = "patchTag" /\ req[r].reply = "ok" => row.meta["tag"] # "none"
       /\ run[r] # "none" => row.meta["graph"] # "none"

RequestInv ==
  /\ RequestShape /\ RequestAbsent /\ RequestKept
  /\ \A r \in Requests : RequestWay(req[r])

LEMMA NoThreadFields ==
  /\ Request!NoThread \in ThreadRow /\ Request!NoThread.status = "absent"
  /\ ~Request!NoThread.claimed /\ Request!NoThread.ttl = "none"
  /\ \A k \in Request!Metadata : Request!NoThread.meta[k] = "none"
BY DEF Request!NoThread, Request!Fresh, Request!None, ThreadRow

(* A step of one request that writes nothing. *)
LEMMA RequestMoves ==
  ASSUME RequestInv, NEW r \in Requests, NEW t \in ThreadRequest,
         req' = [req EXCEPT ![r] = t], UNCHANGED <<row, run, naming, calls>>,
         RequestWay(t), t.saw \in {req[r].saw, row},
         t.pc = "write" => row.status # "absent", t.pc # "name",
         t.reply \notin {"created", "ok"}
  PROVE  RequestInv'
<1>1. RequestShape' /\ \A q \in Requests : req'[q] = IF q = r THEN t ELSE req[q]
  BY DEF RequestInv, RequestShape
<1>2. RequestAbsent'
  <2> SUFFICES ASSUME row.status = "absent"
               PROVE  /\ row = Request!NoThread /\ naming = {}
                      /\ \A q \in Requests :
                           /\ run[q] = "none" /\ req'[q].saw = Request!NoThread
                           /\ req'[q].pc \notin {"write", "name"} /\ req'[q].reply # "created"
                           /\ ~(req'[q].kind = "patchTag" /\ req'[q].reply = "ok")
    BY DEF RequestAbsent
  <2>1. /\ row = Request!NoThread /\ naming = {}
        /\ \A q \in Requests :
             /\ run[q] = "none" /\ req[q].saw = Request!NoThread
             /\ req[q].pc \notin {"write", "name"} /\ req[q].reply # "created"
             /\ ~(req[q].kind = "patchTag" /\ req[q].reply = "ok")
    BY DEF RequestInv, RequestAbsent
  <2>2. t.saw = Request!NoThread /\ t.pc \notin {"write", "name"}
    BY <2>1
  <2> QED BY <1>1, <2>1, <2>2
<1>3. RequestKept'
  BY <1>1 DEF RequestInv, RequestKept
<1> QED
  BY <1>1, <1>2, <1>3 DEF RequestInv

LEMMA RequestFields ==
  ASSUME RequestInv, NEW r \in Requests
  PROVE  /\ req[r] \in ThreadRequest /\ RequestWay(req[r]) /\ row \in ThreadRow
         /\ req \in [Requests -> ThreadRequest]
BY DEF RequestInv, RequestShape

LEMMA RequestReplies ==
  ASSUME RequestInv, NEW r \in Requests,
         NEW a \in {"none", "existing", "409", "404", "no_such_run", "400", "500"},
         Request!Reply(r, a), UNCHANGED <<row, run, naming, calls>>
  PROVE  RequestInv'
<1> DEFINE t == [req[r] EXCEPT !.pc = "done", !.reply = a]
<1>1. t \in ThreadRequest /\ t.pc = "done" /\ t.saw = req[r].saw /\ t.reply = a
  BY RequestFields DEF ThreadRequest
<1>2. req' = [req EXCEPT ![r] = t]
  BY DEF Request!Reply, RequestInv, RequestShape
<1> HIDE DEF t
<1>3. RequestWay(t)
  BY <1>1 DEF RequestWay
<1> QED
  BY <1>1, <1>2, <1>3, RequestMoves

LEMMA RequestGoes ==
  ASSUME RequestInv, NEW r \in Requests,
         NEW p \in {"prepare", "poll"}, Request!Goto(r, p), req[r].pc # "done",
         req[r].kind \notin {"patchTag", "patchTitle", "create", "createOrGet"},
         UNCHANGED <<row, run, naming, calls>>
  PROVE  RequestInv'
<1> DEFINE t == [req[r] EXCEPT !.pc = p]
<1>1. /\ t \in ThreadRequest /\ t.pc = p /\ t.saw = req[r].saw /\ t.reply = req[r].reply
      /\ t.kind = req[r].kind /\ RequestWay(req[r])
  BY RequestFields DEF ThreadRequest
<1>2. req' = [req EXCEPT ![r] = t]
  BY DEF Request!Goto, RequestInv, RequestShape
<1> HIDE DEF t
<1>3. RequestWay(t) /\ t.reply = "none"
  BY <1>1 DEF RequestWay
<1> QED
  BY <1>1, <1>2, <1>3, RequestMoves

LEMMA RequestSteps ==
  ASSUME RequestInv, NEW r \in Requests,
         \/ \E k \in Kinds : Request!Send(r, k)
         \/ Request!ProbeThread(r) \/ Request!RunStart(r) \/ Request!InputRespond(r)
         \/ Request!ValidateResume(r) \/ Request!PollResume(r) \/ Request!SkipValidation(r)
         \/ Request!ReadThread(r) \/ Request!CreateCollides(r)
  PROVE  RequestInv'
<1>1. /\ req[r] \in ThreadRequest /\ RequestWay(req[r]) /\ row \in ThreadRow
      /\ req \in [Requests -> ThreadRequest]
  BY RequestFields DEF RequestInv, RequestShape
<1>2. ASSUME NEW k \in Kinds, Request!Send(r, k) PROVE RequestInv'
  <2> DEFINE t == [req[r] EXCEPT !.pc = "sent", !.kind = k]
  <2>1. /\ t \in ThreadRequest /\ t.pc = "sent" /\ t.saw = req[r].saw /\ t.reply = req[r].reply
    BY <1>1 DEF ThreadRequest
  <2>2. /\ req' = [req EXCEPT ![r] = t] /\ req[r].pc = "unsent"
        /\ UNCHANGED <<row, run, naming, calls>>
    BY <1>1, <1>2 DEF Request!Send
  <2> HIDE DEF t
  <2>3. RequestWay(t) /\ t.reply = "none"
    BY <1>1, <2>1, <2>2 DEF RequestWay
  <2> QED
    BY <2>1, <2>2, <2>3, RequestMoves
<1>3. CASE Request!ProbeThread(r)
  <2>1. CASE row = Request!NoThread
    BY <1>3, <2>1, RequestReplies DEF Request!ProbeThread
  <2>2. CASE row # Request!NoThread
    <3> DEFINE t == [req[r] EXCEPT !.pc = "write", !.saw = row]
    <3>1. /\ req' = [req EXCEPT ![r] = t] /\ req[r].pc = "sent"
          /\ UNCHANGED <<row, run, naming, calls>>
      BY <1>1, <1>3, <2>2 DEF Request!ProbeThread, Request!Read, Request!At
    <3>2. t \in ThreadRequest /\ t.pc = "write" /\ t.saw = row /\ t.reply = req[r].reply
      BY RequestFields DEF ThreadRequest
    <3> HIDE DEF t
    <3>3. RequestWay(t) /\ t.reply = "none"
      BY <1>1, <3>1, <3>2 DEF RequestWay
    <3>4. row.status # "absent"
      BY <2>2 DEF RequestInv, RequestAbsent
    <3> QED
      BY <3>1, <3>2, <3>3, <3>4, RequestMoves
  <2> QED
    BY <2>1, <2>2
<1>4. CASE Request!RunStart(r)
  <2>1. /\ req[r].pc = "sent" /\ req[r].kind = "start" /\ UNCHANGED <<row, run, naming, calls>>
    BY <1>4 DEF Request!RunStart, Request!At
  <2>2. CASE Request!Interrupted
    <3> DEFINE t == [req[r] EXCEPT !.kind = "resume"]
    <3>1. req' = [req EXCEPT ![r] = t]
      BY <1>1, <1>4, <2>2 DEF Request!RunStart
    <3>2. t \in ThreadRequest /\ t.pc = "sent" /\ t.saw = req[r].saw /\ t.reply = req[r].reply
      BY <1>1, <2>1 DEF ThreadRequest
    <3> HIDE DEF t
    <3>3. RequestWay(t) /\ t.reply = "none"
      BY <1>1, <2>1, <3>2 DEF RequestWay
    <3> QED
      BY <2>1, <3>1, <3>2, <3>3, RequestMoves
  <2>3. CASE ~Request!Interrupted
    <3>1. Request!Goto(r, "prepare")
      BY <1>4, <2>3 DEF Request!RunStart
    <3> QED
      BY <2>1, <3>1, RequestGoes
  <2> QED
    BY <2>2, <2>3
<1>5. CASE Request!InputRespond(r)
  BY <1>5, RequestReplies DEF Request!InputRespond
<1>6. CASE Request!ValidateResume(r)
  <2>1. /\ req[r].pc = "sent" /\ req[r].kind = "resume" /\ UNCHANGED <<row, run, naming, calls>>
    BY <1>6 DEF Request!ValidateResume, Request!At
  <2>2. \/ Request!Reply(r, "404") \/ Request!Goto(r, "prepare") \/ Request!Goto(r, "poll")
    BY <1>6 DEF Request!ValidateResume
  <2> QED
    BY <2>1, <2>2, RequestGoes, RequestReplies
<1>7. CASE Request!PollResume(r)
  <2>1. /\ req[r].pc = "poll" /\ req[r].kind = "resume" /\ UNCHANGED <<row, run, naming, calls>>
    BY <1>7 DEF Request!PollResume, Request!At
  <2> DEFINE t == [req[r] EXCEPT !.polls = @ + 1]
  <2>2. Request!Reply(r, "400") \/ Request!Goto(r, "prepare") \/ req' = [req EXCEPT ![r] = t]
    BY <1>1, <1>7 DEF Request!PollResume
  <2>3. /\ t \in ThreadRequest /\ t.pc = "poll" /\ t.saw = req[r].saw /\ t.reply = req[r].reply
        /\ t.kind = "resume"
    BY <1>1, <2>1 DEF ThreadRequest
  <2> HIDE DEF t
  <2>4. RequestWay(t) /\ t.reply = "none"
    BY <1>1, <2>1, <2>3 DEF RequestWay
  <2>5. req' = [req EXCEPT ![r] = t] => RequestInv'
    BY <2>1, <2>3, <2>4, RequestMoves
  <2> QED
    BY <2>1, <2>2, <2>5, RequestGoes, RequestReplies
<1>8. CASE Request!SkipValidation(r)
  <2>1. /\ req[r].pc = "sent" /\ req[r].kind = "run" /\ UNCHANGED <<row, run, naming, calls>>
        /\ Request!Goto(r, "prepare")
    BY <1>8 DEF Request!SkipValidation, Request!At
  <2> QED
    BY <2>1, RequestGoes
<1>9. CASE Request!ReadThread(r)
  <2> DEFINE t == [req[r] EXCEPT !.pc = "commit", !.saw = row]
  <2>1. /\ req' = [req EXCEPT ![r] = t] /\ req[r].pc = "prepare"
        /\ UNCHANGED <<row, run, naming, calls>>
    BY <1>1, <1>9 DEF Request!ReadThread, Request!Read
  <2>2. /\ t \in ThreadRequest /\ t.pc = "commit" /\ t.saw = row /\ t.reply = req[r].reply
        /\ t.kind = req[r].kind
    BY RequestFields DEF ThreadRequest
  <2> HIDE DEF t
  <2>3. RequestWay(t) /\ t.reply = "none"
    BY <1>1, <2>1, <2>2 DEF RequestWay
  <2> QED
    BY <2>1, <2>2, <2>3, RequestMoves
<1>10. CASE Request!CreateCollides(r)
  BY <1>10, RequestReplies DEF Request!CreateCollides
<1> QED
  BY <1>2, <1>3, <1>4, <1>5, <1>6, <1>7, <1>8, <1>9, <1>10

(* A step that writes the row: it exists afterwards, and a thread that existed *)
(* keeps its ttl, its name, its tag and its graph.                             *)
RowKept ==
  /\ row' \in ThreadRow /\ row'.status # "absent"
  /\ row.status # "absent" =>
       /\ row'.ttl = row.ttl
       /\ row.meta["tag"] # "none" => row'.meta["tag"] # "none"
       /\ row.meta["graph"] # "none" => row'.meta["graph"] # "none"
       /\ row.meta["name"] # "none" => row'.meta["name"] = row.meta["name"]

LEMMA RequestWrites ==
  ASSUME RequestInv, NEW r \in Requests, RowKept, RequestShape',
         \A q \in Requests \ {r} : req'[q] = req[q] /\ run'[q] = run[q],
         RequestWay(req'[r]),
         calls' = IF row'.claimed THEN 1 ELSE 0,
         req'[r].reply = "created" => row'.ttl = r,
         req'[r].kind = "patchTag" /\ req'[r].reply = "ok" => row'.meta["tag"] # "none",
         run'[r] # "none" => row'.meta["graph"] # "none"
  PROVE  RequestInv'
<1>1. RequestAbsent'
  BY DEF RequestAbsent, RowKept
<1>2. ASSUME NEW q \in Requests
      PROVE  /\ req'[q].reply = "created" => row'.ttl = q
             /\ req'[q].kind = "patchTag" /\ req'[q].reply = "ok" => row'.meta["tag"] # "none"
             /\ run'[q] # "none" => row'.meta["graph"] # "none"
             /\ RequestWay(req'[q])
  <2>1. CASE q = r
    BY <2>1
  <2>2. CASE q # r
    <3>1. req'[q] = req[q] /\ run'[q] = run[q] /\ RequestWay(req[q])
      BY <2>2 DEF RequestInv
    <3>2. /\ req[q].reply = "created" => row.status # "absent" /\ row.ttl = q
          /\ req[q].kind = "patchTag" /\ req[q].reply = "ok" =>
               row.status # "absent" /\ row.meta["tag"] # "none"
          /\ run[q] # "none" => row.status # "absent" /\ row.meta["graph"] # "none"
      BY DEF RequestInv, RequestAbsent, RequestKept
    <3> QED
      BY <3>1, <3>2 DEF RowKept
  <2> QED
    BY <2>1, <2>2
<1> QED
  BY <1>1, <1>2 DEF RequestInv, RequestKept, RequestWay

(* jsonb_shallow_merge of a patch by r. *)
LEMMA MergedRow ==
  ASSUME row \in ThreadRow, NEW r \in Requests, NEW patch,
         \A k \in DOMAIN patch : patch[k] = r
  PROVE  LET m == Request!Merged(r, patch) IN
         /\ m \in ThreadRow /\ m.status = row.status /\ m.ttl = row.ttl /\ m.claimed = row.claimed
         /\ \A k \in Request!Metadata : m.meta[k] = IF k \in DOMAIN patch THEN r ELSE row.meta[k]
<1> DEFINE mm == [k \in Request!Metadata |-> IF k \in DOMAIN patch THEN patch[k] ELSE row.meta[k]]
<1>1. mm \in [Request!Metadata -> Requests \cup {"none", "generated"}]
  BY DEF ThreadRow
<1>2. \A k \in Request!Metadata : mm[k] = IF k \in DOMAIN patch THEN r ELSE row.meta[k]
  OBVIOUS
<1>3. Request!Merged(r, patch) = [row EXCEPT !.meta = mm]
  BY DEF Request!Merged
<1> HIDE DEF mm
<1> QED
  BY <1>1, <1>2, <1>3 DEF ThreadRow

LEMMA RequestCreates ==
  ASSUME RequestInv, NEW r \in Requests, Request!CreateThread(r)
  PROVE  RequestInv' /\ (row.status = "absent" \/ row' = row)
<1>1. req[r].pc = "sent" /\ UNCHANGED <<run, naming, calls>>
  BY DEF Request!CreateThread, Request!At
<1>2. CASE row # Request!NoThread
  <2>1. row' = row /\ \E a \in {"existing", "409"} : Request!Reply(r, a)
    BY <1>2 DEF Request!CreateThread, Request!Inserted
  <2> QED
    BY <1>1, <2>1, RequestReplies
<1>3. CASE row = Request!NoThread
  <2> DEFINE t == [req[r] EXCEPT !.pc = "done", !.reply = "created"]
  <2>1. row' = Request!Fresh("idle", r) /\ req' = [req EXCEPT ![r] = t]
    BY <1>3, RequestFields DEF Request!CreateThread, Request!Inserted, Request!Reply
  <2>2. t \in ThreadRequest /\ t.pc = "done" /\ t.reply = "created"
    BY RequestFields DEF ThreadRequest
  <2> HIDE DEF t
  <2>3. /\ row' \in ThreadRow /\ row'.status = "idle" /\ row'.ttl = r /\ ~row'.claimed
    BY <2>1 DEF Request!Fresh, Request!None, ThreadRow
  <2>4. row.status = "absent" /\ ~row.claimed
    BY <1>3, NoThreadFields
  <2>5. RowKept
    BY <2>3, <2>4 DEF RowKept
  <2>6. /\ RequestShape' /\ req'[r] = t /\ \A q \in Requests \ {r} : req'[q] = req[q]
    BY <1>1, <2>1, <2>2, <2>3 DEF RequestInv, RequestShape
  <2>7. calls' = 0 /\ run'[r] = "none"
    BY <1>1, <2>4 DEF RequestInv, RequestKept, RequestAbsent
  <2> QED
    BY <1>1, <2>2, <2>3, <2>4, <2>5, <2>6, <2>7, RequestWrites DEF RequestWay
<1> QED
  BY <1>2, <1>3

LEMMA RequestUpdates ==
  ASSUME "none" \notin Requests, RequestInv, NEW r \in Requests, Request!UpdateThread(r)
  PROVE  RequestInv' /\ RowKept
<1> DEFINE t == [req[r] EXCEPT !.pc = "done", !.reply = "ok"]
           patch == IF req[r].kind = "patchTag" THEN [tag |-> r] ELSE [title |-> r]
<1>1. /\ req[r].pc = "write" /\ UNCHANGED <<run, naming, calls>>
      /\ row' = Request!Merged(r, patch) /\ req' = [req EXCEPT ![r] = t]
  BY RequestFields DEF Request!UpdateThread, Request!At, Request!Reply
<1>2. row.status # "absent" /\ row \in ThreadRow
  BY <1>1 DEF RequestInv, RequestAbsent, RequestShape
<1>3. /\ \A k \in DOMAIN patch : patch[k] = r
      /\ DOMAIN patch = IF req[r].kind = "patchTag" THEN {"tag"} ELSE {"title"}
  OBVIOUS
<1> HIDE DEF patch
<1>4. /\ row' \in ThreadRow /\ row'.status = row.status /\ row'.ttl = row.ttl
      /\ row'.claimed = row.claimed
      /\ \A k \in Request!Metadata : row'.meta[k] = IF k \in DOMAIN patch THEN r ELSE row.meta[k]
  BY <1>1, <1>2, <1>3, MergedRow
<1>5. t \in ThreadRequest /\ t.pc = "done" /\ t.reply = "ok" /\ t.kind = req[r].kind
  BY RequestFields DEF ThreadRequest
<1> HIDE DEF t
<1>6. /\ row'.meta["graph"] = row.meta["graph"] /\ row'.meta["name"] = row.meta["name"]
      /\ row'.meta["tag"] = IF req[r].kind = "patchTag" THEN r ELSE row.meta["tag"]
  BY <1>3, <1>4 DEF Request!Metadata
<1>7. RowKept
  BY <1>2, <1>4, <1>6 DEF RowKept
<1>8. /\ RequestShape' /\ req'[r] = t /\ \A q \in Requests \ {r} : req'[q] = req[q]
  BY <1>1, <1>4, <1>5 DEF RequestInv, RequestShape
<1>9. calls' = (IF row'.claimed THEN 1 ELSE 0) /\ (run'[r] # "none" => row'.meta["graph"] # "none")
  BY <1>1, <1>4, <1>6 DEF RequestInv, RequestKept
<1> QED
  BY <1>1, <1>5, <1>6, <1>7, <1>8, <1>9, RequestWrites DEF RequestWay

LEMMA RequestCommits ==
  ASSUME "none" \notin Requests, RequestInv, NEW r \in Requests, Request!CommitRun(r)
  PROVE  RequestInv' /\ RowKept
<1>1. /\ req[r].pc = "commit" /\ UNCHANGED <<naming, calls>> /\ run' = [run EXCEPT ![r] = "active"]
      /\ row' = Request!Prepared(r) /\ (req[r].saw = Request!NoThread => row = Request!NoThread)
  BY DEF Request!CommitRun
<1>2. PICK t \in ThreadRequest :
        /\ req' = [req EXCEPT ![r] = t] /\ t.kind = req[r].kind
        /\ \/ t.pc = "name" /\ t.reply = req[r].reply
           \/ t.pc = "done" /\ t.reply = "ok"
  <2> DEFINE t == [req[r] EXCEPT !.pc = "name"]
             u == [req[r] EXCEPT !.pc = "done", !.reply = "ok"]
  <2>1. req' = [req EXCEPT ![r] = t] \/ req' = [req EXCEPT ![r] = u]
    BY RequestFields DEF Request!CommitRun, Request!Goto, Request!Reply
  <2>2. /\ t \in ThreadRequest /\ t.pc = "name" /\ t.reply = req[r].reply /\ t.kind = req[r].kind
    BY RequestFields DEF ThreadRequest
  <2>3. /\ u \in ThreadRequest /\ u.pc = "done" /\ u.reply = "ok" /\ u.kind = req[r].kind
    BY RequestFields DEF ThreadRequest
  <2> HIDE DEF t, u
  <2> QED
    BY <2>1, <2>2, <2>3
<1>3. /\ RequestWay(t) /\ t.reply # "created" /\ ~(t.kind = "patchTag" /\ t.reply = "ok")
  BY <1>1, <1>2, RequestFields DEF RequestWay
<1>4. RowKept /\ row'.meta["graph"] # "none" /\ row'.claimed = row.claimed
  <2>1. CASE req[r].saw = Request!NoThread
    <3> DEFINE f == Request!Fresh("busy", "none")
               n == IF req[r].kind = "resume" THEN "none" ELSE r
    <3>1. row' = [f EXCEPT !.meta = [@ EXCEPT !["graph"] = r, !["name"] = n]]
      BY <1>1, <2>1 DEF Request!Prepared, Request!None, Request!Fresh, Request!Metadata
    <3>2. f \in ThreadRow /\ f.status = "busy" /\ ~f.claimed
      BY DEF Request!Fresh, ThreadRow, Request!None
    <3> HIDE DEF f
    <3>3. /\ row' \in ThreadRow /\ row'.status = "busy" /\ ~row'.claimed /\ row'.meta["graph"] = r
      BY <3>1, <3>2 DEF ThreadRow, Request!Metadata
    <3>4. row.status = "absent" /\ ~row.claimed
      BY <1>1, <2>1, NoThreadFields
    <3> QED
      BY <3>3, <3>4, RequestFields DEF RowKept, ThreadRow
  <2>2. CASE req[r].saw # Request!NoThread
    <3> DEFINE patch == IF Request!Names(r) THEN [graph |-> r, name |-> r] ELSE [graph |-> r]
               m == Request!Merged(r, patch)
    <3>1. row' = [m EXCEPT !.status = "busy"]
      BY <1>1, <2>2 DEF Request!Prepared
    <3>2. row.status # "absent" /\ row \in ThreadRow
      BY <2>2 DEF RequestInv, RequestAbsent, RequestShape
    <3>3. /\ \A k \in DOMAIN patch : patch[k] = r
          /\ DOMAIN patch = IF Request!Names(r) THEN {"graph", "name"} ELSE {"graph"}
      OBVIOUS
    <3>4. Request!Names(r) => row.meta["name"] = "none"
      BY DEF Request!Names, Request!None
    <3> HIDE DEF patch
    <3>5. /\ m \in ThreadRow /\ m.ttl = row.ttl /\ m.claimed = row.claimed
          /\ \A k \in Request!Metadata : m.meta[k] = IF k \in DOMAIN patch THEN r ELSE row.meta[k]
      BY <3>2, <3>3, MergedRow
    <3>6. /\ m.meta["graph"] = r /\ m.meta["tag"] = row.meta["tag"]
          /\ m.meta["name"] = IF Request!Names(r) THEN r ELSE row.meta["name"]
      BY <3>3, <3>5 DEF Request!Metadata
    <3> HIDE DEF m
    <3>7. /\ row' \in ThreadRow /\ row'.status = "busy" /\ row'.ttl = m.ttl
          /\ row'.claimed = m.claimed /\ row'.meta = m.meta
      BY <3>1, <3>5 DEF ThreadRow
    <3> QED
      BY <3>2, <3>4, <3>5, <3>6, <3>7 DEF RowKept
  <2> QED
    BY <2>1, <2>2
<1>5. /\ RequestShape' /\ req'[r] = t
      /\ \A q \in Requests \ {r} : req'[q] = req[q] /\ run'[q] = run[q]
  BY <1>1, <1>2, <1>4 DEF RequestInv, RequestShape, RowKept
<1>6. calls' = IF row'.claimed THEN 1 ELSE 0
  BY <1>1, <1>4 DEF RequestInv, RequestKept
<1> QED
  BY <1>3, <1>4, <1>5, <1>6, RequestWrites

LEMMA RequestNames ==
  ASSUME RequestInv, NEW r \in Requests, Request!ClaimNaming(r)
  PROVE  RequestInv' /\ RowKept
<1> DEFINE t == [req[r] EXCEPT !.pc = "done", !.reply = "ok"]
<1>1. /\ req[r].pc = "name" /\ req[r].kind = "run" /\ run' = run /\ req' = [req EXCEPT ![r] = t]
  BY RequestFields DEF Request!ClaimNaming, Request!At, Request!Reply
<1>2. t \in ThreadRequest /\ t.pc = "done" /\ t.reply = "ok" /\ t.kind = "run"
  BY <1>1, RequestFields DEF ThreadRequest
<1> HIDE DEF t
<1>3. row.status # "absent" /\ row \in ThreadRow
  BY <1>1 DEF RequestInv, RequestAbsent, RequestShape
<1>4. RowKept /\ naming' \in SUBSET Requests /\ calls' \in Nat
      /\ calls' = (IF row'.claimed THEN 1 ELSE 0) /\ row'.meta["graph"] = row.meta["graph"]
  <2>1. CASE row.claimed
    <3>1. row' = row /\ naming' = naming /\ calls' = calls
      BY <2>1 DEF Request!ClaimNaming, Request!Claims
    <3> QED
      BY <1>3, <3>1 DEF RowKept, RequestInv, RequestShape, RequestKept
  <2>2. CASE ~row.claimed
    <3>1. /\ row' = [row EXCEPT !.claimed = TRUE, !.meta = [@ EXCEPT !["title"] = r]]
          /\ naming' = naming \cup {r} /\ calls' = calls + 1
      BY <2>2 DEF Request!ClaimNaming, Request!Claims
    <3>2. /\ row' \in ThreadRow /\ row'.status = row.status /\ row'.ttl = row.ttl /\ row'.claimed
          /\ row'.meta = [row.meta EXCEPT !["title"] = r]
      BY <1>3, <3>1 DEF ThreadRow
    <3>3. /\ row'.meta["tag"] = row.meta["tag"] /\ row'.meta["graph"] = row.meta["graph"]
          /\ row'.meta["name"] = row.meta["name"]
      BY <1>3, <3>2 DEF ThreadRow, Request!Metadata
    <3>4. calls = 0
      BY <2>2 DEF RequestInv, RequestKept
    <3> QED
      BY <1>3, <3>1, <3>2, <3>3, <3>4 DEF RowKept, RequestInv, RequestShape
  <2> QED
    BY <2>1, <2>2
<1>5. /\ RequestShape' /\ req'[r] = t
      /\ \A q \in Requests \ {r} : req'[q] = req[q] /\ run'[q] = run[q]
  BY <1>1, <1>2, <1>4 DEF RequestInv, RequestShape, RowKept
<1>6. run'[r] # "none" => row'.meta["graph"] # "none"
  BY <1>1, <1>4 DEF RequestInv, RequestKept
<1> QED
  BY <1>2, <1>4, <1>5, <1>6, RequestWrites DEF RequestWay

LEMMA RequestExecutes ==
  ASSUME RequestInv, NEW r \in Requests,
         Request!SetTitle(r) \/ Request!Announce(r) \/ Request!Finalize(r)
  PROVE  RequestInv' /\ RowKept
<1>1. row.status # "absent" /\ row \in ThreadRow
  BY DEF RequestInv, RequestAbsent, RequestShape, Request!SetTitle, Request!Announce,
         Request!Finalize
<1>2. /\ req' = req /\ calls' = calls /\ naming' \in SUBSET Requests
      /\ run' \in [Requests -> {"none", "active", "announced", "interrupted", "success"}]
      /\ (run[r] = "none" => run'[r] = "none") /\ \A q \in Requests \ {r} : run'[q] = run[q]
  BY DEF RequestInv, RequestShape, Request!SetTitle, Request!Announce, Request!Finalize
<1>3. /\ row' \in ThreadRow /\ row'.status # "absent" /\ row'.ttl = row.ttl
      /\ row'.claimed = row.claimed
      /\ row'.meta["tag"] = row.meta["tag"] /\ row'.meta["graph"] = row.meta["graph"]
      /\ row'.meta["name"] = row.meta["name"]
  <2>1. CASE row' = row
    BY <1>1, <2>1
  <2>2. CASE row' = [row EXCEPT !.meta = [@ EXCEPT !["title"] = "generated"]]
    <3>1. /\ row' \in ThreadRow /\ row'.status = row.status /\ row'.ttl = row.ttl
          /\ row'.claimed = row.claimed
          /\ row'.meta = [row.meta EXCEPT !["title"] = "generated"]
      BY <1>1, <2>2 DEF ThreadRow
    <3> QED
      BY <1>1, <3>1 DEF ThreadRow, Request!Metadata
  <2>3. ASSUME NEW s \in {"interrupted", "idle"}, row' = [row EXCEPT !.status = s]
        PROVE  <1>3!:
    BY <1>1, <2>3 DEF ThreadRow
  <2> QED
    BY <2>1, <2>2, <2>3 DEF Request!SetTitle, Request!Announce, Request!Finalize
<1>4. RowKept
  BY <1>3 DEF RowKept
<1>5. RequestShape'
  BY <1>2, <1>3 DEF RequestInv, RequestShape
<1>6. /\ RequestWay(req[r]) /\ calls' = (IF row'.claimed THEN 1 ELSE 0)
      /\ req[r].reply = "created" => row.ttl = r
      /\ req[r].kind = "patchTag" /\ req[r].reply = "ok" => row.meta["tag"] # "none"
      /\ run'[r] # "none" => row.meta["graph"] # "none"
  BY <1>2, <1>3 DEF RequestInv, RequestKept
<1> QED
  BY <1>2, <1>3, <1>4, <1>5, <1>6, RequestWrites

(* Every step keeps the invariant, and the row of a thread that exists. *)
LEMMA RequestStep ==
  ASSUME "none" \notin Requests, RequestInv, [Request!Next]_(Request!vars)
  PROVE  RequestInv' /\ (row' = row \/ row.status = "absent" \/ RowKept)
<1>1. CASE UNCHANGED Request!vars
  BY <1>1 DEF Request!vars, RequestInv, RequestShape, RequestAbsent, RequestKept, RequestWay,
              Request!NoThread, Request!Fresh, Request!None
<1>2. ASSUME NEW r \in Requests,
             \/ \E k \in Kinds : Request!Send(r, k)
             \/ Request!ProbeThread(r) \/ Request!RunStart(r) \/ Request!InputRespond(r)
             \/ Request!ValidateResume(r) \/ Request!PollResume(r) \/ Request!SkipValidation(r)
             \/ Request!ReadThread(r) \/ Request!CreateCollides(r)
      PROVE  RequestInv' /\ row' = row
  <2>1. RequestInv'
    BY <1>2, RequestSteps
  <2>2. row' = row
    BY <1>2 DEF Request!Send, Request!ProbeThread, Request!RunStart, Request!InputRespond,
                Request!ValidateResume, Request!PollResume, Request!SkipValidation,
                Request!ReadThread, Request!CreateCollides
  <2> QED
    BY <2>1, <2>2
<1> QED
  BY <1>1, <1>2, RequestCreates, RequestUpdates, RequestCommits, RequestNames, RequestExecutes
     DEF Request!Next

LEMMA RequestInit == Request!Init => RequestInv
<1> SUFFICES ASSUME Request!Init PROVE RequestInv
  OBVIOUS
<1> DEFINE t == [kind |-> Request!None, pc |-> "unsent", saw |-> Request!NoThread,
                 polls |-> 0, reply |-> Request!None]
<1>1. t \in ThreadRequest /\ t.pc = "unsent" /\ t.saw = Request!NoThread /\ t.reply = "none"
  BY NoThreadFields DEF ThreadRequest, Request!None
<1>2. \A r \in Requests : req[r] = t /\ run[r] = "none"
  BY DEF Request!Init, Request!None
<1>3. req = [r \in Requests |-> t] /\ run = [r \in Requests |-> "none"] /\ row = Request!NoThread
      /\ naming = {} /\ calls = 0
  BY DEF Request!Init, Request!None
<1> HIDE DEF t
<1>4. RequestShape
  BY <1>1, <1>3, NoThreadFields DEF RequestShape
<1>5. RequestAbsent /\ RequestKept
  BY <1>1, <1>2, <1>3, NoThreadFields DEF RequestAbsent, RequestKept
<1> QED
  BY <1>1, <1>2, <1>4, <1>5 DEF RequestInv, RequestWay

(* ThreadRequests, for any number of requests on a thread: an acknowledged     *)
(* tag and the graph of an accepted run are never undone by a request that     *)
(* read the row before, one naming call is made at most, and the ttl is that   *)
(* of the request that created the thread.                                     *)
THEOREM RequestsKeepWrites ==
  ASSUME "none" \notin Requests
  PROVE  Request!Spec =>
           [](Request!WritesKept /\ Request!OneNamingCall /\ Request!TtlOfCreator)
<1>1. RequestInv => Request!WritesKept /\ Request!OneNamingCall /\ Request!TtlOfCreator
  BY DEF RequestInv, RequestKept, Request!WritesKept, Request!OneNamingCall,
         Request!TtlOfCreator, Request!None
<1>2. RequestInv /\ [Request!Next]_(Request!vars) => RequestInv'
  BY RequestStep
<1> QED
  BY <1>1, <1>2, RequestInit, PTL DEF Request!Spec

(* ThreadRequests: a thread that has a name keeps it, whichever runs are       *)
(* created meanwhile.                                                          *)
THEOREM NamesKept ==
  ASSUME "none" \notin Requests
  PROVE  Request!Spec => [][Request!KeepsName]_(Request!vars)
<1>1. RequestInv /\ [Request!Next]_(Request!vars) => RequestInv'
  BY RequestStep
<1>2. RequestInv /\ [Request!Next]_(Request!vars) => [Request!KeepsName]_(Request!vars)
  <2> SUFFICES ASSUME RequestInv, [Request!Next]_(Request!vars), row.meta["name"] # "none"
               PROVE  row'.meta["name"] = row.meta["name"]
    BY DEF Request!KeepsName, Request!None
  <2>1. row.status # "absent"
    BY NoThreadFields DEF RequestInv, RequestAbsent, Request!Metadata
  <2> QED
    BY <2>1, RequestStep DEF RowKept
<1> QED
  BY <1>1, <1>2, RequestInit, PTL DEF Request!Spec

(* Two runs besides r's have been accepted. *)
Overtaken(r) == \E a, b \in Requests \ {r} : a # b /\ run[a] # "none" /\ run[b] # "none"

(* A request has no run before it commits one; an interrupted thread has a run  *)
(* that asked and none that executes; a resume past its validation was          *)
(* validated on such a thread, and only a later commit can have changed that.   *)
ResumeInv ==
  /\ row.status = "interrupted" =>
       /\ \E q \in Requests : run[q] = "interrupted"
       /\ \A q \in Requests : run[q] \notin {"active", "announced"}
  /\ \A r \in Requests : req[r].pc \notin {"name", "done"} => run[r] = "none"
  /\ \A r \in Requests :
       req[r].kind = "resume" /\ req[r].pc \in {"prepare", "commit"} =>
         Overtaken(r) \/ row.status = "interrupted"
  /\ stale \subseteq Requests /\ \A r \in stale : Overtaken(r)

(* A step of one request that writes nothing. *)
LEMMA ResumeMoves ==
  ASSUME RequestShape, ResumeInv, NEW r \in Requests, UNCHANGED <<row, run, stale>>,
         \A q \in Requests \ {r} : req'[q] = req[q],
         req'[r].pc \notin {"name", "done"} => run[r] = "none",
         req'[r].kind = "resume" /\ req'[r].pc \in {"prepare", "commit"} =>
            Overtaken(r) \/ row.status = "interrupted"
  PROVE  ResumeInv'
<1>1. \A q : Overtaken(q)' <=> Overtaken(q)
  BY DEF Overtaken
<1> QED
  BY <1>1 DEF ResumeInv

LEMMA ResumeSteps ==
  ASSUME RequestInv, ResumeInv, NEW r \in Requests,
         \/ \E k \in Kinds : Request!Send(r, k)
         \/ Request!ProbeThread(r) \/ Request!RunStart(r) \/ Request!InputRespond(r)
         \/ Request!ValidateResume(r) \/ Request!PollResume(r) \/ Request!SkipValidation(r)
         \/ Request!ReadThread(r) \/ Request!CreateCollides(r)
  PROVE  ResumeInv'
<1>1. /\ RequestShape /\ req[r] \in ThreadRequest /\ req \in [Requests -> ThreadRequest]
  BY RequestFields DEF RequestInv
<1>2. UNCHANGED <<row, run, stale>> /\ req[r].pc \notin {"name", "done"}
  BY DEF Request!Send, Request!ProbeThread, Request!RunStart, Request!InputRespond,
         Request!ValidateResume, Request!PollResume, Request!SkipValidation,
         Request!ReadThread, Request!CreateCollides, Request!At
<1>3. \A q \in Requests \ {r} : req'[q] = req[q]
  BY <1>1 DEF Request!Send, Request!ProbeThread, Request!RunStart, Request!InputRespond,
         Request!ValidateResume, Request!PollResume, Request!SkipValidation,
         Request!ReadThread, Request!CreateCollides, Request!Goto, Request!Read, Request!Reply
<1>4. run[r] = "none"
  BY <1>2 DEF ResumeInv
<1>5. ASSUME req'[r].kind = "resume", req'[r].pc \in {"prepare", "commit"}
      PROVE  Overtaken(r) \/ row.status = "interrupted"
  <2>1. CASE req[r].kind = "resume" /\ req[r].pc = "prepare"
    BY <2>1 DEF ResumeInv
  <2>2. CASE Request!ReadThread(r)
    <3>1. req'[r].kind = req[r].kind /\ req[r].pc = "prepare"
      BY <1>1, <2>2 DEF Request!ReadThread, Request!Read, ThreadRequest
    <3> QED
      BY <1>5, <2>1, <3>1
  <2>3. CASE Request!ValidateResume(r) \/ Request!PollResume(r)
    <3>1. row.status = "interrupted" \/ req'[r].pc \in {"done", "poll"}
      BY <1>1, <2>3 DEF Request!ValidateResume, Request!PollResume, Request!Interrupted,
            Request!Goto, Request!Reply, Request!At, ThreadRequest
    <3> QED
      BY <1>5, <3>1
  <2>4. CASE Request!RunStart(r)
    <3>1. req'[r].kind = "start" \/ req'[r].pc = "sent"
      BY <1>1, <2>4 DEF Request!RunStart, Request!Goto, Request!At, ThreadRequest
    <3> QED
      BY <1>5, <3>1
  <2>5. CASE Request!SkipValidation(r)
    <3>1. req'[r].kind = "run"
      BY <1>1, <2>5 DEF Request!SkipValidation, Request!Goto, Request!At, ThreadRequest
    <3> QED
      BY <1>5, <3>1
  <2>6. CASE \/ \E k \in Kinds : Request!Send(r, k)
             \/ Request!ProbeThread(r) \/ Request!InputRespond(r) \/ Request!CreateCollides(r)
    <3>1. req'[r].pc \in {"sent", "write", "done"}
      BY <1>1, <2>6 DEF Request!Send, Request!ProbeThread, Request!InputRespond,
            Request!CreateCollides, Request!Reply, Request!Read, ThreadRequest
    <3> QED
      BY <1>5, <3>1
  <2> QED
    BY <2>2, <2>3, <2>4, <2>5, <2>6
<1> QED
  BY <1>1, <1>2, <1>3, <1>4, <1>5, ResumeMoves

(* Whatever was overtaken stays so: a run does not go away. *)
LEMMA OvertakenStays ==
  ASSUME \A q \in Requests : run[q] # "none" => run'[q] # "none", NEW r, Overtaken(r)
  PROVE  Overtaken(r)'
BY DEF Overtaken

LEMMA ResumeCommits ==
  ASSUME RequestInv, ResumeInv, NEW r \in Requests, Request!CommitRun(r)
  PROVE  ResumeInv'
<1>1. /\ RequestShape /\ req[r] \in ThreadRequest /\ req \in [Requests -> ThreadRequest]
      /\ row \in ThreadRow
  BY RequestFields DEF RequestInv
<1>2. /\ req[r].pc = "commit" /\ run' = [run EXCEPT ![r] = "active"]
      /\ stale' = IF req[r].kind = "resume" /\ ~Request!Interrupted THEN stale \cup {r} ELSE stale
  BY DEF Request!CommitRun
<1>3. /\ \A q \in Requests \ {r} : req'[q] = req[q] /\ run'[q] = run[q]
      /\ run[r] = "none" /\ run'[r] = "active" /\ req'[r].pc \in {"name", "done"}
  BY <1>1, <1>2 DEF Request!CommitRun, Request!Goto, Request!Reply, ResumeInv, RequestShape,
        ThreadRequest
<1>4. row'.status = "busy"
  <2>1. row' = Request!Prepared(r)
    BY DEF Request!CommitRun
  <2>2. CASE req[r].saw = Request!NoThread
    BY <2>1, <2>2 DEF Request!Prepared, Request!Fresh
  <2>3. CASE req[r].saw # Request!NoThread
    <3> DEFINE patch == IF Request!Names(r) THEN [graph |-> r, name |-> r] ELSE [graph |-> r]
               m == Request!Merged(r, patch)
    <3>1. row' = [m EXCEPT !.status = "busy"]
      BY <2>1, <2>3 DEF Request!Prepared
    <3>2. \A k \in DOMAIN patch : patch[k] = r
      OBVIOUS
    <3> HIDE DEF patch
    <3>3. m \in ThreadRow
      BY <1>1, <3>2, MergedRow
    <3> HIDE DEF m
    <3> QED
      BY <3>1, <3>3 DEF ThreadRow
  <2> QED
    BY <2>2, <2>3
<1>5. \A q \in Requests : run[q] # "none" => run'[q] # "none"
  BY <1>3
<1>6. ASSUME NEW q \in Requests \ {r}, row.status = "interrupted", run[q] = "none"
      PROVE  Overtaken(q)'
  <2>1. PICK a \in Requests : run[a] = "interrupted"
    BY <1>6 DEF ResumeInv
  <2>2. a # q /\ a # r /\ run'[a] # "none" /\ run'[r] # "none"
    BY <1>3, <1>6, <2>1
  <2> QED
    BY <2>2 DEF Overtaken
<1>7. ASSUME NEW q \in Requests, req'[q].kind = "resume", req'[q].pc \in {"prepare", "commit"}
      PROVE  Overtaken(q)'
  <2>1. q # r /\ req'[q] = req[q]
    BY <1>3, <1>7
  <2>2. run[q] = "none" /\ (Overtaken(q) \/ row.status = "interrupted")
    BY <1>7, <2>1 DEF ResumeInv
  <2> QED
    BY <1>5, <1>6, <2>1, <2>2, OvertakenStays
<1>8. ASSUME NEW q \in stale' PROVE q \in Requests /\ Overtaken(q)'
  <2>1. q \in stale \/ (q = r /\ req[r].kind = "resume" /\ row.status # "interrupted")
    BY <1>2, <1>8 DEF Request!Interrupted
  <2>2. Overtaken(q) /\ q \in Requests
    BY <1>2, <2>1 DEF ResumeInv
  <2> QED
    BY <1>5, <2>2, OvertakenStays
<1> QED
  BY <1>3, <1>4, <1>7, <1>8 DEF ResumeInv

(* A step that leaves the program counters of runs to come and the stale        *)
(* resumes alone, and the status too unless a run of r ends.                    *)
LEMMA ResumeWrites ==
  ASSUME ResumeInv, NEW r \in Requests, stale' = stale,
         \A q \in Requests : req'[q] = req[q] \/ (q = r /\ req'[r].pc = "done"),
         \A q \in Requests : run[q] = "none" <=> run'[q] = "none",
         row.status = "interrupted" => row'.status = "interrupted",
         row'.status = "interrupted" =>
           /\ \E q \in Requests : run'[q] = "interrupted"
           /\ \A q \in Requests : run'[q] \notin {"active", "announced"}
  PROVE  ResumeInv'
<1>1. \A q : Overtaken(q) => Overtaken(q)'
  BY DEF Overtaken
<1>2. ASSUME NEW q \in Requests
      PROVE  /\ req'[q].pc \notin {"name", "done"} => run'[q] = "none"
             /\ req'[q].kind = "resume" /\ req'[q].pc \in {"prepare", "commit"} =>
                  Overtaken(q)' \/ row'.status = "interrupted"
  <2>1. CASE req'[q] = req[q]
    BY <1>1, <2>1 DEF ResumeInv
  <2>2. CASE q = r /\ req'[r].pc = "done"
    BY <2>2
  <2> QED
    BY <2>1, <2>2
<1> QED
  BY <1>1, <1>2 DEF ResumeInv

LEMMA ResumeOthers ==
  ASSUME RequestInv, ResumeInv, NEW r \in Requests,
         \/ Request!CreateThread(r) \/ Request!UpdateThread(r) \/ Request!ClaimNaming(r)
         \/ Request!SetTitle(r) \/ Request!Announce(r) \/ Request!Finalize(r)
  PROVE  ResumeInv'
<1>1. /\ RequestShape /\ req[r] \in ThreadRequest /\ req \in [Requests -> ThreadRequest]
      /\ row \in ThreadRow
  BY RequestFields DEF RequestInv
<1>2. stale' = stale
  BY DEF Request!CreateThread, Request!UpdateThread, Request!ClaimNaming, Request!SetTitle,
         Request!Announce, Request!Finalize
<1>3. CASE Request!CreateThread(r) \/ Request!UpdateThread(r) \/ Request!ClaimNaming(r) \/ Request!SetTitle(r)
  <2>1. run' = run
    BY <1>3 DEF Request!CreateThread, Request!UpdateThread, Request!ClaimNaming, Request!SetTitle
  <2>2. \A q \in Requests : req'[q] = req[q] \/ (q = r /\ req'[r].pc = "done")
    BY <1>1, <1>3 DEF Request!CreateThread, Request!UpdateThread, Request!ClaimNaming,
          Request!SetTitle, Request!Reply, ThreadRequest
  <2>3. row.status = "interrupted" <=> row'.status = "interrupted"
    <3>1. CASE Request!CreateThread(r)
      BY <3>1, NoThreadFields DEF Request!CreateThread, Request!Inserted, Request!Fresh
    <3>2. CASE Request!UpdateThread(r)
      <4> DEFINE patch == IF req[r].kind = "patchTag" THEN [tag |-> r] ELSE [title |-> r]
      <4>1. row' = Request!Merged(r, patch) /\ \A k \in DOMAIN patch : patch[k] = r
        BY <3>2 DEF Request!UpdateThread
      <4> HIDE DEF patch
      <4> QED
        BY <1>1, <4>1, MergedRow
    <3>3. CASE Request!ClaimNaming(r) \/ Request!SetTitle(r)
      BY <1>1, <3>3 DEF Request!ClaimNaming, Request!SetTitle, ThreadRow
    <3> QED
      BY <1>3, <3>1, <3>2, <3>3
  <2> QED
    BY <1>2, <2>1, <2>2, <2>3, ResumeWrites DEF ResumeInv
<1>4. CASE Request!Announce(r)
  <2>1. /\ req' = req /\ row' = row /\ run[r] = "active" /\ run'[r] = "announced"
        /\ \A q \in Requests \ {r} : run'[q] = run[q]
    BY <1>1, <1>4 DEF Request!Announce, RequestShape
  <2>2. row.status # "interrupted"
    BY <2>1 DEF ResumeInv
  <2> QED
    BY <1>2, <2>1, <2>2, ResumeWrites
<1>5. CASE Request!Finalize(r)
  <2> DEFINE end == IF run[r] = "announced" THEN "interrupted" ELSE "success"
             others == {q \in Requests \ {r} : run[q] \in {"active", "announced"}}
  <2>1. /\ req' = req /\ run[r] \in {"active", "announced"} /\ run'[r] = end
        /\ \A q \in Requests \ {r} : run'[q] = run[q]
    BY <1>1, <1>5 DEF Request!Finalize, RequestShape
  <2>2. row.status # "interrupted"
    BY <2>1 DEF ResumeInv
  <2>3. row'.status = "interrupted" => others = {} /\ end = "interrupted"
    <3>1. CASE others # {}
      <4>1. row' = row
        BY <1>5, <3>1 DEF Request!Finalize
      <4> QED
        BY <2>2, <4>1
    <3>2. CASE others = {}
      <4>1. row' = [row EXCEPT !.status = IF end = "interrupted" THEN end ELSE "idle"]
        BY <1>5, <3>2 DEF Request!Finalize
      <4>2. row'.status = IF end = "interrupted" THEN end ELSE "idle"
        BY <1>1, <4>1 DEF ThreadRow
      <4> QED
        BY <3>2, <4>2
    <3> QED
      BY <3>1, <3>2
  <2>4. end \in {"interrupted", "success"}
    OBVIOUS
  <2>5. ASSUME row'.status = "interrupted"
        PROVE  /\ \E q \in Requests : run'[q] = "interrupted"
               /\ \A q \in Requests : run'[q] \notin {"active", "announced"}
    BY <2>1, <2>3, <2>5
  <2> HIDE DEF end, others
  <2>6. \A q \in Requests : run[q] = "none" <=> run'[q] = "none"
    BY <2>1, <2>4
  <2> QED
    BY <1>2, <2>1, <2>2, <2>5, <2>6, ResumeWrites
<1> QED
  BY <1>3, <1>4, <1>5

LEMMA ResumeStep ==
  ASSUME RequestInv, ResumeInv, [Request!Next]_(Request!vars)
  PROVE  ResumeInv'
<1>1. CASE UNCHANGED Request!vars
  BY <1>1 DEF Request!vars, ResumeInv, Overtaken
<1> QED
  BY <1>1, ResumeSteps, ResumeCommits, ResumeOthers DEF Request!Next

LEMMA RequestCounts == \A S : Request!Cardinality(S) = Cardinality(S)
BY DEF Request!Cardinality, Cardinality

(* ThreadRequests, for any finite number of requests: a resume that was         *)
(* accepted on a thread no longer interrupted was overtaken after its           *)
(* validation, by a run accepted besides the one that asked.                    *)
THEOREM StaleResumesOvertaken ==
  ASSUME "none" \notin Requests, IsFiniteSet(Requests)
  PROVE  Request!Spec => []Request!ResumesOvertaken
<1>1. Request!Init => RequestInv /\ ResumeInv
  <2> SUFFICES ASSUME Request!Init PROVE ResumeInv
    BY RequestInit
  <2>1. /\ row = Request!NoThread /\ stale = {}
        /\ \A r \in Requests : req[r].pc = "unsent" /\ run[r] = "none"
    BY DEF Request!Init, Request!None
  <2> QED
    BY <2>1, NoThreadFields DEF ResumeInv
<1>2. RequestInv /\ ResumeInv /\ [Request!Next]_(Request!vars) => (RequestInv /\ ResumeInv)'
  BY RequestStep, ResumeStep
<1>3. ResumeInv => Request!ResumesOvertaken
  <2> SUFFICES ASSUME ResumeInv, NEW r \in stale
               PROVE  Cardinality({q \in Requests \ {r} : run[q] # "none"}) >= 2
    BY RequestCounts DEF Request!ResumesOvertaken, Request!None
  <2> DEFINE S == {q \in Requests \ {r} : run[q] # "none"}
  <2>1. PICK a, b \in S : a # b
    BY DEF ResumeInv, Overtaken
  <2>2. IsFiniteSet(S)
    BY FS_Subset
  <2> HIDE DEF S
  <2>3. IsFiniteSet({a}) /\ Cardinality({a}) = 1
    BY FS_Singleton
  <2>4. IsFiniteSet({a} \cup {b}) /\ Cardinality({a} \cup {b}) = 2
    <3>1. b \notin {a}
      BY <2>1
    <3>2. Cardinality({a} \cup {b}) = Cardinality({a}) + 1 /\ IsFiniteSet({a} \cup {b})
      BY <2>3, <3>1, FS_AddElement
    <3> QED
      BY <2>3, <3>2
  <2>5. {a} \cup {b} \subseteq S
    BY <2>1
  <2>6. Cardinality(S) \in Nat /\ 2 <= Cardinality(S)
    BY <2>2, <2>4, <2>5, FS_Subset, FS_CardinalityType
  <2> QED
    BY <2>6 DEF S
<1> QED
  BY <1>1, <1>2, <1>3, PTL DEF Request!Spec

-----------------------------------------------------------------------------
(* Assistants and their versions.                                             *)

AssistantRow == [owner : Users, version : Nat, content : Assist!Content]
AssistantReader == [at : {"read"}, id : Ids, user : Users, content : Assist!Content]
AssistantWriter ==
  [at : {"insert", "write"}, id : Ids, user : Users, content : Assist!Content, version : Nat]

AssistantShape ==
  /\ row \in [Ids -> AssistantRow \cup {Assist!Absent}]
  /\ versions = [a \in Ids |-> versions[a]]
  /\ \A a \in Ids : /\ Assist!Numbers(a) \subseteq Nat
                    /\ \E k \in Nat : \A n \in Assist!Numbers(a) : n <= k
                    /\ versions[a] \in [Assist!Numbers(a) -> Assist!Content]
  /\ req \in [AssistantRequests -> AssistantReader \cup AssistantWriter \cup {Assist!Idle}]

(* Context and config agree in the rows, in every version and in every request. *)
AssistantMirrors ==
  /\ \A a \in Ids : Assist!Exists(a) => row[a].content.conf = row[a].content.ctx
  /\ \A a \in Ids : \A n \in Assist!Numbers(a) : versions[a][n].conf = versions[a][n].ctx
  /\ \A r \in AssistantRequests : req[r].at # "idle" => req[r].content.conf = req[r].content.ctx

(* Of an id that was not used again: the row is a committed version, and so is *)
(* what a request is about to write to it.                                     *)
AssistantCopies(a) ==
  Assist!Exists(a) /\ a \notin reborn =>
    /\ row[a].version \in Assist!Numbers(a) /\ row[a].content = versions[a][row[a].version]
    /\ \A r \in AssistantRequests : req[r].at = "write" /\ req[r].id = a =>
         req[r].version \in Assist!Numbers(a) /\ req[r].content = versions[a][req[r].version]

(* Of an assistant that nothing has disturbed: there is one request at most,   *)
(* its owner's, and it is about to bring the row to the newest version.        *)
Newest(n, numbers) == n \in numbers /\ \A m \in numbers : m <= n
AssistantNewest(a) ==
  Assist!Exists(a) /\ a \notin behind \cup reborn =>
    /\ \A q, r \in Assist!On(a) : q = r
    /\ \A r \in Assist!On(a) : req[r].user = row[a].owner
    /\ (\A r \in Assist!On(a) : req[r].at # "write") => Newest(row[a].version, Assist!Numbers(a))
    /\ \A r \in Assist!On(a) :
         /\ req[r].at = "insert" => req[r].version = row[a].version + 1
         /\ req[r].at = "write" => Newest(req[r].version, Assist!Numbers(a))

AssistantInv ==
  /\ AssistantShape /\ AssistantMirrors
  /\ \A a \in Ids : AssistantCopies(a) /\ AssistantNewest(a)

LEMMA NewestIsMax ==
  ASSUME NEW numbers \in SUBSET Nat, NEW n, Newest(n, numbers)
  PROVE  Assist!Max(numbers) = n
<1> DEFINE greatest(x) == x \in numbers /\ \A y \in numbers : x >= y
<1>1. n \in Nat /\ greatest(n)
  BY DEF Newest
<1>2. \A x : greatest(x) => x = n
  <2> SUFFICES ASSUME NEW x, greatest(x) PROVE x = n
    OBVIOUS
  <2>1. x \in Nat /\ x >= n /\ n >= x
    BY <1>1
  <2> QED
    BY <1>1, <2>1
<1>3. Assist!Max(numbers) = CHOOSE x : greatest(x)
  BY DEF Assist!Max
<1>4. greatest(CHOOSE x : greatest(x))
  BY <1>1
<1> HIDE DEF greatest
<1> QED
  BY <1>2, <1>3, <1>4

LEMMA AssistantNumbersMax ==
  ASSUME AssistantInv, NEW a \in Ids, Assist!Numbers(a) # {}
  PROVE  Assist!Max(Assist!Numbers(a)) + 1 \in Nat
<1> DEFINE numbers == Assist!Numbers(a)
           bounds == {k \in Nat : \A n \in numbers : n <= k}
<1>1. numbers \in SUBSET Nat /\ bounds # {}
  BY DEF AssistantInv, AssistantShape
<1>2. PICK k \in bounds : \A m \in bounds : k <= m
  BY <1>1, LeastNumber
<1>3. k \in Nat /\ \A n \in numbers : n \in Nat /\ n <= k
  BY <1>1, <1>2
<1>4. k \in numbers
  <2> SUFFICES ASSUME k \notin numbers PROVE FALSE
    OBVIOUS
  <2>1. \A n \in numbers : n \in Nat /\ n <= k - 1
    BY <1>3
  <2>2. k - 1 \in Nat
    BY <1>3, <2>1
  <2>3. k - 1 \in bounds
    BY <2>1, <2>2
  <2> QED
    BY <1>2, <1>3, <2>3
<1>5. Newest(k, numbers)
  BY <1>3, <1>4 DEF Newest
<1> QED
  BY <1>1, <1>3, <1>5, NewestIsMax

LEMMA AssistantFields ==
  ASSUME AssistantInv
  PROVE  /\ \A a \in Ids : Assist!Exists(a) => row[a] \in AssistantRow
         /\ \A r \in AssistantRequests : req[r].at \in {"idle", "read", "insert", "write"}
         /\ \A r \in AssistantRequests : req[r].at = "idle" <=> req[r] = Assist!Idle
         /\ \A r \in AssistantRequests : req[r].at = "read" => req[r] \in AssistantReader
         /\ \A r \in AssistantRequests : req[r].at \in {"insert", "write"} => req[r] \in AssistantWriter
         /\ \A r \in AssistantRequests : req[r].at # "idle" =>
              req[r].id \in Ids /\ req[r].user \in Users /\ req[r].content \in Assist!Content
<1>1. \A a \in Ids : Assist!Exists(a) => row[a] \in AssistantRow
  BY DEF AssistantInv, AssistantShape, Assist!Exists
<1>2. ASSUME NEW r \in AssistantRequests
      PROVE  /\ req[r].at \in {"idle", "read", "insert", "write"}
             /\ req[r].at = "idle" <=> req[r] = Assist!Idle
             /\ req[r].at = "read" => req[r] \in AssistantReader
             /\ req[r].at \in {"insert", "write"} => req[r] \in AssistantWriter
             /\ req[r].at # "idle" =>
                  req[r].id \in Ids /\ req[r].user \in Users /\ req[r].content \in Assist!Content
  <2>1. req[r] \in AssistantReader \cup AssistantWriter \cup {Assist!Idle}
    BY DEF AssistantInv, AssistantShape
  <2> QED
    BY <2>1 DEF AssistantReader, AssistantWriter, Assist!Idle
<1> QED
  BY <1>1, <1>2

(* The step of a request that leaves the tables alone.                        *)
LEMMA AssistantMoves ==
  ASSUME AssistantInv, NEW r \in AssistantRequests,
         NEW t \in AssistantReader \cup AssistantWriter \cup {Assist!Idle},
         req' = [req EXCEPT ![r] = t], UNCHANGED <<row, versions, reborn>>,
         behind \subseteq behind',
         t.at # "idle" => t.content.conf = t.content.ctx,
         t.at = "write" /\ Assist!Exists(t.id) /\ t.id \notin reborn =>
           t.version \in Assist!Numbers(t.id) /\ t.content = versions[t.id][t.version],
         \A a \in Ids : Assist!Exists(a) /\ a \notin behind' \cup reborn =>
           /\ t.at # "idle" /\ t.id = a =>
                /\ \A q \in Assist!On(a) : q = r
                /\ t.user = row[a].owner /\ t.at # "write"
                /\ Newest(row[a].version, Assist!Numbers(a))
                /\ t.at = "insert" => t.version = row[a].version + 1
           /\ r \in Assist!On(a) /\ (t.at # "idle" => t.id # a) =>
                Newest(row[a].version, Assist!Numbers(a))
  PROVE  AssistantInv'
<1>1. \A q \in AssistantRequests : req'[q] = IF q = r THEN t ELSE req[q]
  BY DEF AssistantInv, AssistantShape
<1>2. AssistantShape'
  BY <1>1 DEF AssistantInv, AssistantShape, Assist!Numbers, Assist!Content, Assist!Absent,
              Assist!Idle
<1>3. AssistantMirrors'
  BY <1>1 DEF AssistantInv, AssistantMirrors, Assist!Numbers, Assist!Exists, Assist!Absent
<1>4. ASSUME NEW a \in Ids PROVE AssistantCopies(a)'
  BY <1>1 DEF AssistantInv, AssistantCopies, Assist!Numbers, Assist!Exists, Assist!Absent
<1>5. ASSUME NEW a \in Ids PROVE AssistantNewest(a)'
  <2> SUFFICES ASSUME Assist!Exists(a)', a \notin behind' \cup reborn'
               PROVE  /\ \A q, p \in Assist!On(a)' : q = p
                      /\ \A q \in Assist!On(a)' : req'[q].user = row'[a].owner
                      /\ (\A q \in Assist!On(a)' : req'[q].at # "write") =>
                           Newest(row'[a].version, Assist!Numbers(a)')
                      /\ \A q \in Assist!On(a)' :
                           /\ req'[q].at = "insert" => req'[q].version = row'[a].version + 1
                           /\ req'[q].at = "write" => Newest(req'[q].version, Assist!Numbers(a)')
    BY DEF AssistantNewest, Newest
  <2>1. /\ Assist!Exists(a) /\ a \notin behind \cup reborn /\ a \notin behind' \cup reborn
        /\ row' = row /\ Assist!Numbers(a)' = Assist!Numbers(a)
    BY DEF Assist!Exists, Assist!Numbers, Assist!Absent
  <2>2. /\ \A q, p \in Assist!On(a) : q = p
        /\ \A q \in Assist!On(a) : req[q].user = row[a].owner
        /\ (\A q \in Assist!On(a) : req[q].at # "write") => Newest(row[a].version, Assist!Numbers(a))
        /\ \A q \in Assist!On(a) :
             /\ req[q].at = "insert" => req[q].version = row[a].version + 1
             /\ req[q].at = "write" => Newest(req[q].version, Assist!Numbers(a))
    BY <2>1 DEF AssistantInv, AssistantNewest
  <2>3. Assist!On(a)' = {q \in AssistantRequests : IF q = r THEN t.at # "idle" /\ t.id = a ELSE q \in Assist!On(a)}
    BY <1>1 DEF Assist!On
  <2>4. CASE t.at # "idle" /\ t.id = a
    <3>1. Assist!On(a)' = {r}
      BY <2>1, <2>3, <2>4
    <3> QED
      BY <1>1, <2>1, <2>4, <3>1
  <2>5. CASE ~(t.at # "idle" /\ t.id = a) /\ r \in Assist!On(a)
    <3>1. Assist!On(a)' = {}
      BY <2>2, <2>3, <2>5
    <3> QED
      BY <2>1, <2>5, <3>1
  <2>6. CASE ~(t.at # "idle" /\ t.id = a) /\ r \notin Assist!On(a)
    <3>1. Assist!On(a)' = Assist!On(a) /\ \A q \in Assist!On(a) : req'[q] = req[q]
      <4>1. \A q \in Assist!On(a) : q \in AssistantRequests /\ q # r
        BY <2>6 DEF Assist!On
      <4> QED BY <1>1, <2>3, <2>6, <4>1
    <3> QED
      BY <2>1, <2>2, <3>1
  <2> QED
    BY <2>4, <2>5, <2>6
<1> QED
  BY <1>2, <1>3, <1>4, <1>5 DEF AssistantInv

(* The step of an undisturbed assistant that a request is on.                 *)
LEMMA AssistantReads ==
  ASSUME AssistantInv, NEW r \in AssistantRequests, NEW a \in Ids, r \in Assist!On(a),
         Assist!Exists(a), a \notin behind \cup reborn
  PROVE  /\ \A q \in Assist!On(a) : q = r
         /\ req[r].user = row[a].owner
         /\ req[r].at # "write" => Newest(row[a].version, Assist!Numbers(a))
         /\ req[r].at = "insert" => req[r].version = row[a].version + 1
         /\ req[r].at = "write" => Newest(req[r].version, Assist!Numbers(a))
<1>1. AssistantNewest(a)
  BY DEF AssistantInv
<1> QED
  BY <1>1 DEF AssistantNewest

LEMMA UpdateMirrors ==
  ASSUME NEW old \in Assist!Content, old.conf = old.ctx,
         NEW conf \in Values \cup {Assist!Empty, "omitted"},
         NEW context \in Values \cup {Assist!Empty, "omitted"}, NEW keys \in SUBSET Keys
  PROVE  /\ Assist!Updated(old, conf, context, keys) \in Assist!Content
         /\ Assist!Updated(old, conf, context, keys).conf
              = Assist!Updated(old, conf, context, keys).ctx
<1> DEFINE both == IF context # "omitted" THEN context
                   ELSE IF conf # "omitted" THEN conf
                   ELSE IF old.conf # Assist!Empty THEN old.conf ELSE old.ctx
<1>1. both \in Values \cup {Assist!Empty}
  BY DEF Assist!Content
<1>2. old.meta \cup keys \in SUBSET Keys
  BY DEF Assist!Content
<1>3. Assist!Updated(old, conf, context, keys)
        = [conf |-> both, ctx |-> both, meta |-> old.meta \cup keys]
  BY DEF Assist!Updated, Assist!Mirrored
<1> HIDE DEF both
<1> QED
  BY <1>1, <1>2, <1>3 DEF Assist!Content

LEMMA AssistantReadRow ==
  ASSUME AssistantInv, NEW r \in AssistantRequests, Assist!ReadRow(r)
  PROVE  AssistantInv'
<1>1. PICK a \in Ids, user \in Users, conf \in Values \cup {Assist!Empty, "omitted"},
           context \in Values \cup {Assist!Empty, "omitted"}, keys \in SUBSET Keys :
        /\ Assist!Exists(a) /\ row[a].owner = user
        /\ req' = [req EXCEPT ![r] =
             [at |-> "read", id |-> a, user |-> user,
              content |-> Assist!Updated(row[a].content, conf, context, keys)]]
        /\ behind' = IF Assist!On(a) # {} THEN behind \cup {a} ELSE behind
  BY DEF Assist!ReadRow
<1>2. req[r].at = "idle" /\ UNCHANGED <<row, versions, reborn>>
  BY DEF Assist!ReadRow
<1> DEFINE content == Assist!Updated(row[a].content, conf, context, keys)
           t == [at |-> "read", id |-> a, user |-> user, content |-> content]
<1>3. row[a].content \in Assist!Content
  BY <1>1, AssistantFields DEF AssistantRow
<1>3a. row[a].content.conf = row[a].content.ctx
  BY <1>1 DEF AssistantInv, AssistantMirrors
<1>4. content \in Assist!Content /\ content.conf = content.ctx
  BY <1>3, <1>3a, UpdateMirrors
<1> HIDE DEF content
<1>5. /\ t \in AssistantReader
      /\ t.at = "read" /\ t.id = a /\ t.user = user /\ t.content = content
  BY <1>1, <1>4 DEF AssistantReader
<1>6. req' = [req EXCEPT ![r] = t]
  BY <1>1 DEF content
<1> HIDE DEF t
<1>7. ASSUME NEW b \in Ids, Assist!Exists(b), b \notin behind' \cup reborn
      PROVE  /\ t.at # "idle" /\ t.id = b =>
                  /\ \A q \in Assist!On(b) : q = r
                  /\ t.user = row[b].owner /\ t.at # "write"
                  /\ Newest(row[b].version, Assist!Numbers(b))
                  /\ t.at = "insert" => t.version = row[b].version + 1
             /\ r \in Assist!On(b) /\ (t.at # "idle" => t.id # b) =>
                  Newest(row[b].version, Assist!Numbers(b))
  <2>1. r \notin Assist!On(b)
    BY <1>2 DEF Assist!On
  <2>2. CASE b = a
    <3>1. Assist!On(a) = {} /\ a \notin behind \cup reborn
      BY <1>1, <1>7, <2>2
    <3>2. AssistantNewest(a)
      BY DEF AssistantInv
    <3>3. Newest(row[a].version, Assist!Numbers(a))
      BY <1>1, <3>1, <3>2 DEF AssistantNewest
    <3> QED
      BY <1>1, <1>5, <2>1, <2>2, <3>1, <3>3
  <2> QED
    BY <1>5, <2>1, <2>2
<1>8. behind \subseteq behind'
  BY <1>1
<1> QED
  BY <1>2, <1>4, <1>5, <1>6, <1>7, <1>8, AssistantMoves

LEMMA AssistantReadMax ==
  ASSUME AssistantInv, NEW r \in AssistantRequests, Assist!ReadMax(r)
  PROVE  AssistantInv'
<1> DEFINE a == req[r].id
           n == IF Assist!Numbers(a) = {} THEN 1 ELSE Assist!Max(Assist!Numbers(a)) + 1
           t == [at |-> "insert", id |-> a, user |-> req[r].user, content |-> req[r].content,
                 version |-> n]
<1>1. req[r].at = "read" /\ UNCHANGED <<row, versions, reborn, behind>>
  BY DEF Assist!ReadMax
<1>2. req' = [req EXCEPT ![r] = t]
  <2>1. req = [q \in AssistantRequests |-> req[q]]
    BY DEF AssistantInv, AssistantShape
  <2> QED
    BY <2>1 DEF Assist!ReadMax
<1>3. a \in Ids /\ req[r].user \in Users /\ req[r].content \in Assist!Content
  BY <1>1, AssistantFields
<1>4. r \in Assist!On(a)
  BY <1>1 DEF Assist!On
<1>5. n \in Nat
  <2>1. Assist!Numbers(a) \in SUBSET Nat
    BY <1>3 DEF AssistantInv, AssistantShape
  <2> QED
    BY <1>3, <2>1, AssistantNumbersMax
<1>6. /\ t \in AssistantWriter
      /\ t.at = "insert" /\ t.id = a /\ t.user = req[r].user /\ t.content = req[r].content
      /\ t.version = n
  BY <1>3, <1>5 DEF AssistantWriter
<1>7. t.content.conf = t.content.ctx
  BY <1>1, <1>6 DEF AssistantInv, AssistantMirrors
<1> HIDE DEF t
<1>8. ASSUME Assist!Exists(a), a \notin behind \cup reborn
      PROVE  /\ \A q \in Assist!On(a) : q = r
             /\ t.user = row[a].owner
             /\ Newest(row[a].version, Assist!Numbers(a))
             /\ t.version = row[a].version + 1
  <2>1. /\ \A q \in Assist!On(a) : q = r
        /\ req[r].user = row[a].owner
        /\ Newest(row[a].version, Assist!Numbers(a))
    BY <1>1, <1>3, <1>4, <1>8, AssistantReads
  <2>2. Assist!Numbers(a) \in SUBSET Nat
    BY <1>3 DEF AssistantInv, AssistantShape
  <2>3. Assist!Max(Assist!Numbers(a)) = row[a].version
    BY <2>1, <2>2, NewestIsMax
  <2>4. Assist!Numbers(a) # {}
    BY <2>1 DEF Newest
  <2> QED
    BY <1>6, <2>1, <2>3, <2>4
<1> HIDE DEF a, n
<1>9. \A b \in Ids : r \in Assist!On(b) => b = a
  BY DEF Assist!On, a
<1>10. ASSUME NEW b \in Ids, Assist!Exists(b), b \notin behind' \cup reborn
      PROVE  /\ t.at # "idle" /\ t.id = b =>
                  /\ \A q \in Assist!On(b) : q = r
                  /\ t.user = row[b].owner /\ t.at # "write"
                  /\ Newest(row[b].version, Assist!Numbers(b))
                  /\ t.at = "insert" => t.version = row[b].version + 1
             /\ r \in Assist!On(b) /\ (t.at # "idle" => t.id # b) =>
                  Newest(row[b].version, Assist!Numbers(b))
  BY <1>1, <1>6, <1>8, <1>9, <1>10
<1>11. behind \subseteq behind' /\ t.at # "write"
  BY <1>1, <1>6
<1> QED
  BY <1>1, <1>2, <1>6, <1>7, <1>10, <1>11, AssistantMoves

LEMMA AssistantGivesUp ==
  ASSUME AssistantInv, NEW r \in AssistantRequests, req' = [req EXCEPT ![r] = Assist!Idle],
         UNCHANGED <<row, versions, reborn>>, behind \subseteq behind',
         \A a \in Ids : r \in Assist!On(a) /\ Assist!Exists(a) => a \in behind' \cup reborn
  PROVE  AssistantInv'
<1>1. Assist!Idle.at = "idle"
  BY DEF Assist!Idle
<1> QED
  BY <1>1, AssistantMoves

LEMMA AssistantDrop ==
  ASSUME AssistantInv, NEW r \in AssistantRequests, Assist!Drop(r)
  PROVE  AssistantInv'
<1>1. \A a \in Ids : r \in Assist!On(a) => a = req[r].id
  BY DEF Assist!On
<1> QED
  BY <1>1, AssistantGivesUp DEF Assist!Drop

LEMMA AssistantReadVersion ==
  ASSUME AssistantInv, NEW r \in AssistantRequests, Assist!ReadVersion(r)
  PROVE  AssistantInv'
<1>1. PICK a \in Ids : Assist!Exists(a) /\ \E m \in Assist!Numbers(a) :
        /\ req' = [req EXCEPT ![r] = [at |-> "write", id |-> a, user |-> row[a].owner,
                                      content |-> versions[a][m], version |-> m]]
        /\ behind' = behind \cup {a}
  BY DEF Assist!ReadVersion
<1>2. PICK m \in Assist!Numbers(a) :
        /\ req' = [req EXCEPT ![r] = [at |-> "write", id |-> a, user |-> row[a].owner,
                                      content |-> versions[a][m], version |-> m]]
        /\ behind' = behind \cup {a}
  BY <1>1
<1>3. req[r].at = "idle" /\ UNCHANGED <<row, versions, reborn>>
  BY DEF Assist!ReadVersion
<1> DEFINE t == [at |-> "write", id |-> a, user |-> row[a].owner,
                 content |-> versions[a][m], version |-> m]
<1>4. m \in Nat /\ versions[a][m] \in Assist!Content /\ row[a].owner \in Users
  <2>1. row[a].owner \in Users
    BY <1>1, AssistantFields DEF AssistantRow
  <2> QED
    BY <2>1 DEF AssistantInv, AssistantShape
<1>5. /\ t \in AssistantWriter
      /\ t.at = "write" /\ t.id = a /\ t.content = versions[a][m] /\ t.version = m
  BY <1>4 DEF AssistantWriter
<1>6. t.content.conf = t.content.ctx
  BY <1>5 DEF AssistantInv, AssistantMirrors
<1>7. req' = [req EXCEPT ![r] = t]
  BY <1>2
<1> HIDE DEF t
<1>8. behind' = behind \cup {a}
  BY <1>1
<1>9. \A b \in Ids : r \notin Assist!On(b)
  BY <1>3 DEF Assist!On
<1> QED
  BY <1>3, <1>5, <1>6, <1>7, <1>8, <1>9, AssistantMoves

LEMMA AssistantInsertVersion ==
  ASSUME AssistantInv, NEW r \in AssistantRequests, Assist!InsertVersion(r)
  PROVE  AssistantInv'
<1>0. PICK a, n : a = req[r].id /\ n = req[r].version
  OBVIOUS
<1>1. /\ req[r].at = "insert" /\ UNCHANGED <<row, reborn, behind>>
      /\ a \in Ids /\ n \in Nat /\ req[r] \in AssistantWriter /\ req[r].content \in Assist!Content
  <2>1. req[r].at = "insert" /\ UNCHANGED <<row, reborn, behind>>
    BY DEF Assist!InsertVersion
  <2> QED
    BY <1>0, <2>1, AssistantFields DEF AssistantWriter
<1>2. r \in Assist!On(a) /\ \A b \in Ids : r \in Assist!On(b) => b = a
  BY <1>0, <1>1 DEF Assist!On
<1>3. /\ Assist!Numbers(a) \in SUBSET Nat /\ versions[a] \in [Assist!Numbers(a) -> Assist!Content]
      /\ versions = [b \in Ids |-> versions[b]]
  BY <1>1 DEF AssistantInv, AssistantShape
<1>4. ASSUME Assist!Exists(a), a \notin behind \cup reborn
      PROVE  /\ \A q \in Assist!On(a) : q = r
             /\ req[r].user = row[a].owner
             /\ n \notin Assist!Numbers(a) /\ \A m \in Assist!Numbers(a) : m <= n
  <2>1. /\ \A q \in Assist!On(a) : q = r
        /\ req[r].user = row[a].owner
        /\ Newest(row[a].version, Assist!Numbers(a)) /\ n = row[a].version + 1
    BY <1>0, <1>1, <1>2, <1>4, AssistantReads
  <2>2. row[a].version \in Nat
    BY <1>3, <2>1 DEF Newest
  <2> QED
    BY <1>3, <2>1, <2>2 DEF Newest
<1>5. CASE ~(Assist!Exists(a) /\ Assist!Free(a, n))
  <2>1. req' = [req EXCEPT ![r] = Assist!Idle] /\ UNCHANGED versions
    BY <1>0, <1>5 DEF Assist!InsertVersion
  <2>2. \A b \in Ids : r \in Assist!On(b) /\ Assist!Exists(b) => b \in behind' \cup reborn
    BY <1>1, <1>2, <1>4, <1>5 DEF Assist!Free
  <2> QED
    BY <1>1, <2>1, <2>2, AssistantGivesUp
<1>6. CASE Assist!Exists(a) /\ Assist!Free(a, n)
  <2> DEFINE new == [m \in Assist!Numbers(a) \cup {n} |->
                       IF m = n THEN req[r].content ELSE versions[a][m]]
             t == [req[r] EXCEPT !.at = "write"]
  <2>1. versions' = [versions EXCEPT ![a] = new] /\ req' = [req EXCEPT ![r] = t]
    BY <1>0, <1>6 DEF Assist!InsertVersion
  <2>2. /\ t \in AssistantWriter
        /\ t.at = "write" /\ t.id = a /\ t.user = req[r].user /\ t.content = req[r].content
        /\ t.version = n
    BY <1>0, <1>1 DEF AssistantWriter
  <2>3. \A q \in AssistantRequests : req'[q] = IF q = r THEN t ELSE req[q]
    BY <2>1 DEF AssistantInv, AssistantShape
  <2>3a. \A q \in AssistantRequests : req[q].at # "idle" => req[q].content.conf = req[q].content.ctx
    BY DEF AssistantInv, AssistantMirrors
  <2> HIDE DEF t
  <2>4. /\ versions' = [b \in Ids |-> versions'[b]]
        /\ \A b \in Ids : b # a => versions'[b] = versions[b]
        /\ versions'[a] = new
    BY <1>1, <1>3, <2>1
  <2>5. /\ DOMAIN new = Assist!Numbers(a) \cup {n}
        /\ new \in [Assist!Numbers(a) \cup {n} -> Assist!Content]
        /\ new[n] = t.content
        /\ \A m \in Assist!Numbers(a) : new[m] = versions[a][m]
    BY <1>1, <1>3, <1>6, <2>2 DEF Assist!Free
  <2> HIDE DEF new
  <2>6. /\ Assist!Numbers(a)' = Assist!Numbers(a) \cup {n}
        /\ \A b \in Ids : b # a => Assist!Numbers(b)' = Assist!Numbers(b)
    BY <2>4, <2>5 DEF Assist!Numbers
  <2>7. \A b \in Ids : \A m \in Assist!Numbers(b) :
          m \in Assist!Numbers(b)' /\ versions'[b][m] = versions[b][m]
    BY <2>4, <2>5, <2>6
  <2>8. \A b \in Ids : Assist!Exists(b)' <=> Assist!Exists(b)
    BY <1>1 DEF Assist!Exists, Assist!Absent
  <2>9. AssistantShape'
    <3>1. ASSUME NEW b \in Ids
          PROVE  /\ Assist!Numbers(b)' \subseteq Nat
                 /\ \E k \in Nat : \A m \in Assist!Numbers(b)' : m <= k
                 /\ versions'[b] \in [Assist!Numbers(b)' -> Assist!Content]
      <4>1. PICK k \in Nat : \A m \in Assist!Numbers(b) : m <= k
        BY DEF AssistantInv, AssistantShape
      <4>2. Assist!Numbers(b) \subseteq Nat /\ versions[b] \in [Assist!Numbers(b) -> Assist!Content]
        BY DEF AssistantInv, AssistantShape
      <4>3. CASE b = a
        <5>1. k + n \in Nat /\ \A m \in Assist!Numbers(b) \cup {n} : m <= k + n
          BY <1>1, <4>1, <4>2
        <5> QED
          BY <1>1, <2>4, <2>5, <2>6, <4>2, <4>3, <5>1
      <4>4. CASE b # a
        BY <2>4, <2>6, <4>1, <4>2, <4>4
      <4> QED BY <4>3, <4>4
    <3>2. req' \in [AssistantRequests -> AssistantReader \cup AssistantWriter \cup {Assist!Idle}]
      BY <2>1, <2>2 DEF AssistantInv, AssistantShape
    <3>3. row' \in [Ids -> AssistantRow \cup {Assist!Absent}]
      BY <1>1 DEF AssistantInv, AssistantShape
    <3> QED
      BY <2>4, <3>1, <3>2, <3>3 DEF AssistantShape, Assist!Content, Assist!Absent, Assist!Idle
  <2>10. AssistantMirrors'
    <3>1. t.content.conf = t.content.ctx
      BY <1>1, <2>2, <2>3a
    <3>2. \A b \in Ids : \A m \in Assist!Numbers(b)' : versions'[b][m].conf = versions'[b][m].ctx
      <4>1. \A b \in Ids : \A m \in Assist!Numbers(b) : versions[b][m].conf = versions[b][m].ctx
        BY DEF AssistantInv, AssistantMirrors
      <4>2. \A b \in Ids : \A m \in Assist!Numbers(b)' :
              m \in Assist!Numbers(b) \/ (b = a /\ m = n)
        BY <2>6
      <4>3. versions'[a][n].conf = versions'[a][n].ctx
        BY <2>4, <2>5, <3>1
      <4> QED BY <2>7, <4>1, <4>2, <4>3
    <3>3. \A b \in Ids : Assist!Exists(b)' => row'[b].content.conf = row'[b].content.ctx
      BY <1>1, <2>8 DEF AssistantInv, AssistantMirrors
    <3> QED
      BY <2>3, <2>3a, <3>1, <3>2, <3>3 DEF AssistantMirrors
  <2>11. ASSUME NEW b \in Ids PROVE AssistantCopies(b)'
    <3> SUFFICES ASSUME Assist!Exists(b), b \notin reborn
                 PROVE  /\ row[b].version \in Assist!Numbers(b)'
                        /\ row[b].content = versions'[b][row[b].version]
                        /\ \A q \in AssistantRequests : req'[q].at = "write" /\ req'[q].id = b =>
                             /\ req'[q].version \in Assist!Numbers(b)'
                             /\ req'[q].content = versions'[b][req'[q].version]
      BY <1>1, <2>8 DEF AssistantCopies
    <3>1. /\ row[b].version \in Assist!Numbers(b) /\ row[b].content = versions[b][row[b].version]
          /\ \A q \in AssistantRequests : req[q].at = "write" /\ req[q].id = b =>
               req[q].version \in Assist!Numbers(b) /\ req[q].content = versions[b][req[q].version]
      BY DEF AssistantInv, AssistantCopies
    <3>2. n \in Assist!Numbers(a)' /\ t.content = versions'[a][n]
      BY <2>4, <2>5, <2>6
    <3>3. ASSUME NEW q \in AssistantRequests, req'[q].at = "write", req'[q].id = b
          PROVE  req'[q].version \in Assist!Numbers(b)' /\ req'[q].content = versions'[b][req'[q].version]
      <4>1. CASE q = r
        BY <2>2, <2>3, <3>2, <3>3, <4>1
      <4>2. CASE q # r
        BY <2>3, <2>7, <3>1, <3>3, <4>2
      <4> QED BY <4>1, <4>2
    <3> QED
      BY <2>7, <3>1, <3>3
  <2>12. ASSUME NEW b \in Ids PROVE AssistantNewest(b)'
    <3> SUFFICES ASSUME Assist!Exists(b), b \notin behind \cup reborn
                 PROVE  /\ \A q, p \in Assist!On(b)' : q = p
                        /\ \A q \in Assist!On(b)' : req'[q].user = row[b].owner
                        /\ (\A q \in Assist!On(b)' : req'[q].at # "write") =>
                             Newest(row[b].version, Assist!Numbers(b)')
                        /\ \A q \in Assist!On(b)' :
                             /\ req'[q].at = "insert" => req'[q].version = row[b].version + 1
                             /\ req'[q].at = "write" => Newest(req'[q].version, Assist!Numbers(b)')
      BY <1>1, <2>8 DEF AssistantNewest, Newest
    <3>1. Assist!On(b)' = Assist!On(b)
      BY <1>0, <1>1, <2>2, <2>3 DEF Assist!On
    <3>2. CASE b = a
      <4>1. Assist!On(a)' = {r}
        BY <1>2, <1>4, <3>1, <3>2
      <4>2. Newest(n, Assist!Numbers(a)')
        BY <1>1, <1>4, <2>6, <3>2 DEF Newest
      <4> QED
        BY <1>4, <2>2, <2>3, <3>2, <4>1, <4>2
    <3>3. CASE b # a
      <4>1. AssistantNewest(b)
        BY DEF AssistantInv
      <4>2. \A q \in Assist!On(b) : req'[q] = req[q]
        <5>1. r \notin Assist!On(b)
          BY <1>2, <3>3
        <5>2. \A q \in Assist!On(b) : q \in AssistantRequests
          BY DEF Assist!On
        <5> QED BY <2>3, <5>1, <5>2
      <4> QED
        BY <2>6, <3>1, <3>3, <4>1, <4>2 DEF AssistantNewest
    <3> QED BY <3>2, <3>3
  <2> QED
    BY <2>9, <2>10, <2>11, <2>12 DEF AssistantInv
<1> QED
  BY <1>5, <1>6

LEMMA AssistantWriteRow ==
  ASSUME AssistantInv, NEW r \in AssistantRequests, Assist!WriteRow(r)
  PROVE  AssistantInv'
<1>0. PICK a : a = req[r].id
  OBVIOUS
<1> DEFINE mine == Assist!Exists(a) /\ row[a].owner = req[r].user
           fails == Assist!Taken(a, req[r].user, req[r].content.conf)
<1>1. /\ req[r].at = "write" /\ UNCHANGED <<versions, reborn>>
      /\ req' = [req EXCEPT ![r] = Assist!Idle]
      /\ row' = IF mine /\ ~fails
                THEN [row EXCEPT ![a] = Assist!Written(row[a], req[r].content, req[r].version)]
                ELSE row
      /\ behind' = IF fails THEN behind \cup {a} ELSE behind
  <2>1. a \in Ids
    <3>1. req[r].at = "write" BY DEF Assist!WriteRow
    <3> QED BY <1>0, <3>1, AssistantFields
  <2>2. row = [b \in Ids |-> row[b]]
    BY DEF AssistantInv, AssistantShape
  <2> QED
    BY <1>0, <2>1, <2>2 DEF Assist!WriteRow
<1>2. /\ a \in Ids /\ req[r] \in AssistantWriter /\ req[r].version \in Nat
      /\ req[r].content \in Assist!Content
  BY <1>0, <1>1, AssistantFields DEF AssistantWriter
<1>3. r \in Assist!On(a) /\ \A b \in Ids : r \in Assist!On(b) => b = a
  BY <1>0, <1>1 DEF Assist!On
<1>4. ASSUME Assist!Exists(a), a \notin behind \cup reborn
      PROVE  /\ \A q \in Assist!On(a) : q = r
             /\ mine /\ Newest(req[r].version, Assist!Numbers(a))
  BY <1>1, <1>2, <1>3, <1>4, AssistantReads
<1> HIDE DEF fails
<1>5. CASE ~(mine /\ ~fails)
  <2>1. \A b \in Ids : r \in Assist!On(b) /\ Assist!Exists(b) => b \in behind' \cup reborn
    BY <1>1, <1>3, <1>4, <1>5
  <2>2. behind \subseteq behind' /\ UNCHANGED <<row, versions, reborn>>
    BY <1>1, <1>5
  <2> HIDE DEF mine
  <2> QED
    BY <1>1, <2>1, <2>2, AssistantGivesUp
<1>6. CASE mine /\ ~fails
  <2> DEFINE w == Assist!Written(row[a], req[r].content, req[r].version)
  <2>1. row[a] \in AssistantRow
    BY <1>2, <1>6, AssistantFields
  <2>2. /\ w \in AssistantRow /\ w # Assist!Absent
        /\ w.owner = row[a].owner /\ w.content = req[r].content /\ w.version = req[r].version
    BY <1>2, <2>1 DEF AssistantRow, Assist!Written, Assist!Absent
  <2> HIDE DEF w
  <2>3. /\ row' \in [Ids -> AssistantRow \cup {Assist!Absent}]
        /\ \A b \in Ids : row'[b] = IF b = a THEN w ELSE row[b]
    BY <1>1, <1>2, <1>6, <2>2 DEF AssistantInv, AssistantShape, w
  <2>4. \A q \in AssistantRequests : req'[q] = IF q = r THEN Assist!Idle ELSE req[q]
    BY <1>1 DEF AssistantInv, AssistantShape
  <2>5. /\ \A b \in Ids : Assist!Exists(b)' <=> Assist!Exists(b)
        /\ \A b \in Ids : Assist!Numbers(b)' = Assist!Numbers(b)
    BY <1>1, <1>6, <2>2, <2>3 DEF Assist!Exists, Assist!Absent, Assist!Numbers
  <2>6. behind' = behind
    BY <1>1, <1>6
  <2>7. Assist!Idle.at = "idle"
    BY DEF Assist!Idle
  <2>8. AssistantShape'
    <3>1. req' \in [AssistantRequests -> AssistantReader \cup AssistantWriter \cup {Assist!Idle}]
      BY <1>1 DEF AssistantInv, AssistantShape
    <3> QED
      BY <1>1, <2>3, <2>5, <3>1 DEF AssistantInv, AssistantShape, Assist!Content, Assist!Absent,
                                   Assist!Idle
  <2>9. AssistantMirrors'
    <3>1. req[r].content.conf = req[r].content.ctx
      BY <1>1 DEF AssistantInv, AssistantMirrors
    <3> QED
      BY <1>1, <2>2, <2>3, <2>4, <2>5, <2>7, <3>1 DEF AssistantInv, AssistantMirrors
  <2>10. ASSUME NEW b \in Ids PROVE AssistantCopies(b)'
    <3> SUFFICES ASSUME Assist!Exists(b), b \notin reborn
                 PROVE  /\ row'[b].version \in Assist!Numbers(b)
                        /\ row'[b].content = versions[b][row'[b].version]
                        /\ \A q \in AssistantRequests : req'[q].at = "write" /\ req'[q].id = b =>
                             /\ req'[q].version \in Assist!Numbers(b)
                             /\ req'[q].content = versions[b][req'[q].version]
      BY <1>1, <2>5 DEF AssistantCopies
    <3>1. /\ row[b].version \in Assist!Numbers(b) /\ row[b].content = versions[b][row[b].version]
          /\ \A q \in AssistantRequests : req[q].at = "write" /\ req[q].id = b =>
               req[q].version \in Assist!Numbers(b) /\ req[q].content = versions[b][req[q].version]
      BY DEF AssistantInv, AssistantCopies
    <3>2. \A q \in AssistantRequests : req'[q].at = "write" /\ req'[q].id = b =>
            /\ req'[q].version \in Assist!Numbers(b)
            /\ req'[q].content = versions[b][req'[q].version]
      BY <2>4, <2>7, <3>1
    <3>3. CASE b = a
      BY <1>0, <1>1, <2>2, <2>3, <3>1, <3>2, <3>3, SMTT(30)
    <3>4. CASE b # a
      BY <2>3, <3>1, <3>2, <3>4
    <3> QED BY <3>3, <3>4
  <2>11. ASSUME NEW b \in Ids PROVE AssistantNewest(b)'
    <3> SUFFICES ASSUME Assist!Exists(b), b \notin behind \cup reborn
                 PROVE  /\ \A q, p \in Assist!On(b)' : q = p
                        /\ \A q \in Assist!On(b)' : req'[q].user = row'[b].owner
                        /\ (\A q \in Assist!On(b)' : req'[q].at # "write") =>
                             Newest(row'[b].version, Assist!Numbers(b))
                        /\ \A q \in Assist!On(b)' :
                             /\ req'[q].at = "insert" => req'[q].version = row'[b].version + 1
                             /\ req'[q].at = "write" => Newest(req'[q].version, Assist!Numbers(b))
      BY <1>1, <2>5, <2>6 DEF AssistantNewest, Newest
    <3>1. Assist!On(b)' = Assist!On(b) \ {r}
      BY <2>4, <2>7 DEF Assist!On
    <3>2. CASE b = a
      <4>1. Assist!On(a)' = {}
        BY <1>4, <3>1, <3>2
      <4> QED
        BY <1>4, <2>2, <2>3, <3>2, <4>1
    <3>3. CASE b # a
      <4>1. AssistantNewest(b)
        BY DEF AssistantInv
      <4>2. Assist!On(b)' = Assist!On(b) /\ \A q \in Assist!On(b) : req'[q] = req[q]
        <5>1. r \notin Assist!On(b)
          BY <1>3, <3>3
        <5>2. \A q \in Assist!On(b) : q \in AssistantRequests
          BY DEF Assist!On
        <5> QED BY <2>4, <3>1, <5>1, <5>2
      <4>3. row'[b] = row[b]
        BY <2>3, <3>3
      <4> QED
        BY <4>1, <4>2, <4>3 DEF AssistantNewest
    <3> QED BY <3>2, <3>3
  <2> QED
    BY <2>8, <2>9, <2>10, <2>11 DEF AssistantInv
<1> QED
  BY <1>5, <1>6

(* A table step on one assistant, which no request takes part in.             *)
LEMMA AssistantTables ==
  ASSUME AssistantInv, NEW a \in Ids, NEW new, NEW content,
         new \in AssistantRow \cup {Assist!Absent}, UNCHANGED req,
         row' = [row EXCEPT ![a] = new], versions' = [versions EXCEPT ![a] = content],
         \A b \in Ids \ {a} : (b \in behind' <=> b \in behind) /\ (b \in reborn' <=> b \in reborn),
         DOMAIN content \in SUBSET Nat, content \in [DOMAIN content -> Assist!Content],
         \E k \in Nat : \A n \in DOMAIN content : n <= k,
         \A n \in DOMAIN content : content[n].conf = content[n].ctx,
         new # Assist!Absent =>
           /\ new.version \in DOMAIN content /\ new.content = content[new.version]
           /\ Newest(new.version, DOMAIN content)
           /\ Assist!On(a) = {} \/ a \in reborn'
  PROVE  AssistantInv'
<1>1. /\ \A b \in Ids : row'[b] = IF b = a THEN new ELSE row[b]
      /\ \A b \in Ids : versions'[b] = IF b = a THEN content ELSE versions[b]
      /\ versions' = [b \in Ids |-> versions'[b]]
      /\ row' \in [Ids -> AssistantRow \cup {Assist!Absent}]
  BY DEF AssistantInv, AssistantShape
<1>2. \A b \in Ids : b # a => /\ Assist!Exists(b)' <=> Assist!Exists(b)
                              /\ Assist!Numbers(b)' = Assist!Numbers(b)
  BY <1>1 DEF Assist!Exists, Assist!Numbers, Assist!Absent
<1>3. /\ Assist!Exists(a)' <=> new # Assist!Absent
      /\ Assist!Numbers(a)' = DOMAIN content
      /\ Assist!Content' = Assist!Content /\ Assist!Idle' = Assist!Idle
      /\ \A b \in Ids : Assist!On(b)' = Assist!On(b)
  BY <1>1 DEF Assist!Exists, Assist!Numbers, Assist!Absent, Assist!Content, Assist!Idle, Assist!On
<1>4. AssistantShape'
  <2>1. ASSUME NEW b \in Ids
        PROVE  /\ Assist!Numbers(b)' \subseteq Nat
               /\ \E k \in Nat : \A m \in Assist!Numbers(b)' : m <= k
               /\ versions'[b] \in [Assist!Numbers(b)' -> Assist!Content]
    <3>1. CASE b = a
      BY <1>1, <1>3, <3>1
    <3>2. CASE b # a
      <4>1. versions'[b] = versions[b] /\ Assist!Numbers(b)' = Assist!Numbers(b)
        BY <1>1, <1>2, <3>2
      <4> QED
        BY <4>1 DEF AssistantInv, AssistantShape
    <3> QED BY <3>1, <3>2
  <2>2. req' \in [AssistantRequests -> AssistantReader \cup AssistantWriter \cup {Assist!Idle}]
    BY DEF AssistantInv, AssistantShape
  <2> QED
    BY <1>1, <1>3, <2>1, <2>2 DEF AssistantShape, Assist!Absent
<1>5. AssistantMirrors'
  BY <1>1, <1>2, <1>3 DEF AssistantInv, AssistantMirrors
<1>6. ASSUME NEW b \in Ids PROVE AssistantCopies(b)' /\ AssistantNewest(b)'
  <2>1. CASE b = a /\ new = Assist!Absent
    BY <1>3, <2>1 DEF AssistantCopies, AssistantNewest
  <2>2. CASE b = a /\ new # Assist!Absent
    <3>1. row'[a] = new /\ versions'[a] = content
      BY <1>1
    <3>2. CASE a \in reborn'
      BY <2>2, <3>2 DEF AssistantCopies, AssistantNewest
    <3>3. CASE Assist!On(a) = {}
      <4>1. Assist!On(a)' = {}
        BY <1>3, <3>3
      <4>2. \A q \in AssistantRequests : ~(req'[q].at = "write" /\ req'[q].id = a)
        BY <3>3 DEF Assist!On
      <4>3. AssistantCopies(a)'
        BY <1>3, <2>2, <3>1, <4>2 DEF AssistantCopies
      <4>4. AssistantNewest(a)'
        BY <1>3, <2>2, <3>1, <4>1 DEF AssistantNewest, Newest
      <4> QED BY <2>2, <4>3, <4>4
    <3> QED BY <2>2, <3>2, <3>3
  <2>3. CASE b # a
    <3>1. row'[b] = row[b] /\ versions'[b] = versions[b]
      BY <1>1, <2>3
    <3>2. (b \in behind' <=> b \in behind) /\ (b \in reborn' <=> b \in reborn)
      BY <2>3
    <3>3. AssistantCopies(b) /\ AssistantNewest(b)
      BY DEF AssistantInv
    <3>4. AssistantCopies(b)'
      BY <1>2, <2>3, <3>1, <3>2, <3>3 DEF AssistantCopies
    <3>5. AssistantNewest(b)'
      BY <1>2, <1>3, <2>3, <3>1, <3>2, <3>3 DEF AssistantNewest, Newest
    <3> QED BY <3>4, <3>5
  <2> QED BY <2>1, <2>2, <2>3
<1> QED
  BY <1>4, <1>5, <1>6 DEF AssistantInv

LEMMA AssistantDelete ==
  ASSUME AssistantInv, NEW a \in Ids, Assist!Delete(a)
  PROVE  AssistantInv'
<1> DEFINE none == [n \in {} |-> n]
<1>1. /\ row' = [row EXCEPT ![a] = Assist!Absent] /\ versions' = [versions EXCEPT ![a] = none]
      /\ UNCHANGED req /\ UNCHANGED <<reborn, behind>>
  BY DEF Assist!Delete
<1>2. DOMAIN none = {} /\ none \in [DOMAIN none -> Assist!Content]
  OBVIOUS
<1> HIDE DEF none
<1>3. \E k \in Nat : \A n \in DOMAIN none : n <= k
  BY <1>2
<1> QED
  BY <1>1, <1>2, <1>3, AssistantTables

LEMMA AssistantCreate ==
  ASSUME AssistantInv, NEW a \in Ids, NEW u \in Users, Assist!Create(a, u)
  PROVE  AssistantInv'
<1>1. PICK conf \in Values \cup {Assist!Empty}, meta \in SUBSET Keys :
        LET content == [conf |-> conf, ctx |-> conf, meta |-> meta] IN
        /\ row' = [row EXCEPT ![a] = [owner |-> u, version |-> 1, content |-> content]]
        /\ versions' = [versions EXCEPT ![a] = [n \in {1} |-> content]]
  BY DEF Assist!Create
<1> DEFINE content == [conf |-> conf, ctx |-> conf, meta |-> meta]
           new == [owner |-> u, version |-> 1, content |-> content]
           first == [n \in {1} |-> content]
<1>2. row' = [row EXCEPT ![a] = new] /\ versions' = [versions EXCEPT ![a] = first]
  BY <1>1
<1>3. content \in Assist!Content /\ content.conf = content.ctx
  BY DEF Assist!Content
<1> HIDE DEF content
<1>4. /\ new \in AssistantRow /\ new.version = 1 /\ new.content = content
      /\ DOMAIN first = {1} /\ first[1] = content
      /\ first \in [{1} -> Assist!Content]
  BY <1>3 DEF AssistantRow
<1> HIDE DEF new, first
<1>5. /\ UNCHANGED req /\ behind' = behind \ {a}
      /\ reborn' = IF Assist!On(a) # {} THEN reborn \cup {a} ELSE reborn
  BY DEF Assist!Create
<1>6. \A b \in Ids \ {a} : (b \in behind' <=> b \in behind) /\ (b \in reborn' <=> b \in reborn)
  BY <1>5
<1>7. Assist!On(a) = {} \/ a \in reborn'
  BY <1>5
<1>8. /\ Newest(1, DOMAIN first) /\ \A n \in DOMAIN first : first[n] = content
      /\ \E k \in Nat : \A n \in DOMAIN first : n <= k
      /\ DOMAIN first \in SUBSET Nat
  BY <1>4 DEF Newest
<1> QED
  BY <1>2, <1>3, <1>4, <1>5, <1>6, <1>7, <1>8, AssistantTables

LEMMA AssistantInductive ==
  Assist!Spec => []AssistantInv
<1>1. Assist!Init => AssistantInv
  <2> SUFFICES ASSUME Assist!Init PROVE AssistantInv
    OBVIOUS
  <2>1. /\ \A a \in Ids : row[a] = Assist!Absent /\ Assist!Numbers(a) = {}
        /\ \A r \in AssistantRequests : req[r] = Assist!Idle
        /\ Assist!Idle.at = "idle"
    BY DEF Assist!Init, Assist!Numbers, Assist!Idle
  <2>2. AssistantShape
    <3>1. \A a \in Ids : versions[a] \in [Assist!Numbers(a) -> Assist!Content]
      BY <2>1 DEF Assist!Init
    <3>2. \A a \in Ids : \E k \in Nat : \A n \in Assist!Numbers(a) : n <= k
      BY <2>1
    <3> QED
      BY <2>1, <3>1, <3>2 DEF Assist!Init, AssistantShape
  <2>3. AssistantMirrors
    BY <2>1 DEF AssistantMirrors, Assist!Exists
  <2> QED
    BY <2>1, <2>2, <2>3 DEF AssistantInv, AssistantCopies, AssistantNewest, Assist!Exists
<1>2. AssistantInv /\ [Assist!Next]_(Assist!vars) => AssistantInv'
  <2> SUFFICES ASSUME AssistantInv, [Assist!Next]_(Assist!vars) PROVE AssistantInv'
    OBVIOUS
  <2>1. CASE UNCHANGED Assist!vars
    <3>1. /\ row' = row /\ versions' = versions /\ req' = req /\ reborn' = reborn
          /\ behind' = behind
      BY <2>1 DEF Assist!vars
    <3>2. AssistantShape'
      BY <3>1 DEF AssistantInv, AssistantShape, Assist!Numbers, Assist!Content, Assist!Absent,
                  Assist!Idle
    <3>3. AssistantMirrors'
      BY <3>1 DEF AssistantInv, AssistantMirrors, Assist!Numbers, Assist!Exists, Assist!Absent
    <3>4. ASSUME NEW a \in Ids PROVE AssistantCopies(a)' /\ AssistantNewest(a)'
      BY <3>1 DEF AssistantInv, AssistantCopies, AssistantNewest, Assist!Numbers, Assist!Exists,
                  Assist!Absent, Assist!On, Newest
    <3> QED BY <3>2, <3>3, <3>4 DEF AssistantInv
  <2>2. ASSUME NEW a \in Ids, Assist!Delete(a) PROVE AssistantInv'
    BY <2>2, AssistantDelete
  <2>3. ASSUME NEW a \in Ids, NEW u \in Users, Assist!Create(a, u) PROVE AssistantInv'
    BY <2>3, AssistantCreate
  <2>4. ASSUME NEW r \in AssistantRequests,
               Assist!ReadRow(r) \/ Assist!ReadMax(r) \/ Assist!InsertVersion(r)
                 \/ Assist!WriteRow(r) \/ Assist!ReadVersion(r) \/ Assist!Drop(r)
        PROVE  AssistantInv'
    BY <2>4, AssistantReadRow, AssistantReadMax, AssistantInsertVersion, AssistantWriteRow,
       AssistantReadVersion, AssistantDrop
  <2> QED
    BY <2>1, <2>2, <2>3, <2>4 DEF Assist!Next
<1> QED
  BY <1>1, <1>2, PTL DEF Assist!Spec

(* Whatever updates, set_latest calls, failures and deletions overlap, the row *)
(* of an assistant is the version it names, context mirrors config in every    *)
(* version, and an assistant nothing has disturbed is at its newest version    *)
(* (usecase/assistant_service.py), for any number of ids, users and requests.  *)
THEOREM AssistantsAreVersions ==
  Assist!Spec => [](/\ Assist!RowIsItsVersion /\ Assist!ContextMirrorsConfig
                    /\ Assist!AtNewestVersion)
<1>1. AssistantInv => /\ Assist!RowIsItsVersion /\ Assist!ContextMirrorsConfig
                      /\ Assist!AtNewestVersion
  <2> SUFFICES ASSUME AssistantInv
               PROVE  /\ Assist!RowIsItsVersion /\ Assist!ContextMirrorsConfig
                      /\ Assist!AtNewestVersion
    OBVIOUS
  <2>1. Assist!RowIsItsVersion
    BY DEF AssistantInv, AssistantCopies, Assist!RowIsItsVersion
  <2>2. Assist!ContextMirrorsConfig
    BY DEF AssistantInv, AssistantMirrors, Assist!ContextMirrorsConfig
  <2>3. ASSUME NEW a \in Ids, Assist!Exists(a), a \notin behind \cup reborn, Assist!On(a) = {}
        PROVE  row[a].version = Assist!Max(Assist!Numbers(a))
    <3>1. Newest(row[a].version, Assist!Numbers(a))
      BY <2>3 DEF AssistantInv, AssistantNewest
    <3>2. Assist!Numbers(a) \in SUBSET Nat
      BY DEF AssistantInv, AssistantShape
    <3> QED BY <3>1, <3>2, NewestIsMax
  <2> QED
    BY <2>1, <2>2, <2>3 DEF Assist!AtNewestVersion
<1> QED
  BY <1>1, AssistantInductive, PTL

(* A committed version never changes while its assistant lives                *)
(* (usecase/assistant_service.py): the number of a new version is free when it *)
(* commits, and no other step writes the versions of a living assistant.       *)
THEOREM VersionsKept ==
  Assist!Spec => [][Assist!KeepsVersions]_(Assist!vars)
<1>1. AssistantInv /\ [Assist!Next]_(Assist!vars) => [Assist!KeepsVersions]_(Assist!vars)
  <2> SUFFICES ASSUME AssistantInv, Assist!Next, NEW b \in Ids, Assist!Exists(b),
                      row'[b] # Assist!Absent, NEW m \in Assist!Numbers(b)
               PROVE  m \in DOMAIN versions'[b] /\ versions'[b][m] = versions[b][m]
    BY DEF Assist!KeepsVersions
  <2>1. /\ row = [c \in Ids |-> row[c]] /\ versions = [c \in Ids |-> versions[c]]
        /\ \A c \in Ids : versions[c] \in [Assist!Numbers(c) -> Assist!Content]
    BY DEF AssistantInv, AssistantShape
  <2>2. ASSUME UNCHANGED versions
        PROVE  m \in DOMAIN versions'[b] /\ versions'[b][m] = versions[b][m]
    BY <2>2 DEF Assist!Numbers
  <2>3. ASSUME NEW a \in Ids, Assist!Delete(a)
        PROVE  m \in DOMAIN versions'[b] /\ versions'[b][m] = versions[b][m]
    <3>1. b # a
      BY <2>1, <2>3 DEF Assist!Delete
    <3>2. versions'[b] = versions[b]
      BY <2>1, <2>3, <3>1 DEF Assist!Delete
    <3> QED BY <3>2 DEF Assist!Numbers
  <2>4. ASSUME NEW a \in Ids, NEW u \in Users, Assist!Create(a, u)
        PROVE  m \in DOMAIN versions'[b] /\ versions'[b][m] = versions[b][m]
    <3>1. b # a
      BY <2>4 DEF Assist!Create
    <3>2. versions'[b] = versions[b]
      BY <2>1, <2>4, <3>1 DEF Assist!Create
    <3> QED BY <3>2 DEF Assist!Numbers
  <2>5. ASSUME NEW r \in AssistantRequests, Assist!InsertVersion(r)
        PROVE  m \in DOMAIN versions'[b] /\ versions'[b][m] = versions[b][m]
    <3>1. PICK a, n : a = req[r].id /\ n = req[r].version
      OBVIOUS
    <3>2. a \in Ids
      BY <2>5, <3>1, AssistantFields DEF Assist!InsertVersion
    <3>3. CASE Assist!Exists(a) /\ Assist!Free(a, n)
      <4>1. versions' = [versions EXCEPT ![a] =
              [k \in Assist!Numbers(a) \cup {n} |->
                 IF k = n THEN req[r].content ELSE versions[a][k]]]
        BY <2>5, <3>1, <3>3 DEF Assist!InsertVersion
      <4>2. CASE b = a
        <5>1. versions'[b] = [k \in Assist!Numbers(a) \cup {n} |->
                                IF k = n THEN req[r].content ELSE versions[a][k]]
          BY <2>1, <3>2, <4>1, <4>2
        <5>2. m \in Assist!Numbers(a) /\ m # n
          BY <3>3, <4>2 DEF Assist!Free
        <5> QED BY <4>2, <5>1, <5>2
      <4>3. CASE b # a
        <5>1. versions'[b] = versions[b]
          BY <2>1, <4>1, <4>3
        <5> QED BY <5>1 DEF Assist!Numbers
      <4> QED BY <4>2, <4>3
    <3>4. CASE ~(Assist!Exists(a) /\ Assist!Free(a, n))
      <4>1. UNCHANGED versions
        BY <2>5, <3>1, <3>4 DEF Assist!InsertVersion
      <4> QED BY <2>2, <4>1
    <3> QED BY <3>3, <3>4
  <2>6. ASSUME NEW r \in AssistantRequests,
               Assist!ReadRow(r) \/ Assist!ReadMax(r) \/ Assist!WriteRow(r)
                 \/ Assist!ReadVersion(r) \/ Assist!Drop(r)
        PROVE  UNCHANGED versions
    BY <2>6 DEF Assist!ReadRow, Assist!ReadMax, Assist!WriteRow, Assist!ReadVersion, Assist!Drop
  <2> QED
    BY <2>2, <2>3, <2>4, <2>5, <2>6 DEF Assist!Next
<1> QED
  BY <1>1, AssistantInductive, PTL DEF Assist!Spec

-----------------------------------------------------------------------------
(* Start-up.  A server's place in a boot, or in a shutdown, says what it has   *)
(* started: the stages of this deployment before it, or those not stopped yet. *)
StartupRuns   == Server!Services \cup {"graphs"}
StartupStages == {Server!BootOrder[n] : n \in 1 .. 13} \cup {Server!StopOrder[n] : n \in 1 .. 10}

StartupProcess ==
  [phase : {"off", "boot", "failed", "stop"}, at : StartupStages \cup {""}, up : SUBSET StartupRuns,
   read : Revisions \cup {"", "upgrade", "seed"}, why : {"", "race", "fault"}]

StartedBefore(n) == {s \in StartupRuns : Server!On(s) /\ \E k \in 1 .. n - 1 : Server!BootOrder[k] = s}
StoppedAfter(n)  == {s \in StartupRuns : Server!On(s) /\ \A k \in 1 .. n - 1 : Server!StopOrder[k] # s}

(* What the database holds once a boot has come to a stage.                    *)
StartupSchema(n) ==
  /\ n > 1 /\ "framework" \in options => revision["framework"] = "head"
  /\ n > 4 => seeded
  /\ n > 11 /\ "hub" \in options => revision["hub"] = "head"

StartupPlace(t) ==
  /\ t.phase = "off" => t.up = {}
  /\ t.phase \in {"boot", "failed"} =>
       \E n \in 1 .. 13 : /\ t.at = Server!BootOrder[n] /\ Server!On(t.at)
                          /\ t.up = StartedBefore(n) /\ StartupSchema(n)
  /\ t.phase = "stop" =>
       \E n \in 1 .. 10 : /\ t.at = Server!StopOrder[n] /\ t.up = StoppedAfter(n)
                          /\ StartupSchema(13)

StartupShape ==
  /\ revision \in [Server!Chains -> Revisions \cup {"head"}]
  /\ proc \in [Instances -> StartupProcess]

StartupInv == StartupShape /\ \A i \in Instances : StartupPlace(proc[i])

LEMMA BootStages ==
  /\ Len(Server!BootOrder) = 13 /\ DOMAIN Server!BootOrder = 1 .. 13
  /\ Server!BootOrder[1] = "framework" /\ Server!BootOrder[2] = "engine"
  /\ Server!BootOrder[3] = "components" /\ Server!BootOrder[4] = "graphs"
  /\ Server!BootOrder[5] = "redis" /\ Server!BootOrder[6] = "broker"
  /\ Server!BootOrder[7] = "executor" /\ Server!BootOrder[8] = "reaper"
  /\ Server!BootOrder[9] = "cron" /\ Server!BootOrder[10] = "ttl"
  /\ Server!BootOrder[11] = "hub" /\ Server!BootOrder[12] = "model"
  /\ Server!BootOrder[13] = "serving"
<1>1. Len(Server!BootOrder) = 13 /\ DOMAIN Server!BootOrder = 1 .. 13
  BY DEF Server!BootOrder
<1>2. /\ Server!BootOrder[1] = "framework" /\ Server!BootOrder[2] = "engine"
      /\ Server!BootOrder[3] = "components" /\ Server!BootOrder[4] = "graphs"
      /\ Server!BootOrder[5] = "redis" /\ Server!BootOrder[6] = "broker"
      /\ Server!BootOrder[7] = "executor" /\ Server!BootOrder[8] = "reaper"
      /\ Server!BootOrder[9] = "cron" /\ Server!BootOrder[10] = "ttl"
      /\ Server!BootOrder[11] = "hub" /\ Server!BootOrder[12] = "model"
      /\ Server!BootOrder[13] = "serving"
  BY DEF Server!BootOrder
<1> QED BY <1>1, <1>2

LEMMA StopStages ==
  /\ Len(Server!StopOrder) = 10 /\ DOMAIN Server!StopOrder = 1 .. 10
  /\ Server!StopOrder[1] = "model" /\ Server!StopOrder[2] = "ttl"
  /\ Server!StopOrder[3] = "cron" /\ Server!StopOrder[4] = "reaper"
  /\ Server!StopOrder[5] = "executor" /\ Server!StopOrder[6] = "broker"
  /\ Server!StopOrder[7] = "redis" /\ Server!StopOrder[8] = "engine"
  /\ Server!StopOrder[9] = "components" /\ Server!StopOrder[10] = "down"
<1>1. Len(Server!StopOrder) = 10 /\ DOMAIN Server!StopOrder = 1 .. 10
  BY DEF Server!StopOrder
<1>2. /\ Server!StopOrder[1] = "model" /\ Server!StopOrder[2] = "ttl"
      /\ Server!StopOrder[3] = "cron" /\ Server!StopOrder[4] = "reaper"
      /\ Server!StopOrder[5] = "executor" /\ Server!StopOrder[6] = "broker"
      /\ Server!StopOrder[7] = "redis" /\ Server!StopOrder[8] = "engine"
      /\ Server!StopOrder[9] = "components" /\ Server!StopOrder[10] = "down"
  BY DEF Server!StopOrder
<1> QED BY <1>1, <1>2

(* No stage comes twice. *)
LEMMA StagesOnce ==
  /\ \A m, n \in 1 .. 13 : Server!BootOrder[m] = Server!BootOrder[n] => m = n
  /\ \A m, n \in 1 .. 10 : Server!StopOrder[m] = Server!StopOrder[n] => m = n
<1>1. \A n \in 1 .. 13 : n \in {1, 2, 3, 4, 5, 6, 7, 8, 9, 10, 11, 12, 13}
  OBVIOUS
<1>2. \A n \in 1 .. 10 : n \in {1, 2, 3, 4, 5, 6, 7, 8, 9, 10}
  OBVIOUS
<1>3. \A m, n \in 1 .. 13 : Server!BootOrder[m] = Server!BootOrder[n] => m = n
  BY <1>1, BootStages
<1>4. \A m, n \in 1 .. 10 : Server!StopOrder[m] = Server!StopOrder[n] => m = n
  BY <1>2, StopStages
<1> QED BY <1>3, <1>4

(* After takes the next stage of the order that this deployment has.           *)
LEMMA NextStage ==
  ASSUME NEW order, NEW L \in Nat, Len(order) = L, DOMAIN order = 1 .. L,
         \A m, n \in 1 .. L : order[m] = order[n] => m = n,
         Server!On(order[L]), NEW n \in 1 .. L - 1
  PROVE  \E m \in n + 1 .. L : /\ Server!After(order, order[n]) = order[m] /\ Server!On(order[m])
                               /\ \A k \in n + 1 .. m - 1 : ~Server!On(order[k])
<1> DEFINE at == CHOOSE k \in DOMAIN order : order[k] = order[n]
           T == {k \in n + 1 .. L : Server!On(order[k])}
           good(x) == Server!On(order[x]) /\ \A k \in n + 1 .. x - 1 : ~Server!On(order[k])
           next == CHOOSE x \in n + 1 .. L : good(x)
<1>1. at = n
  <2>1. n \in DOMAIN order
    OBVIOUS
  <2>2. at \in DOMAIN order /\ order[at] = order[n]
    BY <2>1
  <2> QED BY <2>1, <2>2
<1>2. \E x \in n + 1 .. L : good(x)
  <2>1. T \in SUBSET Nat /\ L \in T
    OBVIOUS
  <2> HIDE DEF T
  <2>2. PICK x \in T : \A y \in T : x <= y
    BY <2>1, LeastNumber
  <2> USE DEF T
  <2>3. \A k \in n + 1 .. x - 1 : ~Server!On(order[k])
    <3> SUFFICES ASSUME NEW k \in n + 1 .. x - 1, Server!On(order[k]) PROVE FALSE
      OBVIOUS
    <3>1. k \in n + 1 .. L /\ k < x
      BY <2>2
    <3>2. k \in T
      BY <3>1
    <3>3. x <= k
      BY <2>2, <3>2
    <3> QED BY <3>1, <3>3, <2>2
  <2> QED BY <2>2, <2>3
<1>3. next \in n + 1 .. L /\ good(next)
  <2> HIDE DEF good
  <2> QED BY <1>2
<1>4. Server!After(order, order[n]) = order[next]
  BY <1>1 DEF Server!After
<1> HIDE DEF next
<1> QED BY <1>3, <1>4

(* A boot that goes on has started what its stage starts.                      *)
LEMMA BootGoesOn ==
  ASSUME NEW n \in 1 .. 12
  PROVE  \E m \in n + 1 .. 13 :
           /\ Server!After(Server!BootOrder, Server!BootOrder[n]) = Server!BootOrder[m]
           /\ Server!On(Server!BootOrder[m])
           /\ \A k \in n + 1 .. m - 1 : ~Server!On(Server!BootOrder[k])
<1>1. Server!On(Server!BootOrder[13])
  BY BootStages DEF Server!On, Server!Optional
<1>2. n \in 1 .. 13 - 1 /\ 13 \in Nat
  OBVIOUS
<1> QED BY <1>1, <1>2, BootStages, StagesOnce, NextStage

LEMMA StopGoesOn ==
  ASSUME NEW n \in 1 .. 9
  PROVE  \E m \in n + 1 .. 10 :
           /\ Server!After(Server!StopOrder, Server!StopOrder[n]) = Server!StopOrder[m]
           /\ \A k \in n + 1 .. m - 1 : ~Server!On(Server!StopOrder[k])
<1>1. Server!On(Server!StopOrder[10])
  BY StopStages DEF Server!On, Server!Optional
<1>2. n \in 1 .. 10 - 1 /\ 10 \in Nat
  OBVIOUS
<1>3. \E m \in n + 1 .. 10 :
           /\ Server!After(Server!StopOrder, Server!StopOrder[n]) = Server!StopOrder[m]
           /\ Server!On(Server!StopOrder[m])
           /\ \A k \in n + 1 .. m - 1 : ~Server!On(Server!StopOrder[k])
  BY <1>1, <1>2, StopStages, StagesOnce, NextStage
<1> QED BY <1>3

LEMMA StartsMore ==
  ASSUME NEW n \in 1 .. 12, NEW m \in n + 1 .. 13,
         \A k \in n + 1 .. m - 1 : ~Server!On(Server!BootOrder[k]),
         Server!On(Server!BootOrder[n]) \/ Server!BootOrder[n] \notin StartupRuns
  PROVE  StartedBefore(m) = StartedBefore(n) \cup ({Server!BootOrder[n]} \cap StartupRuns)
<1> DEFINE b == Server!BootOrder[n]
<1>1. \A s \in StartupRuns : Server!On(s) /\ (\E k \in 1 .. m - 1 : Server!BootOrder[k] = s)
        => s \in StartedBefore(n) \/ s = b
  <2> SUFFICES ASSUME NEW s \in StartupRuns, Server!On(s), NEW k \in 1 .. m - 1,
                      Server!BootOrder[k] = s
               PROVE  s \in StartedBefore(n) \/ s = b
    OBVIOUS
  <2>1. k \in 1 .. n - 1 \/ k = n \/ k \in n + 1 .. m - 1
    OBVIOUS
  <2> QED BY <2>1 DEF StartedBefore
<1>2. \A k \in 1 .. n - 1 : k \in 1 .. m - 1
  OBVIOUS
<1>3. n \in 1 .. m - 1
  OBVIOUS
<1> QED BY <1>1, <1>2, <1>3 DEF StartedBefore

LEMMA StopsMore ==
  ASSUME NEW n \in 1 .. 9, NEW m \in n + 1 .. 10,
         \A k \in n + 1 .. m - 1 : ~Server!On(Server!StopOrder[k])
  PROVE  StoppedAfter(m) = StoppedAfter(n) \ {Server!StopOrder[n]}
<1>1. \A k \in 1 .. m - 1 : k \in 1 .. n - 1 \/ k = n \/ k \in n + 1 .. m - 1
  OBVIOUS
<1>2. \A k \in 1 .. n - 1 : k \in 1 .. m - 1
  OBVIOUS
<1>3. n \in 1 .. m - 1
  OBVIOUS
<1> QED BY <1>1, <1>2, <1>3 DEF StoppedAfter

(* The database moves forward only: a chain at its head stays there.           *)
StartupForward ==
  /\ options' = options
  /\ revision' \in [Server!Chains -> Revisions \cup {"head"}]
  /\ \A c \in Server!Chains : revision[c] = "head" => revision'[c] = "head"
  /\ seeded => seeded'

LEMMA SchemaStays ==
  ASSUME StartupForward, NEW n \in 1 .. 13, StartupSchema(n) PROVE StartupSchema(n)'
BY DEF StartupForward, StartupSchema, Server!Chains

LEMMA PlaceStays ==
  ASSUME StartupForward, NEW t, StartupPlace(t) PROVE StartupPlace(t)'
<1>1. \A n : StartedBefore(n)' = StartedBefore(n) /\ StoppedAfter(n)' = StoppedAfter(n)
  BY DEF StartupForward, StartedBefore, StoppedAfter, StartupRuns, Server!On, Server!BootOrder,
         Server!StopOrder, Server!Optional, Server!Services
<1>2. \A s : Server!On(s)' <=> Server!On(s)
  BY DEF StartupForward, Server!On, Server!Optional
<1>3. \A n : /\ (Server!BootOrder[n])' = Server!BootOrder[n]
             /\ (Server!StopOrder[n])' = Server!StopOrder[n]
  BY DEF Server!BootOrder, Server!StopOrder
<1>4. 13 \in 1 .. 13
  OBVIOUS
<1>5. CASE t.phase = "off"
  BY <1>5 DEF StartupPlace
<1>6. CASE t.phase \in {"boot", "failed"}
  <2>1. PICK n \in 1 .. 13 : /\ t.at = Server!BootOrder[n] /\ Server!On(t.at)
                             /\ t.up = StartedBefore(n) /\ StartupSchema(n)
    BY <1>6 DEF StartupPlace
  <2>2. /\ t.at = (Server!BootOrder[n])' /\ Server!On(t.at)'
        /\ t.up = StartedBefore(n)' /\ StartupSchema(n)'
    BY <1>1, <1>2, <1>3, <2>1, SchemaStays
  <2> QED BY <1>6, <2>2 DEF StartupPlace
<1>7. CASE t.phase = "stop"
  <2>1. PICK n \in 1 .. 10 : /\ t.at = Server!StopOrder[n] /\ t.up = StoppedAfter(n)
                             /\ StartupSchema(13)
    BY <1>7 DEF StartupPlace
  <2>2. t.at = (Server!StopOrder[n])' /\ t.up = StoppedAfter(n)' /\ StartupSchema(13)'
    BY <1>1, <1>3, <1>4, <2>1, SchemaStays
  <2> QED BY <1>7, <2>2 DEF StartupPlace
<1> QED BY <1>5, <1>6, <1>7 DEF StartupPlace

LEMMA StartupMoves ==
  ASSUME StartupInv, StartupForward, NEW i \in Instances, NEW t \in StartupProcess,
         proc' = [proc EXCEPT ![i] = t], StartupPlace(t)'
  PROVE  StartupInv'
<1>1. \A j \in Instances : proc'[j] = IF j = i THEN t ELSE proc[j]
  BY DEF StartupInv, StartupShape
<1>2. \A j \in Instances : StartupPlace(proc[j])'
  <2> SUFFICES ASSUME NEW j \in Instances PROVE StartupPlace(proc[j])'
    OBVIOUS
  <2>1. CASE j = i
    BY <1>1, <2>1
  <2>2. CASE j # i
    <3>1. PICK u : u = proc[j]
      OBVIOUS
    <3>2. proc'[j] = u /\ StartupPlace(u)
      BY <1>1, <2>2, <3>1 DEF StartupInv
    <3>3. StartupPlace(u)'
      BY <3>2, PlaceStays
    <3> QED BY <3>2, <3>3
  <2> QED BY <2>1, <2>2
<1>3. proc' \in [Instances -> StartupProcess]'
  BY <1>1 DEF StartupInv, StartupShape, StartupProcess, StartupStages, StartupRuns, Server!Services,
              Server!BootOrder, Server!StopOrder
<1> QED BY <1>2, <1>3 DEF StartupInv, StartupShape, StartupForward, Server!Chains

(* A stage that has done its part hands over to the next one.                  *)
StartupDone(s) ==
  /\ s \in Server!Chains => revision'[s] = "head"
  /\ s = "graphs" => seeded'

LEMMA StartupContinues ==
  ASSUME StartupInv, StartupForward, NEW i \in Instances, proc[i].phase = "boot",
         proc[i].at # "serving", StartupDone(proc[i].at),
         Server!Continues(i, proc[i].up \cup ({proc[i].at} \cap StartupRuns))
  PROVE  StartupInv'
<1> DEFINE p == proc[i]
<1>1. PICK n \in 1 .. 13 : /\ p.at = Server!BootOrder[n] /\ Server!On(p.at)
                           /\ p.up = StartedBefore(n) /\ StartupSchema(n)
  BY DEF StartupInv, StartupPlace
<1>2. n \in 1 .. 12
  <2>1. n # 13
    BY <1>1, BootStages
  <2> QED BY <2>1
<1>3. PICK m \in n + 1 .. 13 :
         /\ Server!After(Server!BootOrder, Server!BootOrder[n]) = Server!BootOrder[m]
         /\ Server!On(Server!BootOrder[m])
         /\ \A k \in n + 1 .. m - 1 : ~Server!On(Server!BootOrder[k])
  BY <1>2, BootGoesOn
<1>4. StartedBefore(m) = p.up \cup ({p.at} \cap StartupRuns)
  BY <1>1, <1>2, <1>3, StartsMore
<1>5. m \in 1 .. 13 /\ m > n
  BY <1>3
<1> DEFINE t == Server!Process("boot", Server!BootOrder[m], StartedBefore(m))
<1>6. proc' = [proc EXCEPT ![i] = t]
  BY <1>1, <1>3, <1>4 DEF Server!Continues, Server!Goes
<1>7. /\ t.phase = "boot" /\ t.at = Server!BootOrder[m] /\ t.up = StartedBefore(m)
      /\ t.read = "" /\ t.why = "" /\ t \in StartupProcess
  <2>1. Server!BootOrder[m] \in StartupStages /\ StartedBefore(m) \subseteq StartupRuns
    BY <1>5 DEF StartupStages, StartedBefore
  <2> QED BY <2>1 DEF Server!Process, StartupProcess
<1>8. StartupSchema(m)'
  <2>1. "framework" \in options => revision'["framework"] = "head"
    <3>1. CASE n = 1
      BY <1>1, <3>1, BootStages DEF StartupDone, Server!Chains
    <3>2. CASE n # 1
      <4>1. n > 1
        BY <3>2
      <4> QED BY <1>1, <4>1 DEF StartupSchema, StartupForward, Server!Chains
    <3> QED BY <3>1, <3>2
  <2>2. m > 4 => seeded'
    <3>1. CASE n = 4
      BY <1>1, <3>1, BootStages DEF StartupDone
    <3>2. CASE n > 4
      BY <1>1, <3>2 DEF StartupSchema, StartupForward
    <3>3. CASE n < 4 /\ m > 4
      <4>1. 4 \in n + 1 .. m - 1
        BY <1>5, <3>3
      <4> QED BY <1>3, <4>1, BootStages DEF Server!On, Server!Optional
    <3> QED BY <3>1, <3>2, <3>3
  <2>3. m > 11 /\ "hub" \in options => revision'["hub"] = "head"
    <3>1. CASE n = 11
      BY <1>1, <3>1, BootStages DEF StartupDone, Server!Chains
    <3>2. CASE n > 11
      BY <1>1, <3>2 DEF StartupSchema, StartupForward, Server!Chains
    <3>3. CASE n < 11 /\ m > 11
      <4>1. 11 \in n + 1 .. m - 1
        BY <1>5, <3>3
      <4> QED BY <1>3, <4>1, BootStages DEF Server!On
    <3> QED BY <3>1, <3>2, <3>3
  <2> QED BY <2>1, <2>2, <2>3 DEF StartupSchema, StartupForward
<1>9. PICK u : u = t
  OBVIOUS
<1>10. StartupPlace(u)'
  <2>1. /\ (Server!BootOrder[m])' = Server!BootOrder[m]
        /\ Server!On(Server!BootOrder[m])' /\ StartedBefore(m)' = StartedBefore(m)
    BY <1>3 DEF StartupForward, StartedBefore, StartupRuns, Server!On, Server!BootOrder,
                Server!Optional, Server!Services
  <2>2. /\ u.phase = "boot" /\ u.at = (Server!BootOrder[m])' /\ Server!On(u.at)'
        /\ u.up = StartedBefore(m)' /\ StartupSchema(m)'
    BY <1>7, <1>8, <1>9, <2>1
  <2> QED BY <1>5, <2>2 DEF StartupPlace
<1> HIDE DEF t
<1> QED BY <1>6, <1>7, <1>9, <1>10, StartupMoves

(* A boot that stays where it is, having read something or failed.             *)
LEMMA StartupPauses ==
  ASSUME StartupInv, StartupForward, NEW i \in Instances, proc[i].phase = "boot",
         NEW t \in StartupProcess, t.phase \in {"boot", "failed"}, t.at = proc[i].at, t.up = proc[i].up,
         proc' = [proc EXCEPT ![i] = t]
  PROVE  StartupInv'
<1>1. StartupPlace(t)
  BY DEF StartupInv, StartupPlace
<1> QED BY <1>1, PlaceStays, StartupMoves

LEMMA StartupFails ==
  ASSUME StartupInv, StartupForward, NEW i \in Instances, proc[i].phase = "boot",
         NEW why \in {"race", "fault"}, Server!Fails(i, why)
  PROVE  StartupInv'
<1>1. proc[i] \in StartupProcess /\ proc \in [Instances -> StartupProcess]
  BY DEF StartupInv, StartupShape
<1>2. PICK t : t = [proc[i] EXCEPT !.phase = "failed", !.why = why]
  OBVIOUS
<1>3. t \in StartupProcess /\ t.phase = "failed" /\ t.at = proc[i].at /\ t.up = proc[i].up
  BY <1>1, <1>2 DEF StartupProcess
<1>4. proc' = [proc EXCEPT ![i] = t]
  BY <1>1, <1>2 DEF Server!Fails
<1> QED BY <1>3, <1>4, StartupPauses

LEMMA StartupReads ==
  ASSUME StartupInv, StartupForward, NEW i \in Instances, proc[i].phase = "boot",
         NEW x \in Revisions \cup {"upgrade", "seed"}, proc' = [proc EXCEPT ![i].read = x]
  PROVE  StartupInv'
<1>1. proc[i] \in StartupProcess /\ proc \in [Instances -> StartupProcess]
  BY DEF StartupInv, StartupShape
<1>2. PICK t : t = [proc[i] EXCEPT !.read = x]
  OBVIOUS
<1>3. t \in StartupProcess /\ t.phase = "boot" /\ t.at = proc[i].at /\ t.up = proc[i].up
  BY <1>1, <1>2 DEF StartupProcess
<1>4. proc' = [proc EXCEPT ![i] = t]
  BY <1>1, <1>2
<1> QED BY <1>3, <1>4, StartupPauses

(* What each action does.                                                      *)
LEMMA StartupBoots ==
  ASSUME StartupInv, NEW i \in Instances,
         Server!Boot(i) \/ Server!Exit(i) \/ Server!Stop(i) \/ Server!StopService(i)
  PROVE  StartupInv'
<1>1. StartupForward
  <2>1. UNCHANGED <<options, revision, seeded>>
    BY DEF Server!Boot, Server!Exit, Server!Stop, Server!StopService
  <2> QED BY <2>1 DEF StartupInv, StartupShape, StartupForward
<1>2. ASSUME NEW phase \in {"off", "boot", "stop"}, NEW stage \in StartupStages \cup {""},
             NEW up \in SUBSET StartupRuns, Server!Goes(i, phase, stage, up),
             \A u : u.phase = phase /\ u.at = stage /\ u.up = up => StartupPlace(u)
      PROVE  StartupInv'
  <2>1. PICK u : u = Server!Process(phase, stage, up)
    OBVIOUS
  <2>2. u \in StartupProcess /\ u.phase = phase /\ u.at = stage /\ u.up = up
    BY <2>1 DEF Server!Process, StartupProcess
  <2>3. proc' = [proc EXCEPT ![i] = u]
    BY <1>2, <2>1 DEF Server!Goes
  <2> QED BY <1>1, <1>2, <2>2, <2>3, PlaceStays, StartupMoves
<1>3. CASE Server!Boot(i)
  <2>1. PICK n \in 1 .. 2 : Server!First = Server!BootOrder[n] /\ Server!On(Server!First)
                            /\ (n = 2 => "framework" \notin options)
    BY BootStages DEF Server!First, Server!On, Server!Optional
  <2>2. n \in 1 .. 13 /\ Server!First \in StartupStages
    BY <2>1 DEF StartupStages
  <2>3. StartupSchema(n) /\ StartedBefore(n) = {}
    <3>1. StartupSchema(n)
      BY <2>1 DEF StartupSchema
    <3>2. \A k \in 1 .. n - 1 : Server!BootOrder[k] = "framework"
      BY <2>1, BootStages
    <3>3. "framework" \notin StartupRuns
      BY DEF StartupRuns, Server!Services
    <3> QED BY <3>1, <3>2, <3>3 DEF StartedBefore
  <2>4. \A u : u.phase = "boot" /\ u.at = Server!First /\ u.up = {} => StartupPlace(u)
    BY <2>1, <2>2, <2>3 DEF StartupPlace
  <2>5. Server!Goes(i, "boot", Server!First, {})
    BY <1>3 DEF Server!Boot
  <2>6. "boot" \in {"off", "boot", "stop"} /\ {} \in SUBSET StartupRuns
    OBVIOUS
  <2> QED BY <1>2, <2>2, <2>4, <2>5, <2>6
<1>4. CASE Server!Exit(i)
  <2>1. \A u : u.phase = "off" /\ u.at = "" /\ u.up = {} => StartupPlace(u)
    BY DEF StartupPlace
  <2>2. "off" \in {"off", "boot", "stop"} /\ {} \in SUBSET StartupRuns
    OBVIOUS
  <2>3. Server!Goes(i, "off", "", {})
    BY <1>4 DEF Server!Exit
  <2> QED BY <1>2, <2>1, <2>2, <2>3
<1>5. CASE Server!Stop(i)
  <2>1. proc[i].phase = "boot" /\ proc[i].at = "serving" /\ Server!Goes(i, "stop", "model", proc[i].up)
    BY <1>5 DEF Server!Stop, Server!At
  <2>2. PICK n \in 1 .. 13 : /\ proc[i].at = Server!BootOrder[n] /\ Server!On(proc[i].at)
                             /\ proc[i].up = StartedBefore(n) /\ StartupSchema(n)
    BY <2>1 DEF StartupInv, StartupPlace
  <2>3. n = 13
    <3>1. Server!BootOrder[n] = Server!BootOrder[13] /\ 13 \in 1 .. 13
      BY <2>1, <2>2, BootStages
    <3> QED BY <3>1, StagesOnce
  <2>4. StartedBefore(13) = StoppedAfter(1)
    <3>1. \A s \in StartupRuns : \E k \in 1 .. 12 : Server!BootOrder[k] = s
      BY BootStages DEF StartupRuns, Server!Services
    <3> QED BY <3>1 DEF StartedBefore, StoppedAfter
  <2>5. 1 \in 1 .. 10 /\ Server!StopOrder[1] = "model" /\ "model" \in StartupStages
    BY StopStages DEF StartupStages
  <2>6. \A u : u.phase = "stop" /\ u.at = "model" /\ u.up = proc[i].up => StartupPlace(u)
    BY <2>2, <2>3, <2>4, <2>5 DEF StartupPlace
  <2>7. proc[i].up \in SUBSET StartupRuns
    BY <2>2 DEF StartedBefore
  <2> QED BY <1>2, <2>1, <2>5, <2>6, <2>7
<1>6. CASE Server!StopService(i)
  <2> DEFINE next == Server!After(Server!StopOrder, proc[i].at)
  <2>1. /\ proc[i].phase = "stop" /\ proc[i].at # "down"
        /\ Server!Goes(i, "stop", next, proc[i].up \ {proc[i].at})
    BY <1>6 DEF Server!StopService
  <2>2. PICK n \in 1 .. 10 : /\ proc[i].at = Server!StopOrder[n] /\ proc[i].up = StoppedAfter(n)
                             /\ StartupSchema(13)
    BY <2>1 DEF StartupInv, StartupPlace
  <2>3. n \in 1 .. 9
    <3>1. n # 10
      BY <2>1, <2>2, StopStages
    <3> QED BY <3>1
  <2>4. PICK m \in n + 1 .. 10 : /\ next = Server!StopOrder[m]
                                 /\ \A k \in n + 1 .. m - 1 : ~Server!On(Server!StopOrder[k])
    BY <2>2, <2>3, StopGoesOn
  <2>5. m \in 1 .. 10 /\ StoppedAfter(m) = proc[i].up \ {proc[i].at}
    BY <2>2, <2>3, <2>4, StopsMore
  <2>6. next \in StartupStages /\ StoppedAfter(m) \in SUBSET StartupRuns
    BY <2>4, <2>5 DEF StartupStages, StoppedAfter
  <2> HIDE DEF next
  <2>7. \A u : u.phase = "stop" /\ u.at = next /\ u.up = StoppedAfter(m) => StartupPlace(u)
    BY <2>2, <2>4, <2>5 DEF StartupPlace
  <2> QED BY <1>2, <2>1, <2>5, <2>6, <2>7
<1> QED BY <1>3, <1>4, <1>5, <1>6

LEMMA StartupForwards ==
  ASSUME StartupInv, UNCHANGED options, \/ UNCHANGED revision
                                        \/ \E c \in Server!Chains : revision' = [revision EXCEPT ![c] = "head"],
         seeded => seeded'
  PROVE  StartupForward
BY DEF StartupInv, StartupShape, StartupForward

(* A stage of a boot. *)
LEMMA StartupStarts ==
  ASSUME StartupInv, NEW i \in Instances, Server!Start(i) \/ Server!Raise(i)
  PROVE  StartupInv'
<1>1. StartupForward
  <2>1. UNCHANGED <<options, revision, seeded>>
    BY DEF Server!Start, Server!Raise
  <2> QED BY <2>1, StartupForwards
<1>2. CASE Server!Start(i)
  <2>1. /\ proc[i].phase = "boot" /\ proc[i].at \in Server!Services
        /\ Server!Continues(i, proc[i].up \cup {proc[i].at})
    BY <1>2 DEF Server!Start
  <2>2. {proc[i].at} \cap StartupRuns = {proc[i].at}
    BY <2>1 DEF StartupRuns
  <2>3. proc[i].at # "serving" /\ StartupDone(proc[i].at)
    BY <2>1 DEF Server!Services, StartupDone, Server!Chains
  <2> QED BY <1>1, <2>1, <2>2, <2>3, StartupContinues
<1>3. CASE Server!Raise(i)
  BY <1>1, <1>3, StartupFails DEF Server!Raise
<1> QED BY <1>2, <1>3

LEMMA StartupSeeds ==
  ASSUME StartupInv, NEW i \in Instances, Server!SeedReads(i) \/ Server!SeedCommits(i)
  PROVE  StartupInv'
<1>1. UNCHANGED <<options, revision>> /\ (seeded => seeded')
  <2>1. UNCHANGED <<options, revision>>
    BY DEF Server!SeedReads, Server!SeedCommits
  <2>2. seeded' = seeded \/ seeded' = TRUE
    BY DEF Server!SeedReads, Server!SeedCommits
  <2> QED BY <2>1, <2>2
<1>2. StartupForward
  BY <1>1, StartupForwards
<1>3. proc[i].phase = "boot" /\ proc[i].at = "graphs"
  BY DEF Server!SeedReads, Server!SeedCommits, Server!At
<1>4. {proc[i].at} \cap StartupRuns = {"graphs"}
  BY <1>3 DEF StartupRuns
<1>5. ASSUME Server!Continues(i, proc[i].up \cup {"graphs"}), seeded' PROVE StartupInv'
  <2>1. StartupDone(proc[i].at)
    BY <1>3, <1>5 DEF StartupDone, Server!Chains
  <2> QED BY <1>2, <1>3, <1>4, <1>5, <2>1, StartupContinues
<1>6. ASSUME Server!Fails(i, "race") PROVE StartupInv'
  BY <1>2, <1>3, <1>6, StartupFails
<1>7. ASSUME proc' = [proc EXCEPT ![i].read = "seed"] PROVE StartupInv'
  BY <1>2, <1>3, <1>7, StartupReads
<1>8. CASE Server!SeedReads(i)
  <2>1. CASE seeded
    BY <1>1, <1>5, <1>8, <2>1 DEF Server!SeedReads
  <2>2. CASE ~seeded
    BY <1>7, <1>8, <2>2 DEF Server!SeedReads
  <2> QED BY <2>1, <2>2
<1>9. CASE Server!SeedCommits(i)
  <2>1. CASE seeded
    BY <1>6, <1>9, <2>1 DEF Server!SeedCommits
  <2>2. CASE ~seeded
    BY <1>5, <1>9, <2>2 DEF Server!SeedCommits
  <2> QED BY <2>1, <2>2
<1> QED BY <1>8, <1>9

LEMMA StartupMigrates ==
  ASSUME StartupInv, NEW i \in Instances, NEW c \in Server!Chains,
         \/ Server!UpgradeReads(i, c) \/ Server!Upgrade(i, c)
         \/ \E raised \in BOOLEAN : Server!Precheck(i, c, raised)
  PROVE  StartupInv'
<1>1. /\ UNCHANGED <<options, seeded>>
      /\ UNCHANGED revision \/ revision' = [revision EXCEPT ![c] = "head"]
  BY DEF Server!UpgradeReads, Server!Upgrade, Server!Precheck
<1>2. StartupForward
  BY <1>1, StartupForwards
<1>3. proc[i].phase = "boot" /\ proc[i].at = c
  BY DEF Server!UpgradeReads, Server!Upgrade, Server!Precheck, Server!At
<1>4. c # "serving" /\ {proc[i].at} \cap StartupRuns = {}
  BY <1>3 DEF StartupRuns, Server!Services, Server!Chains
<1>5. ASSUME Server!Continues(i, proc[i].up), revision'[c] = "head" PROVE StartupInv'
  <2>1. StartupDone(proc[i].at)
    BY <1>3, <1>5 DEF StartupDone, Server!Chains
  <2>2. proc[i].up = proc[i].up \cup ({proc[i].at} \cap StartupRuns)
    BY <1>4
  <2> QED BY <1>2, <1>3, <1>4, <1>5, <2>1, <2>2, StartupContinues
<1>6. ASSUME Server!Fails(i, "race") PROVE StartupInv'
  BY <1>2, <1>3, <1>6, StartupFails
<1>7. ASSUME NEW x \in Revisions \cup {"upgrade", "seed"}, proc' = [proc EXCEPT ![i].read = x]
      PROVE  StartupInv'
  BY <1>2, <1>3, <1>7, StartupReads
<1>8. revision \in [Server!Chains -> Revisions \cup {"head"}]
  BY DEF StartupInv, StartupShape
<1>9. CASE Server!UpgradeReads(i, c)
  <2>1. CASE revision[c] = "head"
    BY <1>5, <1>9, <2>1 DEF Server!UpgradeReads
  <2>2. CASE revision[c] # "head"
    <3>1. PICK x \in Revisions \cup {"upgrade", "seed"} : x = revision[c]
      BY <1>8, <2>2
    <3> QED BY <1>7, <1>9, <2>2, <3>1 DEF Server!UpgradeReads
  <2> QED BY <2>1, <2>2
<1>10. CASE Server!Upgrade(i, c)
  <2>1. CASE revision[c] = proc[i].read
    <3>1. Server!Continues(i, proc[i].up) /\ revision' = [revision EXCEPT ![c] = "head"]
      BY <1>10, <2>1 DEF Server!Upgrade
    <3> QED BY <1>5, <1>8, <3>1
  <2>2. CASE revision[c] # proc[i].read
    BY <1>6, <1>10, <2>2 DEF Server!Upgrade
  <2> QED BY <2>1, <2>2
<1>11. ASSUME NEW raised \in BOOLEAN, Server!Precheck(i, c, raised) PROVE StartupInv'
  <2>1. CASE Server!UpToDate(c, raised)
    BY <1>5, <1>11, <2>1 DEF Server!Precheck, Server!UpToDate
  <2>2. CASE ~Server!UpToDate(c, raised)
    BY <1>7, <1>11, <2>2 DEF Server!Precheck
  <2> QED BY <2>1, <2>2
<1> QED BY <1>9, <1>10, <1>11

LEMMA StartupStep ==
  ASSUME StartupInv, [Server!Next]_(Server!vars) PROVE StartupInv'
<1>1. CASE UNCHANGED Server!vars
  <2>1. StartupForward /\ proc' = proc
    BY <1>1 DEF Server!vars, StartupInv, StartupShape, StartupForward
  <2>2. ASSUME NEW i \in Instances PROVE StartupPlace(proc[i])'
    <3>1. PICK u : u = proc[i]
      OBVIOUS
    <3>2. StartupPlace(u)'
      BY <2>1, <3>1, PlaceStays DEF StartupInv
    <3> QED BY <2>1, <3>1, <3>2
  <2>3. StartupShape'
    BY <2>1 DEF StartupInv, StartupShape, StartupForward, StartupProcess, StartupStages,
                StartupRuns, Server!Services, Server!BootOrder, Server!StopOrder, Server!Chains
  <2> QED BY <2>2, <2>3 DEF StartupInv
<1>2. ASSUME Server!Next PROVE StartupInv'
  BY <1>2, StartupBoots, StartupStarts, StartupSeeds, StartupMigrates DEF Server!Next
<1> QED BY <1>1, <1>2

LEMMA StartupInit == Server!Init => StartupInv
<1> SUFFICES ASSUME Server!Init PROVE StartupInv
  OBVIOUS
<1>1. revision \in [Server!Chains -> Revisions \cup {"head"}]
  BY DEF Server!Init, Server!Chains
<1>2. PICK t : t = Server!Process("off", "", {})
  OBVIOUS
<1>3. t \in StartupProcess /\ t.phase = "off" /\ t.up = {}
  BY <1>2 DEF Server!Process, StartupProcess
<1>4. proc = [i \in Instances |-> t]
  BY <1>2 DEF Server!Init
<1> QED BY <1>1, <1>3, <1>4 DEF StartupInv, StartupShape, StartupPlace

(* What runs at a stage has what it uses.                                      *)
StartupUses(up) == \A s \in DOMAIN Server!Uses \cap up : \A d \in Server!Uses[s] : Server!On(d) => d \in up

LEMMA UsesOf ==
  /\ DOMAIN Server!Uses = {"broker", "executor", "reaper", "cron", "ttl", "model"}
  /\ \A s \in DOMAIN Server!Uses : Server!Uses[s] \subseteq StartupRuns
  /\ Server!Uses["broker"] = {"redis"}
  /\ Server!Uses["executor"] = {"engine", "components", "graphs", "broker", "redis"}
  /\ Server!Uses["reaper"] = {"engine", "redis"}
  /\ Server!Uses["cron"] = {"engine", "executor", "graphs"}
  /\ Server!Uses["ttl"] = {"engine", "components"}
  /\ Server!Uses["model"] = {"engine", "components", "graphs", "broker", "executor"}
BY DEF Server!Uses, StartupRuns, Server!Services

(* A service starts after all that it uses ... *)
LEMMA UsesStarted == ASSUME NEW n \in 1 .. 13 PROVE StartupUses(StartedBefore(n))
<1> SUFFICES ASSUME NEW s \in DOMAIN Server!Uses, s \in StartedBefore(n),
                    NEW d \in Server!Uses[s], Server!On(d)
             PROVE  d \in StartedBefore(n)
  BY DEF StartupUses
<1>1. PICK k \in 1 .. n - 1 : Server!BootOrder[k] = s
  BY DEF StartedBefore
<1>2. \E m \in 1 .. k - 1 : Server!BootOrder[m] = d
  <2>1. k \in 1 .. 13 /\ {6, 7, 8, 9, 10, 12} \subseteq 1 .. 13
    OBVIOUS
  <2>2. s \in {"broker", "executor", "reaper", "cron", "ttl", "model"}
    BY UsesOf
  <2>3. /\ s = "broker" => k = 6
        /\ s = "executor" => k = 7
        /\ s = "reaper" => k = 8
        /\ s = "cron" => k = 9
        /\ s = "ttl" => k = 10
        /\ s = "model" => k = 12
    BY <1>1, <2>1, BootStages, StagesOnce
  <2> QED BY <2>2, <2>3, BootStages, UsesOf
<1>3. \A m \in 1 .. k - 1 : m \in 1 .. n - 1
  BY <1>1
<1> QED BY <1>2, <1>3, UsesOf DEF StartedBefore

(* ... and stops before any of it does.                                        *)
LEMMA UsesStopped == ASSUME NEW n \in 1 .. 10 PROVE StartupUses(StoppedAfter(n))
<1> SUFFICES ASSUME NEW s \in DOMAIN Server!Uses, s \in StoppedAfter(n),
                    NEW d \in Server!Uses[s], Server!On(d)
             PROVE  d \in StoppedAfter(n)
  BY DEF StartupUses
<1> SUFFICES ASSUME NEW m \in 1 .. n - 1, Server!StopOrder[m] = d PROVE FALSE
  BY UsesOf DEF StoppedAfter
<1>1. \E k \in 1 .. m - 1 : Server!StopOrder[k] = s
  <2>1. m \in 1 .. 10 /\ {5, 6, 7, 8, 9} \subseteq 1 .. 10
    OBVIOUS
  <2>2. s \in {"broker", "executor", "reaper", "cron", "ttl", "model"}
    BY UsesOf
  <2>3. d \in {"engine", "components", "graphs", "broker", "redis", "executor"}
    BY <2>2, UsesOf
  <2>4. /\ d = "executor" => m = 5
        /\ d = "broker" => m = 6
        /\ d = "redis" => m = 7
        /\ d = "engine" => m = 8
        /\ d = "components" => m = 9
    BY <2>1, StopStages, StagesOnce
  <2>5. d # "graphs"
    <3>1. m \in {1, 2, 3, 4, 5, 6, 7, 8, 9, 10}
      BY <2>1
    <3> QED BY <3>1, StopStages
  <2> QED BY <2>2, <2>3, <2>4, <2>5, StopStages, UsesOf
<1>2. \A k \in 1 .. m - 1 : k \in 1 .. n - 1
  OBVIOUS
<1> QED BY <1>1, <1>2 DEF StoppedAfter

(* Server start and stop (app/main.py's lifespan), for any number of servers,  *)
(* deployments and failures: whatever runs has what it uses, and services run  *)
(* only over a migrated and seeded schema.                                     *)
THEOREM ServersHaveDependencies ==
  Server!Spec => [](Server!DependenciesUp /\ Server!SchemaBeforeUse)
<1>1. StartupInv => Server!DependenciesUp /\ Server!SchemaBeforeUse
  <2> SUFFICES ASSUME StartupInv, NEW i \in Instances
               PROVE  /\ StartupUses(proc[i].up)
                      /\ "framework" \in options /\ proc[i].up \cap {"executor", "reaper", "cron", "ttl"} # {}
                           => revision["framework"] = "head" /\ seeded
                      /\ "hub" \in options /\ Server!At(i, "serving") => revision["hub"] = "head"
    BY DEF Server!DependenciesUp, Server!SchemaBeforeUse, StartupUses
  <2>1. proc[i] \in StartupProcess /\ StartupPlace(proc[i])
    BY DEF StartupInv, StartupShape
  <2>2. CASE proc[i].phase = "off"
    BY <2>1, <2>2 DEF StartupPlace, StartupUses, Server!At
  <2>3. CASE proc[i].phase \in {"boot", "failed"}
    <3>1. PICK n \in 1 .. 13 : /\ proc[i].at = Server!BootOrder[n] /\ proc[i].up = StartedBefore(n)
                               /\ StartupSchema(n)
      BY <2>1, <2>3 DEF StartupPlace
    <3>2. proc[i].up \cap {"executor", "reaper", "cron", "ttl"} # {} => n > 4
      <4> SUFFICES ASSUME NEW s \in {"executor", "reaper", "cron", "ttl"}, NEW k \in 1 .. n - 1,
                          Server!BootOrder[k] = s
                   PROVE  n > 4
        BY <3>1 DEF StartedBefore
      <4>1. k # 1 /\ k # 2 /\ k # 3 /\ k # 4
        BY BootStages
      <4> QED BY <4>1
    <3>3. proc[i].at = "serving" => n = 13
      <4> SUFFICES ASSUME proc[i].at = "serving" PROVE n = 13
        OBVIOUS
      <4>1. Server!BootOrder[n] = Server!BootOrder[13] /\ 13 \in 1 .. 13
        BY <3>1, BootStages
      <4> QED BY <4>1, StagesOnce
    <3> QED BY <3>1, <3>2, <3>3, UsesStarted DEF StartupSchema, Server!At
  <2>4. CASE proc[i].phase = "stop"
    BY <2>1, <2>4, UsesStopped DEF StartupPlace, StartupSchema, Server!At
  <2> QED BY <2>1, <2>2, <2>3, <2>4 DEF StartupProcess
<1> QED BY <1>1, StartupInit, StartupStep, PTL DEF Server!Spec

-----------------------------------------------------------------------------
(* Crons.  A schedule has a period, zones are offsets, and a cron has a name.  *)
CronDeployment ==
  /\ Periods \subseteq Nat \ {0} /\ Zones \subseteq Nat /\ Ends \subseteq Nat
  /\ ClaimDuration \in Nat /\ MaxPerUser \in Nat \ {0}
  /\ "none" \notin Crons /\ IsFiniteSet(Crons) /\ IsFiniteSet(Clients)

CronRow == [state : {"live", "gone"}, period : Periods, zone : Zones, enabled : BOOLEAN,
            end : Nat, claimed : Nat, next : Nat]
CronCopy == [id : Crons, period : Periods, zone : Zones, end : Nat, slot : Nat]
CronNew == [state |-> "new"]
CronJob == [id : Crons, of : CronCopy, at : {"check", "advance", "release"}, since : Nat]
CronClient == [at : {"first"}, cron : Crons, slot : Nat]
CronWaits == {[at |-> "idle"], [at |-> "counted"]}

CronShape ==
  /\ now \in Nat \ {0}
  /\ row \in [Crons -> CronRow \cup {CronNew}]
  /\ held \in [Pollers -> SUBSET CronCopy]
  /\ job \in [Pollers -> CronJob \cup {Cron!NoJob}]
  /\ client \in [Clients -> CronClient \cup CronWaits]
  /\ spent \in [updates : Nat, faults : Nat]
  /\ fired \in [Crons -> SUBSET Nat] /\ late \in [Crons -> Nat] /\ twice \subseteq Crons
  /\ \A p \in Pollers : job[p] \in CronJob => job[p].of.id = job[p].id

(* A copy that p has claimed and not fired yet, and one it has fired.          *)
CronHas(p, s)   == s \in held[p] \/ (job[p] \in CronJob /\ job[p].at # "advance" /\ job[p].of = s)
CronHolds(p, s) == s \in held[p] \/ (job[p] \in CronJob /\ job[p].of = s)
CronFirst(k, c, x) == client[k] \in CronClient /\ client[k].cron = c /\ client[k].slot = x

(* A poller has one copy of a cron at most.                                    *)
CronOnce ==
  \A p \in Pollers :
    /\ \A s, t \in held[p] : s.id = t.id => s = t
    /\ job[p] \in CronJob => \A s \in held[p] : s.id # job[p].id

(* A cron that was not created yet has no history and no copies.               *)
CronFresh(c) ==
  /\ row[c] = CronNew => fired[c] = {} /\ late[c] = 0
  /\ \A k \in Clients : \A x \in Nat : CronFirst(k, c, x) => row[c] \in CronRow
  /\ \A p \in Pollers : \A s \in CronCopy : CronHolds(p, s) /\ s.id = c =>
       row[c] \in CronRow /\ s.slot <= now

(* A cron that was not updated while it was held is as its copies say.         *)
CronFaithful(c) ==
  row[c] \in CronRow /\ c \notin raced =>
    /\ Cron!Occurs(row[c].period, row[c].zone, row[c].next)
    /\ \A p \in Pollers : \A s \in CronCopy : CronHolds(p, s) /\ s.id = c =>
         s.period = row[c].period /\ s.zone = row[c].zone /\ s.end = row[c].end

(* What has been fired of a cron that was not claimed twice: all of it is      *)
(* before next_run_date, or next_run_date is fired too and cannot be claimed.  *)
(* A run after end_time has disabled the cron or left it claimed.              *)
CronClosed(c) == row[c].state = "gone" \/ row[c].claimed # 0 \/ ~row[c].enabled
CronAhead(c)  == \A x \in fired[c] : x < row[c].next
CronTimely(c) == late[c] = 0 \/ row[c].state = "gone"

CronInOrder(c) ==
  row[c] \in CronRow /\ c \notin lapsed \cup raced =>
    /\ \A x \in fired[c] : x <= row[c].next
    /\ CronAhead(c) \/ (CronClosed(c) /\ row[c].next <= now)
    /\ late[c] = 0 \/ (CronClosed(c) /\ late[c] = 1)
    /\ late[c] = 1 /\ row[c].state = "live" => row[c].end # 0 /\ now >= row[c].end
    /\ \A k \in Clients : \A x \in Nat : CronFirst(k, c, x) => x < row[c].next

CronAlone(c) ==
  c \notin lapsed \cup raced =>
    \A p \in Pollers : \A s \in CronCopy : CronHolds(p, s) /\ s.id = c =>
      /\ s.slot = row[c].next
      /\ row[c].state = "live" => row[c].claimed # 0
      /\ CronHas(p, s) => CronAhead(c) /\ CronTimely(c)
      /\ \A q \in Pollers : \A t \in CronCopy : CronHolds(q, t) /\ t.id = c => q = p

CronFiring(c) == CronFresh(c) /\ CronFaithful(c) /\ CronInOrder(c) /\ CronAlone(c)
                 /\ (c \in twice => c \in lapsed \cup raced)

CronInv == CronShape /\ CronOnce /\ \A c \in Crons : CronFiring(c)

(* An instant that is a multiple of the period away from none.                 *)
LEMMA Multiples ==
  ASSUME NEW d \in Nat \ {0}, NEW k \in Nat PROVE (d * k) % d = 0
<1> DEFINE q == (d * k) \div d
           r == (d * k) % d
<1>1. d * k \in Nat
  OBVIOUS
<1>2. q \in Int /\ r \in 0 .. d - 1 /\ d * k = d * q + r
  BY <1>1
<1> HIDE DEF q, r
<1>3. k - q \in Int /\ d * (k - q) = r
  BY <1>2
<1>4. ~ (k - q >= 1)
  <2> SUFFICES ASSUME k - q >= 1 PROVE FALSE
    OBVIOUS
  <2> DEFINE j == k - q - 1
  <2>1. j \in Nat /\ k - q = 1 + j
    BY <1>3
  <2> HIDE DEF j
  <2>2. d * (1 + j) = d + d * j /\ d * j >= 0
    BY <2>1
  <2> QED BY <1>2, <1>3, <2>1, <2>2
<1>5. ~ (k - q <= -1)
  <2> SUFFICES ASSUME k - q <= -1 PROVE FALSE
    OBVIOUS
  <2> DEFINE j == q - k - 1
  <2>1. j \in Nat /\ k - q = -1 - j
    BY <1>2, <1>3
  <2> HIDE DEF j
  <2>2. d * (-1 - j) = -d - d * j /\ d * j >= 0
    BY <2>1
  <2> QED BY <1>2, <1>3, <2>1, <2>2
<1>6. k - q = 0
  BY <1>3, <1>4, <1>5
<1>7. r = 0
  BY <1>2, <1>3, <1>6
<1> QED BY <1>7 DEF r

(* croniter: every schedule has a next occurrence.                             *)
LEMMA NextOccurs ==
  ASSUME NEW period \in Nat \ {0}, NEW zone \in Nat, NEW t \in Nat
  PROVE  /\ Cron!NextRun(period, zone, t) \in Nat
         /\ Cron!NextRun(period, zone, t) > t
         /\ Cron!Occurs(period, zone, Cron!NextRun(period, zone, t))
<1> DEFINE q == (t + zone) \div period
           r == (t + zone) % period
           u == t + period - r
<1>1. q \in Nat /\ r \in 0 .. period - 1 /\ t + zone = period * q + r
  OBVIOUS
<1> HIDE DEF q, r
<1>2. u \in t + 1 .. t + period
  BY <1>1
<1>3. u + zone = period * (q + 1) /\ q + 1 \in Nat
  BY <1>1
<1>4. Cron!Occurs(period, zone, u)
  BY <1>3, Multiples DEF Cron!Occurs
<1> HIDE DEF u
<1> DEFINE v == Cron!NextRun(period, zone, t)
<1>5. v \in t + 1 .. t + period /\ Cron!Occurs(period, zone, v)
  BY <1>2, <1>4 DEF Cron!NextRun
<1> HIDE DEF v
<1>6. v \in Nat /\ v > t
  BY <1>5
<1> QED BY <1>5, <1>6 DEF v

(* A step that leaves a cron alone: its row and its history stay, nobody has   *)
(* a new copy of it and no request has a new first run for it.                 *)
CronKept(c) ==
  /\ row'[c] = row[c] /\ fired'[c] = fired[c] /\ late'[c] = late[c]
  /\ c \in lapsed' <=> c \in lapsed
  /\ c \in raced' <=> c \in raced
  /\ c \in twice' <=> c \in twice
  /\ \A p \in Pollers : \A s \in CronCopy : s.id = c =>
       (CronHolds(p, s)' => CronHolds(p, s)) /\ (CronHas(p, s)' => CronHas(p, s))
  /\ \A k \in Clients : \A x \in Nat : CronFirst(k, c, x)' => CronFirst(k, c, x)

LEMMA KeptFires ==
  ASSUME CronShape, now' \in Nat, now' >= now, NEW c \in Crons, CronFiring(c), CronKept(c)
  PROVE  CronFiring(c)'
<1>1. \A s \in CronCopy : s.slot \in Nat
  BY DEF CronCopy
<1>2. row[c] \in CronRow => row[c].next \in Nat /\ row[c].end \in Nat
  BY DEF CronRow
<1>3. now \in Nat
  BY DEF CronShape
<1>4. CronFresh(c)'
  BY <1>1, <1>3 DEF CronFiring, CronKept, CronFresh
<1>5. CronFaithful(c)'
  BY DEF CronFiring, CronKept, CronFaithful, Cron!Occurs
<1>6. CronAhead(c)' <=> CronAhead(c)
  BY DEF CronKept, CronAhead
<1>7. (CronClosed(c)' <=> CronClosed(c)) /\ (CronTimely(c)' <=> CronTimely(c))
  BY DEF CronKept, CronClosed, CronTimely
<1>8. CronInOrder(c)'
  <2> SUFFICES ASSUME row[c] \in CronRow, c \notin lapsed \cup raced, CronInOrder(c)
               PROVE  CronInOrder(c)'
    BY DEF CronFiring, CronKept, CronInOrder
  <2>1. \A x \in fired'[c] : x <= row'[c].next
    BY DEF CronInOrder, CronKept
  <2>2. CronAhead(c)' \/ (CronClosed(c)' /\ row'[c].next <= now')
    BY <1>2, <1>3, <1>6, <1>7 DEF CronInOrder, CronKept
  <2>3. late'[c] = 0 \/ (CronClosed(c)' /\ late'[c] = 1)
    BY <1>7 DEF CronInOrder, CronKept
  <2>4. late'[c] = 1 /\ row'[c].state = "live" => row'[c].end # 0 /\ now' >= row'[c].end
    BY <1>2, <1>3 DEF CronInOrder, CronKept
  <2>5. \A k \in Clients : \A x \in Nat : CronFirst(k, c, x)' => x < row'[c].next
    BY DEF CronInOrder, CronKept
  <2> QED BY <2>1, <2>2, <2>3, <2>4, <2>5 DEF CronInOrder
<1>9. CronAlone(c)'
  BY <1>6, <1>7 DEF CronFiring, CronKept, CronAlone
<1> QED BY <1>4, <1>5, <1>8, <1>9 DEF CronFiring, CronKept

(* What tells the records of a table, a poller or a request apart.             *)
LEMMA CronRecords ==
  ASSUME CronDeployment, CronShape
  PROVE  /\ Cron!NoJob \notin CronJob /\ Cron!NoJob.id = "none" /\ CronNew \notin CronRow
         /\ \A c \in Crons : /\ row[c].state \in {"live", "gone"} => row[c] \in CronRow
                             /\ row[c].state = "new" => row[c] = CronNew
                             /\ row[c] # CronNew => row[c] \in CronRow
         /\ \A p \in Pollers : (job[p].id # "none" => job[p] \in CronJob)
                               /\ (job[p] # Cron!NoJob => job[p] \in CronJob)
         /\ \A k \in Clients : client[k].at = "first" => client[k] \in CronClient
         /\ CronWaits \cap CronClient = {}
<1>1. Cron!NoJob \notin CronJob /\ Cron!NoJob.id = "none"
  BY DEF CronDeployment, Cron!NoJob, CronJob
<1>2. CronNew.state = "new" /\ CronNew \notin CronRow
  BY DEF CronNew, CronRow
<1>3. ASSUME NEW c \in Crons
      PROVE  /\ row[c].state \in {"live", "gone"} => row[c] \in CronRow
             /\ row[c].state = "new" => row[c] = CronNew
             /\ row[c] # CronNew => row[c] \in CronRow
  <2>1. row[c] \in CronRow \/ row[c] = CronNew
    BY <1>3 DEF CronShape
  <2>2. row[c] \in CronRow => row[c].state \in {"live", "gone"}
    BY DEF CronRow
  <2> QED BY <1>2, <2>1, <2>2
<1>4. ASSUME NEW p \in Pollers PROVE (job[p].id # "none" => job[p] \in CronJob)
                                     /\ (job[p] # Cron!NoJob => job[p] \in CronJob)
  BY <1>1, <1>4 DEF CronShape
<1>5. ASSUME NEW k \in Clients, client[k].at = "first" PROVE client[k] \in CronClient
  BY <1>5 DEF CronShape, CronWaits
<1>6. CronWaits \cap CronClient = {}
  BY DEF CronWaits, CronClient
<1> QED BY <1>1, <1>2, <1>3, <1>4, <1>5, <1>6

(* A poller that keeps what it has, or part of it.                             *)
CronYields(p) ==
  \A s \in CronCopy : (CronHolds(p, s)' => CronHolds(p, s)) /\ (CronHas(p, s)' => CronHas(p, s))

LEMMA YieldsSame ==
  ASSUME NEW p \in Pollers, held'[p] = held[p], job'[p] = job[p] PROVE CronYields(p)
BY DEF CronYields, CronHolds, CronHas

LEMMA YieldsDone ==
  ASSUME CronDeployment, CronShape, NEW p \in Pollers, held'[p] \subseteq held[p], job'[p] = Cron!NoJob
  PROVE  CronYields(p)
BY CronRecords DEF CronYields, CronHolds, CronHas

(* Steps of a poller that write nothing.                                       *)
CronTables == <<row, fired, twice, lapsed, raced, late>>

LEMMA CronQuiet ==
  ASSUME CronInv, CronShape', CronOnce', now' >= now, UNCHANGED CronTables,
         \A p \in Pollers : CronYields(p),
         \A k \in Clients : client'[k] = client[k] \/ client'[k] \notin CronClient
  PROVE  CronInv'
<1>1. now' \in Nat
  BY DEF CronShape
<1>2. ASSUME NEW c \in Crons PROVE CronFiring(c)'
  <2>1. \A k \in Clients : \A x \in Nat : CronFirst(k, c, x)' => CronFirst(k, c, x)
    BY DEF CronFirst
  <2>2. CronKept(c)
    BY <1>2, <2>1 DEF CronKept, CronYields, CronTables
  <2> QED BY <1>1, <1>2, <2>2, KeptFires DEF CronInv
<1> QED BY <1>2 DEF CronInv

LEMMA CronTick == ASSUME CronDeployment, CronInv, Cron!Tick PROVE CronInv'
<1>1. CronShape' /\ CronOnce' /\ now' >= now /\ UNCHANGED <<CronTables, held, job, client>>
  BY DEF Cron!Tick, Cron!history, CronTables, CronInv, CronShape, CronOnce
<1>2. \A p \in Pollers : CronYields(p)
  BY <1>1, YieldsSame
<1> QED BY <1>1, <1>2, CronQuiet

LEMMA CronRequests ==
  ASSUME CronDeployment, CronInv, NEW k \in Clients, Cron!CountCrons(k) \/ Cron!DropRequest(k)
  PROVE  CronInv'
<1>1. /\ UNCHANGED <<CronTables, held, job, now>>
      /\ \E w \in CronWaits : client' = [client EXCEPT ![k] = w]
  BY DEF Cron!CountCrons, Cron!DropRequest, Cron!history, CronTables, CronWaits
<1>2. spent' \in [updates : Nat, faults : Nat]
  <2>1. spent \in [updates : Nat, faults : Nat]
    BY DEF CronInv, CronShape
  <2> QED BY <2>1 DEF Cron!CountCrons, Cron!DropRequest
<1>3. /\ client' \in [Clients -> CronClient \cup CronWaits]
      /\ \A j \in Clients : client'[j] = client[j] \/ client'[j] \in CronWaits
  BY <1>1 DEF CronInv, CronShape
<1>4. CronShape' /\ CronOnce' /\ now' >= now
  BY <1>1, <1>2, <1>3 DEF CronInv, CronShape, CronOnce, CronTables
<1>5. \A p \in Pollers : CronYields(p)
  BY <1>1, YieldsSame
<1>6. \A j \in Clients : client'[j] = client[j] \/ client'[j] \notin CronClient
  BY <1>3, CronRecords DEF CronInv
<1> QED BY <1>1, <1>4, <1>5, <1>6, CronQuiet

LEMMA CronPollers ==
  ASSUME CronDeployment, CronInv, NEW p \in Pollers,
         Cron!StartFire(p) \/ Cron!RunFails(p) \/ Cron!FireRaises(p) \/ Cron!Stop(p)
  PROVE  CronInv'
<1>1. UNCHANGED <<CronTables, client, now>>
  BY DEF Cron!StartFire, Cron!RunFails, Cron!FireRaises, Cron!Stop, Cron!history, CronTables
<1>2. spent' \in [updates : Nat, faults : Nat]
  <2>1. spent \in [updates : Nat, faults : Nat]
    BY DEF CronInv, CronShape
  <2> QED BY <2>1 DEF Cron!StartFire, Cron!RunFails, Cron!FireRaises, Cron!Stop
<1>3. ASSUME NEW h \in SUBSET held[p], NEW j \in CronJob \cup {Cron!NoJob},
             held' = [held EXCEPT ![p] = h], job' = [job EXCEPT ![p] = j],
             j \in CronJob => j.of.id = j.id /\ \A s \in h : s.id # j.id,
             CronYields(p)
      PROVE  CronInv'
  <2>1. held \in [Pollers -> SUBSET CronCopy] /\ job \in [Pollers -> CronJob \cup {Cron!NoJob}]
    BY DEF CronInv, CronShape
  <2>2. /\ held'[p] = h /\ job'[p] = j
        /\ \A q \in Pollers : q # p => held'[q] = held[q] /\ job'[q] = job[q]
    BY <1>3, <2>1
  <2>3. held' \in [Pollers -> SUBSET CronCopy] /\ job' \in [Pollers -> CronJob \cup {Cron!NoJob}]
    BY <1>3, <2>1
  <2>4. CronShape'
    BY <1>1, <1>2, <1>3, <2>2, <2>3 DEF CronInv, CronShape, CronTables
  <2>5. CronOnce'
    BY <1>3, <2>2 DEF CronInv, CronOnce
  <2>6. \A q \in Pollers : CronYields(q)
    BY <1>3, <2>2, YieldsSame
  <2>7. now' >= now
    BY <1>1 DEF CronInv, CronShape
  <2> QED BY <1>1, <2>4, <2>5, <2>6, <2>7, CronQuiet
<1>4. held[p] \in SUBSET CronCopy /\ job[p] \in CronJob \cup {Cron!NoJob}
      /\ held = [held EXCEPT ![p] = held[p]] /\ now \in Nat
      /\ (job[p] \in CronJob => job[p].of.id = job[p].id)
  BY DEF CronInv, CronShape
<1>5. CASE Cron!StartFire(p)
  <2>1. PICK s \in held[p] :
          /\ held' = [held EXCEPT ![p] = @ \ {s}]
          /\ job' = [job EXCEPT ![p] = [id |-> s.id, of |-> s, at |-> "check", since |-> now]]
    BY <1>5 DEF Cron!StartFire
  <2> DEFINE h == held[p] \ {s}
             j == [id |-> s.id, of |-> s, at |-> "check", since |-> now]
  <2>2. j \in CronJob /\ j.of = s /\ j.id = s.id /\ j.at = "check"
    BY <1>4 DEF CronCopy, CronJob
  <2>3. held' = [held EXCEPT ![p] = h] /\ job' = [job EXCEPT ![p] = j] /\ h \in SUBSET held[p]
    BY <2>1
  <2> HIDE DEF h, j
  <2>4. held'[p] = h /\ job'[p] = j
    BY <2>3 DEF CronInv, CronShape
  <2>5. CronYields(p)
    <3>1. s \in held[p] /\ h \subseteq held[p]
      BY <2>3
    <3> QED BY <2>2, <2>4, <3>1 DEF CronYields, CronHolds, CronHas
  <2>6. \A t \in h : t.id # j.id
    BY <2>2 DEF h, CronInv, CronOnce
  <2> QED BY <1>3, <2>2, <2>3, <2>5, <2>6
<1>6. CASE Cron!RunFails(p)
  <2>1. job[p] \in CronJob /\ job[p].at = "check" /\ job' = [job EXCEPT ![p].at = "release"] /\ held' = held
    BY <1>6, CronRecords DEF Cron!RunFails, CronInv
  <2> DEFINE j == [job[p] EXCEPT !.at = "release"]
  <2>2. j \in CronJob /\ j.of = job[p].of /\ j.id = job[p].id /\ j.at = "release"
    BY <2>1 DEF CronJob
  <2>3. job' = [job EXCEPT ![p] = j] /\ held' = [held EXCEPT ![p] = held[p]]
    BY <1>4, <2>1
  <2> HIDE DEF j
  <2>4. job'[p] = j /\ held'[p] = held[p]
    BY <2>1, <2>3 DEF CronInv, CronShape
  <2>5. CronYields(p)
    BY <2>1, <2>2, <2>4 DEF CronYields, CronHolds, CronHas
  <2>6. \A s \in held[p] : s.id # j.id
    BY <2>1, <2>2 DEF CronInv, CronOnce
  <2> QED BY <1>3, <1>4, <2>1, <2>2, <2>3, <2>5, <2>6
<1>7. CASE Cron!FireRaises(p) \/ Cron!Stop(p)
  <2>1. PICK h \in SUBSET held[p] : held' = [held EXCEPT ![p] = h]
    <3>1. CASE Cron!FireRaises(p)
      BY <1>4, <3>1 DEF Cron!FireRaises
    <3>2. CASE Cron!Stop(p)
      BY <3>2 DEF Cron!Stop
    <3> QED BY <1>7, <3>1, <3>2
  <2>2. job' = [job EXCEPT ![p] = Cron!NoJob]
    BY <1>7 DEF Cron!FireRaises, Cron!Stop, Cron!Done
  <2>3. held'[p] = h /\ job'[p] = Cron!NoJob
    BY <2>1, <2>2 DEF CronInv, CronShape
  <2>4. CronYields(p) /\ Cron!NoJob \notin CronJob
    BY <2>3, YieldsDone, CronRecords DEF CronInv
  <2> QED BY <1>3, <2>1, <2>2, <2>4
<1> QED BY <1>5, <1>6, <1>7

(* A step that changes one cron.                                               *)
LEMMA CronChanges ==
  ASSUME CronInv, CronShape', CronOnce', now' = now, NEW c \in Crons,
         \A d \in Crons : d # c => /\ row'[d] = row[d] /\ fired'[d] = fired[d] /\ late'[d] = late[d]
                                   /\ d \in raced' <=> d \in raced
                                   /\ d \in twice' <=> d \in twice
                                   /\ d \in lapsed' <=> d \in lapsed,
         \A p \in Pollers : CronYields(p),
         \A k \in Clients : \/ client'[k] = client[k] \/ client'[k] \notin CronClient
                            \/ client'[k].cron = c,
         CronFiring(c)'
  PROVE  CronInv'
<1>1. now' \in Nat /\ now' >= now
  BY DEF CronInv, CronShape
<1>2. ASSUME NEW d \in Crons, d # c PROVE CronFiring(d)'
  <2>1. \A k \in Clients : \A x \in Nat : CronFirst(k, d, x)' => CronFirst(k, d, x)
    BY <1>2 DEF CronFirst
  <2>2. CronKept(d)
    BY <1>2, <2>1 DEF CronKept, CronYields
  <2> QED BY <1>1, <1>2, <2>2, KeptFires DEF CronInv
<1> QED BY <1>2 DEF CronInv

(* A row that is deleted keeps its fields.                                     *)
LEMMA CronGone ==
  ASSUME CronDeployment, CronInv, NEW c \in Crons, row[c] \in CronRow,
         row' = [row EXCEPT ![c].state = "gone"], UNCHANGED <<now, held, job, fired, twice, lapsed, raced, late>>,
         spent' \in [updates : Nat, faults : Nat],
         client' \in [Clients -> CronClient \cup CronWaits],
         \A k \in Clients : client'[k] = client[k] \/ client'[k] \notin CronClient
  PROVE  CronInv'
<1>1. row \in [Crons -> CronRow \cup {CronNew}]
  BY DEF CronInv, CronShape
<1>2. /\ row'[c] = [row[c] EXCEPT !.state = "gone"]
      /\ \A d \in Crons : d # c => row'[d] = row[d]
  BY <1>1
<1>3. /\ row'[c] \in CronRow /\ row'[c].state = "gone" /\ row'[c].period = row[c].period
      /\ row'[c].zone = row[c].zone /\ row'[c].end = row[c].end /\ row'[c].next = row[c].next
  BY <1>2 DEF CronRow
<1>4. row' \in [Crons -> CronRow \cup {CronNew}]
  BY <1>1, <1>3
<1>5. CronShape' /\ CronOnce'
  BY <1>4 DEF CronInv, CronShape, CronOnce
<1>6. \A p \in Pollers : CronYields(p)
  BY YieldsSame
<1>7. /\ \A k \in Clients : \A x \in Nat : CronFirst(k, c, x)' => CronFirst(k, c, x)
      /\ \A p \in Pollers : \A s \in CronCopy : (CronHolds(p, s)' <=> CronHolds(p, s))
  BY DEF CronFirst, CronHolds
<1>8. CronNew \notin CronRow
  BY CronRecords DEF CronInv
<1>9. CronFiring(c)'
  <2>1. CronFiring(c)
    BY DEF CronInv
  <2>2. CronFresh(c)'
    BY <1>3, <1>7, <1>8, <2>1 DEF CronFiring, CronFresh
  <2>3. CronFaithful(c)'
    BY <1>3, <1>7, <2>1 DEF CronFiring, CronFaithful, Cron!Occurs
  <2>4. CronClosed(c)' /\ CronTimely(c)' /\ (CronAhead(c)' <=> CronAhead(c))
    BY <1>3 DEF CronClosed, CronTimely, CronAhead
  <2>5. CronInOrder(c)'
    BY <1>3, <1>7, <2>1, <2>4 DEF CronFiring, CronInOrder
  <2>6. CronAlone(c)'
    BY <1>3, <1>7, <2>1, <2>4, <1>6 DEF CronFiring, CronAlone, CronYields
  <2> QED BY <2>1, <2>2, <2>3, <2>5, <2>6 DEF CronFiring
<1> QED BY <1>2, <1>5, <1>6, <1>9, CronChanges

LEMMA CronDeletes == ASSUME CronDeployment, CronInv, NEW c \in Crons, Cron!DeleteCron(c) PROVE CronInv'
<1>1. row[c] \in CronRow
  BY CronRecords DEF Cron!DeleteCron, Cron!Live, CronInv
<1>2. /\ row' = [row EXCEPT ![c].state = "gone"]
      /\ UNCHANGED <<now, held, job, client, spent, fired, twice, lapsed, raced, late>>
  BY DEF Cron!DeleteCron, Cron!history
<1>3. spent' \in [updates : Nat, faults : Nat] /\ client' \in [Clients -> CronClient \cup CronWaits]
  BY <1>2 DEF CronInv, CronShape
<1> QED BY <1>1, <1>2, <1>3, CronGone

(* The first run of a cron.                                                    *)
LEMMA CronFirstRun ==
  ASSUME CronDeployment, CronInv, NEW k \in Clients, Cron!FirstRun(k) \/ Cron!FirstRunFails(k)
  PROVE  CronInv'
<1>1. client[k] \in CronClient
  BY CronRecords DEF Cron!FirstRun, Cron!FirstRunFails, CronInv
<1>2. PICK c \in Crons, x \in Nat : c = client[k].cron /\ x = client[k].slot /\ CronFirst(k, c, x)
  BY <1>1 DEF CronClient, CronFirst
<1>3. CronFiring(c) /\ row[c] \in CronRow
  BY <1>2 DEF CronInv, CronFiring, CronFresh
<1>4. client' = [client EXCEPT ![k] = [at |-> "idle"]] /\ [at |-> "idle"] \in CronWaits
  BY DEF Cron!FirstRun, Cron!FirstRunFails, CronWaits
<1>5. /\ client' \in [Clients -> CronClient \cup CronWaits]
      /\ \A j \in Clients : client'[j] = client[j] \/ client'[j] \notin CronClient
  <2>1. client \in [Clients -> CronClient \cup CronWaits]
    BY DEF CronInv, CronShape
  <2>2. [at |-> "idle"] \notin CronClient
    BY <1>4, CronRecords DEF CronInv
  <2> QED BY <1>4, <2>1, <2>2
<1>6. /\ row' = [row EXCEPT ![c].state = "gone"] \/ row' = row
      /\ fired' = [fired EXCEPT ![c] = @ \cup {x}] \/ fired' = fired
      /\ UNCHANGED <<now, held, job, twice, lapsed, raced, late>>
  BY <1>2 DEF Cron!FirstRun, Cron!FirstRunFails
<1>7. /\ fired'[c] = fired[c] \cup {x} \/ fired'[c] = fired[c]
      /\ \A d \in Crons : d # c => fired'[d] = fired[d]
      /\ fired' \in [Crons -> SUBSET Nat]
  BY <1>2, <1>6 DEF CronInv, CronShape
<1>8. /\ row'[c] \in CronRow /\ row' \in [Crons -> CronRow \cup {CronNew}]
      /\ \A d \in Crons : d # c => row'[d] = row[d]
      /\ row'[c].period = row[c].period /\ row'[c].zone = row[c].zone
      /\ row'[c].end = row[c].end /\ row'[c].next = row[c].next
      /\ row'[c].claimed = row[c].claimed /\ row'[c].enabled = row[c].enabled
      /\ row'[c].state = row[c].state \/ row'[c].state = "gone"
  <2>1. row \in [Crons -> CronRow \cup {CronNew}]
    BY DEF CronInv, CronShape
  <2>2. [row[c] EXCEPT !.state = "gone"] \in CronRow
    BY <1>3 DEF CronRow
  <2>3. CASE row' = row
    BY <1>3, <2>1, <2>3
  <2>4. CASE row' = [row EXCEPT ![c].state = "gone"]
    <3>1. row'[c] = [row[c] EXCEPT !.state = "gone"] /\ \A d \in Crons : d # c => row'[d] = row[d]
      BY <2>1, <2>4
    <3>2. row' \in [Crons -> CronRow \cup {CronNew}]
      BY <2>1, <2>2, <2>4
    <3> QED BY <1>3, <2>2, <3>1, <3>2 DEF CronRow
  <2> QED BY <1>6, <2>3, <2>4
<1>9. spent' \in [updates : Nat, faults : Nat]
  BY DEF Cron!FirstRun, Cron!FirstRunFails, CronInv, CronShape
<1>10. CronShape' /\ CronOnce'
  BY <1>5, <1>6, <1>7, <1>8, <1>9 DEF CronInv, CronShape, CronOnce
<1>11. \A p \in Pollers : CronYields(p)
  BY <1>6, YieldsSame
<1>12. /\ \A j \in Clients : \A y \in Nat : CronFirst(j, c, y)' => CronFirst(j, c, y)
       /\ \A p \in Pollers : \A s \in CronCopy : (CronHolds(p, s)' <=> CronHolds(p, s))
  BY <1>5, <1>6 DEF CronFirst, CronHolds
<1>13. CronFresh(c)' /\ CronFaithful(c)'
  <2>1. row[c] # CronNew
    BY <1>3, CronRecords DEF CronInv
  <2>2. CronFresh(c)'
    <3>1. row'[c] # CronNew
      BY <1>8, CronRecords DEF CronInv
    <3> QED BY <1>3, <1>6, <1>8, <1>12, <2>1, <3>1 DEF CronFiring, CronFresh
  <2>3. CronFaithful(c)'
    BY <1>3, <1>6, <1>8, <1>12 DEF CronFiring, CronFaithful, Cron!Occurs
  <2> QED BY <2>2, <2>3
<1>14. (CronClosed(c) => CronClosed(c)') /\ (CronTimely(c) => CronTimely(c)')
  BY <1>6, <1>8 DEF CronClosed, CronTimely
<1>15. c \notin lapsed \cup raced => x < row[c].next /\ x <= row[c].next /\ (CronAhead(c) => CronAhead(c)')
  <2> SUFFICES ASSUME c \notin lapsed \cup raced
               PROVE  x < row[c].next /\ x <= row[c].next /\ (CronAhead(c) => CronAhead(c)')
    OBVIOUS
  <2>1. x < row[c].next /\ row[c].next \in Nat
    BY <1>2, <1>3 DEF CronFiring, CronInOrder, CronRow
  <2> QED BY <1>2, <1>7, <1>8, <2>1 DEF CronAhead
<1>16. CronInOrder(c)'
  <2> SUFFICES ASSUME c \notin lapsed \cup raced PROVE CronInOrder(c)'
    BY <1>6 DEF CronInOrder
  <2>1. \A y \in fired'[c] : y <= row'[c].next
    BY <1>3, <1>7, <1>8, <1>15 DEF CronFiring, CronInOrder
  <2>2. CronAhead(c)' \/ (CronClosed(c)' /\ row'[c].next <= now')
    BY <1>3, <1>6, <1>8, <1>14, <1>15 DEF CronFiring, CronInOrder
  <2>3. /\ late'[c] = 0 \/ (CronClosed(c)' /\ late'[c] = 1)
        /\ late'[c] = 1 /\ row'[c].state = "live" => row'[c].end # 0 /\ now' >= row'[c].end
    BY <1>3, <1>6, <1>8, <1>14 DEF CronFiring, CronInOrder
  <2>4. \A j \in Clients : \A y \in Nat : CronFirst(j, c, y)' => y < row'[c].next
    BY <1>3, <1>8, <1>12 DEF CronFiring, CronInOrder
  <2> QED BY <2>1, <2>2, <2>3, <2>4 DEF CronInOrder
<1>17. CronAlone(c)'
  BY <1>3, <1>6, <1>8, <1>11, <1>12, <1>14, <1>15 DEF CronFiring, CronAlone, CronYields
<1>18. CronFiring(c)'
  BY <1>3, <1>6, <1>13, <1>16, <1>17 DEF CronFiring
<1> QED BY <1>2, <1>5, <1>6, <1>7, <1>8, <1>10, <1>11, <1>18, CronChanges

(* create_cron: nobody has heard of the cron before.                           *)
LEMMA CronInserts ==
  ASSUME CronDeployment, CronInv, NEW k \in Clients, Cron!InsertCron(k) PROVE CronInv'
<1>1. PICK c \in Crons, period \in Periods, zone \in Zones, enabled \in BOOLEAN,
           end \in {Cron!None} \cup {e \in Ends : e > now} :
        LET first == Cron!NextRun(period, zone, now) IN
        /\ row[c].state = "new"
        /\ row' = [row EXCEPT ![c] =
             [state |-> "live", period |-> period, zone |-> zone,
              enabled |-> enabled, end |-> end, claimed |-> Cron!None,
              next |-> IF enabled THEN Cron!NextRun(period, zone, first) ELSE first]]
        /\ client' = [client EXCEPT ![k] =
             IF enabled THEN [at |-> "first", cron |-> c, slot |-> first]
             ELSE [at |-> "idle"]]
  BY DEF Cron!InsertCron
<1>2. PICK first \in Nat : first = Cron!NextRun(period, zone, now) /\ Cron!Occurs(period, zone, first)
  BY NextOccurs DEF CronDeployment, CronInv, CronShape
<1>3. PICK next \in Nat : /\ next = IF enabled THEN Cron!NextRun(period, zone, first) ELSE first
                          /\ Cron!Occurs(period, zone, next)
                          /\ enabled => first < next
  <2>1. CASE enabled
    BY <1>2, <2>1, NextOccurs DEF CronDeployment
  <2>2. CASE ~enabled
    BY <1>2, <2>2
  <2> QED BY <2>1, <2>2
<1>4. PICK r : r = [state |-> "live", period |-> period, zone |-> zone, enabled |-> enabled,
                    end |-> end, claimed |-> 0, next |-> next]
  OBVIOUS
<1>5. r \in CronRow /\ r.next = next /\ r.period = period /\ r.zone = zone /\ r.state = "live"
  BY <1>4 DEF CronRow, CronDeployment, Cron!None
<1>6. row' = [row EXCEPT ![c] = r]
  BY <1>1, <1>2, <1>3, <1>4 DEF Cron!None
<1>7. PICK t : t = IF enabled THEN [at |-> "first", cron |-> c, slot |-> first] ELSE [at |-> "idle"]
  OBVIOUS
<1>8. t \in CronClient \cup CronWaits /\ (t \in CronClient => enabled /\ t.cron = c /\ t.slot = first)
  <2>1. CASE enabled
    BY <1>7, <2>1 DEF CronClient
  <2>2. CASE ~enabled
    BY <1>7, <2>2 DEF CronClient, CronWaits
  <2> QED BY <2>1, <2>2
<1>9. client' = [client EXCEPT ![k] = t]
  BY <1>1, <1>2, <1>7
<1>10. UNCHANGED <<now, held, job, spent, fired, twice, lapsed, raced, late>>
  BY DEF Cron!InsertCron, Cron!history
<1>11. /\ row'[c] = r /\ row' \in [Crons -> CronRow \cup {CronNew}]
       /\ \A d \in Crons : d # c => row'[d] = row[d]
       /\ client'[k] = t /\ client' \in [Clients -> CronClient \cup CronWaits]
       /\ \A j \in Clients : j # k => client'[j] = client[j]
  BY <1>5, <1>6, <1>8, <1>9 DEF CronInv, CronShape
<1>12. CronShape' /\ CronOnce'
  BY <1>10, <1>11 DEF CronInv, CronShape, CronOnce
<1>13. \A p \in Pollers : CronYields(p)
  BY <1>10, YieldsSame
<1>14. row[c] = CronNew /\ row[c] \notin CronRow /\ CronFiring(c)
  BY <1>1, CronRecords DEF CronInv
<1>15. \A p \in Pollers : \A s \in CronCopy : s.id = c => ~CronHolds(p, s)'
  BY <1>13, <1>14 DEF CronFiring, CronFresh, CronYields
<1>16. \A j \in Clients : \A x \in Nat : CronFirst(j, c, x)' => x < next
  <2> SUFFICES ASSUME NEW j \in Clients, NEW x \in Nat, CronFirst(j, c, x)' PROVE x < next
    OBVIOUS
  <2>1. CASE j = k
    BY <1>3, <1>8, <1>11, <2>1 DEF CronFirst
  <2>2. CASE j # k
    <3>1. CronFirst(j, c, x)
      BY <1>11, <2>2 DEF CronFirst
    <3> QED BY <1>14, <3>1 DEF CronFiring, CronFresh
  <2> QED BY <2>1, <2>2
<1>17. fired'[c] = {} /\ late'[c] = 0
  BY <1>10, <1>14 DEF CronFiring, CronFresh
<1>18. CronFiring(c)'
  <2>1. CronFresh(c)'
    BY <1>5, <1>11, <1>15, <1>17 DEF CronFresh
  <2>2. CronFaithful(c)'
    BY <1>3, <1>5, <1>11, <1>15 DEF CronFaithful, Cron!Occurs
  <2>3. CronInOrder(c)'
    BY <1>5, <1>11, <1>16, <1>17 DEF CronInOrder, CronAhead
  <2>4. CronAlone(c)'
    BY <1>15 DEF CronAlone
  <2> QED BY <1>10, <1>14, <2>1, <2>2, <2>3, <2>4 DEF CronFiring
<1>19. \A j \in Clients : client'[j] = client[j] \/ client'[j] \notin CronClient \/ client'[j].cron = c
  BY <1>8, <1>11
<1> QED BY <1>10, <1>11, <1>12, <1>13, <1>18, <1>19, CronChanges

(* update_cron. *)
LEMMA CronUpdates ==
  ASSUME CronDeployment, CronInv, NEW c \in Crons, Cron!UpdateCron(c) PROVE CronInv'
<1>1. PICK period \in {Cron!None} \cup Periods, zone \in {Cron!None} \cup {z + 1 : z \in Zones},
           enable \in {"keep", "yes", "no"}, end \in {Cron!None} \cup {e \in Ends : e > now} :
        /\ row' = [row EXCEPT ![c] = Cron!UpdatedRow(@, period, zone, enable, end)]
        /\ fired' = [fired EXCEPT ![c] =
                       IF Cron!Recomputed(row[c], period, zone, enable) THEN {} ELSE @]
        /\ late' = [late EXCEPT ![c] = IF end # Cron!None \/ enable = "yes" THEN 0 ELSE @]
  BY DEF Cron!UpdateCron
<1>2. row[c] \in CronRow /\ row[c].state = "live" /\ CronFiring(c) /\ now \in Nat
  BY CronRecords DEF Cron!UpdateCron, Cron!Live, CronInv, CronShape
<1>3. PICK o \in CronRow : o = row[c]
  BY <1>2
<1>4. PICK pd \in Periods : pd = IF period = 0 THEN o.period ELSE period
  BY <1>1 DEF Cron!None, CronRow
<1>5. PICK zn \in Zones : zn = IF zone = 0 THEN o.zone ELSE zone - 1
  <2>1. CASE zone = 0
    BY <2>1 DEF CronRow
  <2>2. CASE zone # 0
    <3>1. PICK z \in Zones : zone = z + 1
      BY <1>1, <2>2 DEF Cron!None
    <3>2. zone - 1 = z
      BY <3>1 DEF CronDeployment
    <3> QED BY <2>2, <3>2
  <2> QED BY <2>1, <2>2
<1>6. PICK again \in BOOLEAN : again <=> Cron!Recomputed(o, period, zone, enable)
  BY Zenon
<1>7. /\ ~again => period = 0 /\ zone = 0
      /\ enable = "yes" /\ o.next <= now => again
  BY <1>6 DEF Cron!Recomputed, Cron!None
<1>8. PICK next \in Nat : /\ next = IF again THEN Cron!NextRun(pd, zn, now) ELSE o.next
                          /\ again => Cron!Occurs(pd, zn, next)
  <2>1. CASE again
    BY <1>2, <2>1, NextOccurs DEF CronDeployment
  <2>2. CASE ~again
    BY <2>2 DEF CronRow
  <2> QED BY <2>1, <2>2
<1>9. PICK r : r = Cron!UpdatedRow(o, period, zone, enable, end)
  OBVIOUS
<1>10. /\ r \in CronRow /\ r.state = o.state /\ r.period = pd /\ r.zone = zn /\ r.next = next
       /\ r.claimed = o.claimed /\ (end = 0 => r.end = o.end)
       /\ enable # "yes" /\ ~o.enabled => ~r.enabled
  <2>1. PICK en \in BOOLEAN : en = IF enable = "keep" THEN o.enabled ELSE enable = "yes"
    BY DEF CronRow
  <2>2. PICK ed \in Nat : ed = IF end = 0 THEN o.end ELSE end
    BY <1>1 DEF Cron!None, CronRow, CronDeployment
  <2>3. r = [o EXCEPT !.period = pd, !.zone = zn, !.end = ed, !.enabled = en, !.next = next]
    <3>1. Cron!Given(period, o.period) = pd /\ Cron!Given(end, o.end) = ed
      BY <1>4, <2>2 DEF Cron!Given, Cron!None
    <3>2. (IF zone = Cron!None THEN o.zone ELSE zone - 1) = zn
      BY <1>5 DEF Cron!None
    <3>3. next = IF Cron!Recomputed(o, period, zone, enable) THEN Cron!NextRun(pd, zn, now) ELSE o.next
      BY <1>6, <1>8
    <3> QED BY <1>9, <2>1, <3>1, <3>2, <3>3 DEF Cron!UpdatedRow
  <2>4. enable # "yes" /\ ~o.enabled => ~en
    BY <2>1
  <2>5. r.end = ed /\ r.enabled = en
    BY <2>3 DEF CronRow
  <2>6. /\ r \in CronRow /\ r.state = o.state /\ r.period = pd /\ r.zone = zn /\ r.next = next
        /\ r.claimed = o.claimed
    BY <2>3 DEF CronRow
  <2> QED BY <2>2, <2>4, <2>5, <2>6
<1>11. /\ row'[c] = r /\ row' \in [Crons -> CronRow \cup {CronNew}]
       /\ \A d \in Crons : d # c => row'[d] = row[d]
  BY <1>1, <1>3, <1>9, <1>10 DEF CronInv, CronShape
<1>12. /\ fired'[c] = (IF again THEN {} ELSE fired[c]) /\ fired' \in [Crons -> SUBSET Nat]
       /\ \A d \in Crons : d # c => fired'[d] = fired[d]
  BY <1>1, <1>3, <1>6 DEF CronInv, CronShape
<1>13. /\ late'[c] = (IF end # 0 \/ enable = "yes" THEN 0 ELSE late[c]) /\ late' \in [Crons -> Nat]
       /\ \A d \in Crons : d # c => late'[d] = late[d]
  BY <1>1 DEF CronInv, CronShape, Cron!None
<1>14. /\ UNCHANGED <<now, held, job, client, twice, lapsed>>
       /\ spent' \in [updates : Nat, faults : Nat]
       /\ raced' = raced \/ raced' = raced \cup {c}
       /\ c \notin raced' => /\ \A p \in Pollers : ~Cron!Holds(p, c)
                             /\ ~\E k \in Clients : client[k].at = "first" /\ client[k].cron = c
  BY DEF Cron!UpdateCron, CronInv, CronShape
<1>15. CronShape' /\ CronOnce'
  BY <1>11, <1>12, <1>13, <1>14 DEF CronInv, CronShape, CronOnce
<1>16. \A p \in Pollers : CronYields(p)
  BY <1>14, YieldsSame
<1>17. c \notin raced' =>
         /\ c \notin raced
         /\ \A p \in Pollers : \A s \in CronCopy : s.id = c => ~CronHolds(p, s)'
         /\ \A k \in Clients : \A x \in Nat : ~CronFirst(k, c, x)'
  <2> SUFFICES ASSUME c \notin raced'
               PROVE  /\ c \notin raced
                      /\ \A p \in Pollers : \A s \in CronCopy : s.id = c => ~CronHolds(p, s)'
                      /\ \A k \in Clients : \A x \in Nat : ~CronFirst(k, c, x)'
    OBVIOUS
  <2>1. \A p \in Pollers : job[p] \in CronJob => job[p].of.id = job[p].id
    BY DEF CronInv, CronShape
  <2>2. \A p \in Pollers : \A s \in CronCopy : s.id = c => ~CronHolds(p, s)
    BY <1>14, <2>1 DEF CronHolds, Cron!Holds
  <2>3. \A k \in Clients : \A x \in Nat : ~CronFirst(k, c, x)'
    BY <1>14 DEF CronFirst, CronClient
  <2> QED BY <1>14, <1>16, <2>2, <2>3 DEF CronYields
<1>18. CronFresh(c)'
  <2>1. r # CronNew
    BY <1>10, CronRecords DEF CronInv
  <2>2. \A s \in CronCopy : \A p \in Pollers : CronHolds(p, s)' /\ s.id = c => s.slot <= now'
    BY <1>2, <1>14, <1>16 DEF CronFiring, CronFresh, CronYields
  <2> QED BY <1>10, <1>11, <2>1, <2>2 DEF CronFresh
<1>19. CronFaithful(c)'
  <2> SUFFICES ASSUME c \notin raced' PROVE Cron!Occurs(r.period, r.zone, r.next)
    BY <1>11, <1>17 DEF CronFaithful, Cron!Occurs
  <2>1. CASE again
    BY <1>8, <1>10, <2>1
  <2>2. CASE ~again
    <3>1. r.period = o.period /\ r.zone = o.zone /\ r.next = o.next
      BY <1>4, <1>5, <1>7, <1>8, <1>10, <2>2
    <3> QED BY <1>2, <1>3, <1>17, <3>1 DEF CronFiring, CronFaithful
  <2> QED BY <2>1, <2>2
<1>20. CronInOrder(c)'
  <2> SUFFICES ASSUME c \notin lapsed, c \notin raced' PROVE CronInOrder(c)'
    BY <1>14 DEF CronInOrder
  <2>1. CronInOrder(c) /\ c \notin lapsed \cup raced /\ o = row[c]
    BY <1>2, <1>3, <1>17 DEF CronFiring
  <2>2. (CronClosed(c) /\ enable # "yes" => CronClosed(c)') /\ r.next \in Nat /\ o.next \in Nat
    BY <1>3, <1>10, <1>11 DEF CronClosed, CronRow
  <2>3. \A x \in fired'[c] : x <= r.next
    BY <1>2, <1>8, <1>10, <1>12, <2>1 DEF CronInOrder
  <2>4. CronAhead(c)' \/ (CronClosed(c)' /\ r.next <= now)
    <3>1. CASE again
      BY <1>12, <3>1 DEF CronAhead
    <3>2. CASE ~again
      <4>1. r.next = o.next /\ fired'[c] = fired[c]
        BY <1>8, <1>10, <1>12, <3>2
      <4>2. CASE CronAhead(c)
        BY <1>11, <2>1, <4>1, <4>2 DEF CronAhead
      <4>3. CASE CronClosed(c) /\ o.next <= now
        <5>1. enable # "yes"
          BY <1>7, <3>2, <4>3
        <5> QED BY <2>2, <4>1, <4>3, <5>1
      <4> QED BY <1>2, <2>1, <4>2, <4>3 DEF CronInOrder
    <3> QED BY <3>1, <3>2
  <2>5. late'[c] = 0 \/ (CronClosed(c)' /\ late'[c] = 1)
    BY <1>2, <1>13, <2>1, <2>2 DEF CronInOrder
  <2>6. late'[c] = 1 /\ r.state = "live" => r.end # 0 /\ now >= r.end
    BY <1>2, <1>10, <1>13, <2>1 DEF CronInOrder
  <2> QED BY <1>11, <1>14, <1>17, <2>3, <2>4, <2>5, <2>6 DEF CronInOrder
<1>21. CronAlone(c)'
  BY <1>17 DEF CronAlone
<1>22. CronFiring(c)'
  BY <1>2, <1>14, <1>18, <1>19, <1>20, <1>21 DEF CronFiring
<1>23. \A d \in Crons : d # c => (d \in raced' <=> d \in raced)
  BY <1>14
<1> QED BY <1>11, <1>12, <1>13, <1>14, <1>15, <1>16, <1>22, <1>23, CronChanges

(* The last write of a firing: the poller has no other copy of the cron, and   *)
(* neither has anybody else unless the cron was claimed twice.                 *)
LEMMA CronEnds ==
  ASSUME CronDeployment, CronInv, NEW p \in Pollers, NEW c \in Crons, NEW s \in CronCopy,
         job[p] \in CronJob, job[p].id = c, job[p].of = s, NEW r \in CronRow,
         row' = IF Cron!Live(c) THEN [row EXCEPT ![c] = r] ELSE row,
         job' = [job EXCEPT ![p] = Cron!NoJob],
         UNCHANGED <<now, held, client, fired, twice, lapsed, raced, late>>,
         spent' \in [updates : Nat, faults : Nat],
         r.state = row[c].state, r.period = row[c].period, r.zone = row[c].zone, r.end = row[c].end,
         c \notin raced => Cron!Occurs(r.period, r.zone, r.next),
         Cron!Live(c) /\ c \notin lapsed \cup raced =>
           /\ \A x \in fired[c] : x <= r.next
           /\ (\A x \in fired[c] : x < r.next) \/ (~r.enabled /\ r.next <= now)
           /\ row[c].next <= r.next
           /\ late[c] = 1 => ~r.enabled
  PROVE  CronInv'
<1>1. job'[p] = Cron!NoJob /\ \A q \in Pollers : q # p => job'[q] = job[q]
  BY DEF CronInv, CronShape
<1>2. Cron!NoJob \notin CronJob
  BY CronRecords DEF CronInv
<1>3. \A q \in Pollers : CronYields(q)
  BY <1>1, YieldsSame, YieldsDone DEF CronInv
<1>4. job' \in [Pollers -> CronJob \cup {Cron!NoJob}]
  BY DEF CronInv, CronShape
<1>5. row' \in [Crons -> CronRow \cup {CronNew}]
  BY DEF CronInv, CronShape
<1>6. CronShape'
  BY <1>1, <1>2, <1>4, <1>5 DEF CronInv, CronShape
<1>7. CronOnce'
  BY <1>1, <1>2 DEF CronInv, CronOnce
<1>8. now' = now /\ now' >= now
  BY DEF CronInv, CronShape
<1>9. CASE ~Cron!Live(c)
  BY <1>3, <1>6, <1>7, <1>8, <1>9, CronQuiet DEF CronTables
<1>10. CASE Cron!Live(c)
  <2>1. row'[c] = r /\ \A d \in Crons : d # c => row'[d] = row[d]
    BY <1>10 DEF CronInv, CronShape
  <2>2. row[c] \in CronRow /\ CronFiring(c) /\ CronHolds(p, s) /\ s.id = c
    <3>1. CronHolds(p, s) /\ s.id = c
      BY DEF CronHolds, CronInv, CronShape
    <3> QED BY <3>1 DEF CronInv, CronFiring, CronFresh
  <2>3. \A k \in Clients : \A x \in Nat : CronFirst(k, c, x)' => CronFirst(k, c, x)
    BY DEF CronFirst
  <2>4. \A q \in Pollers : \A t \in CronCopy : CronHolds(q, t)' => CronHolds(q, t)
    BY <1>3 DEF CronYields
  <2>5. CronFresh(c)'
    <3>1. r # CronNew
      BY CronRecords DEF CronInv
    <3> QED BY <1>8, <2>1, <2>2, <2>4, <3>1 DEF CronFiring, CronFresh
  <2>6. CronFaithful(c)'
    BY <2>1, <2>2, <2>4 DEF CronFiring, CronFaithful, Cron!Occurs
  <2>7. c \notin lapsed \cup raced =>
          \A q \in Pollers : \A t \in CronCopy : t.id = c => ~CronHolds(q, t)'
    <3> SUFFICES ASSUME c \notin lapsed \cup raced, NEW q \in Pollers, NEW t \in CronCopy, t.id = c,
                        CronHolds(q, t)'
                 PROVE  FALSE
      OBVIOUS
    <3>1. q = p
      BY <2>2, <2>4 DEF CronFiring, CronAlone
    <3>2. t \in held[p]
      BY <1>1, <1>2, <3>1 DEF CronHolds
    <3> QED BY <3>2 DEF CronInv, CronOnce
  <2>8. CronAlone(c)'
    BY <2>7 DEF CronAlone
  <2>9. CronInOrder(c)'
    <3> SUFFICES ASSUME c \notin lapsed \cup raced PROVE CronInOrder(c)'
      BY DEF CronInOrder
    <3>1. r.next \in Nat /\ row[c].next \in Nat
      BY <2>2 DEF CronRow
    <3>2. ~r.enabled => CronClosed(c)'
      BY <2>1 DEF CronClosed
    <3>3. CronAhead(c)' \/ (CronClosed(c)' /\ r.next <= now)
      BY <1>10, <2>1, <3>2 DEF CronAhead
    <3>4. late[c] = 0 \/ (CronClosed(c)' /\ late[c] = 1)
      BY <1>10, <2>2, <3>2 DEF CronFiring, CronInOrder
    <3>5. late[c] = 1 /\ r.state = "live" => r.end # 0 /\ now >= r.end
      BY <2>2 DEF CronFiring, CronInOrder
    <3>6. \A k \in Clients : \A x \in Nat : CronFirst(k, c, x)' => x < r.next
      BY <1>10, <2>2, <2>3, <3>1 DEF CronFiring, CronInOrder
    <3> QED BY <1>8, <1>10, <2>1, <3>3, <3>4, <3>5, <3>6 DEF CronInOrder
  <2>10. CronFiring(c)'
    BY <2>2, <2>5, <2>6, <2>8, <2>9 DEF CronFiring
  <2> QED BY <1>3, <1>6, <1>7, <1>8, <2>1, <2>10, CronChanges
<1> QED BY <1>9, <1>10

(* What a poller knows of the cron it is firing.                               *)
LEMMA CronFires ==
  ASSUME CronDeployment, CronInv, NEW p \in Pollers, job[p].id # "none"
  PROVE  \E c \in Crons, s \in CronCopy :
           /\ job[p] \in CronJob /\ job[p].id = c /\ job[p].of = s /\ s.id = c
           /\ CronHolds(p, s) /\ CronFiring(c) /\ row[c] \in CronRow /\ s.slot <= now
           /\ job[p].at # "advance" => CronHas(p, s)
<1>1. job[p] \in CronJob /\ job[p].of.id = job[p].id
  BY CronRecords DEF CronInv, CronShape
<1>2. PICK c \in Crons, s \in CronCopy : job[p].id = c /\ job[p].of = s /\ s.id = c
  BY <1>1 DEF CronJob
<1>3. CronHolds(p, s) /\ (job[p].at # "advance" => CronHas(p, s))
  BY <1>1, <1>2 DEF CronHolds, CronHas
<1>4. CronFiring(c)
  BY DEF CronInv
<1>5. row[c] \in CronRow /\ s.slot <= now
  BY <1>2, <1>3, <1>4 DEF CronFiring, CronFresh
<1> QED BY <1>1, <1>2, <1>3, <1>4, <1>5

LEMMA CronFinishes ==
  ASSUME CronDeployment, CronInv, NEW p \in Pollers,
         Cron!DisableCron(p) \/ Cron!Advance(p) \/ Cron!Release(p)
  PROVE  CronInv'
<1>1. job[p].id # "none"
  BY DEF Cron!DisableCron, Cron!Advance, Cron!Release
<1>2. PICK c \in Crons, s \in CronCopy :
           /\ job[p] \in CronJob /\ job[p].id = c /\ job[p].of = s /\ s.id = c
           /\ CronHolds(p, s) /\ CronFiring(c) /\ row[c] \in CronRow /\ s.slot <= now
           /\ job[p].at # "advance" => CronHas(p, s)
  BY <1>1, CronFires
<1>3. /\ job' = [job EXCEPT ![p] = Cron!NoJob]
      /\ UNCHANGED <<now, held, client, fired, twice, lapsed, raced, late>>
  BY DEF Cron!DisableCron, Cron!Advance, Cron!Release, Cron!Done, Cron!history
<1>4. spent' \in [updates : Nat, faults : Nat]
  <2>1. spent \in [updates : Nat, faults : Nat]
    BY DEF CronInv, CronShape
  <2> QED BY <2>1 DEF Cron!DisableCron, Cron!Advance, Cron!Release
<1>5. PICK o \in CronRow : o = row[c]
  BY <1>2
<1>6. now \in Nat /\ o.next \in Nat /\ fired[c] \subseteq Nat
  BY DEF CronInv, CronShape, CronRow
<1>7. c \notin raced => Cron!Occurs(o.period, o.zone, o.next)
  BY <1>2, <1>5 DEF CronFiring, CronFaithful
<1>8. CASE Cron!DisableCron(p) \/ Cron!Release(p)
  <2>1. PICK r : /\ row' = IF Cron!Live(c) THEN [row EXCEPT ![c] = r] ELSE row
                 /\ \/ r = [o EXCEPT !.enabled = FALSE, !.claimed = 0]
                    \/ r = [o EXCEPT !.claimed = 0]
    BY <1>2, <1>5, <1>8 DEF Cron!DisableCron, Cron!Release, Cron!SetRow, Cron!None
  <2>2. /\ r \in CronRow /\ r.state = o.state /\ r.period = o.period /\ r.zone = o.zone
        /\ r.end = o.end /\ r.next = o.next
    <3>1. CASE r = [o EXCEPT !.enabled = FALSE, !.claimed = 0]
      BY <3>1 DEF CronRow
    <3>2. CASE r = [o EXCEPT !.claimed = 0]
      BY <3>2 DEF CronRow
    <3> QED BY <2>1, <3>1, <3>2
  <2>3. CronHas(p, s)
    BY <1>2, <1>8 DEF Cron!DisableCron, Cron!Release
  <2>4. Cron!Live(c) /\ c \notin lapsed \cup raced =>
          (\A x \in fired[c] : x < o.next) /\ late[c] = 0
    BY <1>2, <1>5, <2>3 DEF CronFiring, CronAlone, CronAhead, CronTimely, Cron!Live
  <2>5. Cron!Live(c) /\ c \notin lapsed \cup raced =>
           /\ \A x \in fired[c] : x <= r.next
           /\ (\A x \in fired[c] : x < r.next) \/ (~r.enabled /\ r.next <= now)
           /\ row[c].next <= r.next
           /\ late[c] = 1 => ~r.enabled
    BY <1>5, <1>6, <2>2, <2>4
  <2>6. /\ r.state = row[c].state /\ r.period = row[c].period /\ r.zone = row[c].zone
        /\ r.end = row[c].end /\ (c \notin raced => Cron!Occurs(r.period, r.zone, r.next))
    BY <1>5, <1>7, <2>2
  <2> QED BY <1>2, <1>3, <1>4, <2>1, <2>2, <2>5, <2>6, CronEnds
<1>9. CASE Cron!Advance(p)
  <2>1. PICK r : /\ row' = IF Cron!Live(c) THEN [row EXCEPT ![c] = r] ELSE row
                 /\ r = Cron!Advanced(o, s)
    BY <1>2, <1>5, <1>9 DEF Cron!Advance, Cron!SetRow
  <2>2. PICK n \in Nat : /\ n = Cron!NextRun(s.period, s.zone, now) /\ n > now
                         /\ Cron!Occurs(s.period, s.zone, n)
    <3>1. s.period \in Nat \ {0} /\ s.zone \in Nat
      BY DEF CronCopy, CronDeployment
    <3> QED BY <1>6, <3>1, NextOccurs
  <2>3. \/ s.end # 0 /\ now >= s.end /\ r = [o EXCEPT !.enabled = FALSE, !.claimed = 0]
        \/ ~(s.end # 0 /\ now >= s.end) /\ r = [o EXCEPT !.next = n, !.claimed = 0]
    BY <2>1, <2>2 DEF Cron!Advanced, Cron!None
  <2>4. /\ r \in CronRow /\ r.state = o.state /\ r.period = o.period /\ r.zone = o.zone
        /\ r.end = o.end
        /\ \/ s.end # 0 /\ now >= s.end /\ ~r.enabled /\ r.next = o.next
           \/ ~(s.end # 0 /\ now >= s.end) /\ r.next = n
    <3>1. CASE s.end # 0 /\ now >= s.end /\ r = [o EXCEPT !.enabled = FALSE, !.claimed = 0]
      <4>1. /\ r \in CronRow /\ r.state = o.state /\ r.period = o.period /\ r.zone = o.zone
            /\ r.end = o.end /\ r.next = o.next
        BY <3>1 DEF CronRow
      <4>2. r.enabled = FALSE
        BY <3>1 DEF CronRow
      <4> QED BY <3>1, <4>1, <4>2
    <3>2. CASE ~(s.end # 0 /\ now >= s.end) /\ r = [o EXCEPT !.next = n, !.claimed = 0]
      BY <3>2 DEF CronRow
    <3> QED BY <2>3, <3>1, <3>2
  <2>5. c \notin raced => s.period = o.period /\ s.zone = o.zone /\ s.end = o.end
    BY <1>2, <1>5 DEF CronFiring, CronFaithful
  <2>6. c \notin raced => Cron!Occurs(r.period, r.zone, r.next)
    BY <1>7, <2>2, <2>4, <2>5
  <2>7. Cron!Live(c) /\ c \notin lapsed \cup raced =>
           /\ \A x \in fired[c] : x <= r.next
           /\ (\A x \in fired[c] : x < r.next) \/ (~r.enabled /\ r.next <= now)
           /\ row[c].next <= r.next
           /\ late[c] = 1 => ~r.enabled
    <3> SUFFICES ASSUME Cron!Live(c), c \notin lapsed \cup raced
                 PROVE  /\ \A x \in fired[c] : x <= r.next
                        /\ (\A x \in fired[c] : x < r.next) \/ (~r.enabled /\ r.next <= now)
                        /\ o.next <= r.next
                        /\ late[c] = 1 => ~r.enabled
      BY <1>5
    <3>1. o.next = s.slot /\ o.next <= now
      BY <1>2, <1>5 DEF CronFiring, CronAlone
    <3>2. \A x \in fired[c] : x <= o.next
      BY <1>2, <1>5 DEF CronFiring, CronInOrder
    <3>3. late[c] = 1 => o.end # 0 /\ now >= o.end
      BY <1>2, <1>5 DEF CronFiring, CronInOrder, Cron!Live
    <3>4. CASE ~r.enabled /\ r.next = o.next
      BY <1>6, <3>1, <3>2, <3>4
    <3>5. CASE ~(s.end # 0 /\ now >= s.end) /\ r.next = n
      BY <1>6, <2>2, <2>5, <3>1, <3>2, <3>3, <3>5
    <3> QED BY <2>4, <3>4, <3>5
  <2>8. /\ r.state = row[c].state /\ r.period = row[c].period /\ r.zone = row[c].zone
        /\ r.end = row[c].end
    BY <1>5, <2>4
  <2> QED BY <1>2, <1>3, <1>4, <2>1, <2>4, <2>6, <2>7, <2>8, CronEnds
<1> QED BY <1>8, <1>9

(* _prepare_run commits: the occurrence is fired, and the cron stays claimed   *)
(* until next_run_date has moved on.                                           *)
LEMMA CronCreates ==
  ASSUME CronDeployment, CronInv, NEW p \in Pollers, Cron!CreateRun(p) PROVE CronInv'
<1>1. job[p].id # "none" /\ job[p].at = "check"
  BY DEF Cron!CreateRun
<1>2. PICK c \in Crons, s \in CronCopy :
           /\ job[p] \in CronJob /\ job[p].id = c /\ job[p].of = s /\ s.id = c
           /\ CronHolds(p, s) /\ CronFiring(c) /\ row[c] \in CronRow /\ s.slot <= now
           /\ job[p].at # "advance" => CronHas(p, s)
  BY <1>1, CronFires
<1>3. CronHas(p, s) /\ s.slot \in Nat
  BY <1>1, <1>2 DEF CronCopy
<1>4. /\ fired' = [fired EXCEPT ![c] = @ \cup {s.slot}]
      /\ twice' = IF s.slot \in fired[c] THEN twice \cup {c} ELSE twice
      /\ late' = [late EXCEPT ![c] =
                    IF Cron!Live(c) /\ row[c].end # 0 /\ now >= row[c].end
                    THEN (IF @ < 2 THEN @ + 1 ELSE @) ELSE @]
      /\ job' = [job EXCEPT ![p].at = "advance"]
      /\ UNCHANGED <<now, row, held, client, spent, lapsed, raced>>
  BY <1>2 DEF Cron!CreateRun, Cron!CommitRun, Cron!None
<1>5. PICK j \in CronJob : j = [job[p] EXCEPT !.at = "advance"] /\ j.of = s /\ j.id = c /\ j.at = "advance"
  <2> DEFINE i == [job[p] EXCEPT !.at = "advance"]
  <2>1. i \in CronJob /\ i.of = s /\ i.id = c /\ i.at = "advance"
    BY <1>2 DEF CronJob
  <2> QED BY <2>1
<1>6. /\ job'[p] = j /\ job' \in [Pollers -> CronJob \cup {Cron!NoJob}]
      /\ \A q \in Pollers : q # p => job'[q] = job[q]
  BY <1>4, <1>5 DEF CronInv, CronShape
<1>7. /\ fired'[c] = fired[c] \cup {s.slot} /\ fired' \in [Crons -> SUBSET Nat]
      /\ \A d \in Crons : d # c => fired'[d] = fired[d]
  BY <1>3, <1>4 DEF CronInv, CronShape
<1>8. /\ late'[c] = (IF Cron!Live(c) /\ row[c].end # 0 /\ now >= row[c].end
                     THEN (IF late[c] < 2 THEN late[c] + 1 ELSE late[c]) ELSE late[c])
      /\ late' \in [Crons -> Nat]
      /\ \A d \in Crons : d # c => late'[d] = late[d]
  BY <1>4 DEF CronInv, CronShape
<1>9. CronShape'
  BY <1>2, <1>4, <1>5, <1>6, <1>7, <1>8 DEF CronInv, CronShape
<1>10. CronOnce'
  BY <1>2, <1>4, <1>5, <1>6 DEF CronInv, CronOnce
<1>11. CronYields(p)
  BY <1>2, <1>4, <1>5, <1>6 DEF CronYields, CronHolds, CronHas
<1>12. \A q \in Pollers : CronYields(q)
  BY <1>4, <1>6, <1>11, YieldsSame
<1>13. /\ \A q \in Pollers : \A t \in CronCopy : CronHolds(q, t)' => CronHolds(q, t)
       /\ \A k \in Clients : \A x \in Nat : CronFirst(k, c, x)' => CronFirst(k, c, x)
  BY <1>4, <1>12 DEF CronYields, CronFirst
<1>14. CronFresh(c)'
  <2>1. row[c] # CronNew
    BY <1>2, CronRecords DEF CronInv
  <2> QED BY <1>2, <1>4, <1>13, <2>1 DEF CronFiring, CronFresh
<1>15. CronFaithful(c)'
  BY <1>2, <1>4, <1>13 DEF CronFiring, CronFaithful, Cron!Occurs
<1>16. ASSUME c \notin lapsed \cup raced PROVE c \notin twice' /\ CronInOrder(c)' /\ CronAlone(c)'
  <2>1. /\ s.slot = row[c].next /\ (row[c].state = "live" => row[c].claimed # 0)
        /\ CronAhead(c) /\ CronTimely(c)
        /\ \A q \in Pollers : \A t \in CronCopy : CronHolds(q, t) /\ t.id = c => q = p
    BY <1>2, <1>3, <1>16 DEF CronFiring, CronAlone
  <2>2. row[c].next \in Nat /\ row[c].next <= now /\ row[c].state \in {"live", "gone"}
    BY <1>2, <2>1 DEF CronRow
  <2>3. s.slot \notin fired[c]
    BY <2>1, <2>2 DEF CronAhead
  <2>4. c \notin twice'
    BY <1>2, <1>4, <1>16, <2>3 DEF CronFiring
  <2>5. CronClosed(c)'
    BY <1>4, <2>1, <2>2 DEF CronClosed
  <2>6. late[c] \in Nat /\ (late[c] = 0 \/ late[c] = 1)
    BY <1>2, <1>16 DEF CronFiring, CronInOrder, CronInv, CronShape
  <2>7. row[c].state = "live" => late[c] = 0
    BY <2>1 DEF CronTimely
  <2>8. late'[c] = 0 \/ late'[c] = 1
    BY <1>8, <2>6, <2>7 DEF Cron!Live
  <2>9. late'[c] = 1 /\ row[c].state = "live" => row[c].end # 0 /\ now >= row[c].end
    BY <1>8, <2>7
  <2>10. \A x \in fired'[c] : x <= row[c].next
    BY <1>2, <1>7, <1>16, <2>1, <2>2 DEF CronFiring, CronInOrder
  <2>11. \A k \in Clients : \A x \in Nat : CronFirst(k, c, x)' => x < row[c].next
    BY <1>2, <1>13, <1>16 DEF CronFiring, CronInOrder
  <2>12. CronInOrder(c)'
    BY <1>4, <2>2, <2>5, <2>8, <2>9, <2>10, <2>11 DEF CronInOrder
  <2>13. ASSUME NEW q \in Pollers, NEW t \in CronCopy, t.id = c, CronHas(q, t)' PROVE FALSE
    <3>1. CronHolds(q, t)'
      BY <2>13 DEF CronHas, CronHolds
    <3>2. q = p
      BY <1>13, <2>1, <2>13, <3>1
    <3>3. t \in held[p]
      BY <1>4, <1>5, <1>6, <2>13, <3>2 DEF CronHas
    <3> QED BY <1>2, <2>13, <3>3 DEF CronInv, CronOnce
  <2>14. CronAlone(c)'
    <3> SUFFICES ASSUME NEW q \in Pollers, NEW t \in CronCopy, CronHolds(q, t)', t.id = c
                 PROVE  /\ t.slot = row'[c].next
                        /\ row'[c].state = "live" => row'[c].claimed # 0
                        /\ CronHas(q, t)' => CronAhead(c)' /\ CronTimely(c)'
                        /\ \A m \in Pollers : \A u \in CronCopy : CronHolds(m, u)' /\ u.id = c => m = q
      BY DEF CronAlone
    <3>1. t.slot = row[c].next /\ (row[c].state = "live" => row[c].claimed # 0) /\ q = p
      BY <1>2, <1>13, <1>16, <2>1 DEF CronFiring, CronAlone
    <3>2. \A m \in Pollers : \A u \in CronCopy : CronHolds(m, u)' /\ u.id = c => m = q
      BY <1>13, <2>1, <3>1
    <3> QED BY <1>4, <2>13, <3>1, <3>2
  <2> QED BY <2>4, <2>12, <2>14
<1>17. CronFiring(c)'
  <2>1. c \in lapsed \cup raced => CronInOrder(c)' /\ CronAlone(c)'
    BY <1>4 DEF CronInOrder, CronAlone
  <2>2. c \notin lapsed \cup raced => c \notin twice'
    BY <1>16
  <2> QED BY <1>4, <1>14, <1>15, <1>16, <2>1, <2>2 DEF CronFiring
<1>18. \A d \in Crons : d # c => (d \in twice' <=> d \in twice)
  BY <1>4
<1>19. \A k \in Clients : client'[k] = client[k]
  BY <1>4
<1> QED BY <1>4, <1>7, <1>8, <1>9, <1>10, <1>12, <1>17, <1>18, <1>19, CronChanges

(* executor.submit fails after the commit: the cron counts as claimed twice    *)
(* from now on, and nothing but its copies is known of it.                     *)
LEMMA CronSubmitFails ==
  ASSUME CronDeployment, CronInv, NEW p \in Pollers, Cron!SubmitFails(p) PROVE CronInv'
<1>1. job[p].id # "none" /\ job[p].at = "check"
  BY DEF Cron!SubmitFails
<1>2. PICK c \in Crons, s \in CronCopy :
           /\ job[p] \in CronJob /\ job[p].id = c /\ job[p].of = s /\ s.id = c
           /\ CronHolds(p, s) /\ CronFiring(c) /\ row[c] \in CronRow /\ s.slot <= now
           /\ job[p].at # "advance" => CronHas(p, s)
  BY <1>1, CronFires
<1>3. s.slot \in Nat
  BY <1>2 DEF CronCopy
<1>4. /\ fired' = [fired EXCEPT ![c] = @ \cup {s.slot}]
      /\ twice' = twice \cup {c} \/ twice' = twice
      /\ late' = [late EXCEPT ![c] =
                    IF Cron!Live(c) /\ row[c].end # 0 /\ now >= row[c].end
                    THEN (IF @ < 2 THEN @ + 1 ELSE @) ELSE @]
      /\ lapsed' = lapsed \cup {c}
      /\ job' = [job EXCEPT ![p].at = "release"]
      /\ spent' = [spent EXCEPT !.faults = @ + 1]
      /\ UNCHANGED <<now, row, held, client, raced>>
  BY <1>2 DEF Cron!SubmitFails, Cron!CommitRun, Cron!None
<1>5. PICK j \in CronJob : j = [job[p] EXCEPT !.at = "release"] /\ j.of = s /\ j.id = c /\ j.at = "release"
  <2> DEFINE i == [job[p] EXCEPT !.at = "release"]
  <2>1. i \in CronJob /\ i.of = s /\ i.id = c /\ i.at = "release"
    BY <1>2 DEF CronJob
  <2> QED BY <2>1
<1>6. /\ job'[p] = j /\ job' \in [Pollers -> CronJob \cup {Cron!NoJob}]
      /\ \A q \in Pollers : q # p => job'[q] = job[q]
  BY <1>4, <1>5 DEF CronInv, CronShape
<1>7. /\ fired' \in [Crons -> SUBSET Nat] /\ \A d \in Crons : d # c => fired'[d] = fired[d]
      /\ fired'[c] = fired[c] \cup {s.slot}
  BY <1>3, <1>4 DEF CronInv, CronShape
<1>8. late' \in [Crons -> Nat] /\ \A d \in Crons : d # c => late'[d] = late[d]
  BY <1>4 DEF CronInv, CronShape
<1>9. spent' \in [updates : Nat, faults : Nat]
  BY <1>4 DEF CronInv, CronShape
<1>10. CronShape'
  BY <1>2, <1>4, <1>5, <1>6, <1>7, <1>8, <1>9 DEF CronInv, CronShape
<1>11. CronOnce'
  BY <1>2, <1>4, <1>5, <1>6 DEF CronInv, CronOnce
<1>12. CronYields(p)
  BY <1>1, <1>2, <1>4, <1>5, <1>6 DEF CronYields, CronHolds, CronHas
<1>13. \A q \in Pollers : CronYields(q)
  BY <1>4, <1>6, <1>12, YieldsSame
<1>14. /\ \A q \in Pollers : \A t \in CronCopy : CronHolds(q, t)' => CronHolds(q, t)
       /\ \A k \in Clients : \A x \in Nat : CronFirst(k, c, x)' => CronFirst(k, c, x)
  BY <1>4, <1>13 DEF CronYields, CronFirst
<1>15. CronFresh(c)'
  <2>1. row[c] # CronNew
    BY <1>2, CronRecords DEF CronInv
  <2> QED BY <1>2, <1>4, <1>14, <2>1 DEF CronFiring, CronFresh
<1>16. CronFaithful(c)'
  BY <1>2, <1>4, <1>14 DEF CronFiring, CronFaithful, Cron!Occurs
<1>17. CronFiring(c)'
  BY <1>4, <1>15, <1>16 DEF CronFiring, CronInOrder, CronAlone
<1>18. \A d \in Crons : d # c => (d \in twice' <=> d \in twice) /\ (d \in lapsed' <=> d \in lapsed)
  BY <1>4
<1> QED BY <1>4, <1>7, <1>8, <1>10, <1>11, <1>13, <1>17, <1>18, CronChanges

(* get_due_crons. *)
LEMMA CronClaims ==
  ASSUME CronDeployment, CronInv, NEW p \in Pollers, Cron!Claim(p) PROVE CronInv'
<1>1. PICK batch \in SUBSET {c \in Crons : Cron!Due(c)} :
        /\ row' = [c \in Crons |-> IF c \in batch
                                   THEN [row[c] EXCEPT !.claimed = now + ClaimDuration]
                                   ELSE row[c]]
        /\ held' = [held EXCEPT ![p] = {Cron!Claimed(c) : c \in batch}]
        /\ lapsed' = lapsed \cup {c \in batch : row[c].claimed # Cron!None}
  BY DEF Cron!Claim
<1>2. /\ held[p] = {} /\ job[p] = Cron!NoJob
      /\ UNCHANGED <<now, job, client, spent, fired, twice, raced, late>>
  BY DEF Cron!Claim
<1>3. PICK until \in Nat : until = now + ClaimDuration /\ until # 0
  BY DEF CronDeployment, CronInv, CronShape
<1>4. ASSUME NEW c \in batch
      PROVE  /\ c \in Crons /\ row[c] \in CronRow /\ row[c].state = "live" /\ row[c].enabled
             /\ row[c].next <= now
  BY <1>1, CronRecords DEF Cron!Due, Cron!Live, CronInv
<1>5. ASSUME NEW c \in batch
      PROVE  /\ Cron!Claimed(c) \in CronCopy /\ Cron!Claimed(c).id = c
             /\ Cron!Claimed(c).period = row[c].period /\ Cron!Claimed(c).zone = row[c].zone
             /\ Cron!Claimed(c).end = row[c].end /\ Cron!Claimed(c).slot = row[c].next
  BY <1>4 DEF Cron!Claimed, CronRow, CronCopy
<1>6. ASSUME NEW c \in batch
      PROVE  /\ row'[c] \in CronRow /\ row'[c].state = "live" /\ row'[c].claimed = until
             /\ row'[c].period = row[c].period /\ row'[c].zone = row[c].zone
             /\ row'[c].end = row[c].end /\ row'[c].next = row[c].next
  <2>1. row'[c] = [row[c] EXCEPT !.claimed = until]
    BY <1>1, <1>3, <1>4
  <2> QED BY <1>4, <2>1 DEF CronRow
<1>7. \A d \in Crons : d \notin batch => row'[d] = row[d] /\ (d \in lapsed' <=> d \in lapsed)
  BY <1>1
<1>8. /\ held'[p] = {Cron!Claimed(c) : c \in batch}
      /\ \A q \in Pollers : q # p => held'[q] = held[q]
  BY <1>1 DEF CronInv, CronShape
<1>9. held' \in [Pollers -> SUBSET CronCopy]
  <2>1. {Cron!Claimed(c) : c \in batch} \subseteq CronCopy
    BY <1>5
  <2> QED BY <1>1, <2>1 DEF CronInv, CronShape
<1>10. row' \in [Crons -> CronRow \cup {CronNew}]
  <2>1. \A d \in Crons : row'[d] \in CronRow \cup {CronNew}
    BY <1>6, <1>7 DEF CronInv, CronShape
  <2> HIDE <1>1
  <2>2. row' = [d \in Crons |-> row'[d]]
    BY <1>1
  <2> QED BY <2>1, <2>2
<1>11. CronShape'
  BY <1>2, <1>9, <1>10 DEF CronInv, CronShape
<1>12. Cron!NoJob \notin CronJob
  BY CronRecords DEF CronInv
<1>13. CronOnce'
  <2>1. \A s, t \in held'[p] : s.id = t.id => s = t
    BY <1>5, <1>8
  <2> QED BY <1>2, <1>8, <1>12, <2>1 DEF CronInv, CronOnce
<1>14. ASSUME NEW q \in Pollers, NEW s \in CronCopy, CronHolds(q, s)'
       PROVE  (q = p /\ s.id \in batch /\ s = Cron!Claimed(s.id)) \/ (q # p /\ CronHolds(q, s))
  <2>1. CASE q = p
    <3>1. s \in held'[p]
      BY <1>2, <1>12, <1>14, <2>1 DEF CronHolds
    <3>2. PICK c \in batch : s = Cron!Claimed(c)
      BY <1>8, <3>1
    <3> QED BY <1>5, <2>1, <3>2
  <2>2. CASE q # p
    BY <1>2, <1>8, <1>14, <2>2 DEF CronHolds
  <2> QED BY <2>1, <2>2
<1>15. ASSUME NEW q \in Pollers, q # p, NEW s \in CronCopy PROVE CronHas(q, s)' => CronHas(q, s)
  BY <1>2, <1>8, <1>15 DEF CronHas
<1>16. \A q \in Pollers : \A s \in CronCopy : CronHas(q, s)' => CronHolds(q, s)'
  BY DEF CronHas, CronHolds
<1>17. \A k \in Clients : \A c \in Crons : \A x \in Nat : CronFirst(k, c, x)' => CronFirst(k, c, x)
  BY <1>2 DEF CronFirst
<1>18. now' \in Nat /\ now' = now /\ now' >= now
  BY <1>2 DEF CronInv, CronShape
<1>19. ASSUME NEW d \in Crons, d \notin batch PROVE CronFiring(d)'
  <2>1. \A q \in Pollers : \A s \in CronCopy : s.id = d =>
          (CronHolds(q, s)' => CronHolds(q, s)) /\ (CronHas(q, s)' => CronHas(q, s))
    BY <1>14, <1>15, <1>16, <1>19
  <2>2. CronKept(d)
    BY <1>2, <1>7, <1>17, <1>19, <2>1 DEF CronKept
  <2> QED BY <1>18, <1>19, <2>2, KeptFires DEF CronInv
<1>20. ASSUME NEW c \in batch PROVE CronFiring(c)'
  <2>1. c \in Crons /\ CronFiring(c) /\ row[c] \in CronRow /\ row'[c] # CronNew
    BY <1>4, <1>6, CronRecords DEF CronInv
  <2>2. ASSUME NEW q \in Pollers, NEW s \in CronCopy, CronHolds(q, s)', s.id = c
        PROVE  s = Cron!Claimed(c) \/ CronHolds(q, s)
    BY <1>14, <2>2
  <2>3. CronFresh(c)'
    <3>1. \A q \in Pollers : \A s \in CronCopy : CronHolds(q, s)' /\ s.id = c => s.slot <= now
      BY <1>4, <1>5, <2>1, <2>2 DEF CronFiring, CronFresh
    <3> QED BY <1>6, <1>18, <2>1, <3>1 DEF CronFresh
  <2>4. CronFaithful(c)'
    <3> SUFFICES ASSUME c \notin raced PROVE CronFaithful(c)'
      BY <1>2 DEF CronFaithful
    <3>1. \A q \in Pollers : \A s \in CronCopy : CronHolds(q, s)' /\ s.id = c =>
            s.period = row[c].period /\ s.zone = row[c].zone /\ s.end = row[c].end
      BY <1>5, <2>1, <2>2 DEF CronFiring, CronFaithful
    <3>2. Cron!Occurs(row[c].period, row[c].zone, row[c].next)
      BY <2>1 DEF CronFiring, CronFaithful
    <3> QED BY <1>6, <3>1, <3>2 DEF CronFaithful, Cron!Occurs
  <2>5. ASSUME c \notin lapsed' \cup raced' PROVE CronInOrder(c)' /\ CronAlone(c)'
    <3>1. c \notin lapsed \cup raced /\ row[c].claimed = 0
      BY <1>1, <1>2, <2>5 DEF Cron!None
    <3>2. ~CronClosed(c)
      BY <1>4, <3>1 DEF CronClosed
    <3>3. CronAhead(c) /\ late[c] = 0
      BY <2>1, <3>1, <3>2 DEF CronFiring, CronInOrder
    <3>4. \A q \in Pollers : \A s \in CronCopy : s.id = c => ~CronHolds(q, s)
      BY <1>4, <2>1, <3>1 DEF CronFiring, CronAlone
    <3>5. \A q \in Pollers : \A s \in CronCopy : CronHolds(q, s)' /\ s.id = c => q = p /\ s = Cron!Claimed(c)
      BY <1>14, <3>4
    <3>6. CronAhead(c)' /\ CronTimely(c)' /\ late'[c] = 0
      BY <1>2, <1>6, <3>3 DEF CronAhead, CronTimely
    <3>7. CronInOrder(c)'
      <4>1. \A x \in fired'[c] : x <= row'[c].next
        BY <1>2, <1>6, <2>1, <3>1 DEF CronFiring, CronInOrder
      <4>2. \A k \in Clients : \A x \in Nat : CronFirst(k, c, x)' => x < row'[c].next
        BY <1>6, <1>17, <2>1, <3>1 DEF CronFiring, CronInOrder
      <4> QED BY <3>6, <4>1, <4>2 DEF CronInOrder
    <3>8. CronAlone(c)'
      BY <1>3, <1>5, <1>6, <3>5, <3>6 DEF CronAlone
    <3> QED BY <3>7, <3>8
  <2>6. c \in twice' => c \in lapsed' \cup raced'
    BY <1>1, <1>2, <2>1 DEF CronFiring
  <2> QED BY <2>3, <2>4, <2>5, <2>6 DEF CronFiring, CronInOrder, CronAlone
<1> QED BY <1>11, <1>13, <1>19, <1>20 DEF CronInv

LEMMA CronBegins == ASSUME CronDeployment, Cron!Init PROVE CronInv
<1>1. CronShape
  <2>1. [at |-> "idle"] \in CronWaits /\ now \in Nat \ {0} /\ spent \in [updates : Nat, faults : Nat]
    BY DEF CronWaits, Cron!Init
  <2>2. row = [c \in Crons |-> CronNew]
    BY DEF Cron!Init, CronNew
  <2>3. Cron!NoJob \notin CronJob
    BY DEF CronDeployment, Cron!NoJob, CronJob
  <2>4. \A p \in Pollers : job[p] = Cron!NoJob
    BY DEF Cron!Init
  <2>5. /\ held \in [Pollers -> SUBSET CronCopy] /\ job \in [Pollers -> CronJob \cup {Cron!NoJob}]
        /\ client \in [Clients -> CronClient \cup CronWaits]
    BY <2>1 DEF Cron!Init
  <2>6. fired \in [Crons -> SUBSET Nat] /\ late \in [Crons -> Nat] /\ twice \subseteq Crons
    BY DEF Cron!Init
  <2> QED BY <2>1, <2>2, <2>3, <2>4, <2>5, <2>6 DEF CronShape
<1>2. \A p \in Pollers : held[p] = {} /\ job[p] \notin CronJob
  BY <1>1, CronRecords DEF Cron!Init
<1>3. CronOnce
  BY <1>2 DEF CronOnce
<1>4. ASSUME NEW c \in Crons PROVE CronFiring(c)
  <2>1. row[c] = CronNew /\ row[c] \notin CronRow /\ fired[c] = {} /\ late[c] = 0 /\ c \notin twice
    BY <1>1, <1>4, CronRecords DEF Cron!Init, CronNew
  <2>2. \A p \in Pollers : \A s \in CronCopy : ~CronHolds(p, s)
    BY <1>2 DEF CronHolds
  <2>3. \A k \in Clients : client[k] \notin CronClient
    <3>1. \A k \in Clients : client[k] \in CronWaits
      BY DEF Cron!Init, CronWaits
    <3> QED BY <1>1, <3>1, CronRecords
  <2>4. \A k \in Clients : \A x \in Nat : ~CronFirst(k, c, x)
    BY <2>3 DEF CronFirst
  <2> QED BY <2>1, <2>2, <2>4 DEF CronFiring, CronFresh, CronFaithful, CronInOrder, CronAlone
<1> QED BY <1>1, <1>3, <1>4 DEF CronInv

LEMMA CronStays == ASSUME CronDeployment, CronInv, UNCHANGED Cron!vars PROVE CronInv'
<1>1. UNCHANGED <<now, row, held, job, client, spent, fired, twice, lapsed, raced, late>>
  BY DEF Cron!vars
<1>2. CronShape' /\ CronOnce' /\ now' >= now
  BY <1>1 DEF CronInv, CronShape, CronOnce
<1>3. \A p \in Pollers : CronYields(p)
  BY <1>1, YieldsSame
<1> QED BY <1>1, <1>2, <1>3, CronQuiet DEF CronTables

LEMMA CronSteps == ASSUME CronDeployment, CronInv, [Cron!Next]_(Cron!vars) PROVE CronInv'
<1>1. CASE Cron!Tick
  BY <1>1, CronTick
<1>2. CASE \E k \in Clients : Cron!CountCrons(k) \/ Cron!InsertCron(k) \/ Cron!FirstRun(k)
                                \/ Cron!FirstRunFails(k) \/ Cron!DropRequest(k)
  BY <1>2, CronRequests, CronInserts, CronFirstRun
<1>3. CASE \E c \in Crons : Cron!UpdateCron(c) \/ Cron!DeleteCron(c)
  BY <1>3, CronUpdates, CronDeletes
<1>4. CASE \E p \in Pollers : Cron!Claim(p) \/ Cron!StartFire(p) \/ Cron!DisableCron(p)
                                \/ Cron!CreateRun(p) \/ Cron!Advance(p) \/ Cron!RunFails(p)
                                \/ Cron!SubmitFails(p) \/ Cron!Release(p) \/ Cron!FireRaises(p) \/ Cron!Stop(p)
  BY <1>4, CronClaims, CronPollers, CronFinishes, CronCreates, CronSubmitFails
<1>5. CASE UNCHANGED Cron!vars
  BY <1>5, CronStays
<1> QED BY <1>1, <1>2, <1>3, <1>4, <1>5 DEF Cron!Next

LEMMA CronShows ==
  ASSUME CronDeployment, CronInv
  PROVE  Cron!FiresOncePerSlot /\ Cron!OneRunAfterEnd /\ Cron!FollowsSchedule
<1>1. \A c \in Crons : CronFiring(c)
  BY DEF CronInv
<1>2. Cron!FiresOncePerSlot
  <2>1. twice \subseteq Crons
    BY DEF CronInv, CronShape
  <2> QED BY <1>1, <2>1 DEF Cron!FiresOncePerSlot, CronFiring
<1>3. Cron!OneRunAfterEnd
  <2> SUFFICES ASSUME NEW c \in Crons, late[c] > 1, c \notin lapsed \cup raced PROVE FALSE
    BY DEF Cron!OneRunAfterEnd
  <2>1. row[c] # CronNew
    BY <1>1 DEF CronFiring, CronFresh
  <2>2. row[c] \in CronRow
    BY <2>1, CronRecords DEF CronInv
  <2> QED BY <1>1, <2>2 DEF CronFiring, CronInOrder
<1>4. Cron!FollowsSchedule
  BY <1>1, CronRecords DEF Cron!FollowsSchedule, Cron!Live, CronInv, CronFiring, CronFaithful
<1> QED BY <1>2, <1>3, <1>4

(* count_crons and the insert are apart: the cap is overrun by the requests    *)
(* that have counted at most.                                                  *)
CronCounted == {k \in Clients : client[k].at = "counted"}
CronCap(owned, counted) ==
  Cardinality(owned) + Cardinality(counted) <= MaxPerUser + Cardinality(Clients) - 1

LEMMA CronCounts == \A S : Cron!Cardinality(S) = Cardinality(S)
BY DEF Cron!Cardinality, Cardinality

LEMMA CronSizes ==
  ASSUME CronDeployment, NEW O \in SUBSET Crons, NEW C \in SUBSET Clients
  PROVE  /\ IsFiniteSet(O) /\ IsFiniteSet(C) /\ Cardinality(O) \in Nat /\ Cardinality(C) \in Nat
         /\ Cardinality(C) <= Cardinality(Clients) /\ Cardinality(Clients) \in Nat
         /\ MaxPerUser \in Nat \ {0}
<1>1. IsFiniteSet(O) /\ IsFiniteSet(C) /\ Cardinality(C) <= Cardinality(Clients)
  BY FS_Subset DEF CronDeployment
<1> QED BY <1>1, FS_CardinalityType DEF CronDeployment

LEMMA CronCapLess ==
  ASSUME CronDeployment, NEW O \in SUBSET Crons, NEW C \in SUBSET Clients,
         NEW P \in SUBSET O, NEW D \in SUBSET C, CronCap(O, C)
  PROVE  CronCap(P, D)
<1>1. Cardinality(P) <= Cardinality(O) /\ Cardinality(D) <= Cardinality(C)
  BY CronSizes, FS_Subset
<1>2. /\ P \in SUBSET Crons /\ D \in SUBSET Clients
  OBVIOUS
<1>3. /\ Cardinality(O) \in Nat /\ Cardinality(C) \in Nat /\ Cardinality(P) \in Nat
      /\ Cardinality(D) \in Nat /\ Cardinality(Clients) \in Nat /\ MaxPerUser \in Nat
  BY <1>2, CronSizes
<1> QED BY <1>1, <1>3 DEF CronCap

LEMMA CronCapMoves ==
  ASSUME CronDeployment, NEW O \in SUBSET Crons, NEW C \in SUBSET Clients,
         NEW c \in Crons, NEW k \in C, CronCap(O, C)
  PROVE  CronCap(O \cup {c}, C \ {k})
<1>1. /\ Cardinality(O \cup {c}) <= Cardinality(O) + 1 /\ Cardinality(O \cup {c}) \in Nat
  <2>1. Cardinality(O \cup {c}) = IF c \in O THEN Cardinality(O) ELSE Cardinality(O) + 1
    BY CronSizes, FS_AddElement
  <2> QED BY <2>1, CronSizes
<1>2. Cardinality(C \ {k}) = Cardinality(C) - 1
  BY CronSizes, FS_RemoveElement
<1> QED BY <1>1, <1>2, CronSizes DEF CronCap

LEMMA CronCapCounts ==
  ASSUME CronDeployment, NEW O \in SUBSET Crons, NEW C \in SUBSET Clients,
         Cardinality(O) < MaxPerUser
  PROVE  CronCap(O, C)
BY CronSizes DEF CronCap

(* What every step does to the crons of the user and to the counted requests.  *)
LEMMA CronCapSteps ==
  ASSUME CronDeployment, CronInv, CronCap(Cron!Owned, CronCounted), [Cron!Next]_(Cron!vars)
  PROVE  CronCap(Cron!Owned, CronCounted)'
<1>1. PICK O \in SUBSET Crons, C \in SUBSET Clients : O = Cron!Owned /\ C = CronCounted
  BY DEF Cron!Owned, CronCounted
<1>2. PICK P \in SUBSET Crons, D \in SUBSET Clients : P = Cron!Owned' /\ D = CronCounted'
  BY DEF Cron!Owned, CronCounted
<1> SUFFICES CronCap(P, D)
  <2>1. CronCap(Cron!Owned, CronCounted)' <=> CronCap(P, D)
    BY <1>2 DEF CronCap
  <2> QED BY <2>1
<1>3. CronCap(O, C)
  BY <1>1
<1>4. ASSUME P \subseteq O, D \subseteq C PROVE CronCap(P, D)
  BY <1>3, <1>4, CronCapLess
<1>5. row \in [Crons -> CronRow \cup {CronNew}] /\ client \in [Clients -> CronClient \cup CronWaits]
  BY DEF CronInv, CronShape
<1>6. (\A c \in Crons : row'[c].state = "live" => row[c].state = "live") => P \subseteq O
  BY <1>1, <1>2 DEF Cron!Owned, Cron!Live
<1>7. row' = row => P = O
  BY <1>1, <1>2 DEF Cron!Owned, Cron!Live
<1>8. client' = client => D = C
  BY <1>1, <1>2 DEF CronCounted
<1>9. ASSUME NEW k \in Clients, client' = [client EXCEPT ![k] = [at |-> "idle"]] PROVE D \subseteq C
  BY <1>1, <1>2, <1>5, <1>9 DEF CronCounted
<1>10. ASSUME NEW c \in Crons, NEW r, row' = [row EXCEPT ![c] = r], r.state = row[c].state PROVE P \subseteq O
  BY <1>5, <1>6, <1>10
<1>11. ASSUME NEW c \in Crons, row' = [row EXCEPT ![c].state = "gone"], row[c] \in CronRow PROVE P \subseteq O
  <2>1. [row[c] EXCEPT !.state = "gone"].state = "gone"
    BY <1>11 DEF CronRow
  <2> QED BY <1>5, <1>6, <1>11, <2>1
<1>12. CASE Cron!Tick
  BY <1>4, <1>7, <1>8, <1>12 DEF Cron!Tick
<1>13. ASSUME NEW k \in Clients, Cron!CountCrons(k) PROVE CronCap(P, D)
  <2>1. row' = row
    BY <1>13 DEF Cron!CountCrons
  <2>2. Cron!BelowCap(Cardinality(Cron!Owned))
    BY <1>13, CronCounts DEF Cron!CountCrons
  <2>3. Cardinality(O) < MaxPerUser
    BY <1>1, <2>2 DEF Cron!BelowCap
  <2> QED BY <1>7, <2>1, <2>3, CronCapCounts
<1>14. ASSUME NEW k \in Clients, Cron!InsertCron(k) PROVE CronCap(P, D)
  <2>1. PICK c \in Crons : \E r : row' = [row EXCEPT ![c] = r]
    BY <1>14, ZenonT(60) DEF Cron!InsertCron
  <2>2. client[k].at = "counted" /\ \E t : client' = [client EXCEPT ![k] = t] /\ t.at # "counted"
    <3>1. PICK e \in Crons, period \in Periods, zone \in Zones, b \in BOOLEAN :
            client' = [client EXCEPT ![k] =
              IF b THEN [at |-> "first", cron |-> e, slot |-> Cron!NextRun(period, zone, now)]
              ELSE [at |-> "idle"]]
      BY <1>14, ZenonT(60) DEF Cron!InsertCron
    <3>2. client[k].at = "counted"
      BY <1>14 DEF Cron!InsertCron
    <3>3. PICK t : t = IF b THEN [at |-> "first", cron |-> e, slot |-> Cron!NextRun(period, zone, now)]
                       ELSE [at |-> "idle"]
      OBVIOUS
    <3>4. t.at # "counted"
      BY <3>3
    <3>5. client' = [client EXCEPT ![k] = t]
      BY <3>1, <3>3
    <3> QED BY <3>2, <3>4, <3>5
  <2>3. k \in C /\ D \subseteq C \ {k}
    BY <1>1, <1>2, <1>5, <2>2 DEF CronCounted
  <2>4. P \subseteq O \cup {c}
    BY <1>1, <1>2, <1>5, <2>1 DEF Cron!Owned, Cron!Live
  <2>5. CronCap(O \cup {c}, C \ {k})
    BY <1>3, <2>3, CronCapMoves
  <2> QED BY <2>3, <2>4, <2>5, CronCapLess
<1>15. ASSUME NEW k \in Clients, Cron!FirstRun(k) \/ Cron!FirstRunFails(k) \/ Cron!DropRequest(k)
       PROVE  CronCap(P, D)
  <2>1. client' = [client EXCEPT ![k] = [at |-> "idle"]]
    BY <1>15 DEF Cron!FirstRun, Cron!FirstRunFails, Cron!DropRequest
  <2>2. CASE row' = row
    BY <1>4, <1>7, <1>9, <2>1, <2>2
  <2>3. CASE row' # row
    <3>1. client[k].at = "first" /\ row' = [row EXCEPT ![client[k].cron].state = "gone"]
      BY <1>15, <2>3 DEF Cron!FirstRun, Cron!FirstRunFails, Cron!DropRequest
    <3>2. PICK c \in Crons, x \in Nat : c = client[k].cron /\ CronFirst(k, c, x)
      BY <1>15, <3>1, CronRecords DEF CronInv, CronClient, CronFirst
    <3>3. row[c] \in CronRow
      BY <1>15, <3>2 DEF CronInv, CronFiring, CronFresh
    <3> QED BY <1>4, <1>9, <1>11, <1>15, <2>1, <3>1, <3>2, <3>3
  <2> QED BY <2>2, <2>3
<1>16. ASSUME NEW c \in Crons, Cron!UpdateCron(c) \/ Cron!DeleteCron(c) PROVE CronCap(P, D)
  <2>1. client' = client /\ Cron!Live(c) /\ row[c] \in CronRow
    BY <1>16, CronRecords DEF Cron!UpdateCron, Cron!DeleteCron, Cron!Live, CronInv
  <2>2. CASE Cron!UpdateCron(c)
    <3>1. P \subseteq O \cup {c}
      <4>1. \E r : row' = [row EXCEPT ![c] = r]
        BY <1>16, <2>2 DEF Cron!UpdateCron
      <4> QED BY <1>1, <1>2, <1>5, <4>1 DEF Cron!Owned, Cron!Live
    <3>2. c \in O
      BY <1>1, <1>16, <2>1 DEF Cron!Owned
    <3> QED BY <1>4, <1>8, <2>1, <3>1, <3>2
  <2>3. CASE Cron!DeleteCron(c)
    BY <1>4, <1>8, <1>11, <1>16, <2>1, <2>3 DEF Cron!DeleteCron
  <2> QED BY <1>16, <2>2, <2>3
<1>17. ASSUME NEW p \in Pollers, Cron!Claim(p) PROVE CronCap(P, D)
  <2>1. client' = client
    BY <1>17 DEF Cron!Claim
  <2>2. \E batch \in SUBSET {c \in Crons : Cron!Due(c)} : \A c \in Crons : c \notin batch => row'[c] = row[c]
    BY <1>17 DEF Cron!Claim
  <2>3. \A c \in Crons : row'[c].state = "live" => row[c].state = "live"
    BY <2>2 DEF Cron!Due, Cron!Live
  <2> QED BY <1>4, <1>6, <1>8, <2>1, <2>3
<1>18. ASSUME NEW p \in Pollers,
              \/ Cron!StartFire(p) \/ Cron!RunFails(p) \/ Cron!SubmitFails(p)
              \/ Cron!FireRaises(p) \/ Cron!Stop(p) \/ Cron!CreateRun(p)
       PROVE  CronCap(P, D)
  <2>1. client' = client /\ row' = row
    BY <1>18 DEF Cron!StartFire, Cron!RunFails, Cron!SubmitFails, Cron!FireRaises, Cron!Stop, Cron!CreateRun
  <2> QED BY <1>4, <1>7, <1>8, <2>1
<1>19. ASSUME NEW p \in Pollers, Cron!DisableCron(p) \/ Cron!Advance(p) \/ Cron!Release(p) PROVE CronCap(P, D)
  <2>1. client' = client
    BY <1>19 DEF Cron!DisableCron, Cron!Advance, Cron!Release
  <2>2. \E c, r : row' = IF Cron!Live(c) THEN [row EXCEPT ![c] = r] ELSE row
    BY <1>19 DEF Cron!DisableCron, Cron!Advance, Cron!Release, Cron!SetRow
  <2>3. \A c \in Crons : row'[c].state = "live" => row[c].state = "live"
    BY <1>5, <2>2 DEF Cron!Live
  <2> QED BY <1>4, <1>6, <1>8, <2>1, <2>3
<1>20. CASE UNCHANGED Cron!vars
  BY <1>4, <1>7, <1>8, <1>20 DEF Cron!vars
<1> QED BY <1>12, <1>13, <1>14, <1>15, <1>16, <1>17, <1>18, <1>19, <1>20 DEF Cron!Next

(* Crons: every occurrence of a schedule is fired once, a cron is fired at     *)
(* most once after its end_time, next_run_date stays an occurrence of the      *)
(* schedule, all of it unless a claim ran out or an update raced, and the cap  *)
(* per user is overrun by the requests under way at most: for any number of    *)
(* crons, pollers, requests, schedules and failures.                           *)
THEOREM CronsFireOnce ==
  ASSUME CronDeployment
  PROVE  Cron!Spec => [](/\ Cron!FiresOncePerSlot /\ Cron!OneRunAfterEnd
                         /\ Cron!FollowsSchedule /\ Cron!CapOvershoot)
<1> DEFINE I == CronInv /\ CronCap(Cron!Owned, CronCounted)
<1>1. Cron!Init => I
  <2> SUFFICES ASSUME Cron!Init PROVE I
    OBVIOUS
  <2>1. Cron!Owned = {} /\ CronCounted \in SUBSET Clients
    BY DEF Cron!Init, Cron!Owned, Cron!Live, CronCounted
  <2>2. Cardinality({}) = 0
    BY FS_EmptySet
  <2>3. Cardinality({}) < MaxPerUser
    BY <2>2 DEF CronDeployment
  <2>4. CronCap({}, CronCounted)
    BY <2>1, <2>3, CronCapCounts
  <2> QED BY <2>1, <2>4, CronBegins
<1>2. I /\ [Cron!Next]_(Cron!vars) => I'
  BY CronSteps, CronCapSteps
<1>3. I => /\ Cron!FiresOncePerSlot /\ Cron!OneRunAfterEnd
           /\ Cron!FollowsSchedule /\ Cron!CapOvershoot
  <2>1. CronCap(Cron!Owned, CronCounted) => Cron!CapOvershoot
    BY CronCounts DEF CronCap, CronCounted, Cron!CapOvershoot
  <2> QED BY <2>1, CronShows
<1> QED BY <1>1, <1>2, <1>3, PTL DEF Cron!Spec

(* advance_next_run and the release write single columns: a step that enables  *)
(* a cron its owner or the liveness check disabled is an update_cron.          *)
THEOREM CronsStayDisabled ==
  ASSUME CronDeployment PROVE Cron!Spec => [][Cron!KeepsDisabled]_(Cron!vars)
<1>1. Cron!Init => CronInv
  BY CronBegins
<1>2. CronInv /\ [Cron!Next]_(Cron!vars) => CronInv'
  BY CronSteps
<1>3. CronInv /\ [Cron!Next]_(Cron!vars) => [Cron!KeepsDisabled]_(Cron!vars)
  <2> SUFFICES ASSUME CronInv, Cron!Next, NEW c \in Crons, Cron!Live(c), ~row[c].enabled, row'[c].enabled
               PROVE  spent'.updates > spent.updates
    BY DEF Cron!KeepsDisabled
  <2>1. row \in [Crons -> CronRow \cup {CronNew}] /\ spent.updates \in Nat
    BY DEF CronInv, CronShape
  <2>2. row[c] \in CronRow /\ row[c].state = "live"
    BY CronRecords DEF Cron!Live, CronInv
  <2>3. row' # row
    OBVIOUS
  <2>5. ASSUME NEW d, NEW r, row' = IF Cron!Live(d) THEN [row EXCEPT ![d] = r] ELSE row,
               r.enabled => row[d].enabled
        PROVE  FALSE
    BY <2>1, <2>5
  <2>6. ~Cron!Tick
    BY <2>3 DEF Cron!Tick
  <2>7. ASSUME NEW k \in Clients, Cron!CountCrons(k) \/ Cron!FirstRun(k) \/ Cron!DropRequest(k) PROVE FALSE
    BY <2>3, <2>7 DEF Cron!CountCrons, Cron!FirstRun, Cron!DropRequest
  <2>8. ASSUME NEW k \in Clients, Cron!InsertCron(k) PROVE FALSE
    <3>1. PICK d \in Crons : row[d].state = "new" /\ \E r : row' = [row EXCEPT ![d] = r]
      BY <2>8 DEF Cron!InsertCron
    <3> QED BY <2>1, <2>2, <3>1
  <2>9. ASSUME NEW k \in Clients, Cron!FirstRunFails(k) PROVE FALSE
    <3>1. PICK d : row' = [row EXCEPT ![d].state = "gone"]
      BY <2>3, <2>9 DEF Cron!FirstRunFails
    <3>2. [row[c] EXCEPT !.state = "gone"].enabled = row[c].enabled
      BY <2>2 DEF CronRow
    <3> QED BY <2>1, <3>1, <3>2
  <2>10. ASSUME NEW d \in Crons, Cron!DeleteCron(d) PROVE FALSE
    <3>1. row' = [row EXCEPT ![d].state = "gone"]
      BY <2>10 DEF Cron!DeleteCron
    <3>2. [row[c] EXCEPT !.state = "gone"].enabled = row[c].enabled
      BY <2>2 DEF CronRow
    <3> QED BY <2>1, <3>1, <3>2
  <2>11. ASSUME NEW d \in Crons, Cron!UpdateCron(d) PROVE spent'.updates > spent.updates
    <3>1. spent' = [spent EXCEPT !.updates = @ + 1] /\ spent \in [updates : Nat, faults : Nat]
      BY <2>11 DEF Cron!UpdateCron, CronInv, CronShape
    <3> QED BY <3>1
  <2>12. ASSUME NEW p \in Pollers, Cron!Claim(p) PROVE FALSE
    <3>1. PICK batch \in SUBSET {d \in Crons : Cron!Due(d)} : \A d \in Crons : d \notin batch => row'[d] = row[d]
      BY <2>12 DEF Cron!Claim
    <3> QED BY <3>1 DEF Cron!Due
  <2>13. ASSUME NEW p \in Pollers,
                \/ Cron!StartFire(p) \/ Cron!RunFails(p) \/ Cron!SubmitFails(p)
              \/ Cron!FireRaises(p) \/ Cron!Stop(p) \/ Cron!CreateRun(p)
         PROVE  FALSE
    BY <2>3, <2>13 DEF Cron!StartFire, Cron!RunFails, Cron!SubmitFails, Cron!FireRaises, Cron!Stop, Cron!CreateRun
  <2>14. ASSUME NEW p \in Pollers, Cron!DisableCron(p) \/ Cron!Advance(p) \/ Cron!Release(p) PROVE FALSE
    <3>1. job[p].id # "none"
      BY <2>14 DEF Cron!DisableCron, Cron!Advance, Cron!Release
    <3>2. PICK d \in Crons : job[p].id = d /\ row[d] \in CronRow
      BY <2>14, <3>1, CronFires
    <3>3. PICK r : /\ row' = IF Cron!Live(d) THEN [row EXCEPT ![d] = r] ELSE row
                   /\ \/ r = [row[d] EXCEPT !.enabled = FALSE, !.claimed = 0]
                      \/ r = [row[d] EXCEPT !.claimed = 0]
                      \/ \E n : r = [row[d] EXCEPT !.next = n, !.claimed = 0]
      BY <2>14, <3>2 DEF Cron!DisableCron, Cron!Advance, Cron!Release, Cron!SetRow, Cron!Advanced, Cron!None
    <3>4. r.enabled => row[d].enabled
      BY <3>2, <3>3 DEF CronRow
    <3> QED BY <2>5, <3>3, <3>4
  <2> QED BY <2>6, <2>7, <2>8, <2>9, <2>10, <2>11, <2>12, <2>13, <2>14 DEF Cron!Next
<1> QED BY <1>1, <1>2, <1>3, PTL DEF Cron!Spec
=============================================================================
