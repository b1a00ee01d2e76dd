----------------------------- MODULE RequestAuth ----------------------------
(* What stands between a request and its route (src/agent_server/auth/): the   *)
(* authentication dependencies, the rate limit, the @auth.on dispatch that     *)
(* enforcement.py attaches at registration or the route's body makes, and the  *)
(* policy engine of the hub routes. FastAPI resolves the dependencies of a     *)
(* request one by one; their order is left open. The user's auth handlers and  *)
(* OPA are external: every answer of theirs is possible, and a credential may  *)
(* be single-use.                                                              *)
EXTENDS Naturals, FiniteSets

CONSTANTS
  Requests,     \* requests
  Users,        \* identities
  Limit,        \* hits per window and identity
  MaxPasses     \* bound on apply_auth_enforcement

VARIABLES
  wired,      \* wired[route]: enforcers that were prepended
  passes,     \* passes of apply_auth_enforcement so far
  spent,      \* requests whose credential has been presented
  hits,       \* hits[u]: hits of the moving window
  req         \* req[r]: the request

vars == <<wired, passes, spent, hits, req>>

(* The registry: enforced and self-dispatching routes, exempt ones, the hub's, *)
(* which are exempt and ask the policy engine, and those of the public routers *)
(* (health, the shop's API, the OAuth callback), which have no dependencies.   *)
Routes == {"enforced", "self", "exempt", "hub", "public"}
Mapped(route) == route \in {"enforced", "self"}
SelfDispatching(route) == route = "self"

Dependencies == {"auth", "limit", "user"}
DependenciesOf(route) == IF route = "public" THEN {} ELSE Dependencies
NoRequest == [at |-> "none", route |-> "exempt", user |-> "none", left |-> {}, scope |-> FALSE,
              calls |-> 0, events |-> 0, policy |-> "unasked", answer |-> "none"]

Init ==
  /\ wired = [route \in Routes |-> 0] /\ passes = 0 /\ spent = {}
  /\ hits = [u \in Users |-> 0]
  /\ req = [r \in Requests |-> NoRequest]

---------------------------------------------------------------------------
(* apply_auth_enforcement: a pass over the routes that leaves a wired one and  *)
(* a self-dispatching one alone; create_app may run it again.                  *)
WiresAgain(route) == Mapped(route) /\ ~SelfDispatching(route)
Wires(route) == Mapped(route) /\ ~SelfDispatching(route) /\ wired[route] = 0

ApplyEnforcement ==
  /\ passes < MaxPasses /\ \A r \in Requests : req[r].at = "none"
  /\ passes' = passes + 1
  /\ wired' = [route \in Routes |-> wired[route] + IF Wires(route) THEN 1 ELSE 0]
  /\ UNCHANGED <<spent, hits, req>>

Arrive(r, route, u) ==
  /\ req[r].at = "none" /\ passes > 0
  /\ req' = [req EXCEPT ![r] = [NoRequest EXCEPT !.at = IF wired[route] > 0 THEN "enforce" ELSE "deps",
                                  !.route = route, !.user = u, !.left = DependenciesOf(route)]]
  /\ UNCHANGED <<wired, passes, spent, hits>>

Answer(r, record, answer) ==
  req' = [req EXCEPT ![r] = [record EXCEPT !.at = "done", !.answer = answer]]

(* require_auth: the result in the request's scope, or one call of the backend, *)
(* which may reject the request, and does when the credential is spent. The    *)
(* outcome: the request as it goes on, and whether it does.                    *)
FromScopeNever(record) == FALSE
FromScope(record) == record.scope

Authenticated(r, record, accepts) ==
  IF FromScope(record) THEN [ok |-> TRUE, record |-> record]
  ELSE LET called == [record EXCEPT !.calls = @ + 1] IN
       IF accepts /\ r \notin spent
       THEN [ok |-> TRUE, record |-> [called EXCEPT !.scope = TRUE]]
       ELSE [ok |-> FALSE, record |-> called]

Presents(r, record) == IF FromScope(record) THEN spent ELSE spent \cup {r}

(* handle_event: what the @auth.on handler, or its absence, comes to. *)
Verdicts == {"allow", "deny", "invalid"}
Refusal(verdict) == IF verdict = "deny" THEN "403" ELSE "500"

(* enforce: the prepended dependency, which authenticates and dispatches as    *)
(* many times as it was prepended.                                             *)
Enforce(r, accepts, verdict) ==
  LET auth == Authenticated(r, req[r], accepts)
      told == [auth.record EXCEPT !.events = @ + wired[req[r].route], !.at = "deps"] IN
  /\ req[r].at = "enforce"
  /\ spent' = Presents(r, req[r])
  /\ CASE ~auth.ok -> Answer(r, auth.record, "401")
       [] auth.ok /\ verdict # "allow" -> Answer(r, told, Refusal(verdict))
       [] OTHER -> req' = [req EXCEPT ![r] = told]
  /\ UNCHANGED <<wired, passes, hits>>

(* The router's require_auth and the endpoint's get_current_user, which falls  *)
(* back to it on a scope miss.                                                 *)
ResolveUser(r, d, accepts) ==
  LET auth == Authenticated(r, req[r], accepts) IN
  /\ req[r].at = "deps" /\ d \in req[r].left \cap {"auth", "user"}
  /\ spent' = Presents(r, req[r])
  /\ IF auth.ok
     THEN req' = [req EXCEPT ![r] = [auth.record EXCEPT !.left = @ \ {d}]]
     ELSE Answer(r, auth.record, "401")
  /\ UNCHANGED <<wired, passes, hits>>

(* rate_limit_*: the identity's hit of the window, or 429. *)
RateLimit(r, accepts) ==
  LET auth == Authenticated(r, req[r], accepts)
      u == req[r].user IN
  /\ req[r].at = "deps" /\ "limit" \in req[r].left
  /\ spent' = Presents(r, req[r])
  /\ CASE ~auth.ok -> Answer(r, auth.record, "401") /\ UNCHANGED hits
       [] auth.ok /\ hits[u] = Limit -> Answer(r, auth.record, "429") /\ UNCHANGED hits
       [] OTHER -> /\ hits' = [hits EXCEPT ![u] = @ + 1]
                   /\ req' = [req EXCEPT ![r] = [auth.record EXCEPT !.left = @ \ {"limit"}]]
  /\ UNCHANGED <<wired, passes>>

(* A hit leaves the moving window. *)
Forget(u) ==
  /\ hits[u] > 0 /\ hits' = [hits EXCEPT ![u] = @ - 1]
  /\ UNCHANGED <<wired, passes, spent, req>>

(* The route's body: its own dispatch, when it is one that makes it. *)
Body(r, verdict) ==
  LET told == [req[r] EXCEPT !.events = @ + 1] IN
  /\ req[r].at = "deps" /\ req[r].left = {} /\ req[r].route # "hub"
  /\ IF SelfDispatching(req[r].route)
     THEN Answer(r, told, IF verdict = "allow" THEN "200" ELSE Refusal(verdict))
     ELSE verdict = "allow" /\ Answer(r, req[r], "200")
  /\ UNCHANGED <<wired, passes, spent, hits>>

(* CompositePolicyEngine.require over the local engine and OPA: each must      *)
(* allow, in order; an OPA that cannot be reached fails the request or, when   *)
(* OPA_FAIL_CLOSED is off, leaves it to the local rule.                        *)
OpaFailOpen(local, opa, closed) == opa # "deny"
Opa(local, opa, closed) ==
  CASE opa = "down" -> ~closed /\ local
    [] OTHER -> opa = "allow"

HubBody(r, local, opa, closed) ==
  LET asked == [req[r] EXCEPT !.policy = IF local /\ (opa = "allow" \/ (opa = "down" /\ ~closed))
                                         THEN "allowed" ELSE "refused"] IN
  /\ req[r].at = "deps" /\ req[r].left = {} /\ req[r].route = "hub"
  /\ Answer(r, asked, CASE ~local -> "403"
                        [] local /\ Opa(local, opa, closed) -> "200"
                        [] OTHER -> IF opa = "down" THEN "503" ELSE "403")
  /\ UNCHANGED <<wired, passes, spent, hits>>

Next ==
  \/ ApplyEnforcement
  \/ \E r \in Requests, route \in Routes, u \in Users : Arrive(r, route, u)
  \/ \E r \in Requests, accepts \in BOOLEAN :
       \/ \E verdict \in Verdicts : Enforce(r, accepts, verdict)
       \/ \E d \in Dependencies : ResolveUser(r, d, accepts)
       \/ RateLimit(r, accepts)
  \/ \E r \in Requests, verdict \in Verdicts : Body(r, verdict)
  \/ \E r \in Requests, local, closed \in BOOLEAN, opa \in {"allow", "deny", "down"} :
       HubBody(r, local, opa, closed)
  \/ \E u \in Users : Forget(u)

Spec == Init /\ [][Next]_vars

---------------------------------------------------------------------------
(* Types. *)
TypeOK ==
  /\ passes \in 0 .. MaxPasses /\ spent \subseteq Requests
  /\ hits \in [Users -> 0 .. Limit]
  /\ \A r \in Requests :
       /\ req[r].at \in {"none", "enforce", "deps", "done"} /\ req[r].route \in Routes
       /\ req[r].left \subseteq Dependencies
       /\ req[r].answer \in {"none", "200", "401", "403", "429", "500", "503"}

(* "the backend must run once because a credential may be single-use"          *)
(* (deps.py:10): whatever order the dependencies of a request resolve in, the  *)
(* backend is called at most once for it, and for a request that is served or  *)
(* refused for another reason exactly once, but on a public route never.       *)
AuthenticatesOnce ==
  \A r \in Requests :
    /\ req[r].calls <= 1
    /\ req[r].answer \notin {"none", "401"} =>
         req[r].calls = IF req[r].route = "public" THEN 0 ELSE 1

(* "Exactly one layer authorizes each event" (enforcement.py:9): a request that *)
(* is served was dispatched to the @auth.on handlers once when its route is in *)
(* the registry, by the enforcer or by the body, and never when it is exempt,  *)
(* however many passes wired the routes; a hub request is served only when the *)
(* engines allowed it ("Failure posture is fail-closed by default",            *)
(* opa_policy.py:18).                                                          *)
OneAuthorization ==
  \A r \in Requests :
    req[r].answer = "200" =>
      /\ req[r].events = IF Mapped(req[r].route) THEN 1 ELSE 0
      /\ req[r].route = "hub" => req[r].policy = "allowed"
=============================================================================
