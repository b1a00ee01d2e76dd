------------------------------ MODULE McpLoader ------------------------------
(* The MCP tools of a graph (repo/graphs/mcp_loader.py): a run resolves the    *)
(* servers its graph declares across the user's hub rows (hub/queries.py), the *)
(* environment and the registry, and takes their tools from the process-local  *)
(* cache or loads them. Users edit their rows, servers fail and time passes    *)
(* between any two steps of a run.                                             *)
EXTENDS Naturals, Sequences, SequencesExt

CONSTANTS
  Servers,       \* the servers the graph declares, in order
  Deployments,   \* the deployment tiers: per tier and server "none", "broken" or "valid"
  Catalog,       \* Catalog[s]: tools of s, [raw, safe]: its name and its legal form,
                 \* as the words that underscores separate, the server's first; in
                 \* the legal form a number is a word of its own
  Runs, Users,
  Urls, Allowlists,    \* what a user's row may hold; {} is no restriction
  Ttl,                 \* MCP_USER_TOOLS_CACHE_TTL_SECS
  MaxTime, MaxEdits    \* bounds of the instance

VARIABLES
  deployed,   \* deployed[t][s]: the entry of tier t for server s
  authz,      \* MCP_TOOL_AUTHZ_ENABLED
  row,        \* row[u]: u's hub row for the first server, or NoRow
  cache,      \* _tools_cache, a function on the keys it holds
  now, edits,
  run         \* run[r]: user, place, connections, time of the lookup, tools

vars == <<deployed, authz, row, cache, now, edits, run>>

NoRow == [enabled |-> TRUE, url |-> "none", allow |-> {}, auth |-> "none"]
Disabled == [NoRow EXCEPT !.enabled = FALSE]
HubRows(u) ==
  {NoRow, Disabled} \cup [enabled : {TRUE}, url : Urls, allow : Allowlists, auth : {"none", u}]
Spec_(url, allow, auth) == [url |-> url, allow |-> allow, auth |-> auth]
Tiers == {"env", "registry"}
Empty == [k \in {} |-> k]

Init ==
  /\ deployed \in Deployments
  /\ authz \in BOOLEAN
  /\ row = [u \in Users |-> NoRow]
  /\ cache = Empty /\ now = 0 /\ edits = 0
  /\ run = [r \in Runs |-> [user |-> "none", at |-> "idle", conns |-> Empty,
                            asked |-> 0, tools |-> <<>>, since |-> 0]]

(* The hub: a connection is created, updated, disabled or deleted. A row of    *)
(* auth_type "oauth" comes with the user's own provider of a session.          *)
EditRow(u) ==
  /\ edits < MaxEdits
  /\ edits' = edits + 1
  /\ \E new \in HubRows(u) :
       new # row[u] /\ row' = [row EXCEPT ![u] = new]
  /\ UNCHANGED <<deployed, authz, cache, now, run>>

---------------------------------------------------------------------------
(* Resolution *)

(* _resolve_registry_entry: a broken override falls through to the registry,   *)
(* a broken registry entry resolves to nothing.                                *)
RegistryEntry(s) ==
  CASE deployed["env"][s] = "valid"      -> {Spec_("env", {}, "none")}
    [] deployed["env"][s] # "valid" /\ deployed["registry"][s] = "valid"
                                         -> {Spec_("registry", {}, "none")}
    [] OTHER                             -> {}

(* aresolve_mcp_connections, for one server: the user's row wins, and a        *)
(* disabled one blocks the name. Without the user tier (an outage of the       *)
(* provider) the deployment tiers decide.                                      *)
Resolved(s, mine) ==
  IF s # Head(Servers) \/ mine = NoRow THEN RegistryEntry(s)
  ELSE IF mine.enabled THEN {Spec_(mine.url, mine.allow, mine.auth)} ELSE {}

Connections(mine) ==
  [s \in {s \in ToSet(Servers) : Resolved(s, mine) # {}} |->
     CHOOSE spec \in Resolved(s, mine) : TRUE]

Resolve(r, u, outage) ==
  /\ run[r].at = "idle" /\ (outage => row[u] # NoRow)
  /\ run' = [run EXCEPT ![r].user = u, ![r].at = "resolved",
                        ![r].conns = Connections(IF outage THEN NoRow ELSE row[u])]
  /\ UNCHANGED <<deployed, authz, row, cache, now, edits>>

---------------------------------------------------------------------------
(* The cache *)

(* _fingerprint_connections, over _FINGERPRINT_KEYS and the allowlist: "auth"  *)
(* is not among them. And _cache_scope.                                        *)
Fingerprint(conns) ==
  [s \in DOMAIN conns |-> [url |-> conns[s].url, allow |-> conns[s].allow]]
Scope(u) == IF authz THEN u ELSE "shared"
Key(r) == <<Scope(run[r].user), Fingerprint(run[r].conns)>>

Obtains(r, tools, since) ==
  run' = [run EXCEPT ![r].at = "done", ![r].asked = now, ![r].tools = tools,
                     ![r].since = since]

(* _cached_load_tools up to the load. *)
Lookup(r) ==
  /\ run[r].at = "resolved"
  /\ IF run[r].conns = Empty THEN Obtains(r, <<>>, now)
     ELSE IF Key(r) \in DOMAIN cache /\ cache[Key(r)].expires > now
     THEN Obtains(r, cache[Key(r)].tools, cache[Key(r)].since)
     ELSE run' = [run EXCEPT ![r].at = "loading", ![r].asked = now]
  /\ UNCHANGED <<deployed, authz, row, cache, now, edits>>

(* tool_allowed: an entry is the name, or what follows an underscore of it. *)
Allowed(tool, allow) == allow = {} \/ \E entry \in allow : IsSuffix(entry, tool.raw)

(* sanitize_tool_name: the legal form, with the first suffix that makes it new *)
(* among the names used.                                                       *)
SafeOnly(safe, used) == safe
Sanitized(safe, used) ==
  LET suffixed(n) == Append(safe, n)
      least == CHOOSE n \in 2 .. Len(used) + 2 :
                 /\ suffixed(n) \notin ToSet(used)
                 /\ \A k \in 2 .. n - 1 : suffixed(k) \in ToSet(used)
  IN IF safe \in ToSet(used) THEN suffixed(least) ELSE safe

(* load_mcp_tools: the tools of the servers that answered, narrowed by their   *)
(* allowlists, under names that are unique in the whole catalog. A server that *)
(* fails, or whose breaker is open, costs its own tools only.                  *)
Narrowed(tools, allow) ==
  LET kept[i \in 0 .. Len(tools)] ==
        IF i = 0 THEN <<>>
        ELSE IF Allowed(tools[i], allow) THEN Append(kept[i - 1], tools[i]) ELSE kept[i - 1]
  IN kept[Len(tools)]

Served(r, s, up) ==
  IF s \notin DOMAIN run[r].conns \/ s \notin up THEN <<>>
  ELSE Narrowed([i \in DOMAIN Catalog[s] |->
                   [raw |-> Catalog[s][i].raw, safe |-> Catalog[s][i].safe,
                    server |-> s, url |-> run[r].conns[s].url, auth |-> run[r].conns[s].auth,
                    user |-> run[r].user]],
                run[r].conns[s].allow)

Offered(r, up) ==
  LET offered[i \in 0 .. Len(Servers)] ==
        IF i = 0 THEN <<>> ELSE offered[i - 1] \o Served(r, Servers[i], up)
  IN offered[Len(Servers)]

Exposed(offered) ==
  LET names[i \in 0 .. Len(offered)] ==
        IF i = 0 THEN <<>>
        ELSE Append(names[i - 1], Sanitized(offered[i].safe, names[i - 1]))
  IN [i \in DOMAIN offered |->
        [name |-> names[Len(offered)][i], raw |-> offered[i].raw, server |-> offered[i].server,
         url |-> offered[i].url, auth |-> offered[i].auth, user |-> offered[i].user]]

(* The load ends: entries that had expired when it began are dropped, and the  *)
(* result, whatever failed, is kept for the TTL counted from there.            *)
ExpiresAfterLoad(began, ended) == ended + Ttl
Expires(began, ended) == began + Ttl

Loaded(r, up) ==
  LET tools == Exposed(Offered(r, up))
      kept == {k \in DOMAIN cache : cache[k].expires > run[r].asked} IN
  /\ run[r].at = "loading" /\ up \subseteq DOMAIN run[r].conns
  /\ run' = [run EXCEPT ![r].at = "done", ![r].tools = tools, ![r].since = run[r].asked]
  /\ cache' = [k \in kept \cup {Key(r)} |->
                 IF k = Key(r)
                 THEN [expires |-> Expires(run[r].asked, now), tools |-> tools,
                       since |-> run[r].asked]
                 ELSE cache[k]]
  /\ UNCHANGED <<deployed, authz, row, now, edits>>

Tick ==
  /\ now < MaxTime
  /\ now' = now + 1
  /\ UNCHANGED <<deployed, authz, row, cache, edits, run>>

Next ==
  \/ Tick
  \/ \E u \in Users : EditRow(u)
  \/ \E r \in Runs :
       \/ Lookup(r)
       \/ \E u \in Users, outage \in BOOLEAN : Resolve(r, u, outage)
       \/ \E up \in SUBSET ToSet(Servers) : Loaded(r, up)

Spec == Init /\ [][Next]_vars

---------------------------------------------------------------------------

(* The cache and the runs have their types. *)
TypeOK ==
  /\ \A u \in Users : row[u] \in HubRows(u)
  /\ now \in 0 .. MaxTime /\ edits \in 0 .. MaxEdits /\ authz \in BOOLEAN
  /\ \A k \in DOMAIN cache :
       cache[k].expires \in 0 .. MaxTime + Ttl /\ cache[k].since \in 0 .. MaxTime
  /\ \A r \in Runs :
       /\ run[r].at \in {"idle", "resolved", "loading", "done"}
       /\ \A i \in DOMAIN run[r].tools : run[r].tools[i].server \in DOMAIN run[r].conns

(* "editing a URL/header/command/env takes effect on the next run instead of   *)
(* waiting for the TTL" (mcp_loader.py), and two callers that narrowed one     *)
(* endpoint differently do not share an entry: every tool a run receives is of *)
(* an endpoint the run resolved, and is one of those its allowlist admits. The *)
(* session it calls with is the run's own or, as the fingerprint does not hold *)
(* it, that of a run which resolved the same endpoints and allowlists; with    *)
(* per-invocation authorization on, never a session of another user.           *)
ToolsAsResolved ==
  \A r \in Runs : \A i \in DOMAIN run[r].tools :
    LET t == run[r].tools[i] IN
    /\ t.server \in DOMAIN run[r].conns
    /\ t.url = run[r].conns[t.server].url
    /\ Allowed(t, run[r].conns[t.server].allow)
    /\ \E q \in Runs :
         /\ Fingerprint(run[q].conns) = Fingerprint(run[r].conns)
         /\ t.user = run[q].user /\ t.auth = run[q].conns[t.server].auth
    /\ authz => t.user = run[r].user /\ t.auth \in {"none", run[r].user}

(* A load that failed or is out of date is not served for longer than the TTL, *)
(* however long the load took: a run receives what was asked of the servers    *)
(* less than a TTL before the run looked.                                      *)
ToolsFresh ==
  \A r \in Runs : run[r].at = "done" /\ run[r].since < run[r].asked
                    => run[r].asked < run[r].since + Ttl

(* "the model sees a flat list, so uniqueness has to hold there, not per       *)
(* server": no two tools of a run have the same name.                          *)
NamesUnique ==
  \A r \in Runs : \A i, j \in DOMAIN run[r].tools :
    run[r].tools[i].name = run[r].tools[j].name => i = j
=============================================================================
