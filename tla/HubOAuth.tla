------------------------------ MODULE HubOAuth ------------------------------
(* The OAuth state of one user's hub connection of one name (hub/oauth/,       *)
(* hub/services.py): tokens and the parked browser flow in the token store,    *)
(* the client registration in the database, and who reads and writes them: a   *)
(* run whose MCP server asks for authorization, the browser's callback, and    *)
(* the deletion of the connection. Each access of the store is a step. The     *)
(* flow itself is the MCP SDK's OAuthClientProvider, modelled from the handlers *)
(* and the storage it is given.                                                *)
EXTENDS Naturals, Sequences

CONSTANTS Runs, MaxRows, MaxFlows    \* runs, and bounds of the instance

VARIABLES
  row,      \* the connection: the number of its row, 0 when there is none
  rows,     \* rows created so far
  tokens, client,    \* the row whose tokens / registration are stored, or 0
  pending, code,     \* the flow that is parked / whose code is parked, or 0
  states,   \* flows whose state key is stored
  flow,     \* flow[f]: the row for which flow f was begun
  shown,    \* flows whose URL the user has been given
  run,      \* run[r]: place, row, flow, what it read
  browser,  \* the callback that is being served
  purge,    \* what is left to purge of a deleted connection
  raced     \* history: a run or a callback was under way when its row was
            \* deleted, or the name was used again, or a callback began, before
            \* the purge was over

vars == <<row, rows, tokens, client, pending, code, states, flow, shown, run,
          browser, purge, raced>>
store == <<tokens, client, pending, code, states>>
others == <<row, rows, flow, shown, browser, purge, raced>>

NoRun == [at |-> "idle", row |-> 0, flow |-> 0, saw |-> 0, got |-> 0]
NoCallback == [at |-> "idle", flow |-> 0, denied |-> FALSE]

Init ==
  /\ row = 0 /\ rows = 0 /\ tokens = 0 /\ client = 0 /\ pending = 0 /\ code = 0
  /\ states = {} /\ flow = <<>> /\ shown = {} /\ purge = <<>> /\ raced = FALSE
  /\ run = [r \in Runs |-> NoRun] /\ browser = NoCallback

---------------------------------------------------------------------------
(* McpConnectionService.create and delete *)

Create ==
  /\ row = 0 /\ rows < MaxRows
  /\ rows' = rows + 1 /\ row' = rows'
  /\ raced' = (raced \/ purge # <<>>)
  /\ UNCHANGED <<store, flow, shown, run, browser, purge>>

(* purge_oauth_state: what is dropped, in order. The state keys are left to    *)
(* their TTL.                                                                  *)
PurgedFlowOnly == <<"pending", "code">>
Purged == <<"tokens", "client", "pending", "code">>

Delete ==
  /\ row # 0 /\ purge = <<>>
  /\ row' = 0 /\ purge' = Purged
  /\ raced' = (raced \/ browser.at # "idle" \/ \E r \in Runs : run[r].at # "idle")
  /\ UNCHANGED <<rows, store, flow, shown, run, browser>>

Purge ==
  /\ purge # <<>>
  /\ purge' = Tail(purge)
  /\ tokens' = IF Head(purge) = "tokens" THEN 0 ELSE tokens
  /\ client' = IF Head(purge) = "client" THEN 0 ELSE client
  /\ pending' = IF Head(purge) = "pending" THEN 0 ELSE pending
  /\ code' = IF Head(purge) = "code" THEN 0 ELSE code
  /\ UNCHANGED <<row, rows, states, flow, shown, run, browser, raced>>

---------------------------------------------------------------------------
(* A run that uses the connection *)

Goto(r, place) == run' = [run EXCEPT ![r].at = place]

(* load_connection_map and build_oauth_auth: the provider of this run. *)
Connect(r) ==
  /\ run[r].at = "idle" /\ row # 0
  /\ run' = [run EXCEPT ![r] = [NoRun EXCEPT !.at = "tokens", !.row = row]]
  /\ UNCHANGED <<others, store>>

(* get_tokens, then get_client_info and, without a registration, set_client_info. *)
GetTokens(r) ==
  /\ run[r].at = "tokens"
  /\ IF tokens # 0 THEN run' = [run EXCEPT ![r] = NoRun] ELSE Goto(r, "client")
  /\ UNCHANGED <<others, store>>

GetClient(r) ==
  /\ run[r].at = "client"
  /\ Goto(r, IF client # 0 THEN "redirect" ELSE "register")
  /\ UNCHANGED <<others, store>>

SetClient(r) ==
  /\ run[r].at = "register"
  /\ client' = run[r].row
  /\ Goto(r, "redirect")
  /\ UNCHANGED <<others, tokens, pending, code, states>>

(* on_redirect: the latest URL is parked, then its state key is stored. *)
ParkUrl(r) ==
  /\ run[r].at = "redirect" /\ Len(flow) < MaxFlows
  /\ flow' = Append(flow, run[r].row)
  /\ pending' = Len(flow')
  /\ run' = [run EXCEPT ![r].at = "state", ![r].flow = Len(flow')]
  /\ UNCHANGED <<row, rows, tokens, client, code, states, shown, browser, purge, raced>>

StoreState(r) ==
  /\ run[r].at = "state"
  /\ states' = states \cup {run[r].flow}
  /\ Goto(r, "await")
  /\ UNCHANGED <<others, tokens, client, pending, code>>

(* await_code: pending and code are read one after the other; without a code   *)
(* the run is interrupted and shows the URL it read.                           *)
ReadPending(r) ==
  /\ run[r].at = "await"
  /\ run' = [run EXCEPT ![r].at = "code", ![r].saw = pending]
  /\ UNCHANGED <<others, store>>

ReadCode(r) ==
  /\ run[r].at = "code"
  /\ IF code # 0
     THEN /\ run' = [run EXCEPT ![r].at = "dropCode", ![r].got = code]
          /\ UNCHANGED shown
     ELSE /\ run' = [run EXCEPT ![r] = NoRun]
          /\ shown' = shown \cup ({run[r].saw} \ {0})
  /\ UNCHANGED <<row, rows, store, flow, browser, purge, raced>>

DropCode(r) ==
  /\ run[r].at = "dropCode"
  /\ code' = 0
  /\ Goto(r, "dropPending")
  /\ UNCHANGED <<others, tokens, client, pending, states>>

DropPending(r) ==
  /\ run[r].at = "dropPending"
  /\ pending' = 0
  /\ Goto(r, "exchange")
  /\ UNCHANGED <<others, tokens, client, code, states>>

(* The SDK refuses a code that does not come with its current state; the       *)
(* authorization server may refuse it too.                                     *)
Exchange(r) ==
  /\ run[r].at = "exchange"
  /\ tokens' \in IF run[r].saw = run[r].flow THEN {tokens, run[r].row} ELSE {tokens}
  /\ run' = [run EXCEPT ![r] = NoRun]
  /\ UNCHANGED <<others, client, pending, code, states>>

---------------------------------------------------------------------------
(* The callback: complete_from_browser, or abandon_from_browser on a denial.   *)

Callback(f, denied) ==
  /\ browser.at = "idle" /\ f \in shown /\ f \in states
  /\ browser' = [at |-> "state", flow |-> f, denied |-> denied]
  /\ raced' = (raced \/ purge # <<>>)
  /\ UNCHANGED <<row, rows, store, flow, shown, run, purge>>

DropState ==
  /\ browser.at = "state"
  /\ states' = states \ {browser.flow}
  /\ browser' = [browser EXCEPT !.at = IF browser.denied THEN "dropPending" ELSE "pending"]
  /\ UNCHANGED <<row, rows, tokens, client, pending, code, flow, shown, run, purge, raced>>

(* A callback whose flow is no longer parked is refused. *)
AcceptsAll(parked) == TRUE
Accepts(parked) == parked # 0

CheckPending ==
  /\ browser.at = "pending"
  /\ browser' = IF Accepts(pending) THEN [browser EXCEPT !.at = "park"] ELSE NoCallback
  /\ UNCHANGED <<row, rows, store, flow, shown, run, purge, raced>>

ParkCode ==
  /\ browser.at = "park"
  /\ code' = browser.flow /\ browser' = NoCallback
  /\ UNCHANGED <<row, rows, tokens, client, pending, states, flow, shown, run, purge, raced>>

AbandonPending ==
  /\ browser.at = "dropPending"
  /\ pending' = 0 /\ browser' = [browser EXCEPT !.at = "dropCode"]
  /\ UNCHANGED <<row, rows, tokens, client, code, states, flow, shown, run, purge, raced>>

AbandonCode ==
  /\ browser.at = "dropCode"
  /\ code' = 0 /\ browser' = NoCallback
  /\ UNCHANGED <<row, rows, tokens, client, pending, states, flow, shown, run, purge, raced>>

(* An entry of the token store reaches its TTL. *)
Expire ==
  /\ \/ tokens # 0 /\ tokens' = 0 /\ UNCHANGED <<pending, code, states>>
     \/ pending # 0 /\ pending' = 0 /\ UNCHANGED <<tokens, code, states>>
     \/ code # 0 /\ code' = 0 /\ UNCHANGED <<tokens, pending, states>>
     \/ \E f \in states : states' = states \ {f} /\ UNCHANGED <<tokens, pending, code>>
  /\ UNCHANGED <<others, client, run>>

Next ==
  \/ Create \/ Delete \/ Purge
  \/ \E r \in Runs :
       \/ Connect(r) \/ GetTokens(r) \/ GetClient(r) \/ SetClient(r) \/ ParkUrl(r)
       \/ StoreState(r) \/ ReadPending(r) \/ ReadCode(r) \/ DropCode(r)
       \/ DropPending(r) \/ Exchange(r)
  \/ \E f \in shown, denied \in BOOLEAN : Callback(f, denied)
  \/ DropState \/ CheckPending \/ ParkCode \/ AbandonPending \/ AbandonCode \/ Expire

Spec == Init /\ [][Next]_vars

---------------------------------------------------------------------------
(* Types. *)
TypeOK ==
  /\ row \in 0 .. rows /\ rows \in 0 .. MaxRows
  /\ {tokens, client} \subseteq 0 .. rows
  /\ flow \in Seq(1 .. MaxRows) /\ Len(flow) <= MaxFlows
  /\ {pending, code} \cup states \cup shown \subseteq 0 .. Len(flow)
  /\ \A r \in Runs : run[r].at \in {"idle", "tokens", "client", "register", "redirect",
       "state", "await", "code", "dropCode", "dropPending", "exchange"}
  /\ browser.at \in {"idle", "state", "pending", "park", "dropPending", "dropCode"}

(* "Recreating the same name must start clean: tokens, the parked browser flow *)
(* and the DCR client registration all belong to the deleted row"              *)
(* (hub/services.py:294). It does, whatever was parked or is delivered late,   *)
(* as long as nobody was in the middle of a flow when the row was deleted: a   *)
(* late callback finds no pending flow until a run of the new row parks one.   *)
StartsClean ==
  row # 0 /\ ~raced =>
    /\ {tokens, client} \subseteq {0, row}
    /\ pending # 0 => flow[pending] = row
    /\ code # 0 => flow[code] = row \/ \E f \in 1 .. Len(flow) : flow[f] = row
=============================================================================
