--------------------------- MODULE HubConnections ---------------------------
(* One user's MCP connection of one name (McpConnectionService, hub/models.py, *)
(* hub/repositories.py): creates, patches and deletions of the row, and the    *)
(* host proxy that uses it. A request reads the row, awaits the policy and the *)
(* URL check, and commits what it changed.                                     *)
EXTENDS Naturals

CONSTANTS Requests, Patches    \* [auth, headers, enabled], "keep" for a field left out

VARIABLES
  conn,    \* the row, or NoRow; its id is the request that created it
  req,     \* req[r]: place, the row it read, its patch
  mixed    \* history: a patch was committed over a row that had changed since
           \* the patch read it

vars == <<conn, req, mixed>>

NoRow == [id |-> "none", auth |-> "none", headers |-> "none", enabled |-> "no"]
NoChange == [auth |-> "keep", headers |-> "keep", enabled |-> "keep"]
Idle == [at |-> "idle", row |-> NoRow, change |-> NoChange]
Present == conn # NoRow

Init == conn = NoRow /\ mixed = FALSE /\ req = [r \in Requests |-> Idle]

Answer(r, answer) == req' = [req EXCEPT ![r] = [Idle EXCEPT !.at = answer]]

(* validate_auth_type_headers: headers exactly when auth_type is headers. *)
PairOk(auth, headers) == (auth = "headers") = (headers = "some")

(* create: the payload is validated, then the name is looked up (409). *)
Create(r, p) ==
  /\ req[r].at = "idle" /\ "keep" \notin {p.auth, p.headers}
  /\ PairOk(p.auth, p.headers)
  /\ IF Present
     THEN Answer(r, "409")
     ELSE req' = [req EXCEPT ![r] = [Idle EXCEPT !.at = "insert", !.change = p]]
  /\ UNCHANGED <<conn, mixed>>

(* The INSERT, enabled; the unique index refuses a second one (500). *)
Insert(r) ==
  /\ req[r].at = "insert"
  /\ IF Present
     THEN UNCHANGED conn /\ Answer(r, "500")
     ELSE /\ conn' = [id |-> r, auth |-> req[r].change.auth,
                      headers |-> req[r].change.headers, enabled |-> "yes"]
          /\ Answer(r, "201")
  /\ UNCHANGED mixed

(* update, delete and the proxy begin with _get_owned (404) and the policy. *)
Read(r, to, p) ==
  /\ req[r].at = "idle"
  /\ IF Present
     THEN req' = [req EXCEPT ![r] = [at |-> to, row |-> conn, change |-> p]]
     ELSE Answer(r, "404")
  /\ UNCHANGED <<conn, mixed>>

(* update: what the patch makes of the row it read, and the check of the pair  *)
(* that results.                                                               *)
Kept(new, old) == IF new = "keep" THEN old ELSE new
Resulting(row, change) ==
  [id |-> row.id, auth |-> Kept(change.auth, row.auth),
   headers |-> Kept(change.headers, row.headers),
   enabled |-> Kept(change.enabled, row.enabled)]
AcceptsChange(row, change) ==
  \/ "keep" \in {change.auth, change.headers}
  \/ PairOk(change.auth, change.headers)
Accepts(row, change) ==
  LET new == Resulting(row, change) IN PairOk(new.auth, new.headers)

(* save: the ORM writes the columns that differ from the row it read; the      *)
(* UPDATE of a row that is gone fails (500).                                   *)
Written(read, new) ==
  [c \in DOMAIN conn |-> IF new[c] = read[c] THEN conn[c] ELSE new[c]]

Update(r) ==
  /\ req[r].at = "update"
  /\ LET read == req[r].row
         new == Resulting(read, req[r].change) IN
     CASE ~Accepts(read, req[r].change) -> UNCHANGED <<conn, mixed>> /\ Answer(r, "422")
       [] Accepts(read, req[r].change) /\ conn.id # read.id ->
            UNCHANGED <<conn, mixed>> /\ Answer(r, "500")
       [] OTHER -> /\ conn' = Written(read, new)
                   /\ mixed' = (mixed \/ conn # read)
                   /\ Answer(r, "200")

Delete(r) ==
  /\ req[r].at = "delete"
  /\ conn' = IF conn.id = req[r].row.id THEN NoRow ELSE conn
  /\ Answer(r, "204")
  /\ UNCHANGED mixed

(* _proxy_row and apps_host: the session is opened with the row that was read. *)
Proxy(r) ==
  /\ req[r].at = "proxy"
  /\ Answer(r, IF req[r].row.enabled = "no" THEN "409" ELSE "called")
  /\ UNCHANGED <<conn, mixed>>

Next ==
  \E r \in Requests :
    \/ \E p \in Patches : Create(r, p) \/ Read(r, "update", p)
    \/ Read(r, "delete", NoChange) \/ Read(r, "proxy", NoChange)
    \/ Insert(r) \/ Update(r) \/ Delete(r) \/ Proxy(r)

Spec == Init /\ [][Next]_vars

---------------------------------------------------------------------------
(* Types. *)
TypeOK ==
  /\ conn.auth \in {"none", "headers", "oauth"} /\ conn.headers \in {"none", "some"}
  /\ conn.enabled \in {"yes", "no"} /\ conn.id \in Requests \cup {"none"}
  /\ \A r \in Requests : req[r].at \in {"idle", "insert", "update", "delete", "proxy", "201",
       "200", "204", "404", "409", "422", "500", "called"}
  /\ mixed \in BOOLEAN

(* A stored pair of auth_type and headers obeys the rule that "keeps a         *)
(* connection from holding credentials nothing will send"                      *)
(* (hub/models.py:227) after every sequence of creates, patches and deletions, *)
(* overlapping ones too, in which no patch commits over a row that changed     *)
(* since it was read.                                                          *)
CredentialShape == Present /\ ~mixed => PairOk(conn.auth, conn.headers)
=============================================================================
