----------------------------- MODULE Assistants -----------------------------
(* Assistants and their versions (usecase/assistant_service.py): the two       *)
(* tables of repo/orm.py and the requests that write them.  An update reads    *)
(* the row, reads the highest version, commits a new version and then commits  *)
(* the row, each in a statement of its own.  Requests that are refused before  *)
(* they write anything are left out; assistant ids are chosen by clients and   *)
(* may be used again after a deletion.                                         *)
EXTENDS Naturals, FiniteSets, FiniteSetsExt

CONSTANTS
  Ids, Users, Requests,
  Values,        \* non-empty values of config["configurable"] and of context
  Keys,          \* metadata keys
  MaxWrites      \* bound of the instance: requests made

Empty == "empty"       \* {} and null, which the code does not tell apart
Absent == [owner |-> "nobody"]
Idle == [at |-> "idle"]

VARIABLES
  row,       \* the assistant table
  versions,  \* versions[a]: the assistant_versions rows, by number
  req,       \* req[r]: an update or set_latest between two of its statements
  writes,    \* creates and updates begun so far
  \* History, read by the properties only:
  reborn,    \* ids used again while a request on the old assistant was under way
  behind     \* assistants whose row may be behind their newest version

vars == <<row, versions, req, writes, reborn, behind>>

Exists(a) == row[a] # Absent
Numbers(a) == DOMAIN versions[a]
On(a) == {r \in Requests : req[r].at # "idle" /\ req[r].id = a}

(* idx_assistant_user_graph_config, with one graph: a user has no two          *)
(* assistants with the same config.                                            *)
Taken(a, owner, conf) ==
  \E b \in Ids \ {a} : Exists(b) /\ row[b].owner = owner /\ row[b].content.conf = conf

Init ==
  /\ row = [a \in Ids |-> Absent]
  /\ versions = [a \in Ids |-> [n \in {} |-> n]]
  /\ req = [r \in Requests |-> Idle]
  /\ writes = 0 /\ reborn = {} /\ behind = {}

(* create_assistant: config and context are kept up to date with one another;  *)
(* the row and its version 1 are one transaction, and a conflict on the key or *)
(* on the unique index inserts nothing.                                        *)
Create(a, owner) ==
  /\ ~Exists(a)
  /\ writes < MaxWrites
  /\ \E conf \in Values \cup {Empty}, meta \in SUBSET Keys :
       LET content == [conf |-> conf, ctx |-> conf, meta |-> meta] IN
       /\ ~Taken(a, owner, conf)
       /\ row' = [row EXCEPT ![a] = [owner |-> owner, version |-> 1, content |-> content]]
       /\ versions' = [versions EXCEPT ![a] = [n \in {1} |-> content]]
  /\ writes' = writes + 1
  /\ reborn' = IF On(a) # {} THEN reborn \cup {a} ELSE reborn
  /\ behind' = behind \ {a}
  /\ UNCHANGED req

---------------------------------------------------------------------------
(* update_assistant *)

(* Of context and config["configurable"] the one that was supplied wins and    *)
(* the other is derived from it; metadata is merged into the stored one.       *)
ConfigOnly(old, config, context) ==
  [conf |-> IF config = "omitted" THEN old.conf ELSE config,
   ctx |-> IF context = "omitted" THEN old.ctx ELSE context]
Mirrored(old, config, context) ==
  LET both == IF context # "omitted" THEN context
              ELSE IF config # "omitted" THEN config
              ELSE IF old.conf # Empty THEN old.conf ELSE old.ctx
  IN [conf |-> both, ctx |-> both]

Updated(old, config, context, keys) ==
  LET both == Mirrored(old, config, context)
  IN [conf |-> both.conf, ctx |-> both.ctx, meta |-> old.meta \cup keys]

(* The request reads the caller's row; config and context are not both given. *)
ReadRow(r) ==
  /\ req[r].at = "idle" /\ writes < MaxWrites
  /\ \E a \in Ids, user \in Users, config, context \in Values \cup {Empty, "omitted"},
        keys \in SUBSET Keys :
       /\ Exists(a) /\ row[a].owner = user
       /\ config \in Values => context \notin Values
       /\ req' = [req EXCEPT ![r] =
            [at |-> "read", id |-> a, user |-> user,
             content |-> Updated(row[a].content, config, context, keys)]]
       /\ behind' = IF On(a) # {} THEN behind \cup {a} ELSE behind
  /\ writes' = writes + 1
  /\ UNCHANGED <<row, versions, reborn>>

ReadMax(r) ==
  /\ req[r].at = "read"
  /\ req' = [req EXCEPT ![r] =
       [at |-> "insert", id |-> @.id, user |-> @.user, content |-> @.content,
        version |-> IF Numbers(@.id) = {} THEN 1 ELSE Max(Numbers(@.id)) + 1]]
  /\ UNCHANGED <<row, versions, writes, reborn, behind>>

FreeAlways(a, n) == TRUE
Free(a, n) == n \notin Numbers(a)

(* The new version commits, unless its number is taken by now or the assistant *)
(* is gone (a key violation: the request fails and nothing is written).        *)
InsertVersion(r) ==
  LET a == req[r].id  n == req[r].version IN
  /\ req[r].at = "insert"
  /\ IF Exists(a) /\ Free(a, n)
     THEN /\ versions' = [versions EXCEPT ![a] =
               [m \in Numbers(a) \cup {n} |-> IF m = n THEN req[r].content ELSE versions[a][m]]]
          /\ req' = [req EXCEPT ![r].at = "write"]
     ELSE req' = [req EXCEPT ![r] = Idle] /\ UNCHANGED versions
  /\ UNCHANGED <<row, writes, reborn, behind>>

(* The row takes the version's content and number.  The statement matches no   *)
(* row when the assistant is gone, and fails when the config is another        *)
(* assistant's; the version stays.                                             *)
WrittenButMetadata(old, content, version) ==
  [old EXCEPT !.content = [content EXCEPT !.meta = old.content.meta], !.version = version]

WrittenButVersion(old, content, version) == [old EXCEPT !.content = content]
Written(old, content, version) == [old EXCEPT !.content = content, !.version = version]

WriteRow(r) ==
  LET a == req[r].id IN
  /\ req[r].at = "write"
  /\ LET mine == Exists(a) /\ row[a].owner = req[r].user
         fails == Taken(a, req[r].user, req[r].content.conf) IN
     /\ row' = IF mine /\ ~fails
               THEN [row EXCEPT ![a] = Written(@, req[r].content, req[r].version)]
               ELSE row
     /\ behind' = IF fails THEN behind \cup {a} ELSE behind
  /\ req' = [req EXCEPT ![r] = Idle]
  /\ UNCHANGED <<versions, writes, reborn>>

(* The server stops between the two commits. *)
Drop(r) ==
  /\ req[r].at # "idle"
  /\ req' = [req EXCEPT ![r] = Idle]
  /\ behind' = behind \cup {req[r].id}
  /\ UNCHANGED <<row, versions, writes, reborn>>

(* set_assistant_latest reads the version; WriteRow copies it to the row. *)
ReadVersion(r) ==
  /\ req[r].at = "idle" /\ writes < MaxWrites
  /\ \E a \in Ids : Exists(a) /\ \E n \in Numbers(a) :
       /\ req' = [req EXCEPT ![r] = [at |-> "write", id |-> a, user |-> row[a].owner,
                                     content |-> versions[a][n], version |-> n]]
       /\ behind' = behind \cup {a}
  /\ writes' = writes + 1
  /\ UNCHANGED <<row, versions, reborn>>

(* delete_assistant; the versions go with the row. *)
Delete(a) ==
  /\ Exists(a)
  /\ row' = [row EXCEPT ![a] = Absent]
  /\ versions' = [versions EXCEPT ![a] = [n \in {} |-> n]]
  /\ UNCHANGED <<req, writes, reborn, behind>>

Next ==
  \/ \E a \in Ids : Delete(a) \/ \E u \in Users : Create(a, u)
  \/ \E r \in Requests : ReadRow(r) \/ ReadMax(r) \/ InsertVersion(r) \/ WriteRow(r)
                           \/ ReadVersion(r) \/ Drop(r)

Spec == Init /\ [][Next]_vars

---------------------------------------------------------------------------
Content == [conf : Values \cup {Empty}, ctx : Values \cup {Empty}, meta : SUBSET Keys]

(* The tables and the requests have their types. *)
TypeOK ==
  /\ \A a \in Ids :
       /\ Exists(a) => row[a] \in [owner : Users, version : 1 .. MaxWrites, content : Content]
       /\ Numbers(a) \subseteq 1 .. MaxWrites
       /\ \A n \in Numbers(a) : versions[a][n] \in Content
  /\ \A r \in Requests : req[r].at \in {"idle", "read", "insert", "write"}
  /\ reborn \cup behind \subseteq Ids

(* An assistant's row is the copy of the version it names, whatever updates,   *)
(* set_latest, failures and deletions overlap; only an id that is used again   *)
(* while a request on the old assistant is under way may break this.           *)
RowIsItsVersion ==
  \A a \in Ids : Exists(a) /\ a \notin reborn =>
    row[a].version \in Numbers(a) /\ row[a].content = versions[a][row[a].version]

(* "context mirrors config['configurable']" (usecase/assistant_service.py:442) *)
(* in the row and in every version, also after partial updates and updates     *)
(* computed from a row that has changed since.                                 *)
ContextMirrorsConfig ==
  \A a \in Ids : \A n \in Numbers(a) : versions[a][n].conf = versions[a][n].ctx

(* Without set_latest, overlap or failure an assistant is at its newest        *)
(* version: an update leaves no version behind that the row does not have.     *)
AtNewestVersion ==
  \A a \in Ids : Exists(a) /\ a \notin behind \cup reborn /\ On(a) = {} =>
    row[a].version = Max(Numbers(a))

(* A version, once committed, never changes while its assistant lives. *)
KeepsVersions ==
  \A a \in Ids : Exists(a) /\ row'[a] # Absent =>
    \A n \in Numbers(a) : n \in DOMAIN versions'[a] /\ versions'[a][n] = versions[a][n]
=============================================================================
