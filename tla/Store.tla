------------------------------- MODULE Store -------------------------------
(***************************************************************************)
(* The long-term store behind its endpoints                                *)
(* (controller/http/routers/store.py): where an item of a namespace lands  *)
(* once the @auth.on.store handler has seen the request and the namespace  *)
(* is buried under the user's or a configured scope.                       *)
(*                                                                         *)
(* A namespace as it is sent is a sequence of items, each the labels that  *)
(* its dots separate.  LangGraph's store is external: it keeps one value   *)
(* per namespace and key, refuses to put under a label with a dot, and     *)
(* searches by whole labels.  There is one key; labels hold no dot.        *)
(***************************************************************************)
EXTENDS Naturals, Sequences, SequencesExt

CONSTANTS Users,
          Attributes,  \* Attributes[u]: u's attributes, "" for one that is not set
          Configs,     \* store.scopes of langgraph.json: lists of attributes by prefix
          Sent,        \* the namespaces that are sent, or given by the handler
          MaxOps

VARIABLES
  config,   \* store.scopes as configured
  items,    \* the stored items: namespace, writer, and the namespace it meant
  given,    \* the items each user was given
  ops       \* requests so far

vars == <<config, items, given, ops>>

UserScope == "users"

----------------------------------------------------------------------------
normalize_namespace(sent) == FlattenSeq(sent)

\* No item of it holds a dot.
Plain(sent) == \A i \in DOMAIN sent : Len(sent[i]) = 1

\* scope: what already begins with exactly the head is left as it is.
ScopeByPrefix(head, namespace) ==
  IF namespace # <<>> /\ namespace[1] = head[1] THEN namespace ELSE head \o namespace
scope(head, namespace) == IF IsPrefix(head, namespace) THEN namespace ELSE head \o namespace

\* The configured scopes, without the reserved prefix and the empty lists.
scope_attr_map ==
  [x \in {x \in DOMAIN config : x # UserScope /\ config[x] # <<>>} |-> config[x]]

\* apply_namespace_scoping: the head for u, and 403 when an attribute is missing.
InScope(namespace) == namespace # <<>> /\ namespace[1] \in DOMAIN scope_attr_map
ScopeHead(namespace, u) ==
  IF InScope(namespace)
  THEN <<namespace[1]>> \o [i \in DOMAIN config[namespace[1]] |->
                              Attributes[u][config[namespace[1]][i]]]
  ELSE <<UserScope, u>>
Forbidden(namespace, u) ==
  InScope(namespace) /\ \E i \in DOMAIN config[namespace[1]] :
                          Attributes[u][config[namespace[1]][i]] = ""
apply_namespace_scoping(namespace, u) == scope(ScopeHead(namespace, u), namespace)

----------------------------------------------------------------------------
Init ==
  /\ config \in Configs
  /\ items = {}
  /\ given = [u \in Users |-> {}]
  /\ ops = 0

Request == ops < MaxOps /\ ops' = ops + 1 /\ UNCHANGED config

\* PUT: the list of labels as the client, or the handler, gave it; a label with
\* a dot is refused by the store.
PutItem(u, sent) ==
  LET namespace == normalize_namespace(sent) IN
  /\ Request
  /\ Plain(sent)
  /\ ~Forbidden(namespace, u)
  /\ LET at == apply_namespace_scoping(namespace, u)
     IN  items' = {i \in items : i.at # at} \cup {[at |-> at, by |-> u, asked |-> sent]}
  /\ UNCHANGED given

\* GET, of what the request or the handler names: dots separate labels in both.
GetItem(u, sent) ==
  LET namespace == normalize_namespace(sent) IN
  /\ Request
  /\ ~Forbidden(namespace, u)
  /\ given' = [given EXCEPT ![u] =
                 @ \cup {i \in items : i.at = apply_namespace_scoping(namespace, u)}]
  /\ UNCHANGED items

DeleteItem(u, sent) ==
  LET namespace == normalize_namespace(sent) IN
  /\ Request
  /\ ~Forbidden(namespace, u)
  /\ items' = {i \in items : i.at # apply_namespace_scoping(namespace, u)}
  /\ UNCHANGED given

\* Search and list_namespaces: what lies under the prefix, a list of labels.
Under(u, sent) ==
  LET namespace == normalize_namespace(sent)
  IN  {i \in items : IsPrefix(apply_namespace_scoping(namespace, u), i.at)}

SearchItems(u, sent) ==
  /\ Request
  /\ Plain(sent)
  /\ ~Forbidden(normalize_namespace(sent), u)
  /\ given' = [given EXCEPT ![u] = @ \cup Under(u, sent)]
  /\ UNCHANGED items

Next ==
  \E u \in Users, sent \in Sent :
    PutItem(u, sent) \/ GetItem(u, sent) \/ DeleteItem(u, sent) \/ SearchItems(u, sent)

Spec == Init /\ [][Next]_vars

----------------------------------------------------------------------------
TypeOK ==
  /\ config \in Configs /\ ops \in 0..MaxOps
  /\ \A i \in items : i.by \in Users /\ i.asked \in Sent
  /\ \A i, j \in items : i.at = j.at => i = j

\* "Scope store namespaces for data isolation": a user is only ever given items
\* of his own, or items whose writer has the same values as he in every
\* attribute of the configured scope the writer asked for, whatever namespaces
\* clients and handlers send, another user's and another group's included.
Shares(u, i) ==
  LET namespace == normalize_namespace(i.asked)
  IN  \/ i.by = u
      \/ InScope(namespace) /\ ScopeHead(namespace, u) = ScopeHead(namespace, i.by)
Isolated == \A u \in Users : \A i \in given[u] : Shares(u, i)

\* What a user put, and nobody with whom he shares it has replaced or deleted,
\* he finds under the namespace he put it under.
FindsOwn == \A i \in items : i \in Under(i.by, i.asked)
=============================================================================
