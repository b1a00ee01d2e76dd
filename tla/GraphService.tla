---------------------------- MODULE GraphService ----------------------------
(* LangGraphService (repo/graphs/langgraph_service.py) and the factory         *)
(* registry (graph_factory.py), for one graph whose file may change under a    *)
(* running server. A request stops where the code awaits and goes on to look   *)
(* at the caches: while a 0-arg factory of the module builds the graph, and    *)
(* while a factory called with the defaults does.                              *)
EXTENDS Naturals

CONSTANTS
  Requests,      \* concurrent requests for the graph
  Users,         \* their users
  Kinds,         \* what the file may be: a graph, a 0-arg factory, a factory, broken
  MaxEdits       \* how often the file changes

NoUser == "none"

VARIABLES
  file,        \* the export on disk: its kind and the edit that made it
  base,        \* _base_graph_cache
  factory,     \* _graph_factories: the callable, by the edit it comes from
  hook,        \* _FACTORY_KWARGS: the export whose signature was classified
  req,         \* req[r]: operation, user, place, graph being built or obtained
  \* History, read by the properties only:
  stable,      \* stable[r]: neither the file nor the caches changed under r, and
               \* what it obtained is no leftover of a load that was overtaken
  reload       \* the edit at the last invalidation, and whether a load was in flight

vars == <<file, base, factory, hook, req, stable, reload>>

NoGraph == [edit |-> 0, user |-> NoUser, hook |-> 0]
Graph(e, u, h) == [edit |-> e, user |-> u, hook |-> h]

(* initialize: the module has been loaded once, and what it exports registered. *)
Init ==
  /\ file \in [kind : Kinds \ {"broken"}, edit : {1}]
  /\ base = IF file.kind = "factory" THEN NoGraph ELSE Graph(1, NoUser, 0)
  /\ factory = IF file.kind = "factory" THEN 1 ELSE 0
  /\ hook = factory
  /\ req = [r \in Requests |-> [op |-> "", user |-> NoUser, at |-> "idle",
                                graph |-> NoGraph]]
  /\ stable = [r \in Requests |-> TRUE]
  /\ reload = [edit |-> 1, raced |-> FALSE]

Obtains(r, g) == req' = [req EXCEPT ![r].at = "done", ![r].graph = g]
Refused(r) == req' = [req EXCEPT ![r].at = "failed"]
Builds(r, place, g) == req' = [req EXCEPT ![r].at = place, ![r].graph = g]

(* invoke_factory: the hook of the registry says with which arguments the       *)
(* callable is called; the runtime is built for the user of the request.        *)
Invoked(f, h, user) == Graph(f, user, h)

(* _load_graph_from_file on a factory: classified, unless the graph already has *)
(* a hook, and stored.                                                          *)
Classified(h, e) == IF h = 0 THEN e ELSE h

(* _get_base_graph, in a request that finds neither a cached graph nor a        *)
(* factory: the module is loaded. A factory found there is registered and       *)
(* called with the defaults, which is awaited.                                  *)
LoadBase(r) ==
  \/ /\ file.kind = "factory"
     /\ factory' = file.edit /\ hook' = Classified(hook, file.edit)
     /\ Builds(r, "base", Invoked(file.edit, hook', NoUser))
     /\ UNCHANGED base
  \/ /\ file.kind = "graph"
     /\ base' = Graph(file.edit, NoUser, 0)
     /\ Obtains(r, base')
     /\ UNCHANGED <<factory, hook>>
  \/ /\ file.kind = "zero"
     /\ Builds(r, "base", Graph(file.edit, NoUser, 0))
     /\ UNCHANGED <<base, factory, hook>>
  \/ /\ file.kind = "broken"
     /\ Refused(r)
     /\ UNCHANGED <<base, factory, hook>>

(* _get_base_graph; its callers come here only while no factory is registered. *)
GetBase(r) ==
  IF base # NoGraph THEN Obtains(r, base) /\ UNCHANGED <<base, factory, hook>>
  ELSE LoadBase(r)

(* get_graph, for an execution or a state operation. After an invalidation the *)
(* module is loaded to find out whether it is a factory: of a static export    *)
(* that load's result is dropped, and _get_base_graph loads it again.          *)
GetGraph(r, u) ==
  /\ req[r].at = "new" /\ req[r].op = "run" /\ req[r].user = u
  /\ \/ /\ factory # 0
        /\ Obtains(r, Invoked(factory, hook, u))
        /\ UNCHANGED <<base, factory, hook>>
     \/ /\ factory = 0 /\ (base # NoGraph \/ file.kind \in {"graph", "broken"})
        /\ GetBase(r)
     \/ /\ factory = 0 /\ base = NoGraph /\ file.kind = "factory"
        /\ factory' = file.edit /\ hook' = Classified(hook, file.edit)
        /\ Obtains(r, Invoked(file.edit, hook', u))
        /\ UNCHANGED base
     \/ /\ factory = 0 /\ base = NoGraph /\ file.kind = "zero"
        /\ Builds(r, "probe", NoGraph)
        /\ UNCHANGED <<base, factory, hook>>
  /\ UNCHANGED <<file, stable, reload>>

(* The 0-arg factory of that first load is done: a factory registered meanwhile *)
(* is used for the request, else the base graph is got.                         *)
Probed(r) ==
  /\ req[r].at = "probe"
  /\ IF factory # 0
     THEN /\ Obtains(r, Invoked(factory, hook, req[r].user))
          /\ UNCHANGED <<base, factory, hook>>
     ELSE GetBase(r)
  /\ UNCHANGED <<file, stable, reload>>

(* The load of _get_base_graph is done. Only static graphs are to be cached:   *)
(* what the check asks is whether a factory is registered now.                 *)
Loaded(r) ==
  /\ req[r].at = "base"
  /\ Obtains(r, req[r].graph)
  /\ base' = IF factory = 0 THEN req[r].graph ELSE base
  /\ UNCHANGED <<file, factory, hook, stable, reload>>

(* get_graph_for_validation: a factory is called for the reader, a static graph *)
(* comes from the cache.                                                        *)
Validate(r, u) ==
  /\ req[r].at = "new" /\ req[r].op = "read" /\ req[r].user = u
  /\ IF factory # 0
     THEN /\ Obtains(r, Invoked(factory, hook, u))
          /\ UNCHANGED <<base, factory, hook>>
     ELSE GetBase(r)
  /\ UNCHANGED <<file, stable, reload>>

Request(r, op, u) ==
  /\ req[r].at = "idle"
  /\ req' = [req EXCEPT ![r].op = op, ![r].user = u, ![r].at = "new"]
  /\ UNCHANGED <<file, base, factory, hook, stable, reload>>

Answer(r) ==
  /\ req[r].at \in {"done", "failed"}
  /\ req' = [req EXCEPT ![r] = [op |-> "", user |-> NoUser, at |-> "idle",
                                graph |-> NoGraph]]
  /\ stable' = [stable EXCEPT ![r] = TRUE]
  /\ UNCHANGED <<file, base, factory, hook, reload>>

Unsettled == [r \in Requests |->
  stable[r] /\ req[r].at \notin {"probe", "base"} /\ (reload.raced => req[r].at # "done")]

(* The file is edited; hot reload then calls invalidate_cache. *)
Edit(kind) ==
  /\ file.edit <= MaxEdits
  /\ file' = [kind |-> kind, edit |-> file.edit + 1]
  /\ stable' = Unsettled
  /\ UNCHANGED <<base, factory, hook, req, reload>>

Reloaded == [edit |-> file.edit, raced |-> \E r \in Requests : req[r].at = "base"]
InvalidateKeepsHook ==
  /\ base' = NoGraph /\ factory' = 0
  /\ stable' = Unsettled /\ reload' = Reloaded
  /\ UNCHANGED <<file, hook, req>>
InvalidateKeepsFactory ==
  /\ base' = NoGraph /\ hook' = 0
  /\ stable' = Unsettled /\ reload' = Reloaded
  /\ UNCHANGED <<file, factory, req>>
Invalidate ==
  /\ base' = NoGraph /\ factory' = 0 /\ hook' = 0
  /\ stable' = Unsettled /\ reload' = Reloaded
  /\ UNCHANGED <<file, req>>

Next ==
  \/ \E r \in Requests :
       \/ Probed(r) \/ Loaded(r) \/ Answer(r)
       \/ \E u \in Users : \/ GetGraph(r, u) \/ Validate(r, u)
                           \/ \E op \in {"run", "read"} : Request(r, op, u)
  \/ \E kind \in Kinds : Edit(kind)
  \/ Invalidate

Spec == Init /\ [][Next]_vars

-----------------------------------------------------------------------------
(* Types. *)
TypeOK ==
  /\ file \in [kind : Kinds, edit : 1 .. MaxEdits + 1]
  /\ factory \in 0 .. file.edit /\ hook \in 0 .. file.edit
  /\ \A r \in Requests : req[r].at \in {"idle", "new", "probe", "base", "done", "failed"}

Done(r) == req[r].at = "done"

(* Whatever is edited, invalidated and loaded at the same time: a graph that a  *)
(* request gets was never built for another user; a factory was called with the *)
(* arguments of its own signature; and an execution of a factory graph runs     *)
(* with its user unless the file or the caches changed under it or the last     *)
(* invalidation overtook a load, which then caches a factory's graph for all.   *)
GraphIsOwn == \A r \in Requests : Done(r) =>
  LET g == req[r].graph
  IN  /\ g.user \in {NoUser, req[r].user}
      /\ g.hook \in {0, g.edit}
      /\ req[r].op = "run" /\ g.hook # 0 /\ stable[r] /\ ~reload.raced
           => g.user = req[r].user

(* After an invalidation neither the cache nor the factory registry holds what *)
(* the file held before it, and the cache holds no graph of a factory, unless a *)
(* load was in flight when it came: that one is cached when it ends, and stays. *)
ReloadTakesEffect == ~reload.raced =>
  /\ base # NoGraph => base.edit >= reload.edit /\ base.hook = 0
  /\ factory # 0 => factory >= reload.edit
=============================================================================
