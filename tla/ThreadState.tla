---------------------------- MODULE ThreadState ----------------------------
(***************************************************************************)
(* The state and history endpoints of one thread                           *)
(* (controller/http/routers/threads.py, usecase/thread_state_service.py):  *)
(* reading the latest state or the one at a checkpoint, writing a state,   *)
(* and paging through the history, while a run adds checkpoints.           *)
(*                                                                         *)
(* LangGraph's checkpointer is external: a checkpoint's id is its place in *)
(* `checkpoints` (ids are ordered by time), which holds its parent.  Only  *)
(* the root namespace is modelled.                                         *)
(***************************************************************************)
EXTENDS Naturals, Sequences, SequencesExt

CONSTANTS Clients, Limits, MaxCheckpoints, MaxFaults

VARIABLES
  graph,        \* graph_id in the thread's metadata: set by its first run
  checkpoints,  \* the checkpointer's rows, oldest first
  head,         \* the checkpoint the active run stands on, 0 when none runs
  held,         \* per client: the checkpoint it last read, 0 for none
  pager,        \* per client: its walk through the history
  faults        \* faults so far

vars == <<graph, checkpoints, head, held, pager, faults>>

Latest == Len(checkpoints)

\* A walk: the newest checkpoint when it began, the ids it was given, whether
\* it ended, whether an answer was spoilt, and the form `before` is sent in.
NoWalk == [from |-> 0, seen |-> <<>>, open |-> FALSE, spoilt |-> FALSE, form |-> "string"]

----------------------------------------------------------------------------
(* LangGraph, external.                                                    *)

Put(parent) == checkpoints' = Append(checkpoints, [parent |-> parent, readable |-> TRUE])

\* aget_state: the checkpoint the config names, else the latest.
aget_state(checkpoint_id) == IF checkpoint_id = 0 THEN Latest ELSE checkpoint_id

\* aget_state_history: newest first, only ids below `before` when it is given
\* under "configurable", at most `limit` of them.
aget_state_history(before, limit) ==
  LET newest == IF before.form = "config" /\ before.id <= Latest THEN before.id - 1 ELSE Latest
  IN  [i \in 1..(IF limit < newest THEN limit ELSE newest) |-> newest + 1 - i]

----------------------------------------------------------------------------
(* The handlers' own conversions.                                          *)

\* _get_thread_graph_id found a graph, and get_graph could load it.
Loadable == graph = "loadable"

\* A bare checkpoint passed on without the "configurable" around it (a mutant).
BeforeConfigRaw(before) ==
  IF before.form = "string" THEN [before EXCEPT !.form = "config"] ELSE before

\* `before` arrives as an id, as a checkpoint, or as a whole config: each
\* becomes a config with the id under "configurable".
BeforeConfig(before) ==
  IF before.form \in {"string", "checkpoint"} THEN [before EXCEPT !.form = "config"] ELSE before

\* The target of a state update: `checkpoint` wins over `checkpoint_id`.
Target(checkpoint_id, checkpoint) == IF checkpoint # 0 THEN checkpoint ELSE checkpoint_id

\* convert_snapshots_to_thread_states leaves out what it cannot convert.
Convertible(id) == checkpoints[id].readable
Converted(page) ==
  LET kept[i \in 0..Len(page)] ==
        IF i = 0 THEN <<>>
        ELSE IF Convertible(page[i]) THEN Append(kept[i - 1], page[i]) ELSE kept[i - 1]
  IN  kept[Len(page)]

----------------------------------------------------------------------------
Init ==
  /\ graph = "none"
  /\ checkpoints = <<>>
  /\ head = 0
  /\ held = [c \in Clients |-> 0]
  /\ pager = [c \in Clients |-> NoWalk]
  /\ faults = 0

\* A run starts from the checkpoint it names, else from the latest, and puts
\* its first checkpoint.
StartRun ==
  /\ head = 0
  /\ Latest < MaxCheckpoints
  /\ graph # "missing"
  /\ graph' = "loadable"
  /\ \E c \in {0} \cup {held[x] : x \in Clients} : Put(aget_state(c))
  /\ head' = Latest + 1
  /\ UNCHANGED <<held, pager, faults>>

RunStep ==
  /\ head # 0
  /\ Latest < MaxCheckpoints
  /\ Put(head)
  /\ head' = Latest + 1
  /\ UNCHANGED <<graph, held, pager, faults>>

EndRun == head # 0 /\ head' = 0 /\ UNCHANGED <<graph, checkpoints, held, pager, faults>>

\* GET state, or POST state without values, node and checkpoint; 500 when the
\* graph cannot be loaded, and an empty state for a thread without a graph.
GetThreadState(c) ==
  /\ Loadable /\ Latest > 0 /\ Convertible(Latest)
  /\ held' = [held EXCEPT ![c] = aget_state(0)]
  /\ UNCHANGED <<graph, checkpoints, head, pager, faults>>

GetThreadStateAtCheckpoint(c) ==
  /\ Loadable
  /\ \E id \in 1..Latest : Convertible(id) /\ held' = [held EXCEPT ![c] = aget_state(id)]
  /\ UNCHANGED <<graph, checkpoints, head, pager, faults>>

\* POST state with values or as_node: a checkpoint derived from the one named,
\* whether or not a run is active; the client is told its id.
UpdateThreadState(c) ==
  /\ Loadable
  /\ Latest < MaxCheckpoints
  /\ \E a, b \in {0, held[c]} : Put(aget_state(Target(a, b)))
  /\ held' = [held EXCEPT ![c] = Latest + 1]
  /\ UNCHANGED <<graph, head, pager, faults>>

\* The answer to a history request: empty without a graph, and empty too when
\* the graph is not found, the exception being taken for "no history".
History(before, limit) ==
  IF Loadable THEN Converted(aget_state_history(before, limit)) ELSE <<>>

\* A page of the walk w, before the last id it was given; the client stops at
\* a page that is not full.
Page(w, limit) ==
  LET before == BeforeConfig(IF w.seen = <<>> THEN [form |-> "none", id |-> 0]
                             ELSE [form |-> w.form, id |-> Last(w.seen)])
      page == History(before, limit)
  IN  [w EXCEPT !.seen = @ \o page, !.open = Len(page) = limit,
                !.spoilt = @ \/ ~Loadable \/ page # aget_state_history(before, limit)]

FirstPage(c) ==
  /\ ~pager[c].open
  /\ graph # "none"
  /\ \E limit \in Limits, form \in {"string", "checkpoint", "config"} :
       pager' = [pager EXCEPT ![c] =
                   Page([NoWalk EXCEPT !.from = Latest, !.form = form], limit)]
  /\ UNCHANGED <<graph, checkpoints, head, held, faults>>

NextPage(c) ==
  /\ pager[c].open
  /\ \E limit \in Limits : pager' = [pager EXCEPT ![c] = Page(@, limit)]
  /\ UNCHANGED <<graph, checkpoints, head, held, faults>>

\* The graph is taken out of langgraph.json, or a checkpoint cannot be
\* converted by the code that is now deployed.
GraphGone ==
  /\ faults < MaxFaults
  /\ graph = "loadable"
  /\ graph' = "missing"
  /\ faults' = faults + 1
  /\ UNCHANGED <<checkpoints, head, held, pager>>

Unconvertible ==
  /\ faults < MaxFaults
  /\ \E id \in 1..Latest : checkpoints' = [checkpoints EXCEPT ![id].readable = FALSE]
  /\ faults' = faults + 1
  /\ UNCHANGED <<graph, head, held, pager>>

Next ==
  \/ StartRun \/ RunStep \/ EndRun \/ GraphGone \/ Unconvertible
  \/ \E c \in Clients :
       GetThreadState(c) \/ GetThreadStateAtCheckpoint(c) \/ UpdateThreadState(c)
         \/ FirstPage(c) \/ NextPage(c)

Spec == Init /\ [][Next]_vars

----------------------------------------------------------------------------
TypeOK ==
  /\ graph \in {"none", "loadable", "missing"}
  /\ \A i \in DOMAIN checkpoints : checkpoints[i].parent \in 0..(i - 1)
  /\ head \in 0..Latest
  /\ held \in [Clients -> 0..Latest]
  /\ \A c \in Clients : pager[c].from \in 0..Latest /\ pager[c].open \in BOOLEAN
  /\ faults \in 0..MaxFaults

\* A client that pages through the history newest first, in whatever form it
\* sends `before`, while a run and other clients add checkpoints, never sees
\* one twice or out of order; when no answer was spoilt and it reached the
\* end, it saw every checkpoint that existed when it began.
HistoryComplete ==
  \A c \in Clients :
    LET w == pager[c] IN
    /\ \A i, j \in DOMAIN w.seen : i < j => w.seen[j] < w.seen[i]
    /\ (~w.open /\ ~w.spoilt) => ToSet(w.seen) = 1..w.from
=============================================================================
