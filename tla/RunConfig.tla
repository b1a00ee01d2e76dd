----------------------------- MODULE RunConfig -----------------------------
(***************************************************************************)
(* What a run executes with: how the body of a request (or the payload of  *)
(* a cron job) and the row of its assistant become the job that is stored  *)
(* in execution_params, and how the job, held in memory by the local       *)
(* executor or read back by a worker, becomes the configuration LangGraph  *)
(* is called with (usecase/execution/run_preparation.py, run_job.py,       *)
(* run_executor.py, repo/graphs/langgraph_service.py).                     *)
(*                                                                         *)
(* A dictionary is a function on a subset of Keys.  "user_id" stands for   *)
(* the three identity keys, "k" for every key of the caller's own.         *)
(***************************************************************************)
EXTENDS Naturals, Sequences

CONSTANTS Bodies,         \* the request bodies that are tried
          AssistantRows,  \* the configurations an assistant may be given
          Users, MaxRuns, MaxEdits, MaxAttempts

VARIABLES
  assistant,  \* the row of the assistant: a set, empty once it is deleted
  edits,      \* how often the row was written
  cron,       \* the cron job's payload and owner: a set of at most one
  runs        \* the runs: row, local job, and the calls made for it

vars == <<assistant, edits, cron, runs>>

None == "none"
Null == "null"
Absent == [x \in {"absent"} |-> Null]          \* no dictionary was sent
NotMapping == [x \in {"scalar"} |-> Null]      \* something else was sent

IdentityKeys == {"user_id"}
PinnedKeys == IdentityKeys \cup {"thread_id", "run_id"}
Empty == [x \in {} |-> Null]

strip_pinned_config_keys(d, keys) == [x \in DOMAIN d \ keys |-> d[x]]

\* One dictionary laid over another, key by key.
Over(new, old) ==
  [x \in DOMAIN new \cup DOMAIN old |-> IF x \in DOMAIN new THEN new[x] ELSE old[x]]

\* merge_jsonb: later dictionaries win, key by key, at the top level only.
merge_jsonb(old, new) == Over(new, old)

----------------------------------------------------------------------------
(* The request: RunCreate and its validator.                               *)

\* A body is accepted with exactly one of input and command, an empty input
\* beside a command being dropped; with neither it needs a checkpoint.
HasCheckpoint(b) == b.checkpoint # Absent \/ b.checkpoint_id # None
Valid(b) ==
  /\ ~(b.input = "some" /\ b.command # None)
  /\ b.input # None \/ b.command # None \/ HasCheckpoint(b)
Input(b) == IF b.command # None THEN None ELSE b.input

\* What a cron job keeps of its creation request, and the RunCreate a firing
\* builds from it: crons have no command and no checkpoint.
build_payload(b) ==
  [input |-> b.input, config |-> b.config, context |-> b.context,
   durability |-> b.durability, checkpoint_during |-> b.checkpoint_during]
build_run_create(p) ==
  [input |-> p.input, config |-> p.config, context |-> p.context,
   durability |-> p.durability, checkpoint_during |-> p.checkpoint_during,
   checkpoint |-> Absent, checkpoint_id |-> None, command |-> None]

\* The top-level checkpoint_id fills in for a checkpoint that names none.
resolve_checkpoint(b) ==
  IF b.checkpoint_id = None THEN b.checkpoint
  ELSE Over(IF b.checkpoint = Absent THEN Empty ELSE b.checkpoint,
            [x \in {"checkpoint_id"} |-> b.checkpoint_id])

\* durability, then the deprecated checkpoint_during, then the server default.
resolve_durability(b) ==
  IF b.durability # None THEN b.durability
  ELSE IF b.checkpoint_during = None THEN "default"
  ELSE IF b.checkpoint_during = "yes" THEN "async" ELSE "exit"

----------------------------------------------------------------------------
(* _prepare_run: from a body, a user and the assistant's row to a job.     *)

\* The request's configurable is always a member of its config, so it takes
\* the place of the assistant's whole configurable in the merge.
Config(b, row) ==
  [top |-> merge_jsonb(row.top, strip_pinned_config_keys(b.config.top, PinnedKeys)),
   configurable |->
     strip_pinned_config_keys(
       IF b.config.configurable = Absent THEN Empty ELSE b.config.configurable, PinnedKeys)]

Context(b, row) ==
  LET own == strip_pinned_config_keys(b.context, IdentityKeys)
  IN  strip_pinned_config_keys(
        merge_jsonb(row.context,
                     IF own = Empty THEN Config(b, row).configurable ELSE own),
        IdentityKeys)

Job(n, b, user, row) ==
  [run_id |-> n, thread_id |-> "thread", user |-> user,
   input |-> Input(b), command |-> b.command,
   config |-> Config(b, row), context |-> Context(b, row),
   checkpoint |-> resolve_checkpoint(b), durability |-> resolve_durability(b)]

\* The JSONB column: run_id and thread_id are columns of their own.
to_execution_params(job) ==
  [user |-> job.user,
   execution |-> [input |-> job.input, command |-> job.command, config |-> job.config,
                  context |-> job.context, checkpoint |-> job.checkpoint,
                  durability |-> job.durability]]

\* A worker that forgets a member of the stored execution (a mutant).
FromRunOrmDefaults(n, params) ==
  Over([run_id |-> n, thread_id |-> "thread", user |-> params.user, durability |-> "default"],
       params.execution)

from_run_orm(n, params) ==
  Over([run_id |-> n, thread_id |-> "thread", user |-> params.user], params.execution)

----------------------------------------------------------------------------
(* _build_run_config and create_run_config: from a job to the call.        *)

\* A checkpoint merged as it was sent (a mutant).
CheckpointKeysAsSent(c) ==
  IF c = Absent THEN Empty ELSE [x \in {y \in DOMAIN c : c[y] # Null} |-> c[x]]

\* What a checkpoint of the request may add to configurable.
CheckpointKeys(c) ==
  IF c = Absent THEN Empty
  ELSE LET safe == strip_pinned_config_keys(c, PinnedKeys)
       IN  [x \in {y \in DOMAIN safe : safe[y] # Null} |-> safe[x]]

create_run_config(job) ==
  LET routed == Over([thread_id |-> job.thread_id, run_id |-> job.run_id],
                     job.config.configurable)
      placed == Over(CheckpointKeys(job.checkpoint), routed)
  IN  [top |-> Over(job.config.top, [run_id |-> job.run_id]),
       configurable |-> Over([user_id |-> job.user], placed)]

Call(job) ==
  [config |-> create_run_config(job), context |-> job.context,
   input |-> IF job.command # None THEN job.command ELSE job.input,
   durability |-> job.durability]

----------------------------------------------------------------------------
Init ==
  /\ \E row \in AssistantRows : assistant = {row}
  /\ edits = 0
  /\ cron = {}
  /\ runs = <<>>

\* The run that a body gives for a user: 422 for a configurable that is no
\* mapping and 404 without an assistant leave nothing behind.
Prepare(b, user) ==
  /\ Len(runs) < MaxRuns
  /\ Valid(b)
  /\ b.config.configurable # NotMapping
  /\ \E row \in assistant :
       LET job == Job(Len(runs) + 1, b, user, row)
       IN  runs' = Append(runs,
             [asked |-> b, owner |-> user,
              job |-> job, params |-> to_execution_params(job), calls |-> <<>>])
  /\ UNCHANGED <<assistant, edits, cron>>

CreateRun == \E b \in Bodies, u \in Users : Prepare(b, u)

CreateCron ==
  /\ cron = {}
  /\ \E b \in Bodies, u \in Users :
       b.input # None /\ cron' = {[payload |-> build_payload(b), user |-> u]}
  /\ UNCHANGED <<assistant, edits, runs>>

FireCron == \E c \in cron : Prepare(build_run_create(c.payload), c.user)

\* PATCH or DELETE of the assistant, at any time.
EditAssistant ==
  /\ edits < MaxEdits
  /\ assistant # {}
  /\ assistant' \in {{row} : row \in AssistantRows} \cup {{}}
  /\ edits' = edits + 1
  /\ UNCHANGED <<cron, runs>>

\* The local executor runs the job it holds; a worker, or the next worker
\* after a lost lease, the one it reads back.
Execute(n, job) ==
  /\ Len(runs[n].calls) < MaxAttempts
  /\ runs' = [runs EXCEPT ![n].calls = Append(@, Call(job))]
  /\ UNCHANGED <<assistant, edits, cron>>

ExecuteLocally == \E n \in DOMAIN runs : runs[n].calls = <<>> /\ Execute(n, runs[n].job)
ExecuteFromRow == \E n \in DOMAIN runs : Execute(n, from_run_orm(n, runs[n].params))

Next == CreateRun \/ CreateCron \/ FireCron \/ EditAssistant \/ ExecuteLocally \/ ExecuteFromRow

Spec == Init /\ [][Next]_vars

----------------------------------------------------------------------------
TypeOK ==
  /\ assistant \subseteq AssistantRows
  /\ edits \in 0..MaxEdits
  /\ \A c \in cron : c.user \in Users
  /\ Len(runs) <= MaxRuns
  /\ \A n \in DOMAIN runs : runs[n].owner \in Users /\ Len(runs[n].calls) <= MaxAttempts

\* The checkpoint a body asks for: the one its checkpoint or checkpoint_id
\* names, else the one in its own configurable.
CheckpointAsked(b) ==
  LET c == resolve_checkpoint(b) IN
  IF c # Absent /\ "checkpoint_id" \in DOMAIN c /\ c["checkpoint_id"] # Null
  THEN c["checkpoint_id"] ELSE b.config.configurable["checkpoint_id"]

\* Every call made for a run, the first or a retry, from memory or from its
\* row, before or after the assistant is edited, acts for the user, thread and
\* run the server chose, whatever its body, its checkpoint or its assistant
\* say, and gives the graph the input, checkpoint and durability asked for.
ExecutesAsRequested ==
  \A n \in DOMAIN runs :
    LET run == runs[n]
    IN \A i \in DOMAIN run.calls :
       LET c == run.calls[i] IN
       /\ c.config.configurable["user_id"] = run.owner
       /\ c.config.configurable["thread_id"] = "thread"
       /\ c.config.configurable["run_id"] = n
       /\ "user_id" \notin DOMAIN c.context
       /\ c = run.calls[1]
       /\ c.input = IF run.asked.command # None THEN run.asked.command ELSE run.asked.input
       /\ run.asked.durability # None => c.durability = run.asked.durability
       /\ "checkpoint_id" \in DOMAIN c.config.configurable =>
            c.config.configurable["checkpoint_id"] = CheckpointAsked(run.asked)
=============================================================================
