--------------------------- MODULE WorkerExecution ---------------------------
(***************************************************************************)
(* Background run execution in production mode (REDIS_BROKER_ENABLED):     *)
(* the API persists a run and pushes its id on a Redis list, worker loops  *)
(* pop ids into job slots, a job claims its run with a lease, executes the *)
(* graph under a heartbeat and releases the lease; a reaper on every       *)
(* instance recovers expired leases and lost queue entries; a stopping     *)
(* instance drains its jobs and hands the survivors back; the API cancels  *)
(* runs directly in the table or through Redis pub/sub.                    *)
(*                                                                         *)
(* A transaction is one step; between two transactions of a task any other *)
(* task, instance or fault may step.  CancelledError is a flag on the job, *)
(* delivered at the await the job is suspended in.                         *)
(***************************************************************************)
EXTENDS RunTable, Sequences

CONSTANTS
  Runs,         \* run ids, numbered in order of creation
  NoRun,
  Instances,    \* server processes
  Jobs,         \* semaphore slots, N_JOBS_PER_WORKER for each worker
  NoJob,
  WorkerOf,     \* [Jobs -> Workers], the loop that owns the slot
  InstanceOf,   \* [Workers -> Instances]
  Legacy,       \* runs whose row may have no execution_params
  StallsAt,     \* where a live job may miss heartbeats for a whole lease
  Limits        \* how often each fault may happen, one function per scenario

Faults == {"crash",  \* a process is killed
           "stop",   \* a process is asked to stop and drains
           "stall",  \* a live job misses heartbeats until its lease expires
           "redis",  \* a Redis command fails or a pub/sub message is lost
           "db",     \* a database statement of a job fails
           "timeout",\* a job exceeds BG_JOB_TIMEOUT_SECS
           "cancel"} \* a user asks to interrupt a run

ASSUME RunsAssumption == Runs \subseteq Nat /\ NoRun \notin Runs
ASSUME JobsAssumption == NoJob \notin Jobs
ASSUME WorkerOfAssumption == WorkerOf \in [Jobs -> Workers]
ASSUME InstanceOfAssumption == InstanceOf \in [Workers -> Instances]
ASSUME LegacyAssumption == Legacy \subseteq Runs
ASSUME LimitsAssumption == Limits \subseteq [Faults -> Nat]

VARIABLES
  rows,        \* the runs table
  aged,        \* runs created more than STUCK_PENDING_THRESHOLD_SECONDS ago
  submitting,  \* runs committed by _prepare_run and not yet pushed
  queue,       \* the Redis list WORKER_QUEUE_KEY
  job,         \* what each slot runs
  active,      \* active_runs of each instance
  loss, shutdown, timeout, explicit, \* provenance sets of each instance
  inst,        \* life cycle of each instance
  loops,       \* workers whose _worker_loop is still there
  drained,     \* the local list of stop() on each instance
  reaper,      \* the reaper of each instance
  msgs,        \* cancel commands published and not yet handled
  ended,       \* runs whose stream carries an end event
  done,        \* runs whose done key is set
  asked,       \* runs a user asked to interrupt (history)
  spent        \* how many faults of each kind have happened

table    == <<rows, aged>>
sets     == <<loss, shutdown, timeout, explicit>>
process  == <<inst, loops, drained, reaper>>
signals  == <<ended, done>>
requests == <<submitting, asked>>
vars     == <<table, queue, job, active, sets, process, msgs, signals, requests, spent>>

-----------------------------------------------------------------------------
(* Jobs. *)

Unclaimed  == {"created", "acquire"}
Leased     == {"corrupt", "leased"}
Executing  == {"start", "stream", "committed", "cfinal", "csignal", "finally"}
Closing    == {"release", "outer", "finish"}
JobPc      == {"free", "held"} \cup Unclaimed \cup Leased \cup Executing \cup Closing

JobState == [run   : Runs \cup {NoRun},
             pc    : JobPc,
             kill  : BOOLEAN,                         \* CancelledError pending
             outer : {"none", "cancelled", "timedout"}, \* fate of _execute_and_release
             out   : {"none", "error", "interrupted"},  \* what a handler finalizes to
             note  : {"none", "finalized"},
             beat  : BOOLEAN]                         \* heartbeat task still looping

IdleJob == [run |-> NoRun, pc |-> "free", kill |-> FALSE, outer |-> "none",
            out |-> "none", note |-> "none", beat |-> FALSE]

Host(j)    == InstanceOf[WorkerOf[j]]
Slots(i)   == {j \in Jobs : Host(j) = i}
Tasks(i)   == {j \in Slots(i) : job[j].pc \notin {"free", "held"}}
RowOf(j)   == rows[job[j].run]
Goto(j, pc) == job' = [job EXCEPT ![j].pc = pc, ![j].kill = FALSE]

(* A job that is still at work and holds its run's lease in the table. *)
Holds(j, r) == /\ job[j].run = r
               /\ job[j].pc \in Leased \cup Executing \cup Closing
               /\ rows[r].owner = WorkerOf[j]

(* task.cancel() on the task of _execute_and_release: the first one cancels *)
(* the execution below it, _await_cancellation_cleanup swallows the others. *)
Cancelled(jb) ==
  IF jb.outer = "cancelled" THEN jb
  ELSE [jb EXCEPT !.outer = "cancelled",
                  !.kill = jb.pc \notin {"outer", "finish"}]

IdleReaper == [pc |-> "idle", ids |-> {}, stuck |-> {}]

(* Faults fs happen, within one of the scenarios. *)
SpendAll(fs) ==
  LET sum == [f \in Faults |-> IF f \in fs THEN spent[f] + 1 ELSE spent[f]] IN
  /\ \E l \in Limits : \A f \in Faults : sum[f] <= l[f]
  /\ spent' = sum
Spend(f) == SpendAll({f})

-----------------------------------------------------------------------------
Init ==
  /\ rows = [r \in Runs |-> AbsentRow]
  /\ aged = {}
  /\ submitting = {}
  /\ queue = <<>>
  /\ job = [j \in Jobs |-> IdleJob]
  /\ active = [i \in Instances |-> [r \in Runs |-> NoJob]]
  /\ loss = [i \in Instances |-> {}]
  /\ shutdown = [i \in Instances |-> {}]
  /\ timeout = [i \in Instances |-> {}]
  /\ explicit = [i \in Instances |-> {}]
  /\ inst = [i \in Instances |-> "up"]
  /\ loops = Workers
  /\ drained = [i \in Instances |-> {}]
  /\ reaper = [i \in Instances |-> IdleReaper]
  /\ msgs = {}
  /\ ended = {}
  /\ done = {}
  /\ asked = {}
  /\ spent = [f \in Faults |-> 0]

-----------------------------------------------------------------------------
(* The API: create a run, ask to interrupt one. *)

Params(r) == IF r \in Legacy THEN {"ok", "none"} ELSE {"ok"}

(* _prepare_run up to its commit. *)
PrepareRun(r) ==
  /\ rows[r].status = "absent"
  /\ \A s \in Runs : s < r => rows[s].status # "absent"
  /\ \E params \in Params(r) : rows' = [rows EXCEPT ![r] = InsertRun(params)]
  /\ submitting' = submitting \cup {r}
  /\ UNCHANGED <<aged, queue, job, active, sets, process, msgs, signals, asked, spent>>

(* executor.submit, the last call of _prepare_run. *)
Submit(r) ==
  /\ r \in submitting
  /\ submitting' = submitting \ {r}
  /\ queue' = Append(queue, r)
  /\ UNCHANGED <<table, job, active, sets, process, msgs, signals, asked, spent>>

(* RPUSH raises: the client gets an error, the committed row stays. *)
SubmitFails(r) ==
  /\ r \in submitting
  /\ Spend("redis")
  /\ submitting' = submitting \ {r}
  /\ UNCHANGED <<table, queue, job, active, sets, process, msgs, signals, asked>>

(* RedisBrokerManager._execute_cancel on instance i. *)
ExecuteCancel(i, r, emit) ==
  LET j == active[i][r] IN
  IF j = NoJob
  THEN UNCHANGED <<job, explicit, ended>>
  ELSE /\ explicit' = [explicit EXCEPT ![i] = @ \cup {r}]
       /\ job' = [job EXCEPT ![j] = Cancelled(@)]
       /\ ended' = IF emit THEN ended \cup {r} ELSE ended

Publish(r, emit) ==
  msgs' = msgs \cup {[inst |-> i, run |-> r, emit |-> emit] :
                       i \in {k \in Instances : inst[k] # "down"}}

(* _request_run_interruption: a run without a live owner is interrupted in  *)
(* the table, a live-owned one is asked to stop over pub/sub.               *)
InterruptReconciled(r) ==
  /\ Unowned(rows[r])
  /\ Spend("cancel")
  /\ rows' = [rows EXCEPT ![r] = InterruptUnowned(@)]
  /\ Publish(r, FALSE)
  /\ ended' = ended \cup {r}
  /\ asked' = asked \cup {r}
  /\ UNCHANGED <<aged, queue, job, active, sets, process, done, submitting>>

InterruptOwned(r) ==
  /\ IsActive(rows[r]) /\ ~Unowned(rows[r])
  /\ Spend("cancel")
  /\ Publish(r, TRUE)
  /\ asked' = asked \cup {r}
  /\ UNCHANGED <<table, queue, job, active, sets, process, signals, submitting>>

(* PUBLISH fails: request_cancel falls back to the tasks of this process.   *)
InterruptLocally(i, r) ==
  /\ inst[i] = "up"
  /\ IsActive(rows[r]) /\ ~Unowned(rows[r])
  /\ SpendAll({"cancel", "redis"})
  /\ ExecuteCancel(i, r, TRUE)
  /\ asked' = asked \cup {r}
  /\ UNCHANGED <<table, queue, active, loss, shutdown, timeout, process, msgs,
                 done, submitting>>

(* The cancel listener of the addressed instance handles a command. *)
HandleCancelCommand(m) ==
  /\ m \in msgs
  /\ inst[m.inst] # "down"
  /\ msgs' = msgs \ {m}
  /\ ExecuteCancel(m.inst, m.run, m.emit)
  /\ UNCHANGED <<table, queue, active, loss, shutdown, timeout, process, done,
                 requests, spent>>

(* Pub/sub is at most once: a listener that is reconnecting misses it. *)
LoseCancelCommand(m) ==
  /\ m \in msgs
  /\ Spend("redis")
  /\ msgs' = msgs \ {m}
  /\ UNCHANGED <<table, queue, job, active, sets, process, signals, requests>>

-----------------------------------------------------------------------------
(* Worker loops. *)

Take(j, r, pc) == job' = [job EXCEPT ![j] = [IdleJob EXCEPT !.run = r, !.pc = pc]]

(* BLPOP and create_task. *)
Dequeue(j) ==
  /\ inst[Host(j)] = "up" /\ WorkerOf[j] \in loops
  /\ job[j].pc = "free"
  /\ queue # <<>>
  /\ Take(j, Head(queue), "created")
  /\ queue' = Tail(queue)
  /\ UNCHANGED <<table, active, sets, process, msgs, signals, requests, spent>>

(* BLPOP raised: _poll_postgres takes the oldest claimable row, which may   *)
(* still be on the list.                                                    *)
PollPostgres(j) ==
  LET candidates == {r \in Runs : Claimable(rows[r])} IN
  /\ inst[Host(j)] = "up" /\ WorkerOf[j] \in loops
  /\ job[j].pc = "free"
  /\ Spend("redis")
  /\ \E r \in candidates :
       /\ \A s \in candidates : r <= s
       /\ Take(j, r, "created")
  /\ UNCHANGED <<table, queue, active, sets, process, msgs, signals, requests>>

(* The list answers after stop() has cleared _running: the loop hands the   *)
(* id back and breaks.                                                      *)
DequeueWhileStopping(j) ==
  /\ inst[Host(j)] \in {"draining", "cancelling"} /\ WorkerOf[j] \in loops
  /\ job[j].pc = "free"
  /\ queue # <<>>
  /\ Take(j, Head(queue), "held")
  /\ queue' = Tail(queue)
  /\ loops' = loops \ {WorkerOf[j]}
  /\ UNCHANGED <<table, active, sets, inst, drained, reaper, msgs, signals,
                 requests, spent>>

PushBackLate(j) ==           \* the slot is reset before its id is read
  /\ job[j].pc = "held"
  /\ job' = [job EXCEPT ![j] = IdleJob]
  /\ queue' = Append(queue, job'[j].run)
  /\ UNCHANGED <<table, active, sets, process, msgs, signals, requests, spent>>

PushBack(j) ==
  /\ job[j].pc = "held"
  /\ queue' = Append(queue, job[j].run)
  /\ job' = [job EXCEPT ![j] = IdleJob]
  /\ UNCHANGED <<table, active, sets, process, msgs, signals, requests, spent>>

PushBackFails(j) ==
  /\ job[j].pc = "held"
  /\ Spend("redis")
  /\ job' = [job EXCEPT ![j] = IdleJob]
  /\ UNCHANGED <<table, queue, active, sets, process, msgs, signals, requests>>

-----------------------------------------------------------------------------
(* One job: _execute_and_release, _execute_with_lease and execute_run.     *)

(* The task starts: it registers itself in active_runs. *)
Begin(j) ==
  /\ job[j].pc = "created" /\ ~job[j].kill
  /\ active' = [active EXCEPT ![Host(j)][job[j].run] = j]
  /\ Goto(j, "acquire")
  /\ UNCHANGED <<table, queue, sets, process, msgs, signals, requests, spent>>

(* Cancelled before it ever ran: no line of the coroutine executes. *)
CancelledUnborn(j) ==
  /\ job[j].pc = "created" /\ job[j].kill
  /\ job' = [job EXCEPT ![j] = IdleJob]
  /\ UNCHANGED <<table, queue, active, sets, process, msgs, signals, requests, spent>>

(* _acquire_and_load.  A claimed row whose parameters do not rebuild the    *)
(* job (from_run_orm raises) leaves the coroutine with the lease in place.  *)
AfterClaim(row) == CASE row.params = "none" -> "corrupt"
                     [] row.params = "stub" -> "outer"
                     [] OTHER               -> "leased"

Acquire(j) ==
  /\ job[j].pc = "acquire" /\ ~job[j].kill
  /\ rows' = [rows EXCEPT ![job[j].run] = Claim(@, WorkerOf[j])]
  /\ Goto(j, IF Claimable(RowOf(j)) THEN AfterClaim(RowOf(j)) ELSE "outer")
  /\ UNCHANGED <<aged, queue, active, sets, process, msgs, signals, requests, spent>>

ErrorCorrupt(j) ==
  /\ job[j].pc = "corrupt" /\ ~job[j].kill
  /\ rows' = [rows EXCEPT ![job[j].run] = FailCorrupt(@, WorkerOf[j])]
  /\ Goto(j, "outer")
  /\ UNCHANGED <<aged, queue, active, sets, process, msgs, signals, requests, spent>>

(* execute_run and _heartbeat_loop are started as tasks. *)
ExecuteRun(j) ==
  /\ job[j].pc = "leased" /\ ~job[j].kill
  /\ job' = [job EXCEPT ![j].pc = "start", ![j].beat = TRUE]
  /\ UNCHANGED <<table, queue, active, sets, process, msgs, signals, requests, spent>>

Start(j) ==
  /\ job[j].pc = "start" /\ ~job[j].kill
  /\ rows' = [rows EXCEPT ![job[j].run] = StartRun(@)]
  /\ Goto(j, IF IsActive(RowOf(j)) THEN "stream" ELSE "finally")
  /\ UNCHANGED <<aged, queue, active, sets, process, msgs, signals, requests, spent>>

(* finalize_run of job j to a terminal status, as it commits. *)
Finalize(j, status, pc) ==
  /\ rows' = [rows EXCEPT ![job[j].run] = FinalizeRun(@, status)]
  /\ job' = [job EXCEPT ![j].pc = pc,
                        ![j].note = IF IsActive(RowOf(j)) THEN "finalized" ELSE "none"]

(* The graph ends.  "success" stands for a graph that stopped at a          *)
(* human-in-the-loop interrupt too: both finalize with the graph's output.  *)
GraphCompletes(j) ==
  /\ job[j].pc = "stream" /\ ~job[j].kill
  /\ Finalize(j, "success", "committed")
  /\ UNCHANGED <<aged, queue, active, sets, process, msgs, signals, requests, spent>>

GraphRaises(j) ==
  /\ job[j].pc = "stream" /\ ~job[j].kill
  /\ job' = [job EXCEPT ![j].pc = "cfinal", ![j].out = "error"]
  /\ UNCHANGED <<table, queue, active, sets, process, msgs, signals, requests, spent>>

(* finalize_run inside an except clause of execute_run. *)
FinalizeInHandler(j) ==
  /\ job[j].pc = "cfinal" /\ ~job[j].kill
  /\ Finalize(j, job[j].out, "csignal")
  /\ UNCHANGED <<aged, queue, active, sets, process, msgs, signals, requests, spent>>

(* _best_effort_signal of the end event, only for a run finalized here. *)
SignalEnd(j) ==
  /\ job[j].pc \in {"committed", "csignal"} /\ ~job[j].kill
  /\ ended' = IF job[j].note = "finalized" THEN ended \cup {job[j].run} ELSE ended
  /\ Goto(j, "finally")
  /\ UNCHANGED <<table, queue, active, sets, process, msgs, done, requests, spent>>

SignalEndFails(j) ==
  /\ job[j].pc \in {"committed", "csignal"} /\ ~job[j].kill
  /\ Spend("redis")
  /\ Goto(j, "finally")
  /\ UNCHANGED <<table, queue, active, sets, process, msgs, signals, requests>>

(* The finally clause of execute_run: forget the provenance, deregister.    *)
LeaveExecuteRun(j) ==
  LET i == Host(j) r == job[j].run IN
  /\ loss' = [loss EXCEPT ![i] = @ \ {r}]
  /\ shutdown' = [shutdown EXCEPT ![i] = @ \ {r}]
  /\ timeout' = [timeout EXCEPT ![i] = @ \ {r}]
  /\ active' = [active EXCEPT ![i][r] = NoJob]
  /\ job' = [job EXCEPT ![j].pc = "release", ![j].kill = FALSE, ![j].beat = FALSE]
  /\ explicit' = explicit

(* The job is not resumed elsewhere: set the done key.  A CancelledError    *)
(* pending here may prevent that.                                           *)
Finally(j) ==
  /\ job[j].pc = "finally"
  /\ LeaveExecuteRun(j)
  /\ \/ done' = done \cup {job[j].run}
     \/ job[j].kill /\ UNCHANGED done
  /\ UNCHANGED <<table, queue, process, msgs, ended, requests, spent>>

Release(j) ==
  /\ job[j].pc = "release" /\ ~job[j].kill
  /\ rows' = [rows EXCEPT ![job[j].run] = ReleaseLease(@, WorkerOf[j])]
  /\ Goto(j, "outer")
  /\ UNCHANGED <<aged, queue, active, sets, process, msgs, signals, requests, spent>>

OuterTimeoutOnly(j) ==       \* explicit cancellations are not persisted
  IF job[j].outer = "timedout"
  THEN ReleaseLease(FinalizeRun(RowOf(j), "error"), WorkerOf[j])
  ELSE RowOf(j)

(* _execute_and_release after the execution below it is over: a timed-out   *)
(* job is finalized here, and so is an explicitly cancelled one.            *)
OuterOutcome(j) ==
  CASE job[j].outer = "timedout" ->
         ReleaseLease(FinalizeRun(RowOf(j), "error"), WorkerOf[j])
    [] job[j].outer = "cancelled" /\ job[j].run \in explicit[Host(j)] ->
         FinalizeRun(RowOf(j), "interrupted")
    [] OTHER -> RowOf(j)

OuterCleanup(j) ==
  /\ job[j].pc = "outer"
  /\ rows' = [rows EXCEPT ![job[j].run] = OuterOutcome(j)]
  /\ Goto(j, "finish")
  /\ UNCHANGED <<aged, queue, active, sets, process, msgs, signals, requests, spent>>

(* The finally clause of _execute_and_release. *)
OuterFinally(j) ==
  LET i == Host(j) r == job[j].run IN
  /\ job[j].pc = "finish"
  /\ timeout' = [timeout EXCEPT ![i] = @ \ {r}]
  /\ shutdown' = [shutdown EXCEPT ![i] = @ \ {r}]
  /\ explicit' = [explicit EXCEPT ![i] = @ \ {r}]
  /\ active' = [active EXCEPT ![i][r] = NoJob]
  /\ job' = [job EXCEPT ![j] = IdleJob]
  /\ UNCHANGED <<table, queue, loss, process, msgs, signals, requests, spent>>

(* BG_JOB_TIMEOUT_SECS (an hour) is over while the execution is not: it is  *)
(* the graph that takes the time, not the statements before it.             *)
Timeout(j) ==
  /\ job[j].pc \in {"release"} \cup (Executing \ {"start"})
  /\ job[j].outer = "none"
  /\ Spend("timeout")
  /\ timeout' = [timeout EXCEPT ![Host(j)] = @ \cup {job[j].run}]
  /\ job' = [job EXCEPT ![j].outer = "timedout", ![j].kill = TRUE]
  /\ UNCHANGED <<table, queue, active, loss, shutdown, explicit, process, msgs,
                 signals, requests>>
-----------------------------------------------------------------------------
(* CancelledError, by the await it is delivered in.  A statement that was  *)
(* on its way to the database may still have been committed.               *)

Applied(j, row) == rows' \in {rows, [rows EXCEPT ![job[j].run] = row]}

CancelledInAcquire(j) ==
  /\ job[j].kill
  /\ \/ job[j].pc = "acquire" /\ Applied(j, Claim(RowOf(j), WorkerOf[j]))
     \/ job[j].pc = "corrupt" /\ Applied(j, FailCorrupt(RowOf(j), WorkerOf[j]))
     \/ job[j].pc = "leased" /\ UNCHANGED rows
  /\ Goto(j, "outer")
  /\ UNCHANGED <<aged, queue, active, sets, process, msgs, signals, requests, spent>>

(* job_task is cancelled before execute_run runs a line: only the release   *)
(* in the finally clause of _execute_with_lease follows.                    *)
CancelledBeforeStart(j) ==
  /\ job[j].pc = "leased" /\ job[j].kill
  /\ Goto(j, "release")
  /\ UNCHANGED <<table, queue, active, sets, process, msgs, signals, requests, spent>>

CancelOutcomeUser(j) == "interrupted"   \* timeouts look like user cancels

(* except CancelledError in execute_run, by provenance. *)
ResumesElsewhere(j) ==
  job[j].run \in loss[Host(j)] \cup shutdown[Host(j)]

CancelOutcome(j) ==
  IF job[j].run \in timeout[Host(j)] THEN "error" ELSE "interrupted"

CancelledInBody(j) ==
  /\ job[j].pc \in {"start", "stream", "committed"} /\ job[j].kill
  /\ IF job[j].pc = "start" THEN Applied(j, StartRun(RowOf(j))) ELSE UNCHANGED rows
  /\ IF ResumesElsewhere(j)
     THEN LeaveExecuteRun(j)
     ELSE /\ job' = [job EXCEPT ![j].pc = "cfinal", ![j].kill = FALSE,
                       ![j].out = CancelOutcome(j)]
          /\ UNCHANGED <<sets, active>>
  /\ UNCHANGED <<aged, queue, process, msgs, signals, requests, spent>>

(* Inside the else clause or an except clause nothing catches it. *)
CancelledInHandler(j) ==
  /\ job[j].pc \in {"committed", "cfinal", "csignal"} /\ job[j].kill
  /\ IF job[j].pc = "cfinal" THEN Applied(j, FinalizeRun(RowOf(j), job[j].out))
                             ELSE UNCHANGED rows
  /\ Goto(j, "finally")
  /\ UNCHANGED <<aged, queue, active, sets, process, msgs, signals, requests, spent>>

CancelledInRelease(j) ==
  /\ job[j].pc = "release" /\ job[j].kill
  /\ Applied(j, ReleaseLease(RowOf(j), WorkerOf[j]))
  /\ Goto(j, "outer")
  /\ UNCHANGED <<aged, queue, active, sets, process, msgs, signals, requests, spent>>

(* A statement of the job fails: where its exception is caught. *)
DbError(j) ==
  /\ job[j].pc \in {"acquire", "corrupt", "start", "stream", "cfinal", "release", "outer"}
  /\ ~job[j].kill /\ (job[j].pc = "outer" => job[j].outer # "none")
  /\ Spend("db")
  /\ job' = [job EXCEPT
       ![j].pc = CASE job[j].pc \in {"start", "stream"} -> "cfinal"
                   [] job[j].pc = "cfinal" -> "finally"
                   [] job[j].pc = "outer" -> "finish"
                   [] OTHER -> "outer",
       ![j].out = IF job[j].pc \in {"start", "stream"} THEN "error" ELSE @]
  /\ UNCHANGED <<table, queue, active, sets, process, msgs, signals, requests>>
-----------------------------------------------------------------------------
(* Leases. *)

(* One round of _heartbeat_loop. *)
Heartbeat(j) ==
  /\ job[j].pc \in Executing /\ job[j].beat
  /\ rows' = [rows EXCEPT ![job[j].run] = ExtendLease(@, WorkerOf[j])]
  /\ IF RowOf(j).owner = WorkerOf[j]
     THEN UNCHANGED <<job, loss>>
     ELSE /\ loss' = [loss EXCEPT ![Host(j)] = @ \cup {job[j].run}]
          /\ job' = [job EXCEPT ![j].kill = TRUE, ![j].beat = FALSE]
  /\ UNCHANGED <<aged, queue, active, shutdown, timeout, explicit, process, msgs,
                 signals, requests, spent>>

(* Time passes the lease: freely when nobody keeps it alive, as a fault     *)
(* when its holder is alive and should have.                                *)
ExpireLease(r) ==
  /\ rows[r].lease = "live"
  /\ LET holders == {j \in Jobs : Holds(j, r)} IN
       IF holders = {} THEN UNCHANGED spent
       ELSE /\ \A j \in holders : job[j].pc \in StallsAt
            /\ Spend("stall")
  /\ rows' = [rows EXCEPT ![r].lease = "expired"]
  /\ UNCHANGED <<aged, queue, job, active, sets, process, msgs, signals, requests>>

Age(r) ==
  /\ rows[r].status # "absent" /\ r \notin aged
  /\ aged' = aged \cup {r}
  /\ UNCHANGED <<rows, queue, job, active, sets, process, msgs, signals, requests, spent>>
-----------------------------------------------------------------------------
(* LeaseReaper._reap on instance i. *)

SetReaper(i, pc, ids, stuck) ==
  reaper' = [reaper EXCEPT ![i] = [pc |-> pc, ids |-> ids, stuck |-> stuck]]

(* What follows the recovery of crashed runs: the stuck pending ones. *)
ThenStuck(i, stuck) ==
  SetReaper(i, IF stuck = {} THEN "idle" ELSE "check", {}, stuck)

ReapFindCrashedOnly(i) ==    \* stuck pending runs are not looked for
  LET crashed == {r \in Runs : Crashed(rows[r])} IN
  /\ inst[i] = "up" /\ reaper[i].pc = "idle"
  /\ crashed # {}
  /\ SetReaper(i, "recover", crashed, {})
  /\ UNCHANGED <<table, queue, job, active, sets, inst, loops, drained, msgs,
                 signals, requests, spent>>

ReapFind(i) ==
  LET crashed == {r \in Runs : Crashed(rows[r])}
      stuck   == {r \in aged : Claimable(rows[r])} IN
  /\ inst[i] = "up" /\ reaper[i].pc = "idle"
  /\ crashed \cup stuck # {}
  /\ IF crashed # {} THEN SetReaper(i, "recover", crashed, stuck)
                     ELSE ThenStuck(i, stuck)
  /\ UNCHANGED <<table, queue, job, active, sets, inst, loops, drained, msgs,
                 signals, requests, spent>>

ReapRecover(i) ==
  LET found     == {r \in reaper[i].ids : Crashed(rows[r])}
      retryable == {r \in found : ~Exhausted(rows[r])} IN
  /\ reaper[i].pc = "recover"
  /\ rows' = [r \in Runs |-> IF r \in found THEN RecoverCrashed(rows[r]) ELSE rows[r]]
  /\ IF retryable # {} THEN SetReaper(i, "push", retryable, reaper[i].stuck)
                       ELSE ThenStuck(i, reaper[i].stuck)
  /\ UNCHANGED <<aged, queue, job, active, sets, inst, loops, drained, msgs,
                 signals, requests, spent>>

(* _reenqueue, one RPUSH. *)
ReapPush(i) ==
  /\ reaper[i].pc \in {"push", "pushlost"}
  /\ \E r \in reaper[i].ids :
       /\ queue' = Append(queue, r)
       /\ IF reaper[i].ids # {r}
          THEN SetReaper(i, reaper[i].pc, reaper[i].ids \ {r}, reaper[i].stuck)
          ELSE ThenStuck(i, IF reaper[i].pc = "push" THEN reaper[i].stuck ELSE {})
  /\ UNCHANGED <<table, job, active, sets, inst, loops, drained, msgs, signals,
                 requests, spent>>

(* _missing_from_queue, against the list as it is now. *)
ReapCheck(i) ==
  LET queued == {queue[n] : n \in DOMAIN queue}
      lost   == reaper[i].stuck \ queued IN
  /\ reaper[i].pc = "check"
  /\ SetReaper(i, IF lost = {} THEN "idle" ELSE "pushlost", lost, {})
  /\ UNCHANGED <<table, queue, job, active, sets, inst, loops, drained, msgs,
                 signals, requests, spent>>

ReapRedisError(i) ==
  /\ reaper[i].pc \in {"push", "check", "pushlost"}
  /\ Spend("redis")
  /\ ThenStuck(i, IF reaper[i].pc = "push" THEN reaper[i].stuck ELSE {})
  /\ UNCHANGED <<table, queue, job, active, sets, inst, loops, drained, msgs,
                 signals, requests>>
-----------------------------------------------------------------------------
(* Life of an instance: up, draining, cancelling, requeue, push, down.      *)

(* The process dies; so do its tasks, its reaper and its local lists. *)
Kill(i) ==
  /\ inst[i] # "down"
  /\ Spend("crash")
  /\ inst' = [inst EXCEPT ![i] = "down"]
  /\ job' = [j \in Jobs |-> IF Host(j) = i THEN IdleJob ELSE job[j]]
  /\ loops' = {w \in loops : InstanceOf[w] # i}
  /\ drained' = [drained EXCEPT ![i] = {}]
  /\ reaper' = [reaper EXCEPT ![i] = IdleReaper]
  /\ UNCHANGED <<table, queue, active, sets, msgs, signals, requests>>

(* A new process starts with empty registries and a new cancel listener. *)
Restart(i) ==
  /\ inst[i] = "down"
  /\ inst' = [inst EXCEPT ![i] = "up"]
  /\ loops' = loops \cup {w \in Workers : InstanceOf[w] = i}
  /\ active' = [active EXCEPT ![i] = [r \in Runs |-> NoJob]]
  /\ loss' = [loss EXCEPT ![i] = {}]
  /\ shutdown' = [shutdown EXCEPT ![i] = {}]
  /\ timeout' = [timeout EXCEPT ![i] = {}]
  /\ explicit' = [explicit EXCEPT ![i] = {}]
  /\ msgs' = {m \in msgs : m.inst # i}
  /\ UNCHANGED <<table, queue, job, drained, reaper, signals, requests, spent>>

(* Shutdown: the reaper is stopped first, then WorkerExecutor.stop begins.  *)
Stop(i) ==
  /\ inst[i] = "up"
  /\ Spend("stop")
  /\ inst' = [inst EXCEPT ![i] = "draining"]
  /\ reaper' = [reaper EXCEPT ![i] = IdleReaper]
  /\ UNCHANGED <<table, queue, job, active, sets, loops, drained, msgs, signals, requests>>

DrainDeadlineUnmarked(i) ==  \* _shutdown_cancellations is not written
  LET survivors == {job[j].run : j \in Tasks(i)} \ explicit[i] IN
  /\ inst[i] = "draining" /\ Tasks(i) # {}
  /\ inst' = [inst EXCEPT ![i] = "cancelling"]
  /\ drained' = [drained EXCEPT ![i] = survivors]
  /\ job' = [j \in Jobs |-> IF j \in Tasks(i) THEN Cancelled(job[j]) ELSE job[j]]
  /\ UNCHANGED <<table, queue, active, sets, loops, reaper, msgs, signals,
                 requests, spent>>

(* WORKER_DRAIN_TIMEOUT is over and jobs remain. *)
DrainDeadline(i) ==
  LET survivors == {job[j].run : j \in Tasks(i)} \ explicit[i] IN
  /\ inst[i] = "draining" /\ Tasks(i) # {}
  /\ inst' = [inst EXCEPT ![i] = "cancelling"]
  /\ drained' = [drained EXCEPT ![i] = survivors]
  /\ shutdown' = [shutdown EXCEPT ![i] = @ \cup survivors]
  /\ job' = [j \in Jobs |-> IF j \in Tasks(i) THEN Cancelled(job[j]) ELSE job[j]]
  /\ UNCHANGED <<table, queue, active, loss, timeout, explicit, loops, reaper, msgs,
                 signals, requests, spent>>

(* All job tasks are over: cancel the loops, dropping what they hold. *)
StopLoops(i) ==
  /\ inst[i] \in {"draining", "cancelling"} /\ Tasks(i) = {}
  /\ inst' = [inst EXCEPT ![i] = IF drained[i] = {} THEN "down" ELSE "requeue"]
  /\ loops' = {w \in loops : InstanceOf[w] # i}
  /\ job' = [j \in Jobs |-> IF Host(j) = i THEN IdleJob ELSE job[j]]
  /\ UNCHANGED <<table, queue, active, sets, drained, reaper, msgs, signals,
                 requests, spent>>

(* The UPDATE of _requeue_drained_runs, then its pushes. *)
Requeue(i) ==
  LET reset == {r \in drained[i] : IsActive(rows[r])} IN
  /\ inst[i] = "requeue"
  /\ rows' = [r \in Runs |-> IF r \in reset THEN RequeueDrained(rows[r]) ELSE rows[r]]
  /\ drained' = [drained EXCEPT ![i] = reset]
  /\ inst' = [inst EXCEPT ![i] = IF reset = {} THEN "down" ELSE "push"]
  /\ UNCHANGED <<aged, queue, job, active, sets, loops, reaper, msgs, signals,
                 requests, spent>>

PushDrained(i) ==
  /\ inst[i] = "push"
  /\ \E r \in drained[i] :
       /\ queue' = Append(queue, r)
       /\ drained' = [drained EXCEPT ![i] = @ \ {r}]
       /\ inst' = [inst EXCEPT ![i] = IF drained[i] = {r} THEN "down" ELSE "push"]
  /\ UNCHANGED <<table, job, active, sets, loops, reaper, msgs, signals, requests, spent>>

PushDrainedFails(i) ==
  /\ inst[i] = "push"
  /\ Spend("redis")
  /\ drained' = [drained EXCEPT ![i] = {}]
  /\ inst' = [inst EXCEPT ![i] = "down"]
  /\ UNCHANGED <<table, queue, job, active, sets, loops, reaper, msgs, signals, requests>>
-----------------------------------------------------------------------------
(* What the tasks of a slot do on their own, faults and cancels apart. *)
JobStep(j) ==
  \/ Begin(j) \/ CancelledUnborn(j) \/ Acquire(j) \/ ErrorCorrupt(j) \/ ExecuteRun(j)
  \/ Start(j) \/ GraphCompletes(j) \/ GraphRaises(j) \/ FinalizeInHandler(j)
  \/ SignalEnd(j) \/ Finally(j) \/ Release(j) \/ OuterCleanup(j) \/ OuterFinally(j)
  \/ CancelledInAcquire(j) \/ CancelledBeforeStart(j) \/ CancelledInBody(j)
  \/ CancelledInHandler(j) \/ CancelledInRelease(j)

LoopStep(j) == Dequeue(j) \/ DequeueWhileStopping(j) \/ PushBack(j)

ReaperStep(i) == ReapFind(i) \/ ReapRecover(i) \/ ReapPush(i) \/ ReapCheck(i)

StopStep(i) == DrainDeadline(i) \/ StopLoops(i) \/ Requeue(i) \/ PushDrained(i)

Next ==
  \/ \E r \in Runs : \/ PrepareRun(r) \/ Submit(r) \/ SubmitFails(r)
                     \/ InterruptReconciled(r) \/ InterruptOwned(r)
                     \/ ExpireLease(r) \/ Age(r)
                     \/ \E i \in Instances : InterruptLocally(i, r)
  \/ \E m \in msgs : HandleCancelCommand(m) \/ LoseCancelCommand(m)
  \/ \E j \in Jobs : \/ JobStep(j) \/ LoopStep(j) \/ Heartbeat(j) \/ Timeout(j)
                     \/ PollPostgres(j) \/ PushBackFails(j) \/ SignalEndFails(j)
                     \/ DbError(j)
  \/ \E i \in Instances : \/ ReaperStep(i) \/ StopStep(i) \/ ReapRedisError(i)
                          \/ PushDrainedFails(i) \/ Kill(i) \/ Restart(i) \/ Stop(i)

(* Every task the event loop has ready is resumed, time passes, published   *)
(* commands arrive unless lost, and an orchestrator restarts a dead server. *)
Fairness ==
  /\ \A r \in Runs : WF_vars(Submit(r)) /\ WF_vars(ExpireLease(r)) /\ WF_vars(Age(r))
  /\ \A j \in Jobs : WF_vars(JobStep(j)) /\ WF_vars(LoopStep(j)) /\ WF_vars(Heartbeat(j))
  /\ \A i \in Instances : WF_vars(ReaperStep(i)) /\ WF_vars(StopStep(i)) /\ WF_vars(Restart(i))

Spec     == Init /\ [][Next]_vars
FairSpec == Spec /\ Fairness
-----------------------------------------------------------------------------
RowsOK == rows \in [Runs -> Row]

JobsOK ==
  /\ job \in [Jobs -> JobState]
  /\ \A j \in Jobs : /\ job[j].pc # "free" => job[j].run \in Runs
                     /\ job[j].pc = "cfinal" => job[j].out # "none"

RegistriesOK ==
  /\ active \in [Instances -> [Runs -> Jobs \cup {NoJob}]]
  /\ loss \in [Instances -> SUBSET Runs]
  /\ shutdown \in [Instances -> SUBSET Runs]
  /\ timeout \in [Instances -> SUBSET Runs]
  /\ explicit \in [Instances -> SUBSET Runs]

ProcessesOK ==
  /\ inst \in [Instances -> {"up", "draining", "cancelling", "requeue", "push", "down"}]
  /\ loops \in SUBSET Workers
  /\ drained \in [Instances -> SUBSET Runs]
  /\ reaper \in [Instances -> [pc : {"idle", "recover", "push", "check", "pushlost"},
                               ids : SUBSET Runs, stuck : SUBSET Runs]]

TrafficOK ==
  /\ queue \in Seq(Runs)
  /\ msgs \in SUBSET [inst : Instances, run : Runs, emit : BOOLEAN]
  /\ aged \subseteq Runs /\ submitting \subseteq Runs
  /\ ended \subseteq Runs /\ done \subseteq Runs /\ asked \subseteq Runs

(* The types of the state; every slot that is not free has a run, and a     *)
(* handler that is about to finalize knows the status to write.             *)
TypeOK == /\ RowsOK /\ JobsOK /\ RegistriesOK /\ ProcessesOK /\ TrafficOK
          /\ spent \in [Faults -> Nat]

(* Work in hand: a job or a drain that is still going to finish run r or    *)
(* hand it over.                                                            *)
InHand(r) ==
  \/ \E j \in Jobs : job[j].run = r /\ job[j].pc \in Leased \cup Executing \cup Closing
  \/ \E i \in Instances : r \in drained[i]

(* Claims and leases go together, a run that waits is unclaimed, and a run  *)
(* whose retry budget is spent is over: what every UPDATE of the executor,  *)
(* the reaper and the API must preserve on a row it does not own.           *)
ClaimConsistent ==
  \A r \in Runs :
    /\ rows[r].owner = NoWorker <=> rows[r].lease = "none"
    /\ rows[r].status \in {"absent", "pending"} => rows[r].owner = NoWorker
    /\ rows[r].retry > MaxRetries => rows[r].status \in TerminalStates

(* A running row without a lease is in somebody's hands: _find_recoverable  *)
(* never looks at such a row, so nobody else would bring it back.           *)
NoStrandedRun ==
  \A r \in Runs : rows[r].status = "running" /\ rows[r].lease = "none" => InHand(r)

(* The graph of a run is executed by one job at a time, as long as no live  *)
(* job misses its heartbeats: a second queue entry, a Postgres poll or a    *)
(* reaper that acts on what it read earlier starts no second execution.     *)
NoDoubleExecution ==
  \A j, k \in Jobs :
    /\ spent["stall"] = 0
    /\ j # k /\ job[j].pc = "stream" /\ job[k].pc = "stream"
    => job[j].run # job[k].run

(* The retry budget is charged for lost leases only, never for the time a   *)
(* run waits in the queue or for a lost queue entry (_find_recoverable).    *)
RetriesOnlyForFailures ==
  \A r \in Runs \ Legacy : rows[r].retry <= spent["crash"] + spent["stall"] + spent["db"]

(* The runs table, seen run by run, behaves as RunLifecycle: no late write  *)
(* of a worker, reaper, drain or API call revives a run that is over or     *)
(* changes its status, and no run is retried beyond its budget.            *)
Lifecycle == INSTANCE RunLifecycle
               WITH status <- [r \in Runs |-> rows[r].status],
                    retry  <- [r \in Runs |-> rows[r].retry]
RefinesLifecycle == Lifecycle!Spec

(* A healthy worker never loses its lease: while a job executes a run under *)
(* a live lease, no step of anyone else takes the claim away.               *)
LiveLeaseHonoured ==
  [][\A r \in Runs : \A j \in Jobs :
       /\ Holds(j, r) /\ rows[r].lease = "live" /\ rows[r].status = "running"
       /\ job'[j] = job[j]
       => rows'[r].owner = rows[r].owner \/ IsTerminal(rows'[r])]_vars

(* Cancellation provenance: a drain, a timeout or a lost lease never makes  *)
(* a run look as if a user had interrupted it.                              *)
InterruptedOnlyIfAsked ==
  \A r \in Runs : rows[r].status = "interrupted" => r \in asked

(* The done key is set for a run that is over, or whose job is about to     *)
(* write its end: wait_for_completion takes the key's word for it.  A lost  *)
(* lease or a drain that cancels finalize_run inside the error handler is   *)
(* the exception: execute_run then sets the key of a run that goes on.      *)
DoneKeyTruthful ==
  spent["stall"] + spent["stop"] = 0 =>
    \A r \in done : IsTerminal(rows[r]) \/ InHand(r)

(* Every run that was accepted reaches a terminal status, unless nobody     *)
(* looks for it any more (a running row without lease and queue entry):     *)
(* after a failing statement (worker_stranded_run), after a job that missed *)
(* its lease marks the requeued run as running, or when a server is killed  *)
(* after a job that was told to stop has released its lease and before the  *)
(* run's end or its requeue is written.                                     *)
EveryRunSettles ==
  \A r \in Runs : rows[r].status # "absent" ~>
    \/ IsTerminal(rows[r])
    \/ spent["db"] + spent["stall"] > 0
    \/ spent["crash"] > 0 /\ spent["stop"] + spent["cancel"] + spent["timeout"] > 0
=============================================================================
