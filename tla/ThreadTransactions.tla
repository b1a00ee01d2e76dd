------------------------- MODULE ThreadTransactions -------------------------
(***************************************************************************)
(* One thread, its runs and the database transactions that create, end and *)
(* delete them, statement by statement.  The thread's status column is     *)
(* derived data: "busy" while a run is pending or running, otherwise what  *)
(* the last run left ("idle", "interrupted" or "error").                   *)
(*                                                                         *)
(* PostgreSQL runs them READ COMMITTED: a statement reads the rows that    *)
(* were committed when it began, waits for the lock of a row it writes,    *)
(* and then checks that row (only that row) again in its newest version.   *)
(***************************************************************************)
EXTENDS Naturals

CONSTANTS
  Runs,      \* runs of the thread
  Overlap    \* TRUE if clients start a run before the last one is over

ASSUME OverlapAssumption == Overlap \in BOOLEAN

VARIABLES
  thread,    \* committed status of the thread row, or "none"
  run,       \* committed state of each run row
  ckpt,      \* whether the thread has checkpoints
  executing, \* runs whose graph is being executed
  create, end, drop,  \* transactions of each run: _prepare_run, the end, delete_run
  delete, sweep,      \* delete_thread (or delete_thread_by_id) and the TTL sweep
  tlock, rlock,       \* who holds the row lock of the thread and of each run
  dropped    \* runs deleted while they were active (history)

txns  == <<create, end, drop, delete, sweep>>
locks == <<tlock, rlock>>
vars  == <<thread, run, ckpt, executing, txns, locks, dropped>>

Outcomes == {"idle", "interrupted", "error"}   \* thread_status of the callers
Nobody   == <<"nobody">>
Txn      == {Nobody, <<"delete">>, <<"sweep">>}
              \cup ({"create", "end", "drop"} \X Runs)

Active   == {r \in Runs : run[r] = "active"}    \* pending or running
Exists   == thread # "none"

(* A DELETE of the thread row has reached the runs: the rows nobody held    *)
(* are its own, for the others it waits.                                     *)
Cascading == delete = "cascade" \/ sweep.pc = "cascade"

(* Commit or rollback: the locks of transaction t are released. *)
Unlock(t) == /\ tlock' = IF tlock = t THEN Nobody ELSE tlock
             /\ rlock' = [r \in Runs |-> IF rlock[r] = t THEN Nobody ELSE rlock[r]]
LockThread(t) == tlock = Nobody /\ tlock' = t /\ UNCHANGED rlock
LockRun(t, r) == /\ rlock[r] = Nobody /\ ~Cascading
                 /\ rlock' = [rlock EXCEPT ![r] = t]
                 /\ UNCHANGED tlock

IdleEnd   == [pc |-> "idle", to |-> "idle"]
IdleSweep == [pc |-> "idle", late |-> {}, busy |-> {}]

Init ==
  /\ thread = "none"
  /\ run = [r \in Runs |-> "absent"]
  /\ ckpt = FALSE
  /\ executing = {}
  /\ create = [r \in Runs |-> "idle"]
  /\ end = [r \in Runs |-> IdleEnd]
  /\ drop = [r \in Runs |-> "idle"]
  /\ delete = "idle"
  /\ sweep = IdleSweep
  /\ tlock = Nobody
  /\ rlock = [r \in Runs |-> Nobody]
  /\ dropped = {}

-----------------------------------------------------------------------------
(* create_thread: INSERT ... ON CONFLICT DO NOTHING waits for an insert or   *)
(* a delete in flight.                                                       *)
CreateThread ==
  /\ thread = "none" /\ tlock = Nobody
  /\ thread' = "idle"
  /\ UNCHANGED <<run, ckpt, executing, txns, locks, dropped>>

(* _prepare_run.  update_thread_metadata reads whether the thread is there,  *)
(* then inserts or updates it, which takes the row lock.                     *)
PrepareRead(r) ==
  /\ run[r] = "absent" /\ create[r] = "idle"
  /\ Overlap \/ (Active = {} /\ \A s \in Runs : create[s] = "idle")
  /\ create' = [create EXCEPT ![r] = IF Exists THEN "update" ELSE "insert"]
  /\ UNCHANGED <<thread, run, ckpt, executing, end, drop, delete, sweep, locks, dropped>>

PrepareLock(r) ==
  /\ \/ create[r] = "update" /\ Exists
     \/ create[r] = "insert" /\ ~Exists
  /\ LockThread(<<"create", r>>)
  /\ create' = [create EXCEPT ![r] = "commit"]
  /\ UNCHANGED <<thread, run, ckpt, executing, end, drop, delete, sweep, dropped>>

(* The thread was deleted or inserted meanwhile: set_thread_status raises,   *)
(* or the primary key does, and the request fails without a run.             *)
PrepareFails(r) ==
  /\ tlock = Nobody
  /\ \/ create[r] = "update" /\ ~Exists
     \/ create[r] = "insert" /\ Exists
  /\ create' = [create EXCEPT ![r] = "idle"]
  /\ UNCHANGED <<thread, run, ckpt, executing, end, drop, delete, sweep, locks, dropped>>

PrepareKeepsStatus(r) ==     \* the thread is not marked busy
  /\ create[r] = "commit"
  /\ thread' = IF Exists THEN thread ELSE "idle"
  /\ run' = [run EXCEPT ![r] = "active"]
  /\ create' = [create EXCEPT ![r] = "idle"]
  /\ sweep' = [sweep EXCEPT !.late = IF sweep.pc = "claim" THEN @ \cup {r} ELSE @]
  /\ Unlock(<<"create", r>>)
  /\ UNCHANGED <<ckpt, executing, end, drop, delete, dropped>>

(* set_thread_status, INSERT of the run and COMMIT.                          *)
PrepareCommit(r) ==
  /\ create[r] = "commit"
  /\ thread' = "busy"
  /\ run' = [run EXCEPT ![r] = "active"]
  /\ create' = [create EXCEPT ![r] = "idle"]
  /\ sweep' = [sweep EXCEPT !.late = IF sweep.pc = "claim" THEN @ \cup {r} ELSE @]
  /\ Unlock(<<"create", r>>)
  /\ UNCHANGED <<ckpt, executing, end, drop, delete, dropped>>

(* A worker claims the run and executes its graph, for the first time or     *)
(* after a worker that failed.                                               *)
Execute(r) ==
  /\ run[r] = "active" /\ rlock[r] = Nobody /\ ~Cascading
  /\ r \notin executing
  /\ executing' = executing \cup {r}
  /\ UNCHANGED <<thread, run, ckpt, txns, locks, dropped>>

(* The graph saves a checkpoint. *)
Checkpoint(r) ==
  /\ r \in executing /\ ~ckpt
  /\ ckpt' = TRUE
  /\ UNCHANGED <<thread, run, executing, txns, locks, dropped>>

(* The worker of a run that is over, or whose row is gone, learns of it: it  *)
(* is cancelled, loses its lease, or finalizes in vain.                      *)
ExecutionStops(r) ==
  /\ r \in executing /\ run[r] \in {"over", "deleted"}
  /\ executing' = executing \ {r}
  /\ UNCHANGED <<thread, run, ckpt, txns, locks, dropped>>

-----------------------------------------------------------------------------
EndRunStatus(r, s) ==        \* the run's status is passed for the thread's
  /\ run[r] = "active" /\ end[r].pc = "idle"
  /\ LockRun(<<"end", r>>, r)
  /\ end' = [end EXCEPT ![r] = [pc |-> "ended", to |-> IF s = "idle" THEN "success" ELSE s]]
  /\ executing' \in {executing, executing \ {r}}
  /\ UNCHANGED <<thread, run, ckpt, create, drop, delete, sweep, dropped>>

(* The end of a run; the first UPDATE locks the run's row.  finalize_run is  *)
(* called when the graph is over.  interrupt_unowned_run and the reaper that *)
(* gives up end the run of a worker that missed its lease, or of none: such  *)
(* a worker goes on.                                                         *)
EndRun(r, s) ==
  /\ run[r] = "active" /\ end[r].pc = "idle"
  /\ LockRun(<<"end", r>>, r)
  /\ end' = [end EXCEPT ![r] = [pc |-> "ended", to |-> s]]
  /\ executing' \in {executing, executing \ {r}}
  /\ UNCHANGED <<thread, run, ckpt, create, drop, delete, sweep, dropped>>

(* set_thread_status_if_no_active_runs: NOT EXISTS is decided by what is     *)
(* committed when the statement begins (and by the run ended above).         *)
EndSnapshot(r) ==
  /\ end[r].pc = "ended"
  /\ end' = [end EXCEPT ![r].pc = IF Active \ {r} = {} THEN "lock" ELSE "commit"]
  /\ UNCHANGED <<thread, run, ckpt, executing, create, drop, delete, sweep, locks, dropped>>

EndLock(r) ==
  /\ end[r].pc = "lock"
  /\ IF Exists THEN LockThread(<<"end", r>>) ELSE tlock = Nobody /\ UNCHANGED locks
  /\ end' = [end EXCEPT ![r].pc = "commit"]
  /\ UNCHANGED <<thread, run, ckpt, executing, create, drop, delete, sweep, dropped>>

EndCommitKeepsLock(r) ==     \* the transaction is left open
  /\ end[r].pc = "commit"
  /\ run' = [run EXCEPT ![r] = "over"]
  /\ thread' = IF tlock = <<"end", r>> THEN end[r].to ELSE thread
  /\ end' = [end EXCEPT ![r] = IdleEnd]
  /\ UNCHANGED <<ckpt, executing, create, drop, delete, sweep, locks, dropped>>

EndCommit(r) ==
  /\ end[r].pc = "commit"
  /\ run' = [run EXCEPT ![r] = "over"]
  /\ thread' = IF tlock = <<"end", r>> THEN end[r].to ELSE thread
  /\ end' = [end EXCEPT ![r] = IdleEnd]
  /\ Unlock(<<"end", r>>)
  /\ UNCHANGED <<ckpt, executing, create, drop, delete, sweep, dropped>>

-----------------------------------------------------------------------------
(* delete_run: the DELETE waits for the run's row; the thread row is left    *)
(* alone.  force=1 deletes an active run after asking its job to stop.       *)
DropRun(r) ==
  /\ run[r] \in {"active", "over"} /\ drop[r] = "idle"
  /\ LockRun(<<"drop", r>>, r)
  /\ drop' = [drop EXCEPT ![r] = "commit"]
  /\ UNCHANGED <<thread, run, ckpt, executing, create, end, delete, sweep, dropped>>

(* What deleting the rows of runs rs does. *)
Remove(rs) ==
  run' = [r \in Runs |-> IF r \in rs /\ run[r] # "absent" THEN "deleted" ELSE run[r]]

DropCommit(r) ==
  /\ drop[r] = "commit"
  /\ Remove({r})
  /\ dropped' = dropped \cup ({r} \cap Active)
  /\ drop' = [drop EXCEPT ![r] = "idle"]
  /\ Unlock(<<"drop", r>>)
  /\ UNCHANGED <<thread, ckpt, executing, create, end, delete, sweep>>

-----------------------------------------------------------------------------
(* delete_thread and delete_thread_by_id: read the thread, ask active runs   *)
(* to stop, delete the checkpoints (autocommit), then the thread row, which  *)
(* cascades to the runs, and commit.                                         *)
DeleteBegin ==
  /\ delete = "idle" /\ Exists
  /\ delete' = "checkpoints"
  /\ UNCHANGED <<thread, run, ckpt, executing, create, end, drop, sweep, locks, dropped>>

DeleteCheckpoints ==
  /\ delete = "checkpoints"
  /\ ckpt' = FALSE
  /\ delete' = "lock"
  /\ UNCHANGED <<thread, run, executing, create, end, drop, sweep, locks, dropped>>

DeleteLock ==
  /\ delete = "lock"
  /\ IF Exists THEN LockThread(<<"delete">>) /\ delete' = "cascade"
               ELSE tlock = Nobody /\ delete' = "idle" /\ UNCHANGED locks
  /\ UNCHANGED <<thread, run, ckpt, executing, create, end, drop, sweep, dropped>>

(* The cascade waits for every run's row. *)
DeleteCommit ==
  /\ delete = "cascade"
  /\ \A r \in Runs : rlock[r] = Nobody
  /\ thread' = "none"
  /\ Remove(Runs)
  /\ delete' = "idle"
  /\ Unlock(<<"delete">>)
  /\ UNCHANGED <<ckpt, executing, create, end, drop, sweep, dropped>>

(* The server fails the request between two of its statements. *)
DeleteFails ==
  /\ delete # "idle"
  /\ delete' = "idle"
  /\ Unlock(<<"delete">>)
  /\ UNCHANGED <<thread, run, ckpt, executing, create, end, drop, sweep, dropped>>

(* The cascade waits for the run's row and the run's end for the thread row: *)
(* PostgreSQL aborts one of them.                                            *)
DeadlockAborts(r) ==
  /\ Cascading /\ end[r].pc = "lock"
  /\ \/ end' = [end EXCEPT ![r] = IdleEnd] /\ Unlock(<<"end", r>>)
        /\ UNCHANGED <<delete, sweep>>
     \/ delete = "cascade" /\ delete' = "idle" /\ Unlock(<<"delete">>)
        /\ UNCHANGED <<end, sweep>>
     \/ sweep.pc = "cascade" /\ sweep' = IdleSweep /\ Unlock(<<"sweep">>)
        /\ UNCHANGED <<end, delete>>
  /\ UNCHANGED <<thread, run, ckpt, executing, create, drop, dropped>>

-----------------------------------------------------------------------------
(* ThreadTTLSweeper and POST /threads/prune.  The claim statement looks for  *)
(* active runs when it begins and locks the thread row later, skipping it if *)
(* somebody holds it.  late collects the runs committed in between, busy     *)
(* those that may be executed when the checkpoints go.                       *)
SweepBegin ==
  /\ sweep.pc = "idle" /\ Exists /\ Active = {}
  /\ sweep' = [IdleSweep EXCEPT !.pc = "claim"]
  /\ UNCHANGED <<thread, run, ckpt, executing, create, end, drop, delete, locks, dropped>>

SweepClaimUnlocked ==        \* only the thread_ttl row is locked
  /\ sweep.pc = "claim"
  /\ sweep' = IF Exists THEN [sweep EXCEPT !.pc = "apply"] ELSE IdleSweep
  /\ UNCHANGED <<thread, run, ckpt, executing, create, end, drop, delete, locks, dropped>>

SweepClaim ==
  /\ sweep.pc = "claim"
  /\ IF Exists /\ tlock = Nobody
     THEN LockThread(<<"sweep">>) /\ sweep' = [sweep EXCEPT !.pc = "apply"]
     ELSE sweep' = IdleSweep /\ UNCHANGED locks
  /\ UNCHANGED <<thread, run, ckpt, executing, create, end, drop, delete, dropped>>

(* keep_latest prunes old checkpoints only; so it does nothing here, and so  *)
(* does a failing checkpointer.                                              *)
SweepKeeps ==
  /\ sweep.pc = "apply"
  /\ sweep' = IdleSweep
  /\ Unlock(<<"sweep">>)
  /\ UNCHANGED <<thread, run, ckpt, executing, create, end, drop, delete, dropped>>

SweepCheckpointsLater ==     \* the checkpoints are left for after the row
  /\ sweep.pc = "apply"
  /\ sweep' = [sweep EXCEPT !.pc = "cascade", !.busy = Active \cup executing]
  /\ UNCHANGED <<thread, run, ckpt, executing, create, end, drop, delete, locks, dropped>>

SweepCheckpoints ==
  /\ sweep.pc = "apply"
  /\ ckpt' = FALSE
  /\ sweep' = [sweep EXCEPT !.pc = "cascade", !.busy = Active \cup executing]
  /\ UNCHANGED <<thread, run, executing, create, end, drop, delete, locks, dropped>>

SweepCommit ==
  /\ sweep.pc = "cascade"
  /\ \A r \in Runs : rlock[r] = Nobody
  /\ thread' = "none"
  /\ Remove(Runs)
  /\ sweep' = IdleSweep
  /\ Unlock(<<"sweep">>)
  /\ UNCHANGED <<ckpt, executing, create, end, drop, delete, dropped>>

-----------------------------------------------------------------------------
EndStep(r) == (\E s \in Outcomes : EndRun(r, s)) \/ EndSnapshot(r) \/ EndLock(r) \/ EndCommit(r)
PrepareStep(r) == PrepareLock(r) \/ PrepareFails(r) \/ PrepareCommit(r)
DeleteStep == DeleteCheckpoints \/ DeleteLock \/ DeleteCommit
SweepStep  == SweepClaim \/ SweepKeeps \/ SweepCheckpoints \/ SweepCommit

Next ==
  \/ CreateThread
  \/ \E r \in Runs : \/ PrepareRead(r) \/ PrepareStep(r)
                     \/ Execute(r) \/ Checkpoint(r) \/ ExecutionStops(r)
                     \/ EndStep(r) \/ DropRun(r) \/ DropCommit(r)
                     \/ DeadlockAborts(r)
  \/ DeleteBegin \/ DeleteStep \/ DeleteFails
  \/ SweepBegin \/ SweepStep

(* A statement that can proceed does, a row lock goes to whoever has waited  *)
(* for it longest (so a waiting statement gets it), and PostgreSQL breaks    *)
(* deadlocks.                                                                *)
Fairness ==
  /\ \A r \in Runs : /\ WF_vars(PrepareStep(r))
                     /\ SF_vars(PrepareLock(r) \/ PrepareFails(r))
                     /\ WF_vars(EndStep(r)) /\ SF_vars(EndLock(r))
                     /\ WF_vars(DropCommit(r)) /\ WF_vars(DeadlockAborts(r))
  /\ WF_vars(DeleteStep) /\ SF_vars(DeleteLock) /\ WF_vars(SweepStep)

Spec     == Init /\ [][Next]_vars
FairSpec == Spec /\ Fairness
-----------------------------------------------------------------------------
TypeOK ==
  /\ thread \in {"none", "busy"} \cup Outcomes
  /\ run \in [Runs -> {"absent", "active", "over", "deleted"}]
  /\ ckpt \in BOOLEAN
  /\ executing \subseteq Runs
  /\ create \in [Runs -> {"idle", "update", "insert", "commit"}]
  /\ end \in [Runs -> [pc : {"idle", "ended", "lock", "commit"}, to : Outcomes]]
  /\ drop \in [Runs -> {"idle", "commit"}]
  /\ delete \in {"idle", "checkpoints", "lock", "cascade"}
  /\ sweep \in [pc : {"idle", "claim", "apply", "cascade"}, late : SUBSET Runs,
                busy : SUBSET Runs]
  /\ tlock \in Txn /\ rlock \in [Runs -> Txn]
  /\ dropped \subseteq Runs

Quiet == /\ \A r \in Runs : create[r] = "idle" /\ end[r].pc = "idle" /\ drop[r] = "idle"
         /\ delete = "idle" /\ sweep.pc = "idle"

(* Between transactions the thread is busy exactly when one of its runs is   *)
(* pending or running, unless delete_run removed an active run (it leaves    *)
(* the thread busy).                                                         *)
StatusTruthful ==
  Quiet /\ Exists /\ dropped = {} => (thread = "busy" <=> Active # {})

(* Locking the thread row closes the race with run creation, so that no run  *)
(* slips in after the check and is "cascade-deleted mid-flight", says        *)
(* _expired_claim_stmt.  It does not: the check and the lock belong to one   *)
(* statement, but a run committed between them is not in its snapshot.       *)
SweepClosesRace ==
  [][sweep.pc = "cascade" /\ thread' = "none" => Active = {}]_vars

(* What the lock does achieve: the only active runs the TTL sweep removes    *)
(* are those committed while its claim statement was being evaluated.        *)
SweepSpares ==
  [][\A r \in Active : sweep.pc = "cascade" /\ thread' = "none" => r \in sweep.late]_vars

(* A thread that the sweep deletes leaves no checkpoints behind, unless one  *)
(* of its runs was still at work when they were deleted: a run that slipped  *)
(* through, or one whose row was ended or deleted under its worker.  The     *)
(* sweep holds the thread row from before the checkpoints go until the row   *)
(* goes, so no run starts in between (delete_thread does not hold it and     *)
(* gives no such guarantee).                                                 *)
SweepLeavesNothing ==
  [][sweep.pc = "cascade" /\ thread' = "none" /\ sweep.busy = {} => ~ckpt]_vars

(* No transaction waits for a lock forever: runs' ends, deletions and new    *)
(* runs get through whatever they meet.                                      *)
TransactionsEnd ==
  /\ \A r \in Runs : /\ end[r].pc # "idle" ~> end[r].pc = "idle"
                     /\ create[r] # "idle" ~> create[r] = "idle"
  /\ delete # "idle" ~> delete = "idle"
=============================================================================
