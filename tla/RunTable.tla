------------------------------ MODULE RunTable ------------------------------
(***************************************************************************)
(* One row of the runs table and the UPDATE statements that the executor,  *)
(* the reaper and the API issue on it.  Every statement is an operator     *)
(* from the row to the row it leaves; the WHERE clause is the operator's   *)
(* condition, so a statement that matches nothing returns the row as it    *)
(* was (rowcount 0).                                                       *)
(*                                                                         *)
(* A time stamp is kept as what the code compares it with: lease is        *)
(* "none" (NULL), "live" (in the future) or "expired" (in the past).       *)
(* params is execution_params: "ok", "none" (NULL) or "stub" (the object   *)
(* holding only _retry_count that the reaper writes over a NULL).          *)
(***************************************************************************)
EXTENDS Naturals

CONSTANTS
  Workers,      \* worker names, f"{hostname}-{pid}-worker-{idx}"
  NoWorker,     \* claimed_by IS NULL
  MaxRetries    \* BG_JOB_MAX_RETRIES

ASSUME NoWorkerAssumption == NoWorker \notin Workers
ASSUME MaxRetriesAssumption == MaxRetries \in Nat

ActiveStates   == {"pending", "running"}
TerminalStates == {"success", "error", "interrupted"}

Row == [status : {"absent"} \cup ActiveStates \cup TerminalStates,
        owner  : Workers \cup {NoWorker},
        lease  : {"none", "live", "expired"},
        retry  : Nat,
        params : {"ok", "none", "stub"}]

AbsentRow == [status |-> "absent", owner |-> NoWorker, lease |-> "none",
              retry |-> 0, params |-> "ok"]

IsActive(row)   == row.status \in ActiveStates
IsTerminal(row) == row.status \in TerminalStates

(* INSERT by _prepare_run. *)
InsertRun(params) == [AbsentRow EXCEPT !.status = "pending", !.params = params]

ClaimableRunning(row) == IsActive(row)   \* status and owner unchecked

(* The first UPDATE of _acquire_and_load. *)
Claimable(row) == row.status = "pending" /\ row.owner = NoWorker
ClaimNoLease(row, w) ==      \* the lease column is forgotten
  IF Claimable(row) THEN [row EXCEPT !.owner = w, !.status = "running"] ELSE row
Claim(row, w) ==
  IF Claimable(row)
  THEN [row EXCEPT !.owner = w, !.lease = "live", !.status = "running"]
  ELSE row

(* The second UPDATE of _acquire_and_load, for a row without parameters:   *)
(* it looks at the owner only, not at the status.                          *)
FailCorrupt(row, w) ==
  IF row.status # "absent" /\ row.owner = w
  THEN [row EXCEPT !.owner = NoWorker, !.lease = "none", !.status = "error"]
  ELSE row

(* start_run: any active row, whoever owns it. *)
StartRun(row) ==
  IF IsActive(row) THEN [row EXCEPT !.status = "running"] ELSE row

FinalizeUnguarded(row, status) ==  \* no status check
  IF row.status # "absent" THEN [row EXCEPT !.status = status] ELSE row

(* finalize_run: any active row, whoever owns it; the claim stays. *)
FinalizeRun(row, status) ==
  IF IsActive(row) THEN [row EXCEPT !.status = status] ELSE row

(* interrupt_unowned_run. *)
Unowned(row) ==
  /\ IsActive(row)
  /\ row.owner = NoWorker \/ row.lease = "expired"
InterruptUnowned(row) ==
  IF Unowned(row)
  THEN [row EXCEPT !.status = "interrupted", !.owner = NoWorker, !.lease = "none"]
  ELSE row

ReleaseAny(row, w) ==        \* no owner check
  [row EXCEPT !.owner = NoWorker, !.lease = "none"]

(* _release_lease and the UPDATE of _heartbeat_loop. *)
ReleaseLease(row, w) ==
  IF row.owner = w THEN [row EXCEPT !.owner = NoWorker, !.lease = "none"] ELSE row
ExtendLease(row, w) ==
  IF row.owner = w THEN [row EXCEPT !.lease = "live"] ELSE row

CrashedNoExpiry(row) == row.status = "running" /\ row.lease # "none"

(* LeaseReaper._recover_crashed_runs: count the retry, then give the run   *)
(* back to the queue or fail it when the budget is spent.                  *)
Crashed(row) == row.status = "running" /\ row.lease = "expired"
Exhausted(row) == row.retry + 1 > MaxRetries
RecoverCrashed(row) ==
  IF Crashed(row)
  THEN [status |-> IF Exhausted(row) THEN "error" ELSE "pending",
        owner  |-> NoWorker,
        lease  |-> "none",
        retry  |-> row.retry + 1,
        params |-> IF row.params = "none" THEN "stub" ELSE row.params]
  ELSE row

RequeueKeepClaim(row) ==     \* the claim columns are forgotten
  IF IsActive(row) THEN [row EXCEPT !.status = "pending"] ELSE row

(* The UPDATE of _requeue_drained_runs: any active row, whoever owns it. *)
RequeueDrained(row) ==
  IF IsActive(row)
  THEN [row EXCEPT !.status = "pending", !.owner = NoWorker, !.lease = "none"]
  ELSE row
=============================================================================
