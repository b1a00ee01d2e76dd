---------------------------- MODULE StatelessRuns ----------------------------
(* One run on an ephemeral thread: a stateless request (routers/               *)
(* stateless_runs.py) or a firing of a cron without a thread, the waiter that  *)
(* reports its result (usecase/execution/run_waiters.py), the local executor   *)
(* or a worker elsewhere, and the deletion of the thread afterwards            *)
(* (usecase/execution/run_cleanup.py).                                         *)
EXTENDS Naturals, FiniteSets

CONSTANTS Kinds   \* entry points: subset of {"wait", "stream", "create", "cron"}

VARIABLES
  kind, keep, remote, cancels,  \* the request: entry point, on_completion="keep",
                                \* run by another instance, on_disconnect="cancel"
  at,        \* the handler: "idle", "prepared", "open" (its response streams), "closed"
  thread,    \* the ephemeral thread's row: "absent" or "present"
  run,       \* the run's status, "none" when there is no row
  exec,      \* the graph is executing
  ckpt,      \* the checkpointer holds checkpoints of the thread
  ended,     \* this process's broker saw the end event
  asked,     \* a cancel command is on its way to the executing instance
  cleaner,   \* the deletion: "none", "waiting", "cancel", "checkpoints", "row"
  answer,    \* body of the wait response
  why, killed    \* history: what went wrong; the deletion met an active run

vars == <<kind, keep, remote, cancels, at, thread, run, exec, ckpt, ended, asked,
          cleaner, answer, why, killed>>
request == <<kind, keep, remote, cancels>>
history == <<why, killed>>

Active == run \in {"pending", "running"}
HasOutput == {"success", "interrupted"}

Init ==
  /\ kind \in Kinds /\ keep \in BOOLEAN /\ remote \in BOOLEAN /\ cancels \in BOOLEAN
  /\ at = "idle" /\ thread = "absent" /\ run = "none"
  /\ exec = FALSE /\ ckpt = FALSE /\ ended = FALSE /\ asked = FALSE
  /\ cleaner = "none" /\ answer = "none" /\ why = {} /\ killed = FALSE

(* The thread and the run are committed; the run is submitted. *)
Prepare ==
  /\ at = "idle"
  /\ at' = IF kind \in {"wait", "stream"} THEN "open" ELSE "prepared"
  /\ thread' = "present" /\ run' = "pending"
  /\ UNCHANGED <<request, exec, ckpt, ended, asked, cleaner, answer, history>>

(* The endpoint raises.  The thread may have been created before, and the run  *)
(* with it when only executor.submit failed; the thread is deleted unless it   *)
(* is to be kept.                                                              *)
PrepareFails ==
  /\ at = "idle"
  /\ at' = "closed"
  /\ thread' \in {"absent", "present"}
  /\ run' \in IF thread' = "present" THEN {"none", "pending"} ELSE {"none"}
  /\ why' = IF run' = "pending" THEN why \cup {"submitError"} ELSE why
  /\ cleaner' = IF keep THEN "none" ELSE "cancel"
  /\ UNCHANGED <<request, exec, ckpt, ended, asked, answer, killed>>

(* schedule_background_cleanup, for background requests and crons. *)
ScheduleCleanup ==
  /\ at = "prepared"
  /\ at' = "closed"
  /\ cleaner' = IF keep THEN "none" ELSE "waiting"
  /\ UNCHANGED <<request, thread, run, exec, ckpt, ended, asked, answer, history>>

---------------------------------------------------------------------------
(* The execution: LocalExecutor.submit, or a worker of another instance.       *)

Start ==
  /\ run = "pending"
  /\ run' = "running" /\ exec' = TRUE
  /\ UNCHANGED <<request, at, thread, ckpt, ended, asked, cleaner, answer, history>>

Checkpoint ==
  /\ exec /\ ~ckpt
  /\ ckpt' = TRUE
  /\ UNCHANGED <<request, at, thread, run, exec, ended, asked, cleaner, answer, history>>

(* execute_run ends: the status is committed before the end event, which a     *)
(* local broker sees at once.  The row may be gone by now.                     *)
Finish(s) ==
  /\ exec
  /\ exec' = FALSE
  /\ run' = IF thread = "present" THEN s ELSE run
  /\ ended' = (ended \/ ~remote)
  /\ asked' = FALSE
  /\ UNCHANGED <<request, at, thread, ckpt, cleaner, answer, history>>

(* The subscription of a streaming client drains a remote run's end event. *)
DrainEnd ==
  /\ remote /\ kind = "stream" /\ at = "open" /\ ~ended
  /\ run # "none" /\ ~Active
  /\ ended' = TRUE
  /\ UNCHANGED <<request, at, thread, run, exec, ckpt, asked, cleaner, answer, history>>

(* The cancel command reaches the instance that executes the run. *)
CancelArrives ==
  /\ asked
  /\ asked' = FALSE /\ exec' = FALSE
  /\ run' = IF Active THEN "interrupted" ELSE run
  /\ UNCHANGED <<request, at, thread, ckpt, ended, cleaner, answer, history>>

CancelLost ==
  /\ asked /\ remote
  /\ asked' = FALSE
  /\ UNCHANGED <<request, at, thread, run, exec, ckpt, ended, cleaner, answer, history>>

---------------------------------------------------------------------------
(* The response *)

(* run_result_body: what the body of a wait says of the row. *)
AlwaysOutput(status, timedOut) == "output"
ResultBody(status, timedOut) ==
  CASE status = "none" -> "RunNotFound"
    [] status \in HasOutput -> "output"
    [] status = "error" -> "Error"
    [] OTHER -> IF timedOut THEN "TimeoutError" ELSE "IncompleteRun"

(* The handler's epilogue: delete_thread_by_id unless on_completion="keep". *)
AfterBodyNever == "none"
AfterBody == IF keep THEN "none" ELSE "cancel"

(* heartbeat_wait_body returns when the executor says that the run is over,    *)
(* when the wait times out and when waiting raises; the body that follows is   *)
(* complete in each case, and the thread is deleted.                           *)
AnswerWait(cause) ==
  /\ kind = "wait" /\ at = "open"
  /\ cause = "done" => ~Active
  /\ at' = "closed"
  /\ answer' = ResultBody(run, cause = "timeout")
  /\ why' = IF cause = "done" THEN why ELSE why \cup {cause}
  /\ cleaner' = AfterBody
  /\ UNCHANGED <<request, thread, run, exec, ckpt, ended, asked, killed>>

(* read_run_result raises after the wait: the response breaks off, which the   *)
(* handler does not tell from a client that went away.                         *)
AnswerFails ==
  /\ kind = "wait" /\ at = "open"
  /\ at' = "closed"
  /\ why' = why \cup {"readError"}
  /\ UNCHANGED <<request, thread, run, exec, ckpt, ended, asked, cleaner, answer, killed>>

(* The stream has delivered its end event, or stream_run_execution has caught  *)
(* an exception and ended it with an error event; the handler takes either for *)
(* a complete response.                                                        *)
StreamEnds(cause) ==
  /\ kind = "stream" /\ at = "open"
  /\ cause = "done" => ended
  /\ at' = "closed"
  /\ why' = IF cause = "done" THEN why ELSE why \cup {cause}
  /\ cleaner' = AfterBody
  /\ UNCHANGED <<request, thread, run, exec, ckpt, ended, asked, answer, killed>>

(* The client goes away: the thread stays, unless a stream's run is known to   *)
(* be finished (_run_finished).  With on_disconnect="cancel" the run is asked  *)
(* to stop.                                                                    *)
DeletesAlways(finished) == ~keep
DeletesOnDisconnect(finished) == ~keep /\ kind = "stream" /\ finished
Disconnect ==
  /\ at = "open"
  /\ at' = "closed"
  /\ why' = why \cup {"disconnect"}
  /\ cleaner' = IF DeletesOnDisconnect(ended) THEN "cancel" ELSE "none"
  /\ asked' = (asked \/ (kind = "stream" /\ cancels /\ exec))
  /\ UNCHANGED <<request, thread, run, exec, ckpt, ended, answer, killed>>

---------------------------------------------------------------------------
(* cleanup_after_background_run and delete_thread_by_id *)

(* The wait ends: the run is over, an hour has passed, waiting failed or the   *)
(* task was cancelled on shutdown.  The deletion follows in every case.        *)
CleanupWaited(cause) ==
  /\ cleaner = "waiting"
  /\ cause = "done" => ~Active
  /\ why' = IF cause = "done" THEN why ELSE why \cup {cause}
  /\ cleaner' = "cancel"
  /\ UNCHANGED <<request, at, thread, run, exec, ckpt, ended, asked, answer, killed>>

(* Active runs are cancelled: a local task is awaited, a remote one only asked. *)
NeverAwaited == FALSE
Awaited == Active /\ ~remote
CancelActive ==
  /\ cleaner = "cancel"
  /\ cleaner' = "checkpoints"
  /\ killed' = (killed \/ Active)
  /\ IF Awaited
     THEN exec' = FALSE /\ run' = "interrupted" /\ UNCHANGED asked
     ELSE asked' = (asked \/ (Active /\ exec)) /\ UNCHANGED <<exec, run>>
  /\ UNCHANGED <<request, at, thread, ckpt, ended, answer, why>>

DropCheckpoints ==
  /\ cleaner = "checkpoints"
  /\ IF thread = "present"
     THEN ckpt' = FALSE /\ cleaner' = "row"
     ELSE cleaner' = "none" /\ UNCHANGED ckpt
  /\ UNCHANGED <<request, at, thread, run, exec, ended, asked, answer, history>>

(* The thread's row and, by the cascade, the run's are deleted. *)
DropThread ==
  /\ cleaner = "row"
  /\ cleaner' = "none" /\ thread' = "absent" /\ run' = "none"
  /\ UNCHANGED <<request, at, exec, ckpt, ended, asked, answer, history>>

(* An infrastructure error ends the deletion; it is only logged. *)
DeleteFails ==
  /\ cleaner \in {"cancel", "checkpoints", "row"}
  /\ cleaner' = "none"
  /\ why' = why \cup {"deleteError"}
  /\ UNCHANGED <<request, at, thread, run, exec, ckpt, ended, asked, answer, killed>>

(* The process dies: the handler, the deletion and a local run with it. *)
Crash ==
  /\ at # "idle" /\ "crash" \notin why
  /\ why' = why \cup {"crash"}
  /\ at' = "closed" /\ cleaner' = "none"
  /\ exec' = (exec /\ remote)
  /\ UNCHANGED <<request, thread, run, ckpt, ended, asked, answer, killed>>

Next ==
  \/ Prepare \/ PrepareFails \/ ScheduleCleanup
  \/ Start \/ Checkpoint \/ DrainEnd \/ CancelArrives \/ CancelLost
  \/ \E s \in {"success", "error", "interrupted"} : Finish(s)
  \/ \E c \in {"done", "timeout", "waitError"} : AnswerWait(c)
  \/ \E c \in {"done", "streamError"} : StreamEnds(c)
  \/ AnswerFails \/ Disconnect
  \/ \E c \in {"done", "timeout", "waitError", "shutdown"} : CleanupWaited(c)
  \/ CancelActive \/ DropCheckpoints \/ DropThread \/ DeleteFails \/ Crash

Spec == Init /\ [][Next]_vars

---------------------------------------------------------------------------
(* What ends waiting for a run before the run is over, and what ends the       *)
(* deletion before the thread is gone.                                         *)
EarlyEnds == {"timeout", "waitError", "shutdown", "submitError", "streamError"}
GivenUp == {"disconnect", "readError", "crash", "deleteError"}

(* Every part of the state has its type. *)
TypeOK ==
  /\ kind \in Kinds /\ {keep, remote, cancels, exec, ckpt, ended, asked, killed} \subseteq BOOLEAN
  /\ at \in {"idle", "prepared", "open", "closed"}
  /\ thread \in {"absent", "present"}
  /\ run \in {"none", "pending", "running", "success", "error", "interrupted"}
  /\ cleaner \in {"none", "waiting", "cancel", "checkpoints", "row"}
  /\ answer \in {"none", "output", "Error", "TimeoutError", "IncompleteRun", "RunNotFound"}
  /\ why \subseteq EarlyEnds \cup GivenUp

(* delete_thread_by_id cancels what it finds active: it is reached with an     *)
(* active run only when a wait timed out, failed or was cancelled by the       *)
(* shutdown, when a committed run could not be queued or when its stream broke *)
(* off with an error event, never because a client went away (the              *)
(* on_disconnect="continue" contract) or because a stream delivered its end.   *)
ActiveRunSpared == killed => why \cap EarlyEnds # {}

(* An ephemeral thread that is not to be kept is either still on somebody's    *)
(* list or was given up for a known reason: the client went away before the    *)
(* run ended, the result could not be read, the process stopped or the         *)
(* deletion failed.                                                            *)
NoSilentLeak ==
  thread = "present" /\ ~keep /\ at = "closed" /\ cleaner = "none" => why \cap GivenUp # {}

(* The output that a wait returns is final: the run ended with it, and only    *)
(* the deletion of the thread follows.                                         *)
OutputIsFinal == answer = "output" => run \in HasOutput \/ thread = "absent"

(* delete_thread_by_id stops the runs before it deletes checkpoints and row:   *)
(* no checkpoint survives its thread, except those that a run on another       *)
(* instance, asked but not awaited, writes after the deletion.                 *)
CheckpointsGoWithThread ==
  thread = "absent" /\ ckpt /\ at = "closed" => remote /\ killed
=============================================================================
