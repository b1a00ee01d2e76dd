----------------------------- MODULE RunLifecycle -----------------------------
(***************************************************************************)
(* What background execution promises about a run, whatever happens to the *)
(* servers: an accepted run waits or executes until it is over, it goes    *)
(* back to waiting when its server is lost (charged to the retry budget)   *)
(* or hands it back (free of charge), and once it is over it stays over    *)
(* with the status it got.  Several runs may move in one step, because     *)
(* the reaper and a drain treat a batch in one transaction.                *)
(***************************************************************************)
EXTENDS Naturals

CONSTANTS Runs, MaxRetries

VARIABLES
  status,   \* [Runs -> run status]
  retry     \* [Runs -> Nat], retries charged so far

Over == {"success", "error", "interrupted"}

Init ==
  /\ status = [r \in Runs |-> "absent"]
  /\ retry = [r \in Runs |-> 0]

Free(r) == retry'[r] = retry[r]

Accept(r)   == status[r] = "absent" /\ status'[r] = "pending" /\ Free(r)
Begin(r)    == status[r] = "pending" /\ status'[r] = "running" /\ Free(r)
HandBack(r) == status[r] = "running" /\ status'[r] = "pending" /\ Free(r)
Finish(r)   == /\ status[r] \in {"pending", "running"}
               /\ status'[r] \in Over
               /\ Free(r)
Retry(r)    == /\ status[r] = "running" /\ status'[r] = "pending"
               /\ retry[r] < MaxRetries /\ retry'[r] = retry[r] + 1
GiveUp(r)   == /\ status[r] = "running" /\ status'[r] = "error"
               /\ retry[r] = MaxRetries /\ retry'[r] = retry[r] + 1
Stay(r)     == status'[r] = status[r] /\ Free(r)

RunStep(r) == \/ Accept(r) \/ Begin(r) \/ HandBack(r) \/ Finish(r)
              \/ Retry(r) \/ GiveUp(r) \/ Stay(r)

Next == \A r \in Runs : RunStep(r)

Spec == Init /\ [][Next]_<<status, retry>>
=============================================================================
