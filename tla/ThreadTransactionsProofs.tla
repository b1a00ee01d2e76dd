---------------------- MODULE ThreadTransactionsProofs ----------------------
(***************************************************************************)
(* What ThreadTransactions guarantees for every set of runs: its type      *)
(* invariant, what the TTL sweep never does and, for clients that start    *)
(* one run after the other, the thread's status.                           *)
(***************************************************************************)
EXTENDS ThreadTransactions, TLAPS

(***************************************************************************)
(* The inductive invariant.                                                *)
(***************************************************************************)

(* Whoever holds the thread's row is at the step that needs it, and a run's *)
(* row is held by the end or the deletion of that run, which is under way.  *)
ThreadLock ==
  /\ \A r \in Runs : /\ create[r] = "commit" <=> tlock = <<"create", r>>
                     /\ tlock = <<"end", r>> => end[r].pc = "commit"
  /\ sweep.pc \in {"apply", "cascade"} <=> tlock = <<"sweep">>
  /\ delete = "cascade" <=> tlock = <<"delete">>

RunLocked(r) ==
  /\ rlock[r] \in {Nobody, <<"end", r>>, <<"drop", r>>}
  /\ end[r].pc # "idle" <=> rlock[r] = <<"end", r>>
  /\ drop[r] = "commit" <=> rlock[r] = <<"drop", r>>

RunLocks == \A r \in Runs : RunLocked(r)

(* A run is created once, ends only while its row is active, and an active  *)
(* run has a thread.                                                        *)
RowsFit ==
  /\ \A r \in Runs : /\ create[r] # "idle" => run[r] = "absent"
                     /\ end[r].pc # "idle" => run[r] = "active"
  /\ ~Exists => Active = {}

(* What the sweep has seen stays true while it works.                       *)
SweepSight ==
  /\ sweep.pc # "idle" => Active \subseteq sweep.late
  /\ sweep.pc = "cascade" /\ sweep.busy = {} => Active = {} /\ executing = {} /\ ~ckpt

IInv == ThreadLock /\ RunLocks /\ RowsFit /\ SweepSight

(* Clients that wait for a run before they start the next one.              *)
Started == {r \in Runs : run[r] = "active" \/ create[r] # "idle"}

OneAtATime ==
  /\ \A r, s \in Started : r = s
  /\ \A r \in Runs : end[r].pc = "commit" => tlock = <<"end", r>>
  /\ Exists /\ dropped = {} => (thread = "busy" <=> Active # {})

(***************************************************************************)
(* Lock holders.                                                           *)
(***************************************************************************)
Lockers(r) == {<<"create", r>>, <<"end", r>>, <<"drop", r>>}

(* The holders of a lock are told apart by transaction and by run. *)
LEMMA Holders ==
  ASSUME NEW r \in Runs, NEW s \in Runs
  PROVE  /\ <<"create", r>> \notin {Nobody, <<"delete">>, <<"sweep">>, <<"end", s>>, <<"drop", s>>}
         /\ <<"end", r>> \notin {Nobody, <<"delete">>, <<"sweep">>, <<"drop", s>>}
         /\ <<"drop", r>> \notin {Nobody, <<"delete">>, <<"sweep">>}
         /\ <<"create", r>> = <<"create", s>> => r = s
         /\ <<"end", r>> = <<"end", s>> => r = s
         /\ <<"drop", r>> = <<"drop", s>> => r = s
BY DEF Nobody

LEMMA LoneHolders ==
  Nobody # <<"delete">> /\ Nobody # <<"sweep">> /\ <<"delete">> # <<"sweep">>
BY DEF Nobody

(* Every holder is a transaction. *)
LEMMA HoldersInTxn ==
  /\ Nobody \in Txn /\ <<"delete">> \in Txn /\ <<"sweep">> \in Txn
  /\ \A r \in Runs : Lockers(r) \subseteq Txn
BY DEF Txn, Lockers

(* The type invariant, one step for each action. *)
LEMMA TypeInit == Init => TypeOK
<1> SUFFICES ASSUME Init PROVE TypeOK
  OBVIOUS
<1>1. IdleEnd \in [pc : {"idle", "ended", "lock", "commit"}, to : Outcomes]
  BY DEF IdleEnd, Outcomes
<1>2. IdleSweep \in [pc : {"idle", "claim", "apply", "cascade"}, late : SUBSET Runs,
                    busy : SUBSET Runs]
  BY DEF IdleSweep
<1> QED BY <1>1, <1>2, HoldersInTxn DEF Init, TypeOK

LEMMA UnlockType ==
  ASSUME TypeOK, NEW t \in Txn, Unlock(t)
  PROVE  tlock' \in Txn /\ rlock' \in [Runs -> Txn]
BY HoldersInTxn DEF TypeOK, Unlock

LEMMA TypeNext == TypeOK /\ [Next]_vars => TypeOK'
<1> SUFFICES ASSUME TypeOK, [Next]_vars PROVE TypeOK'
  OBVIOUS
<1> USE HoldersInTxn DEF TypeOK, txns, locks, LockThread, LockRun, Lockers
<1>1. CASE CreateThread
  BY <1>1, UnlockType DEF CreateThread, IdleSweep, Remove, Outcomes
<1>2. CASE DeleteBegin
  BY <1>2, UnlockType DEF DeleteBegin, IdleSweep, Remove, Outcomes
<1>3. CASE DeleteCheckpoints
  BY <1>3, UnlockType DEF DeleteCheckpoints, IdleSweep, Remove, Outcomes
<1>4. CASE DeleteLock
  BY <1>4, UnlockType DEF DeleteLock, IdleSweep, Remove, Outcomes
<1>5. CASE DeleteCommit
  BY <1>5, UnlockType DEF DeleteCommit, IdleSweep, Remove, Outcomes
<1>6. CASE DeleteFails
  BY <1>6, UnlockType DEF DeleteFails, IdleSweep, Remove, Outcomes
<1>7. CASE SweepBegin
  BY <1>7, UnlockType DEF SweepBegin, IdleSweep, Remove, Outcomes
<1>8. CASE SweepClaim
  <2>1. sweep' \in [pc : {"idle", "claim", "apply", "cascade"}, late : SUBSET Runs,
                    busy : SUBSET Runs]
    BY <1>8 DEF SweepClaim, IdleSweep
  <2>2. tlock' \in Txn /\ rlock' \in [Runs -> Txn]
    BY <1>8 DEF SweepClaim
  <2> QED BY <1>8, <2>1, <2>2 DEF SweepClaim
<1>9. CASE SweepKeeps
  BY <1>9, UnlockType DEF SweepKeeps, IdleSweep, Remove, Outcomes
<1>10. CASE SweepCheckpoints
  <2>1. Active \cup executing \in SUBSET Runs
    BY DEF Active
  <2>2. sweep' \in [pc : {"idle", "claim", "apply", "cascade"}, late : SUBSET Runs,
                    busy : SUBSET Runs]
    BY <1>10, <2>1 DEF SweepCheckpoints
  <2> QED BY <1>10, <2>2 DEF SweepCheckpoints
<1>11. CASE SweepCommit
  BY <1>11, UnlockType DEF SweepCommit, IdleSweep, Remove, Outcomes
<1>12. ASSUME NEW r \in Runs, PrepareRead(r) PROVE TypeOK'
  BY <1>12, UnlockType DEF PrepareRead, IdleEnd, IdleSweep, Remove, Outcomes
<1>13. ASSUME NEW r \in Runs, PrepareLock(r) PROVE TypeOK'
  BY <1>13, UnlockType DEF PrepareLock, IdleEnd, IdleSweep, Remove, Outcomes
<1>14. ASSUME NEW r \in Runs, PrepareFails(r) PROVE TypeOK'
  BY <1>14, UnlockType DEF PrepareFails, IdleEnd, IdleSweep, Remove, Outcomes
<1>15. ASSUME NEW r \in Runs, PrepareCommit(r) PROVE TypeOK'
  BY <1>15, UnlockType DEF PrepareCommit, IdleEnd, IdleSweep, Remove, Outcomes
<1>16. ASSUME NEW r \in Runs, Checkpoint(r) PROVE TypeOK'
  BY <1>16, UnlockType DEF Checkpoint, IdleEnd, IdleSweep, Remove, Outcomes
<1>17. ASSUME NEW r \in Runs, ExecutionStops(r) PROVE TypeOK'
  BY <1>17, UnlockType DEF ExecutionStops, IdleEnd, IdleSweep, Remove, Outcomes
<1>18. ASSUME NEW r \in Runs, EndSnapshot(r) PROVE TypeOK'
  BY <1>18, UnlockType DEF EndSnapshot, IdleEnd, IdleSweep, Remove, Outcomes
<1>19. ASSUME NEW r \in Runs, EndLock(r) PROVE TypeOK'
  BY <1>19, UnlockType, ZenonT(60) DEF EndLock, IdleEnd, IdleSweep, Remove, Outcomes
<1>20. ASSUME NEW r \in Runs, EndCommit(r) PROVE TypeOK'
  BY <1>20, UnlockType DEF EndCommit, IdleEnd, IdleSweep, Remove, Outcomes
<1>21. ASSUME NEW r \in Runs, DropRun(r) PROVE TypeOK'
  BY <1>21, UnlockType DEF DropRun, IdleEnd, IdleSweep, Remove, Outcomes
<1>22. ASSUME NEW r \in Runs, DropCommit(r) PROVE TypeOK'
  BY <1>22, UnlockType DEF DropCommit, IdleEnd, IdleSweep, Remove, Outcomes
<1>23. ASSUME NEW r \in Runs, DeadlockAborts(r) PROVE TypeOK'
  <2>1. CASE end' = [end EXCEPT ![r] = IdleEnd] /\ Unlock(<<"end", r>>) /\ UNCHANGED <<delete, sweep>>
    BY <1>23, <2>1, UnlockType DEF DeadlockAborts, IdleEnd, Outcomes
  <2>2. CASE delete' = "idle" /\ Unlock(<<"delete">>) /\ UNCHANGED <<end, sweep>>
    BY <1>23, <2>2, UnlockType DEF DeadlockAborts
  <2>3. CASE sweep' = IdleSweep /\ Unlock(<<"sweep">>) /\ UNCHANGED <<end, delete>>
    BY <1>23, <2>3, UnlockType DEF DeadlockAborts, IdleSweep
  <2> QED BY <1>23, <2>1, <2>2, <2>3 DEF DeadlockAborts
<1>26. ASSUME NEW r \in Runs, Execute(r) PROVE TypeOK'
  BY <1>26 DEF Execute
<1>24. ASSUME NEW r \in Runs, NEW s \in Outcomes, EndRun(r, s) PROVE TypeOK'
  BY <1>24 DEF EndRun
<1>25. CASE UNCHANGED vars
  BY <1>25 DEF vars
<1> QED
  BY <1>1, <1>2, <1>3, <1>4, <1>5, <1>6, <1>7, <1>8, <1>9, <1>10, <1>11, <1>12,
      <1>13, <1>14, <1>15, <1>16, <1>17, <1>18, <1>19, <1>20, <1>21, <1>22,
      <1>23, <1>24, <1>25, <1>26 DEF Next, EndStep, PrepareStep, DeleteStep, SweepStep

(* Every variable keeps its type, for every set of runs. *)
THEOREM TypeCorrect == Spec => []TypeOK
<1> QED BY TypeInit, TypeNext, PTL DEF Spec

(* A DELETE that got every run's row meets no run that is ending. *)
LEMMA NoRowLocked ==
  ASSUME RunLocks, \A r \in Runs : rlock[r] = Nobody
  PROVE  \A r \in Runs : end[r].pc = "idle"
<1> SUFFICES ASSUME NEW r \in Runs PROVE end[r].pc = "idle"
  OBVIOUS
<1>1. <<"end", r>> # Nobody
  BY Holders
<1> QED BY <1>1 DEF RunLocks, RunLocked

-----------------------------------------------------------------------------
LEMMA InvInit == Init => IInv
<1> SUFFICES ASSUME Init PROVE IInv
  OBVIOUS
<1> USE Holders, LoneHolders DEF Init, IdleEnd, IdleSweep
<1>1. ThreadLock
  BY DEF ThreadLock
<1>2. RunLocks
  BY DEF RunLocks, RunLocked
<1>3. RowsFit /\ SweepSight
  BY DEF RowsFit, SweepSight, Active, Exists
<1> QED BY <1>1, <1>2, <1>3 DEF IInv

(* Who holds the thread's row: one step for each action. *)
LEMMA ThreadLockNext ==
  ASSUME TypeOK, ThreadLock, [Next]_vars PROVE ThreadLock'
<1> USE Holders, LoneHolders DEF TypeOK, ThreadLock, Lockers, txns, locks,
    LockThread, LockRun, Unlock, Active, Exists, Cascading, Remove, IdleEnd,
    IdleSweep
<1>1. CASE CreateThread
  BY <1>1 DEF CreateThread
<1>2. CASE DeleteBegin
  BY <1>2 DEF DeleteBegin
<1>3. CASE DeleteCheckpoints
  BY <1>3 DEF DeleteCheckpoints
<1>4. CASE DeleteLock
  BY <1>4 DEF DeleteLock
<1>5. CASE DeleteCommit
  BY <1>5 DEF DeleteCommit
<1>6. CASE DeleteFails
  BY <1>6, ZenonT(60) DEF DeleteFails
<1>7. CASE SweepBegin
  BY <1>7 DEF SweepBegin
<1>8. CASE SweepClaim
  BY <1>8 DEF SweepClaim
<1>9. CASE SweepKeeps
  BY <1>9, ZenonT(60) DEF SweepKeeps
<1>10. CASE SweepCheckpoints
  BY <1>10 DEF SweepCheckpoints
<1>11. CASE SweepCommit
  BY <1>11, ZenonT(60) DEF SweepCommit
<1>12. ASSUME NEW r \in Runs, PrepareRead(r) PROVE ThreadLock'
  BY <1>12 DEF PrepareRead
<1>13. ASSUME NEW r \in Runs, PrepareLock(r) PROVE ThreadLock'
  BY <1>13 DEF PrepareLock
<1>14. ASSUME NEW r \in Runs, PrepareFails(r) PROVE ThreadLock'
  BY <1>14 DEF PrepareFails
<1>15. ASSUME NEW r \in Runs, PrepareCommit(r) PROVE ThreadLock'
  <2>1. tlock = <<"create", r>> /\ tlock' = Nobody /\ sweep'.pc = sweep.pc
    BY <1>15 DEF PrepareCommit
  <2>2. ASSUME NEW q \in Runs
        PROVE  create'[q] # "commit" /\ tlock # <<"end", q>> /\ tlock # <<"sweep">>
    BY <1>15, <2>1 DEF PrepareCommit
  <2> QED BY <1>15, <2>1, <2>2 DEF PrepareCommit
<1>16. ASSUME NEW r \in Runs, Checkpoint(r) PROVE ThreadLock'
  BY <1>16 DEF Checkpoint
<1>17. ASSUME NEW r \in Runs, ExecutionStops(r) PROVE ThreadLock'
  BY <1>17 DEF ExecutionStops
<1>18. ASSUME NEW r \in Runs, EndSnapshot(r) PROVE ThreadLock'
  BY <1>18 DEF EndSnapshot
<1>19. ASSUME NEW r \in Runs, EndLock(r) PROVE ThreadLock'
  BY <1>19 DEF EndLock
<1>20. ASSUME NEW r \in Runs, EndCommit(r) PROVE ThreadLock'
  <2>1. CASE tlock = <<"end", r>>
    <3>1. tlock' = Nobody
      BY <1>20, <2>1 DEF EndCommit
    <3>2. \A q \in Runs : create[q] # "commit"
      BY <2>1
    <3> QED BY <1>20, <2>1, <3>1, <3>2 DEF EndCommit
  <2>2. CASE tlock # <<"end", r>>
    <3>1. tlock' = tlock /\ \A q \in Runs : q # r => end'[q] = end[q]
      BY <1>20, <2>2 DEF EndCommit
    <3>2. create' = create /\ sweep' = sweep /\ delete' = delete
      BY <1>20 DEF EndCommit
    <3> QED BY <2>2, <3>1, <3>2
  <2> QED BY <2>1, <2>2
<1>21. ASSUME NEW r \in Runs, DropRun(r) PROVE ThreadLock'
  BY <1>21 DEF DropRun
<1>22. ASSUME NEW r \in Runs, DropCommit(r) PROVE ThreadLock'
  <2>1. CASE tlock = <<"drop", r>>
    <3>1. tlock' = Nobody /\ \A q \in Runs : create[q] # "commit"
      BY <1>22, <2>1 DEF DropCommit
    <3> QED BY <1>22, <2>1, <3>1 DEF DropCommit
  <2>2. CASE tlock # <<"drop", r>>
    <3>1. tlock' = tlock
      BY <1>22, <2>2 DEF DropCommit
    <3> QED BY <1>22, <3>1 DEF DropCommit
  <2> QED BY <2>1, <2>2
<1>23. ASSUME NEW r \in Runs, DeadlockAborts(r) PROVE ThreadLock'
  BY <1>23 DEF DeadlockAborts
<1>26. ASSUME NEW r \in Runs, Execute(r) PROVE ThreadLock'
  BY <1>26 DEF Execute
<1>24. ASSUME NEW r \in Runs, NEW s \in Outcomes, EndRun(r, s) PROVE ThreadLock'
  BY <1>24 DEF EndRun
<1>25. CASE UNCHANGED vars
  BY <1>25 DEF vars
<1> QED
  BY <1>1, <1>2, <1>3, <1>4, <1>5, <1>6, <1>7, <1>8, <1>9, <1>10, <1>11, <1>12,
      <1>13, <1>14, <1>15, <1>16, <1>17, <1>18, <1>19, <1>20, <1>21, <1>22,
      <1>23, <1>24, <1>25, <1>26 DEF Next, EndStep, PrepareStep, DeleteStep, SweepStep

(* Who holds the runs' rows. *)
LEMMA RunLocksNext ==
  ASSUME TypeOK, RunLocks, RowsFit, [Next]_vars PROVE RunLocks'
<1> USE Holders, LoneHolders DEF TypeOK, RunLocks, RunLocked, RowsFit, Lockers,
    txns, locks, LockThread, LockRun, Unlock, Active, Exists, Cascading,
    Remove, IdleEnd, IdleSweep
<1>1. CASE CreateThread
  BY <1>1 DEF CreateThread
<1>2. CASE DeleteBegin
  BY <1>2 DEF DeleteBegin
<1>3. CASE DeleteCheckpoints
  BY <1>3 DEF DeleteCheckpoints
<1>4. CASE DeleteLock
  BY <1>4 DEF DeleteLock
<1>5. CASE DeleteCommit
  BY <1>5 DEF DeleteCommit
<1>6. CASE DeleteFails
  BY <1>6 DEF DeleteFails
<1>7. CASE SweepBegin
  BY <1>7 DEF SweepBegin
<1>8. CASE SweepClaim
  BY <1>8 DEF SweepClaim
<1>9. CASE SweepKeeps
  BY <1>9 DEF SweepKeeps
<1>10. CASE SweepCheckpoints
  BY <1>10 DEF SweepCheckpoints
<1>11. CASE SweepCommit
  BY <1>11 DEF SweepCommit
<1>12. ASSUME NEW r \in Runs, PrepareRead(r) PROVE RunLocks'
  BY <1>12 DEF PrepareRead
<1>13. ASSUME NEW r \in Runs, PrepareLock(r) PROVE RunLocks'
  BY <1>13 DEF PrepareLock
<1>14. ASSUME NEW r \in Runs, PrepareFails(r) PROVE RunLocks'
  BY <1>14 DEF PrepareFails
<1>15. ASSUME NEW r \in Runs, PrepareCommit(r) PROVE RunLocks'
  BY <1>15 DEF PrepareCommit
<1>16. ASSUME NEW r \in Runs, Checkpoint(r) PROVE RunLocks'
  BY <1>16 DEF Checkpoint
<1>17. ASSUME NEW r \in Runs, ExecutionStops(r) PROVE RunLocks'
  BY <1>17 DEF ExecutionStops
<1>18. ASSUME NEW r \in Runs, EndSnapshot(r) PROVE RunLocks'
  BY <1>18 DEF EndSnapshot
<1>19. ASSUME NEW r \in Runs, EndLock(r) PROVE RunLocks'
  BY <1>19 DEF EndLock
<1>20. ASSUME NEW r \in Runs, EndCommit(r) PROVE RunLocks'
  <2> SUFFICES ASSUME NEW q \in Runs PROVE RunLocked(q)'
    OBVIOUS
  <2>1. CASE q = r
    <3>1. rlock[r] = <<"end", r>> /\ rlock'[r] = Nobody /\ end'[r].pc = "idle" /\ drop' = drop
      BY <1>20 DEF EndCommit
    <3> QED BY <2>1, <3>1
  <2>2. CASE q # r
    <3>1. rlock'[q] = rlock[q] /\ end'[q] = end[q] /\ drop' = drop
      BY <1>20, <2>2 DEF EndCommit
    <3> QED BY <3>1
  <2> QED BY <2>1, <2>2
<1>21. ASSUME NEW r \in Runs, DropRun(r) PROVE RunLocks'
  <2>1. /\ rlock[r] = Nobody /\ drop[r] = "idle" /\ end' = end
        /\ rlock' = [rlock EXCEPT ![r] = <<"drop", r>>]
        /\ drop' = [drop EXCEPT ![r] = "commit"]
    BY <1>21 DEF DropRun
  <2>2. RunLocked(r)'
    BY <2>1
  <2>3. ASSUME NEW q \in Runs, q # r PROVE RunLocked(q)'
    BY <2>1, <2>3
  <2> QED BY <2>2, <2>3
<1>22. ASSUME NEW r \in Runs, DropCommit(r) PROVE RunLocks'
  <2> SUFFICES ASSUME NEW q \in Runs PROVE RunLocked(q)'
    OBVIOUS
  <2>1. CASE q = r
    <3>1. rlock[r] = <<"drop", r>> /\ rlock'[r] = Nobody /\ drop'[r] = "idle" /\ end' = end
      BY <1>22 DEF DropCommit
    <3> QED BY <2>1, <3>1
  <2>2. CASE q # r
    <3>1. rlock'[q] = rlock[q] /\ drop'[q] = drop[q] /\ end' = end
      BY <1>22, <2>2 DEF DropCommit
    <3> QED BY <3>1
  <2> QED BY <2>1, <2>2
<1>23. ASSUME NEW r \in Runs, DeadlockAborts(r) PROVE RunLocks'
  <2> SUFFICES ASSUME NEW q \in Runs PROVE RunLocked(q)'
    OBVIOUS
  <2>1. CASE end' = [end EXCEPT ![r] = IdleEnd] /\ Unlock(<<"end", r>>)
    <3>1. drop' = drop /\ end[r].pc = "lock"
      BY <1>23 DEF DeadlockAborts
    <3>2. CASE q = r
      <4>1. rlock[r] = <<"end", r>> /\ rlock'[r] = Nobody /\ end'[r].pc = "idle"
        BY <2>1, <3>1
      <4> QED BY <3>1, <3>2, <4>1
    <3>3. CASE q # r
      <4>1. rlock'[q] = rlock[q] /\ end'[q] = end[q]
        BY <2>1, <3>3
      <4> QED BY <3>1, <4>1
    <3> QED BY <3>2, <3>3
  <2>2. CASE end' = end /\ (Unlock(<<"delete">>) \/ Unlock(<<"sweep">>))
    <3>1. drop' = drop /\ rlock'[q] = rlock[q]
      BY <1>23, <2>2 DEF DeadlockAborts
    <3> QED BY <2>2, <3>1
  <2> QED BY <1>23, <2>1, <2>2 DEF DeadlockAborts
<1>26. ASSUME NEW r \in Runs, Execute(r) PROVE RunLocks'
  BY <1>26 DEF Execute
<1>24. ASSUME NEW r \in Runs, NEW s \in Outcomes, EndRun(r, s) PROVE RunLocks'
  BY <1>24 DEF EndRun
<1>25. CASE UNCHANGED vars
  BY <1>25 DEF vars
<1> QED
  BY <1>1, <1>2, <1>3, <1>4, <1>5, <1>6, <1>7, <1>8, <1>9, <1>10, <1>11, <1>12,
      <1>13, <1>14, <1>15, <1>16, <1>17, <1>18, <1>19, <1>20, <1>21, <1>22,
      <1>23, <1>24, <1>25, <1>26 DEF Next, EndStep, PrepareStep, DeleteStep, SweepStep

(* The rows fit the transactions: an end keeps its run's row locked, so      *)
(* neither delete_run nor a cascade removes the run under it.                *)
LEMMA RowsFitNext ==
  ASSUME TypeOK, ThreadLock, RunLocks, RowsFit, [Next]_vars PROVE RowsFit'
<1> USE Holders, LoneHolders DEF TypeOK, ThreadLock, RunLocks, RunLocked,
    RowsFit, Lockers, txns, locks, LockThread, LockRun, Unlock, Active,
    Exists, Cascading, Remove, IdleEnd, IdleSweep
<1>1. CASE CreateThread
  BY <1>1 DEF CreateThread
<1>2. CASE DeleteBegin
  BY <1>2 DEF DeleteBegin
<1>3. CASE DeleteCheckpoints
  BY <1>3 DEF DeleteCheckpoints
<1>4. CASE DeleteLock
  BY <1>4 DEF DeleteLock
<1>5. CASE DeleteCommit
  <2>1. create' = create /\ end' = end /\ \A r \in Runs : rlock[r] = Nobody
    BY <1>5 DEF DeleteCommit
  <2>2. \A r \in Runs : end[r].pc = "idle"
    BY <2>1, NoRowLocked
  <2>3. run' = [r \in Runs |-> IF run[r] # "absent" THEN "deleted" ELSE run[r]]
    BY <1>5 DEF DeleteCommit
  <2>4. \A r \in Runs : run'[r] # "active" /\ (run[r] = "absent" => run'[r] = "absent")
    BY <2>3
  <2> QED BY <2>1, <2>2, <2>4
<1>6. CASE DeleteFails
  BY <1>6 DEF DeleteFails
<1>7. CASE SweepBegin
  BY <1>7 DEF SweepBegin
<1>8. CASE SweepClaim
  BY <1>8 DEF SweepClaim
<1>9. CASE SweepKeeps
  BY <1>9 DEF SweepKeeps
<1>10. CASE SweepCheckpoints
  BY <1>10 DEF SweepCheckpoints
<1>11. CASE SweepCommit
  <2>1. create' = create /\ end' = end /\ \A r \in Runs : rlock[r] = Nobody
    BY <1>11 DEF SweepCommit
  <2>2. \A r \in Runs : end[r].pc = "idle"
    BY <2>1, NoRowLocked
  <2>3. run' = [r \in Runs |-> IF run[r] # "absent" THEN "deleted" ELSE run[r]]
    BY <1>11 DEF SweepCommit
  <2>4. \A r \in Runs : run'[r] # "active" /\ (run[r] = "absent" => run'[r] = "absent")
    BY <2>3
  <2> QED BY <2>1, <2>2, <2>4
<1>12. ASSUME NEW r \in Runs, PrepareRead(r) PROVE RowsFit'
  BY <1>12 DEF PrepareRead
<1>13. ASSUME NEW r \in Runs, PrepareLock(r) PROVE RowsFit'
  BY <1>13 DEF PrepareLock
<1>14. ASSUME NEW r \in Runs, PrepareFails(r) PROVE RowsFit'
  BY <1>14 DEF PrepareFails
<1>15. ASSUME NEW r \in Runs, PrepareCommit(r) PROVE RowsFit'
  BY <1>15 DEF PrepareCommit
<1>16. ASSUME NEW r \in Runs, Checkpoint(r) PROVE RowsFit'
  BY <1>16 DEF Checkpoint
<1>17. ASSUME NEW r \in Runs, ExecutionStops(r) PROVE RowsFit'
  BY <1>17 DEF ExecutionStops
<1>18. ASSUME NEW r \in Runs, EndSnapshot(r) PROVE RowsFit'
  BY <1>18 DEF EndSnapshot
<1>19. ASSUME NEW r \in Runs, EndLock(r) PROVE RowsFit'
  BY <1>19 DEF EndLock
<1>20. ASSUME NEW r \in Runs, EndCommit(r) PROVE RowsFit'
  <2>1. run[r] = "active" /\ end'[r].pc = "idle" /\ run'[r] = "over" /\ create' = create
    BY <1>20 DEF EndCommit
  <2>2. \A q \in Runs : q # r => run'[q] = run[q] /\ end'[q] = end[q]
    BY <1>20 DEF EndCommit
  <2>3. thread # "none" /\ thread' # "none"
    BY <1>20, <2>1 DEF EndCommit, Outcomes
  <2> QED BY <2>1, <2>2, <2>3
<1>21. ASSUME NEW r \in Runs, DropRun(r) PROVE RowsFit'
  BY <1>21 DEF DropRun
<1>22. ASSUME NEW r \in Runs, DropCommit(r) PROVE RowsFit'
  BY <1>22 DEF DropCommit
<1>23. ASSUME NEW r \in Runs, DeadlockAborts(r) PROVE RowsFit'
  BY <1>23 DEF DeadlockAborts
<1>26. ASSUME NEW r \in Runs, Execute(r) PROVE RowsFit'
  BY <1>26 DEF Execute
<1>24. ASSUME NEW r \in Runs, NEW s \in Outcomes, EndRun(r, s) PROVE RowsFit'
  BY <1>24 DEF EndRun
<1>25. CASE UNCHANGED vars
  BY <1>25 DEF vars
<1> QED
  BY <1>1, <1>2, <1>3, <1>4, <1>5, <1>6, <1>7, <1>8, <1>9, <1>10, <1>11, <1>12,
      <1>13, <1>14, <1>15, <1>16, <1>17, <1>18, <1>19, <1>20, <1>21, <1>22,
      <1>23, <1>24, <1>25, <1>26 DEF Next, EndStep, PrepareStep, DeleteStep, SweepStep

(* While the sweep holds the thread's row no run is created, and no run that *)
(* could save a checkpoint is left.                                          *)
LEMMA SweepSightNext ==
  ASSUME TypeOK, ThreadLock, RowsFit, SweepSight, [Next]_vars PROVE SweepSight'
<1> USE Holders, LoneHolders DEF TypeOK, ThreadLock, RowsFit, SweepSight, Lockers, txns, locks, LockThread, LockRun, Unlock, Active,
    Exists, Cascading, Remove, IdleEnd, IdleSweep
<1>1. CASE CreateThread
  BY <1>1 DEF CreateThread
<1>2. CASE DeleteBegin
  BY <1>2 DEF DeleteBegin
<1>3. CASE DeleteCheckpoints
  BY <1>3 DEF DeleteCheckpoints
<1>4. CASE DeleteLock
  BY <1>4 DEF DeleteLock
<1>5. CASE DeleteCommit
  BY <1>5 DEF DeleteCommit
<1>6. CASE DeleteFails
  BY <1>6 DEF DeleteFails
<1>7. CASE SweepBegin
  BY <1>7 DEF SweepBegin
<1>8. CASE SweepClaim
  BY <1>8 DEF SweepClaim
<1>9. CASE SweepKeeps
  BY <1>9 DEF SweepKeeps
<1>10. CASE SweepCheckpoints
  BY <1>10 DEF SweepCheckpoints
<1>11. CASE SweepCommit
  BY <1>11 DEF SweepCommit
<1>12. ASSUME NEW r \in Runs, PrepareRead(r) PROVE SweepSight'
  BY <1>12 DEF PrepareRead
<1>13. ASSUME NEW r \in Runs, PrepareLock(r) PROVE SweepSight'
  BY <1>13 DEF PrepareLock
<1>14. ASSUME NEW r \in Runs, PrepareFails(r) PROVE SweepSight'
  BY <1>14 DEF PrepareFails
<1>15. ASSUME NEW r \in Runs, PrepareCommit(r) PROVE SweepSight'
  BY <1>15 DEF PrepareCommit
<1>16. ASSUME NEW r \in Runs, Checkpoint(r) PROVE SweepSight'
  BY <1>16 DEF Checkpoint
<1>17. ASSUME NEW r \in Runs, ExecutionStops(r) PROVE SweepSight'
  BY <1>17 DEF ExecutionStops
<1>18. ASSUME NEW r \in Runs, EndSnapshot(r) PROVE SweepSight'
  BY <1>18 DEF EndSnapshot
<1>19. ASSUME NEW r \in Runs, EndLock(r) PROVE SweepSight'
  BY <1>19 DEF EndLock
<1>20. ASSUME NEW r \in Runs, EndCommit(r) PROVE SweepSight'
  BY <1>20 DEF EndCommit
<1>21. ASSUME NEW r \in Runs, DropRun(r) PROVE SweepSight'
  BY <1>21 DEF DropRun
<1>22. ASSUME NEW r \in Runs, DropCommit(r) PROVE SweepSight'
  BY <1>22 DEF DropCommit
<1>23. ASSUME NEW r \in Runs, DeadlockAborts(r) PROVE SweepSight'
  BY <1>23 DEF DeadlockAborts
<1>26. ASSUME NEW r \in Runs, Execute(r) PROVE SweepSight'
  BY <1>26 DEF Execute
<1>24. ASSUME NEW r \in Runs, NEW s \in Outcomes, EndRun(r, s) PROVE SweepSight'
  BY <1>24 DEF EndRun
<1>25. CASE UNCHANGED vars
  BY <1>25 DEF vars
<1> QED
  BY <1>1, <1>2, <1>3, <1>4, <1>5, <1>6, <1>7, <1>8, <1>9, <1>10, <1>11, <1>12,
      <1>13, <1>14, <1>15, <1>16, <1>17, <1>18, <1>19, <1>20, <1>21, <1>22,
      <1>23, <1>24, <1>25, <1>26 DEF Next, EndStep, PrepareStep, DeleteStep, SweepStep

(* Locks, rows, executions and what the sweep saw fit together in every      *)
(* reachable state, whether or not clients overlap their runs.               *)
THEOREM Discipline == Spec => []IInv
<1>1. TypeOK /\ IInv /\ [Next]_vars => IInv'
  BY ThreadLockNext, RunLocksNext, RowsFitNext, SweepSightNext
      DEF IInv
<1> QED BY <1>1, InvInit, TypeCorrect, PTL DEF Spec

-----------------------------------------------------------------------------
(* The TTL sweep removes no active run but those committed while its claim   *)
(* statement was being evaluated: ThreadTTLSweeper._sweep_once deletes a     *)
(* thread only while it holds the row, and no run starts then.               *)
THEOREM SweepSparesRuns == Spec => SweepSpares
<1>1. IInv => (\A r \in Active : sweep.pc = "cascade" /\ thread' = "none" => r \in sweep.late)
  BY DEF IInv, SweepSight
<1> QED BY <1>1, Discipline, PTL DEF SweepSpares

(* A thread the sweep deletes has no checkpoints, unless one of its runs was *)
(* at work when they were deleted.                                           *)
THEOREM SweepLeavesNoCheckpoints == Spec => SweepLeavesNothing
<1>1. IInv => (sweep.pc = "cascade" /\ thread' = "none" /\ sweep.busy = {} => ~ckpt)
  BY DEF IInv, SweepSight
<1> QED BY <1>1, Discipline, PTL DEF SweepLeavesNothing

-----------------------------------------------------------------------------
(* Clients that do not overlap their runs: one run is started at a time, its *)
(* end always gets the thread's row, and the status follows the run.         *)
LEMMA OneAtATimeInit == Init => OneAtATime
BY DEF Init, OneAtATime, Started, Exists, Active, IdleEnd

LEMMA OneAtATimeNext ==
  ASSUME Overlap = FALSE, TypeOK, IInv, OneAtATime, [Next]_vars PROVE OneAtATime'
<1> USE Holders, LoneHolders DEF TypeOK, IInv, ThreadLock, RunLocks, RunLocked,
    RowsFit, OneAtATime, Started, txns, locks, LockThread, LockRun,
    Unlock, Active, Exists, Cascading, Remove, IdleEnd, IdleSweep
<1>1. CASE CreateThread
  BY <1>1 DEF CreateThread
<1>2. CASE DeleteBegin
  BY <1>2 DEF DeleteBegin
<1>3. CASE DeleteCheckpoints
  BY <1>3 DEF DeleteCheckpoints
<1>4. CASE DeleteLock
  BY <1>4 DEF DeleteLock
<1>5. CASE DeleteCommit
  BY <1>5 DEF DeleteCommit
<1>6. CASE DeleteFails
  BY <1>6 DEF DeleteFails
<1>7. CASE SweepBegin
  BY <1>7 DEF SweepBegin
<1>8. CASE SweepClaim
  BY <1>8 DEF SweepClaim
<1>9. CASE SweepKeeps
  BY <1>9 DEF SweepKeeps
<1>10. CASE SweepCheckpoints
  BY <1>10 DEF SweepCheckpoints
<1>11. CASE SweepCommit
  BY <1>11 DEF SweepCommit
<1>12. ASSUME NEW r \in Runs, PrepareRead(r) PROVE OneAtATime'
  BY <1>12 DEF PrepareRead
<1>13. ASSUME NEW r \in Runs, PrepareLock(r) PROVE OneAtATime'
  BY <1>13 DEF PrepareLock
<1>14. ASSUME NEW r \in Runs, PrepareFails(r) PROVE OneAtATime'
  BY <1>14 DEF PrepareFails
<1>15. ASSUME NEW r \in Runs, PrepareCommit(r) PROVE OneAtATime'
  BY <1>15 DEF PrepareCommit
<1>16. ASSUME NEW r \in Runs, Checkpoint(r) PROVE OneAtATime'
  BY <1>16 DEF Checkpoint
<1>17. ASSUME NEW r \in Runs, ExecutionStops(r) PROVE OneAtATime'
  BY <1>17 DEF ExecutionStops
<1>18. ASSUME NEW r \in Runs, EndSnapshot(r) PROVE OneAtATime'
  BY <1>18 DEF EndSnapshot
<1>19. ASSUME NEW r \in Runs, EndLock(r) PROVE OneAtATime'
  BY <1>19 DEF EndLock
<1>20. ASSUME NEW r \in Runs, EndCommit(r) PROVE OneAtATime'
  <2>1. tlock = <<"end", r>> /\ tlock' = Nobody /\ run[r] = "active"
    BY <1>20 DEF EndCommit
  <2>2. Active = {r}
    BY <2>1
  <2>3. \A q \in Runs : end'[q].pc # "commit"
    <3> SUFFICES ASSUME NEW q \in Runs, end'[q].pc = "commit" PROVE FALSE
      OBVIOUS
    <3>1. q # r
      BY <1>20 DEF EndCommit
    <3>2. end[q].pc = "commit"
      BY <1>20, <3>1 DEF EndCommit
    <3> QED BY <2>1, <3>1, <3>2
  <2>4. thread' # "busy"
    BY <1>20, <2>1 DEF EndCommit, Outcomes
  <2>5. run' = [run EXCEPT ![r] = "over"] /\ create' = create
    BY <1>20 DEF EndCommit
  <2>6. Active' = {} /\ Started' \subseteq Started
    BY <2>2, <2>5
  <2> QED BY <2>3, <2>4, <2>6
<1>21. ASSUME NEW r \in Runs, DropRun(r) PROVE OneAtATime'
  BY <1>21 DEF DropRun
<1>22. ASSUME NEW r \in Runs, DropCommit(r) PROVE OneAtATime'
  <2>1. /\ run' = [q \in Runs |-> IF q \in {r} /\ run[q] # "absent" THEN "deleted" ELSE run[q]]
        /\ create' = create /\ end' = end /\ thread' = thread
        /\ dropped' = dropped \cup ({r} \cap Active)
        /\ tlock' = IF tlock = <<"drop", r>> THEN Nobody ELSE tlock
    BY <1>22 DEF DropCommit
  <2>2. Started' \subseteq Started
    BY <2>1
  <2>3. \A q \in Runs : end'[q].pc = "commit" => tlock' = <<"end", q>>
    <3> SUFFICES ASSUME NEW q \in Runs, end[q].pc = "commit" PROVE tlock' = <<"end", q>>
      BY <2>1
    <3>1. tlock = <<"end", q>> /\ tlock # <<"drop", r>>
      OBVIOUS
    <3> QED BY <2>1, <3>1
  <2>4. dropped' = {} => dropped = {} /\ Active' = Active
    BY <2>1
  <2> QED BY <2>1, <2>2, <2>3, <2>4
<1>23. ASSUME NEW r \in Runs, DeadlockAborts(r) PROVE OneAtATime'
  BY <1>23, SMTT(30) DEF DeadlockAborts
<1>26. ASSUME NEW r \in Runs, Execute(r) PROVE OneAtATime'
  BY <1>26 DEF Execute
<1>24. ASSUME NEW r \in Runs, NEW s \in Outcomes, EndRun(r, s) PROVE OneAtATime'
  BY <1>24 DEF EndRun
<1>25. CASE UNCHANGED vars
  BY <1>25 DEF vars
<1> QED
  BY <1>1, <1>2, <1>3, <1>4, <1>5, <1>6, <1>7, <1>8, <1>9, <1>10, <1>11, <1>12,
      <1>13, <1>14, <1>15, <1>16, <1>17, <1>18, <1>19, <1>20, <1>21, <1>22,
      <1>23, <1>24, <1>25, <1>26 DEF Next, EndStep, PrepareStep, DeleteStep, SweepStep

(* With clients that start a run when the last one is over, the thread's     *)
(* status tells the truth: busy exactly while a run is pending or running.   *)
THEOREM StatusIsTruthful ==
  ASSUME Overlap = FALSE PROVE Spec => []StatusTruthful
<1>1. TypeOK /\ IInv /\ OneAtATime /\ [Next]_vars => OneAtATime'
  BY OneAtATimeNext
<1>2. OneAtATime => StatusTruthful
  BY DEF OneAtATime, StatusTruthful
<1> QED BY <1>1, <1>2, OneAtATimeInit, TypeCorrect, Discipline, PTL DEF Spec
=============================================================================
