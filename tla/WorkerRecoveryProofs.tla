------------------------- MODULE WorkerRecoveryProofs -------------------------
(***************************************************************************)
(* That a run is brought back, and what it costs.  The reaper charges a    *)
(* retry to the row of every lease it finds expired: each is paid for by a *)
(* crash, a stall or a failing statement.  A running row without a lease,  *)
(* which the reaper never looks at, is in the hands of a job that ends it. *)
(* A done key is set for a run that is over or about to be.                *)
(*                                                                         *)
(* The proofs follow a job along its way through _execute_and_release:     *)
(* Path says what one step of a task does, StepKinds what any step of the  *)
(* system is, JobActs what it does to a job, RowMoves what it does to a    *)
(* row.                                                                    *)
(***************************************************************************)
EXTENDS WorkerProofs

USE DEF ActiveStates, TerminalStates, Unclaimed, Leased, Executing, Closing

(***************************************************************************)
(* The way of a job.                                                       *)
(***************************************************************************)

(* One step of a task: from a at a.pc to p, the row of its run from x to y. *)
(* w is its worker and o what the except clauses of _execute_and_release    *)
(* make of the row.                                                         *)
Path(a, p, x, y, w, o) ==
  \/ a.pc = "created" /\ p = "acquire" /\ y = x
  \/ /\ a.pc = "acquire" /\ ~a.kill /\ y = Claim(x, w)
     /\ p = IF Claimable(x) THEN AfterClaim(x) ELSE "outer"
  \/ a.pc = "acquire" /\ a.kill /\ p = "outer" /\ y \in {x, Claim(x, w)}
  \/ a.pc = "corrupt" /\ p = "outer" /\ y = FailCorrupt(x, w)
  \/ a.pc = "corrupt" /\ a.kill /\ p = "outer" /\ y = x
  \/ a.pc = "leased" /\ y = x /\ p = "start" /\ ~a.kill
  \/ a.pc = "leased" /\ y = x /\ p \in {"outer", "release"} /\ a.kill
  \/ /\ a.pc = "start" /\ ~a.kill /\ y = StartRun(x)
     /\ p = IF IsActive(x) THEN "stream" ELSE "finally"
  \/ a.pc = "start" /\ a.kill /\ y \in {x, StartRun(x)} /\ p \in {"cfinal", "release"}
  \/ a.pc \in {"stream", "committed"} /\ a.kill /\ y = x /\ p \in {"cfinal", "release"}
  \/ a.pc = "stream" /\ ~a.kill /\ y = x /\ p = "cfinal"
  \/ /\ a.pc \in {"stream", "cfinal"} /\ ~a.kill /\ p \in {"committed", "csignal"}
     /\ \E s \in TerminalStates : y = FinalizeRun(x, s)
  \/ a.pc \in {"committed", "csignal"} /\ y = x /\ p = "finally"
  \/ /\ a.pc = "cfinal" /\ a.kill /\ p = "finally"
     /\ y = x \/ \E s \in TerminalStates : y = FinalizeRun(x, s)
  \/ a.pc = "finally" /\ y = x /\ p = "release"
  \/ a.pc = "release" /\ p = "outer" /\ y = ReleaseLease(x, w)
  \/ a.pc = "release" /\ a.kill /\ p = "outer" /\ y = x
  \/ a.pc = "outer" /\ y = o /\ p = "finish"

Advances(j) ==
  /\ \A k \in Jobs \ {j} : job'[k] = job[k]
  /\ \A r \in Runs \ {job[j].run} : rows'[r] = rows[r]
  /\ job'[j].run = job[j].run /\ job'[j].outer = job[j].outer /\ ~job'[j].kill
  /\ Path(job[j], job'[j].pc, RowOf(j), rows'[job[j].run], WorkerOf[j], OuterOutcome(j))
  /\ UNCHANGED <<explicit, inst, msgs>>
  /\ done' = done \/ (job[j].pc = "finally" /\ done' = done \cup {job[j].run})

LEMMA AdvanceBy ==
  ASSUME TypeOK, NEW j \in Jobs, job[j].pc # "free", NEW jb, job' = [job EXCEPT ![j] = jb],
         jb.run = job[j].run, jb.outer = job[j].outer, jb.kill = FALSE,
         NEW y, rows' = [rows EXCEPT ![job[j].run] = y],
         Path(job[j], jb.pc, RowOf(j), y, WorkerOf[j], OuterOutcome(j)),
         UNCHANGED <<explicit, inst, msgs>>,
         done' = done \/ (job[j].pc = "finally" /\ done' = done \cup {job[j].run})
  PROVE  Advances(j)
<1>1. job[j].run \in Runs /\ rows \in [Runs -> Row] /\ job \in [Jobs -> JobState]
  BY RunType DEF TypeOK, RowsOK, JobsOK
<1>2. job'[j] = jb /\ rows'[job[j].run] = y
  BY <1>1
<1> QED BY <1>1, <1>2 DEF Advances

LEMMA AdvanceGoto ==
  ASSUME TypeOK, NEW j \in Jobs, job[j].pc # "free", NEW p, Goto(j, p),
         NEW y, rows' = [rows EXCEPT ![job[j].run] = y],
         Path(job[j], p, RowOf(j), y, WorkerOf[j], OuterOutcome(j)),
         UNCHANGED <<explicit, inst, msgs>>, UNCHANGED done
  PROVE  Advances(j)
<1> DEFINE jb == [job[j] EXCEPT !.pc = p, !.kill = FALSE]
<1>1. job' = [job EXCEPT ![j] = jb] /\ job[j] \in JobState
  BY DEF TypeOK, JobsOK, Goto
<1>2. jb.run = job[j].run /\ jb.outer = job[j].outer /\ jb.kill = FALSE /\ jb.pc = p
  BY <1>1 DEF JobState
<1> HIDE DEF jb
<1> QED BY <1>1, <1>2, AdvanceBy

(* UNCHANGED rows, as an assignment to the row of j. *)
LEMMA NoStatement ==
  ASSUME TypeOK, NEW j \in Jobs, job[j].pc # "free"
  PROVE  rows = [rows EXCEPT ![job[j].run] = RowOf(j)]
BY RunType DEF TypeOK, RowsOK, RowOf

LEMMA AdvanceQuiet ==
  ASSUME TypeOK, NEW j \in Jobs, job[j].pc # "free", NEW p, Goto(j, p), UNCHANGED rows,
         Path(job[j], p, RowOf(j), RowOf(j), WorkerOf[j], OuterOutcome(j)),
         UNCHANGED <<explicit, inst, msgs>>, UNCHANGED done
  PROVE  Advances(j)
BY NoStatement, AdvanceGoto

(* What a task does is an advance, unless it ends, is cancelled or fails. *)
LEMMA AdvanceSteps ==
  ASSUME TypeOK, NEW j \in Jobs,
         \/ Begin(j) \/ Acquire(j) \/ ErrorCorrupt(j) \/ ExecuteRun(j) \/ Start(j)
         \/ GraphCompletes(j) \/ GraphRaises(j) \/ FinalizeInHandler(j) \/ SignalEnd(j)
         \/ Finally(j) \/ Release(j) \/ OuterCleanup(j) \/ CancelledInAcquire(j)
         \/ CancelledBeforeStart(j) \/ CancelledInBody(j) \/ CancelledInHandler(j)
         \/ CancelledInRelease(j) \/ SignalEndFails(j)
  PROVE  Advances(j)
<1> DEFINE Goal == Advances(j)
           a == job[j]
           x == RowOf(j)
           w == WorkerOf[j]
           o == OuterOutcome(j)
           Still == UNCHANGED <<explicit, inst, msgs>>
<1> HIDE DEF Goal, o
<1>a. ASSUME a.pc # "free", NEW p, Goto(j, p), NEW y, rows' = [rows EXCEPT ![a.run] = y],
             Path(a, p, x, y, w, o), Still, UNCHANGED done
      PROVE  Goal
  BY <1>a, AdvanceGoto DEF Goal, o
<1>b. ASSUME a.pc # "free", NEW p, Goto(j, p), UNCHANGED rows, Path(a, p, x, x, w, o),
             Still, UNCHANGED done
      PROVE  Goal
  BY <1>b, AdvanceQuiet DEF Goal, o
<1>c. ASSUME a.pc # "free", NEW p, Goto(j, p), NEW y, Applied(j, y), Path(a, p, x, x, w, o),
             Path(a, p, x, y, w, o), Still, UNCHANGED done
      PROVE  Goal
  BY <1>a, <1>b, <1>c DEF Applied
<1>d. a \in JobState /\ job \in [Jobs -> JobState]
  BY DEF TypeOK, JobsOK
<1>e. rows[a.run] = x
  BY DEF RowOf
<1>1. ASSUME Begin(j) PROVE Goal
  <2>1. a.pc = "created" /\ Goto(j, "acquire") /\ UNCHANGED rows /\ Still /\ UNCHANGED done
    BY <1>1 DEF Begin, table, sets, process, signals
  <2>2. Path(a, "acquire", x, x, w, o)
    BY <2>1 DEF Path
  <2> QED BY <1>b, <2>1, <2>2
<1>2. ASSUME Acquire(j) PROVE Goal
  <2> DEFINE p == IF Claimable(x) THEN AfterClaim(x) ELSE "outer"
  <2>1. /\ a.pc = "acquire" /\ ~a.kill /\ Goto(j, p) /\ Still /\ UNCHANGED done
        /\ rows' = [rows EXCEPT ![a.run] = Claim(x, w)]
    BY <1>2, <1>e DEF Acquire, sets, process, signals
  <2>2. Path(a, p, x, Claim(x, w), w, o)
    BY <2>1 DEF Path
  <2> HIDE DEF p
  <2> QED BY <1>a, <2>1, <2>2
<1>3. ASSUME ErrorCorrupt(j) PROVE Goal
  <2>1. /\ a.pc = "corrupt" /\ Goto(j, "outer") /\ Still /\ UNCHANGED done
        /\ rows' = [rows EXCEPT ![a.run] = FailCorrupt(x, w)]
    BY <1>3, <1>e DEF ErrorCorrupt, sets, process, signals
  <2>2. Path(a, "outer", x, FailCorrupt(x, w), w, o)
    BY <2>1 DEF Path
  <2> QED BY <1>a, <2>1, <2>2
<1>4. ASSUME ExecuteRun(j) PROVE Goal
  <2> DEFINE jb == [a EXCEPT !.pc = "start", !.beat = TRUE]
  <2>1. /\ a.pc = "leased" /\ ~a.kill /\ job' = [job EXCEPT ![j] = jb]
        /\ UNCHANGED rows /\ Still /\ UNCHANGED done
    BY <1>4, <1>d DEF ExecuteRun, table, sets, process, signals
  <2>2. jb.run = a.run /\ jb.outer = a.outer /\ jb.kill = FALSE /\ jb.pc = "start"
    BY <1>d, <2>1 DEF JobState
  <2>3. Path(a, "start", x, x, w, o)
    BY <2>1 DEF Path
  <2> HIDE DEF jb
  <2> QED BY <2>1, <2>2, <2>3, NoStatement, AdvanceBy, ZenonT(60) DEF Goal, o
<1>5. ASSUME Start(j) PROVE Goal
  <2> DEFINE p == IF IsActive(x) THEN "stream" ELSE "finally"
  <2>1. /\ a.pc = "start" /\ ~a.kill /\ Goto(j, p) /\ Still /\ UNCHANGED done
        /\ rows' = [rows EXCEPT ![a.run] = StartRun(x)]
    BY <1>5, <1>e DEF Start, sets, process, signals
  <2>2. Path(a, p, x, StartRun(x), w, o)
    BY <2>1 DEF Path
  <2> HIDE DEF p
  <2> QED BY <1>a, <2>1, <2>2
<1>6. ASSUME NEW s \in TerminalStates, NEW p \in {"committed", "csignal"},
             Finalize(j, s, p), a.pc \in {"stream", "cfinal"}, ~a.kill, Still, UNCHANGED done
      PROVE  Goal
  <2> DEFINE note == IF IsActive(x) THEN "finalized" ELSE "none"
             jb == [a EXCEPT !.pc = p, !.note = note]
             y == FinalizeRun(x, s)
  <2> HIDE DEF note
  <2>1. job' = [job EXCEPT ![j] = jb] /\ rows' = [rows EXCEPT ![a.run] = y]
    BY <1>6, <1>d, <1>e DEF Finalize, note
  <2>2. jb.run = a.run /\ jb.outer = a.outer /\ jb.kill = FALSE /\ jb.pc = p
    BY <1>d, <1>6 DEF JobState
  <2>3. Path(a, p, x, y, w, o)
    BY <1>6 DEF Path
  <2> HIDE DEF jb, y
  <2> QED BY <1>6, <2>1, <2>2, <2>3, AdvanceBy DEF Goal, o
<1>7. ASSUME GraphCompletes(j) \/ FinalizeInHandler(j) PROVE Goal
  <2>1. Still /\ UNCHANGED done /\ ~a.kill
    BY <1>7 DEF GraphCompletes, FinalizeInHandler, sets, process, signals
  <2>2. a.pc = "cfinal" => a.out \in TerminalStates
    BY DEF TypeOK, JobsOK, JobState
  <2> QED BY <1>6, <1>7, <2>1, <2>2 DEF GraphCompletes, FinalizeInHandler
<1>8. ASSUME GraphRaises(j) PROVE Goal
  <2> DEFINE jb == [a EXCEPT !.pc = "cfinal", !.out = "error"]
  <2>1. /\ a.pc = "stream" /\ ~a.kill /\ job' = [job EXCEPT ![j] = jb]
        /\ UNCHANGED rows /\ Still /\ UNCHANGED done
    BY <1>8, <1>d DEF GraphRaises, table, sets, process, signals
  <2>2. jb.run = a.run /\ jb.outer = a.outer /\ jb.kill = FALSE /\ jb.pc = "cfinal"
    BY <1>d, <2>1 DEF JobState
  <2>3. Path(a, "cfinal", x, x, w, o)
    BY <2>1 DEF Path
  <2> HIDE DEF jb
  <2> QED BY <2>1, <2>2, <2>3, NoStatement, AdvanceBy, ZenonT(60) DEF Goal, o
<1>9. ASSUME SignalEnd(j) \/ SignalEndFails(j) PROVE Goal
  <2>1. /\ a.pc \in {"committed", "csignal"} /\ Goto(j, "finally") /\ UNCHANGED rows
        /\ Still /\ UNCHANGED done
    BY <1>9 DEF SignalEnd, SignalEndFails, table, sets, process, signals
  <2>2. Path(a, "finally", x, x, w, o)
    BY <2>1 DEF Path
  <2> QED BY <1>b, <2>1, <2>2
<1>10. ASSUME LeaveExecuteRun(j), NEW y, rows' = [rows EXCEPT ![a.run] = y], a.pc # "free",
              Path(a, "release", x, y, w, o), UNCHANGED <<inst, msgs>>,
              done' = done \/ (a.pc = "finally" /\ done' = done \cup {a.run})
       PROVE  Goal
  <2> DEFINE jb == [a EXCEPT !.pc = "release", !.kill = FALSE, !.beat = FALSE]
  <2>1. job' = [job EXCEPT ![j] = jb] /\ Still
    BY <1>10, <1>d DEF LeaveExecuteRun
  <2>2. jb.run = a.run /\ jb.outer = a.outer /\ jb.kill = FALSE /\ jb.pc = "release"
    BY <1>d DEF JobState
  <2> HIDE DEF jb
  <2> QED BY <1>10, <2>1, <2>2, AdvanceBy DEF Goal, o
<1>11. ASSUME Finally(j) PROVE Goal
  <2>1. /\ a.pc = "finally" /\ LeaveExecuteRun(j) /\ UNCHANGED rows /\ UNCHANGED <<inst, msgs>>
        /\ done' = done \/ done' = done \cup {a.run}
    BY <1>11 DEF Finally, table, process
  <2>2. Path(a, "release", x, x, w, o)
    BY <2>1 DEF Path
  <2> QED BY <1>10, <2>1, <2>2, NoStatement
<1>12. ASSUME Release(j) PROVE Goal
  <2>1. /\ a.pc = "release" /\ Goto(j, "outer") /\ Still /\ UNCHANGED done
        /\ rows' = [rows EXCEPT ![a.run] = ReleaseLease(x, w)]
    BY <1>12, <1>e DEF Release, sets, process, signals
  <2>2. Path(a, "outer", x, ReleaseLease(x, w), w, o)
    BY <2>1 DEF Path
  <2> QED BY <1>a, <2>1, <2>2
<1>13. ASSUME OuterCleanup(j) PROVE Goal
  <2>1. /\ a.pc = "outer" /\ Goto(j, "finish") /\ Still /\ UNCHANGED done
        /\ rows' = [rows EXCEPT ![a.run] = o]
    BY <1>13 DEF OuterCleanup, sets, process, signals, o
  <2>2. Path(a, "finish", x, o, w, o)
    BY <2>1 DEF Path
  <2> QED BY <1>a, <2>1, <2>2
<1>14. ASSUME CancelledInAcquire(j) PROVE Goal
  <2>1. a.kill /\ Goto(j, "outer") /\ Still /\ UNCHANGED done
    BY <1>14 DEF CancelledInAcquire, sets, process, signals
  <2>2. CASE a.pc = "acquire" /\ Applied(j, Claim(x, w))
    <3>1. Path(a, "outer", x, x, w, o) /\ Path(a, "outer", x, Claim(x, w), w, o)
      BY <2>1, <2>2 DEF Path
    <3> QED BY <1>c, <2>1, <2>2, <3>1
  <2>3. CASE a.pc = "corrupt" /\ Applied(j, FailCorrupt(x, w))
    <3>1. Path(a, "outer", x, x, w, o) /\ Path(a, "outer", x, FailCorrupt(x, w), w, o)
      BY <2>1, <2>3 DEF Path
    <3> QED BY <1>c, <2>1, <2>3, <3>1
  <2>4. CASE a.pc = "leased" /\ UNCHANGED rows
    <3>1. Path(a, "outer", x, x, w, o)
      BY <2>1, <2>4 DEF Path
    <3> QED BY <1>b, <2>1, <2>4, <3>1
  <2> QED BY <1>14, <2>2, <2>3, <2>4 DEF CancelledInAcquire
<1>15. ASSUME CancelledBeforeStart(j) PROVE Goal
  <2>1. /\ a.pc = "leased" /\ a.kill /\ Goto(j, "release") /\ UNCHANGED rows
        /\ Still /\ UNCHANGED done
    BY <1>15 DEF CancelledBeforeStart, table, sets, process, signals
  <2>2. Path(a, "release", x, x, w, o)
    BY <2>1 DEF Path
  <2> QED BY <1>b, <2>1, <2>2
<1>16. ASSUME CancelledInBody(j) PROVE Goal
  <2>1. /\ a.pc \in {"start", "stream", "committed"} /\ a.kill
        /\ UNCHANGED <<inst, msgs>> /\ UNCHANGED done
    BY <1>16 DEF CancelledInBody, process, signals
  <2>2. PICK y : /\ rows' = [rows EXCEPT ![a.run] = y]
                 /\ y = x \/ (a.pc = "start" /\ y = StartRun(x))
    BY <1>16, <2>1, NoStatement DEF CancelledInBody, Applied
  <2>3. \A p \in {"cfinal", "release"} : Path(a, p, x, y, w, o)
    BY <2>1, <2>2 DEF Path
  <2>4. CASE ResumesElsewhere(j)
    <3>1. LeaveExecuteRun(j)
      BY <1>16, <2>4 DEF CancelledInBody
    <3>2. Path(a, "release", x, y, w, o)
      BY <2>3
    <3> QED BY <1>10, <2>1, <2>2, <3>1, <3>2
  <2>5. CASE ~ResumesElsewhere(j)
    <3> DEFINE out == CancelOutcome(j)
               jb == [a EXCEPT !.pc = "cfinal", !.kill = FALSE, !.out = out]
    <3> HIDE DEF out
    <3>1. job' = [job EXCEPT ![j] = jb] /\ UNCHANGED explicit
      BY <1>16, <1>d, <2>5 DEF CancelledInBody, sets, out
    <3>2. jb.run = a.run /\ jb.outer = a.outer /\ jb.kill = FALSE /\ jb.pc = "cfinal"
      BY <1>d DEF JobState
    <3>3. Path(a, "cfinal", x, y, w, o)
      BY <2>3
    <3> HIDE DEF jb
    <3> QED BY <2>1, <2>2, <3>1, <3>2, <3>3, AdvanceBy DEF Goal, o
  <2> QED BY <2>4, <2>5
<1>17. ASSUME CancelledInHandler(j) PROVE Goal
  <2>1. /\ a.pc \in {"committed", "cfinal", "csignal"} /\ a.kill /\ Goto(j, "finally")
        /\ Still /\ UNCHANGED done
    BY <1>17 DEF CancelledInHandler, sets, process, signals
  <2>2. Path(a, "finally", x, x, w, o)
    BY <2>1 DEF Path
  <2>3. CASE a.pc = "cfinal"
    <3>1. a.out \in TerminalStates
      BY <2>3 DEF TypeOK, JobsOK, JobState
    <3>2. Path(a, "finally", x, FinalizeRun(x, a.out), w, o)
      BY <2>1, <2>3, <3>1 DEF Path
    <3>3. Applied(j, FinalizeRun(x, a.out))
      BY <1>17, <2>3 DEF CancelledInHandler
    <3> QED BY <1>c, <2>1, <2>2, <3>2, <3>3
  <2>4. CASE a.pc # "cfinal"
    <3>1. UNCHANGED rows
      BY <1>17, <2>4 DEF CancelledInHandler
    <3> QED BY <1>b, <2>1, <2>2, <3>1
  <2> QED BY <2>3, <2>4
<1>18. ASSUME CancelledInRelease(j) PROVE Goal
  <2>1. /\ a.pc = "release" /\ a.kill /\ Goto(j, "outer") /\ Still /\ UNCHANGED done
        /\ Applied(j, ReleaseLease(x, w))
    BY <1>18 DEF CancelledInRelease, sets, process, signals
  <2>2. Path(a, "outer", x, x, w, o) /\ Path(a, "outer", x, ReleaseLease(x, w), w, o)
    BY <2>1 DEF Path
  <2> QED BY <1>c, <2>1, <2>2
<1>19. Goal
  BY <1>1, <1>2, <1>3, <1>4, <1>5, <1>7, <1>8, <1>9, <1>11, <1>12, <1>13, <1>14, <1>15,
     <1>16, <1>17, <1>18
<1> QED BY <1>19 DEF Goal

(***************************************************************************)
(* The steps of a system that does not drain, by what they do to jobs and  *)
(* rows.                                                                   *)
(***************************************************************************)

(* A slot takes a run, or is given back by a task that is over. *)
Takes(j) ==
  /\ job[j].pc = "free"
  /\ \A k \in Jobs \ {j} : job'[k] = job[k]
  /\ job'[j].pc \in {"created", "held"} /\ ~job'[j].kill /\ job'[j].outer = "none"
  /\ UNCHANGED <<rows, explicit, done>>

Leaves(j) ==
  /\ job[j].pc \in {"created", "held", "finish"}
  /\ \A k \in Jobs \ {j} : job'[k] = job[k]
  /\ job'[j] = IdleJob
  /\ UNCHANGED <<rows, done>>
  /\ \A i \in Instances :
       \/ explicit'[i] = explicit[i]
       \/ i = Host(j) /\ job[j].pc = "finish" /\ explicit'[i] = explicit[i] \ {job[j].run}

(* A user's cancel reaches the process of a task. *)
Reaches(i, r) ==
  /\ inst[i] # "down"
  /\ \E e : ExecuteCancel(i, r, e)
  /\ UNCHANGED <<rows, done>>
  /\ msgs # {} \/ SpendAll({"cancel", "redis"})

Kinds ==
  \/ \E j \in Jobs : \/ Advances(j) \/ Takes(j) \/ Leaves(j)
                     \/ DbError(j) \/ Heartbeat(j) \/ Timeout(j)
  \/ \E i \in Instances : \E r \in Runs : Reaches(i, r)
  \/ \E r \in Runs : PrepareRun(r) \/ InterruptReconciled(r) \/ ExpireLease(r)
  \/ \E i \in Instances : ReapRecover(i) \/ Kill(i) \/ Restart(i)
  \/ UNCHANGED <<rows, job, explicit, done>>

LEMMA TakesSlot ==
  ASSUME TypeOK, NEW j \in Jobs, Dequeue(j) \/ DequeueWhileStopping(j) \/ PollPostgres(j)
  PROVE  Takes(j)
<1>1. /\ job[j].pc = "free" /\ UNCHANGED <<rows, explicit, done>>
      /\ \E r, p : p \in {"created", "held"} /\ Take(j, r, p)
  BY DEF Dequeue, DequeueWhileStopping, PollPostgres, table, sets, signals
<1>2. PICK r, p : p \in {"created", "held"} /\ Take(j, r, p)
  BY <1>1
<1>3. /\ job'[j] = [IdleJob EXCEPT !.run = r, !.pc = p]
      /\ \A k \in Jobs \ {j} : job'[k] = job[k]
  BY <1>2 DEF Take, TypeOK, JobsOK
<1> QED BY <1>1, <1>2, <1>3 DEF Takes, IdleJob

LEMMA LeavesSlot ==
  ASSUME TypeOK, NEW j \in Jobs,
         CancelledUnborn(j) \/ PushBack(j) \/ PushBackFails(j) \/ OuterFinally(j)
  PROVE  Leaves(j)
<1>1. /\ job' = [job EXCEPT ![j] = IdleJob] /\ UNCHANGED <<rows, done>>
      /\ job[j].pc \in {"created", "held", "finish"}
  BY DEF CancelledUnborn, PushBack, PushBackFails, OuterFinally, table, signals
<1>2. job'[j] = IdleJob /\ \A k \in Jobs \ {j} : job'[k] = job[k]
  BY <1>1 DEF TypeOK, JobsOK
<1>3. CASE OuterFinally(j)
  <2>1. job[j].pc = "finish" /\ explicit' = [explicit EXCEPT ![Host(j)] = @ \ {job[j].run}]
    BY <1>3 DEF OuterFinally
  <2>2. \A i \in Instances : explicit'[i] = explicit[i]
                             \/ (i = Host(j) /\ explicit'[i] = explicit[i] \ {job[j].run})
    BY <2>1 DEF TypeOK, RegistriesOK
  <2> QED BY <1>1, <1>2, <2>1, <2>2 DEF Leaves
<1>4. CASE CancelledUnborn(j) \/ PushBack(j) \/ PushBackFails(j)
  <2>1. UNCHANGED explicit
    BY <1>4 DEF CancelledUnborn, PushBack, PushBackFails, sets
  <2> QED BY <1>1, <1>2, <2>1 DEF Leaves
<1> QED BY <1>3, <1>4

LEMMA StepKinds ==
  ASSUME TypeOK, Undrained, [Next]_vars PROVE Kinds
<1> DEFINE Quiet == UNCHANGED <<rows, job, explicit, done>>
<1>1. ASSUME NEW r \in Runs, \/ PrepareRun(r) \/ Submit(r) \/ SubmitFails(r)
                             \/ InterruptReconciled(r) \/ InterruptOwned(r)
                             \/ ExpireLease(r) \/ Age(r)
      PROVE  Kinds
  <2>1. Submit(r) \/ SubmitFails(r) \/ InterruptOwned(r) \/ Age(r) => Quiet
    BY DEF Submit, SubmitFails, InterruptOwned, Age, table, sets, signals
  <2> QED BY <1>1, <2>1 DEF Kinds
<1>2. ASSUME NEW r \in Runs, NEW i \in Instances, InterruptLocally(i, r) PROVE Kinds
  <2>1. Reaches(i, r)
    BY <1>2 DEF InterruptLocally, Reaches, table
  <2> QED BY <2>1 DEF Kinds
<1>3. ASSUME NEW m \in msgs, HandleCancelCommand(m) PROVE Kinds
  <2>1. m.inst \in Instances /\ m.run \in Runs
    BY DEF TypeOK, TrafficOK
  <2>2. Reaches(m.inst, m.run)
    BY <1>3 DEF HandleCancelCommand, Reaches, table
  <2> QED BY <2>1, <2>2 DEF Kinds
<1>4. ASSUME NEW m \in msgs, LoseCancelCommand(m) PROVE Quiet
  BY <1>4 DEF LoseCancelCommand, table, sets, signals
<1>5. ASSUME NEW j \in Jobs, \/ JobStep(j) \/ LoopStep(j) \/ Heartbeat(j) \/ Timeout(j)
                             \/ PollPostgres(j) \/ PushBackFails(j) \/ SignalEndFails(j)
                             \/ DbError(j)
      PROVE  Kinds
  <2>1. \/ Advances(j) \/ Takes(j) \/ Leaves(j) \/ DbError(j) \/ Heartbeat(j) \/ Timeout(j)
    BY <1>5, AdvanceSteps, TakesSlot, LeavesSlot DEF JobStep, LoopStep
  <2> QED BY <2>1 DEF Kinds
<1>6. ASSUME NEW i \in Instances, \/ ReaperStep(i) \/ StopStep(i) \/ ReapRedisError(i)
                                  \/ PushDrainedFails(i) \/ Kill(i) \/ Restart(i) \/ Stop(i)
      PROVE  Kinds
  <2>1. ~StopStep(i) /\ ~PushDrainedFails(i)
    BY DEF Undrained, StopStep, DrainDeadline, StopLoops, Requeue, PushDrained, PushDrainedFails
  <2>2. ReapFind(i) \/ ReapPush(i) \/ ReapCheck(i) \/ ReapRedisError(i) \/ Stop(i) => Quiet
    BY DEF ReapFind, ReapPush, ReapCheck, ReapRedisError, Stop, table, sets, signals
  <2> QED BY <1>6, <2>1, <2>2 DEF ReaperStep, Kinds
<1>7. CASE UNCHANGED vars
  BY <1>7 DEF vars, table, sets, signals, Kinds
<1>8. CASE Next
  <2>1. ASSUME NEW m \in msgs, HandleCancelCommand(m) \/ LoseCancelCommand(m) PROVE Kinds
    BY <1>3, <1>4, <2>1 DEF Kinds
  <2> QED BY <1>1, <1>2, <1>5, <1>6, <1>8, <2>1 DEF Next
<1> QED BY <1>7, <1>8

(***************************************************************************)
(* What the statements of a job do to the row of its run.                  *)
(***************************************************************************)

(* A run somebody is counted on to finish. *)
Engaged(row) == row.status = "running" /\ row.lease # "none"

(* x becomes y without a new claim: the claim may go, the run may end. *)
Eases(x, y) ==
  /\ y \in Row /\ y.owner \in {x.owner, NoWorker} /\ y.retry = x.retry /\ y.params = x.params
  /\ IsTerminal(x) => IsTerminal(y)
  /\ Engaged(y) => y = x

LEMMA EasesSame == \A x \in Row : Eases(x, x)
BY DEF Eases

LEMMA EasesStatements ==
  ASSUME NEW x \in Row, x.status = "pending" => x.lease = "none", NEW w \in Workers
  PROVE  /\ Eases(x, FailCorrupt(x, w)) /\ Eases(x, StartRun(x))
         /\ \A s \in TerminalStates : Eases(x, FinalizeRun(x, s))
         /\ Eases(x, ReleaseLease(x, w)) /\ Eases(x, ReleaseLease(FinalizeRun(x, "error"), w))
<1> USE DEF Eases, Engaged, IsTerminal, IsActive
<1>1. Eases(x, FailCorrupt(x, w))
  BY DEF FailCorrupt, Row
<1>2. Eases(x, StartRun(x))
  BY DEF StartRun, Row
<1>3. ASSUME NEW s \in TerminalStates PROVE Eases(x, FinalizeRun(x, s))
  BY DEF FinalizeRun, Row
<1>4. Eases(x, ReleaseLease(x, w))
  BY DEF ReleaseLease, Row
<1>5. Eases(x, ReleaseLease(FinalizeRun(x, "error"), w))
  <2> DEFINE b == FinalizeRun(x, "error")
  <2>1. Eases(x, b) /\ (b = x \/ IsTerminal(b))
    BY <1>3 DEF FinalizeRun, Row
  <2> HIDE DEF b
  <2>2. Eases(b, ReleaseLease(b, w)) /\ (IsTerminal(b) => IsTerminal(ReleaseLease(b, w)))
    BY <2>1 DEF ReleaseLease, Row
  <2>3. ReleaseLease(b, w) = b \/ ReleaseLease(b, w).lease = "none"
    BY <2>1 DEF ReleaseLease, Row
  <2> QED BY <2>1, <2>2, <2>3 DEF b
<1> QED BY <1>1, <1>2, <1>3, <1>4, <1>5

(* The except clauses of _execute_and_release end a run that was cancelled  *)
(* explicitly or has timed out.                                             *)
LEMMA EasesOuter ==
  ASSUME TypeOK, ClaimConsistent, NEW j \in Jobs, job[j].pc # "free"
  PROVE  /\ Eases(RowOf(j), OuterOutcome(j))
         /\ \/ job[j].outer = "timedout"
            \/ job[j].outer = "cancelled" /\ job[j].run \in explicit[Host(j)]
            => OuterOutcome(j).status \notin ActiveStates
<1> DEFINE x == RowOf(j)
           w == WorkerOf[j]
           b == FinalizeRun(x, "error")
           c == FinalizeRun(x, "interrupted")
<1>1. x \in Row /\ w \in Workers /\ (x.status = "pending" => x.lease = "none")
  BY RunType, HostType DEF ClaimConsistent, RowOf
<1>2. Eases(x, x) /\ Eases(x, c) /\ Eases(x, ReleaseLease(b, w))
  BY <1>1, EasesSame, EasesStatements
<1>3. b \in Row /\ b.status \notin ActiveStates /\ c.status \notin ActiveStates
  BY <1>1 DEF FinalizeRun, IsActive, Row
<1> HIDE DEF b, c, x
<1>4. ReleaseLease(b, w).status = b.status
  BY <1>3 DEF ReleaseLease, Row
<1>5. /\ OuterOutcome(j) \in {x, c, ReleaseLease(b, w)}
      /\ \/ job[j].outer = "timedout"
         \/ job[j].outer = "cancelled" /\ job[j].run \in explicit[Host(j)]
         => OuterOutcome(j) \in {c, ReleaseLease(b, w)}
  BY DEF OuterOutcome, b, c, x
<1> QED BY <1>2, <1>3, <1>4, <1>5 DEF x

(* A job claims its run from "acquire"; all its other statements ease. *)
Claims(j) ==
  /\ job[j].pc = "acquire" /\ Claimable(RowOf(j))
  /\ rows'[job[j].run] = Claim(RowOf(j), WorkerOf[j])
  /\ job'[j].pc = AfterClaim(RowOf(j)) \/ (job[j].kill /\ job'[j].pc = "outer")

LEMMA PathRow ==
  ASSUME TypeOK, ClaimConsistent, NEW j \in Jobs, Advances(j)
  PROVE  /\ job[j].pc \notin {"free", "held"} /\ job[j].run \in Runs
         /\ Claims(j) \/ Eases(RowOf(j), rows'[job[j].run])
<1> DEFINE a == job[j]
           p == job'[j].pc
           x == RowOf(j)
           y == rows'[job[j].run]
           w == WorkerOf[j]
           o == OuterOutcome(j)
<1> HIDE DEF o, x, y, p
<1>1. Path(a, p, x, y, w, o)
  BY DEF Advances, o, x, y, p
<1>2. a.pc \notin {"free", "held"}
  BY <1>1 DEF Path
<1>3. /\ x \in Row /\ w \in Workers /\ (x.status = "pending" => x.lease = "none")
      /\ a.run \in Runs
  BY <1>2, RunType, HostType DEF ClaimConsistent, RowOf, x
<1>4. /\ Eases(x, x) /\ Eases(x, FailCorrupt(x, w)) /\ Eases(x, StartRun(x))
      /\ \A s \in TerminalStates : Eases(x, FinalizeRun(x, s))
      /\ Eases(x, ReleaseLease(x, w)) /\ Eases(x, o)
  BY <1>2, <1>3, EasesSame, EasesStatements, EasesOuter DEF x, o
<1>5. CASE a.pc = "acquire"
  <2>1. \/ y = x
        \/ /\ y = Claim(x, w)
           /\ p = (IF Claimable(x) THEN AfterClaim(x) ELSE "outer") \/ (a.kill /\ p = "outer")
    BY <1>1, <1>5 DEF Path
  <2>2. ~Claimable(x) => Claim(x, w) = x
    BY DEF Claim
  <2> QED BY <1>2, <1>3, <1>4, <1>5, <2>1, <2>2 DEF Claims, x, y, p
<1>6. CASE a.pc # "acquire"
  <2>1. \/ y \in {x, FailCorrupt(x, w), StartRun(x), ReleaseLease(x, w), o}
        \/ \E s \in TerminalStates : y = FinalizeRun(x, s)
    BY <1>1, <1>6 DEF Path
  <2> QED BY <1>2, <1>3, <1>4, <2>1 DEF x, y
<1> QED BY <1>5, <1>6

(* The heartbeat of a job finds its claim and extends the lease. *)
Extends(j) ==
  /\ Heartbeat(j) /\ UNCHANGED job
  /\ RowOf(j).owner = WorkerOf[j]
  /\ rows'[job[j].run] = [RowOf(j) EXCEPT !.lease = "live"]

Moves(r) ==
  \/ Eases(rows[r], rows'[r])
  \/ \E j \in Jobs : job[j].run = r /\ Advances(j) /\ Claims(j)
  \/ \E j \in Jobs : job[j].run = r /\ Extends(j)
  \/ rows[r].status = "absent" /\ \E params \in Params(r) : rows'[r] = InsertRun(params)
  \/ ExpireLease(r) /\ rows'[r] = [rows[r] EXCEPT !.lease = "expired"]
  \/ Crashed(rows[r]) /\ rows'[r] = RecoverCrashed(rows[r])

LEMMA HeartbeatMoves ==
  ASSUME TypeOK, NEW j \in Jobs, Heartbeat(j)
  PROVE  /\ job[j].pc \in Executing /\ job[j].run \in Runs
         /\ \A k \in Jobs \ {j} : job'[k] = job[k]
         /\ \/ Extends(j)
            \/ /\ UNCHANGED rows /\ RowOf(j).owner # WorkerOf[j]
               /\ job'[j] = [job[j] EXCEPT !.kill = TRUE, !.beat = FALSE]
         /\ \A r \in Runs \ {job[j].run} : rows'[r] = rows[r]
         /\ UNCHANGED <<explicit, done>>
<1>1. job[j].pc \in Executing /\ UNCHANGED <<explicit, done>>
  BY DEF Heartbeat, signals
<1>2. /\ job[j].run \in Runs /\ RowOf(j) \in Row
      /\ rows \in [Runs -> Row] /\ job \in [Jobs -> JobState]
  BY <1>1, RunType DEF TypeOK, RowsOK, JobsOK
<1>3. rows' = [rows EXCEPT ![job[j].run] = ExtendLease(RowOf(j), WorkerOf[j])]
  BY DEF Heartbeat, RowOf
<1>4. CASE RowOf(j).owner = WorkerOf[j]
  <2>1. UNCHANGED job /\ ExtendLease(RowOf(j), WorkerOf[j]) = [RowOf(j) EXCEPT !.lease = "live"]
    BY <1>4 DEF Heartbeat, ExtendLease
  <2> QED BY <1>1, <1>2, <1>3, <1>4, <2>1 DEF Extends
<1>5. CASE RowOf(j).owner # WorkerOf[j]
  <2>1. ExtendLease(RowOf(j), WorkerOf[j]) = RowOf(j)
    BY <1>5 DEF ExtendLease
  <2>2. UNCHANGED rows
    BY <1>1, <1>3, <2>1, NoStatement
  <2>3. job' = [job EXCEPT ![j] = [job[j] EXCEPT !.kill = TRUE, !.beat = FALSE]]
    BY <1>2, <1>5 DEF Heartbeat
  <2> QED BY <1>1, <1>2, <1>5, <2>2, <2>3
<1> QED BY <1>4, <1>5

LEMMA RowMoves ==
  ASSUME TypeOK, ClaimConsistent, Kinds, NEW r \in Runs PROVE Moves(r)
<1> DEFINE Goal == Moves(r)
<1>0. rows \in [Runs -> Row] /\ rows[r] \in Row
  BY DEF TypeOK, RowsOK
<1>1. rows'[r] = rows[r] => Goal
  BY <1>0, EasesSame DEF Moves
<1>2. ASSUME NEW j \in Jobs, Advances(j) PROVE Goal
  <2>1. CASE job[j].run = r
    BY <1>2, <2>1, PathRow DEF Moves, RowOf
  <2>2. CASE job[j].run # r
    BY <1>1, <1>2, <2>2 DEF Advances
  <2> QED BY <2>1, <2>2
<1>3. ASSUME NEW j \in Jobs, Takes(j) \/ Leaves(j) \/ DbError(j) \/ Timeout(j) PROVE Goal
  BY <1>1, <1>3 DEF Takes, Leaves, DbError, Timeout, table
<1>4. ASSUME NEW j \in Jobs, Heartbeat(j) PROVE Goal
  <2>1. CASE job[j].run = r
    BY <1>1, <1>4, <2>1, HeartbeatMoves DEF Moves
  <2>2. CASE job[j].run # r
    BY <1>1, <1>4, <2>2, HeartbeatMoves
  <2> QED BY <2>1, <2>2
<1>5. ASSUME NEW i \in Instances, NEW s \in Runs, Reaches(i, s) PROVE Goal
  BY <1>1, <1>5 DEF Reaches
<1>6. ASSUME NEW s \in Runs, PrepareRun(s) PROVE Goal
  <2>1. /\ rows[s].status = "absent"
        /\ \E params \in Params(s) : rows' = [rows EXCEPT ![s] = InsertRun(params)]
    BY <1>6 DEF PrepareRun
  <2> QED BY <1>0, <1>1, <2>1 DEF Moves
<1>7. ASSUME NEW s \in Runs, InterruptReconciled(s) PROVE Goal
  <2>1. rows' = [rows EXCEPT ![s] = InterruptUnowned(rows[s])] /\ Unowned(rows[s])
    BY <1>7 DEF InterruptReconciled
  <2>2. Unowned(rows[r]) => Eases(rows[r], InterruptUnowned(rows[r]))
    BY <1>0 DEF Eases, InterruptUnowned, Row, IsTerminal, Engaged
  <2> QED BY <1>0, <1>1, <2>1, <2>2 DEF Moves
<1>8. ASSUME NEW s \in Runs, ExpireLease(s) PROVE Goal
  <2>1. rows' = [rows EXCEPT ![s] = [rows[s] EXCEPT !.lease = "expired"]]
    BY <1>0, <1>8 DEF ExpireLease
  <2> QED BY <1>0, <1>1, <1>8, <2>1 DEF Moves
<1>9. ASSUME NEW i \in Instances, ReapRecover(i) PROVE Goal
  <2>1. rows'[r] = rows[r] \/ (Crashed(rows[r]) /\ rows'[r] = RecoverCrashed(rows[r]))
    BY <1>9 DEF ReapRecover
  <2> QED BY <1>1, <2>1 DEF Moves
<1>10. ASSUME NEW i \in Instances, Kill(i) \/ Restart(i) PROVE Goal
  BY <1>1, <1>10 DEF Kill, Restart, table
<1> QED
  BY <1>1, <1>2, <1>3, <1>4, <1>5, <1>6, <1>7, <1>8, <1>9, <1>10 DEF Kinds

(***************************************************************************)
(* What a step does to a job.                                              *)
(***************************************************************************)

(* The task is cancelled for a user. *)
Stopped(k) ==
  /\ job'[k] = Cancelled(job[k]) /\ job[k].pc \in Begun
  /\ job[k].run \in explicit'[Host(k)]
  /\ UNCHANGED <<rows, done>>
  /\ msgs # {} \/ SpendAll({"cancel", "redis"})

Acts(k) ==
  \/ job'[k] = job[k]
  \/ Advances(k) \/ Takes(k) \/ Leaves(k) \/ DbError(k) \/ Heartbeat(k) \/ Timeout(k)
  \/ Stopped(k)
  \/ Kill(Host(k)) /\ job'[k] = IdleJob

LEMMA JobActs ==
  ASSUME TypeOK, Registry, Kinds, NEW k \in Jobs PROVE Acts(k)
<1>0. job \in [Jobs -> JobState] /\ Host(k) \in Instances
  BY HostType DEF TypeOK, JobsOK
<1>1. ASSUME NEW j \in Jobs, \/ Advances(j) \/ Takes(j) \/ Leaves(j)
                             \/ DbError(j) \/ Heartbeat(j) \/ Timeout(j)
      PROVE  Acts(k)
  <2>1. CASE j = k
    BY <1>1, <2>1 DEF Acts
  <2>2. CASE j # k
    <3>1. job'[k] = job[k]
      <4>1. ASSUME DbError(j) \/ Timeout(j) PROVE job'[k] = job[k]
        BY <1>0, <2>2, <4>1 DEF DbError, Timeout
      <4>2. ASSUME Heartbeat(j) PROVE job'[k] = job[k]
        BY <2>2, <4>2, HeartbeatMoves
      <4> QED BY <1>1, <2>2, <4>1, <4>2 DEF Advances, Takes, Leaves
    <3> QED BY <3>1 DEF Acts
  <2> QED BY <2>1, <2>2
<1>2. ASSUME NEW i \in Instances, NEW r \in Runs, Reaches(i, r) PROVE Acts(k)
  <2>1. PICK e : ExecuteCancel(i, r, e)
    BY <1>2 DEF Reaches
  <2>2. CASE active[i][r] = NoJob
    BY <2>1, <2>2 DEF ExecuteCancel, Acts
  <2>3. CASE active[i][r] # NoJob
    <3> DEFINE j == active[i][r]
    <3>1. j \in Jobs /\ Host(j) = i /\ job[j].run = r /\ job[j].pc \in Begun
      BY <1>2, <2>3 DEF Registry, Registered, Reaches, TypeOK, RegistriesOK
    <3>2. /\ job' = [job EXCEPT ![j] = Cancelled(@)]
          /\ explicit' = [explicit EXCEPT ![i] = @ \cup {r}]
      BY <2>1, <2>3 DEF ExecuteCancel
    <3>3. r \in explicit'[i]
      BY <3>2 DEF TypeOK, RegistriesOK
    <3>4. CASE j = k
      <4>1. job'[k] = Cancelled(job[k])
        BY <1>0, <3>2, <3>4
      <4> QED BY <1>2, <3>1, <3>3, <3>4, <4>1 DEF Acts, Stopped, Reaches
    <3>5. CASE j # k
      BY <1>0, <3>2, <3>5 DEF Acts
    <3> QED BY <3>4, <3>5
  <2> QED BY <2>2, <2>3
<1>3. ASSUME UNCHANGED job PROVE Acts(k)
  BY <1>3 DEF Acts
<1>4. ASSUME NEW r \in Runs, PrepareRun(r) \/ InterruptReconciled(r) \/ ExpireLease(r)
      PROVE  UNCHANGED job
  BY <1>4 DEF PrepareRun, InterruptReconciled, ExpireLease
<1>5. ASSUME NEW i \in Instances, ReapRecover(i) \/ Restart(i) PROVE UNCHANGED job
  BY <1>5 DEF ReapRecover, Restart
<1>6. ASSUME NEW i \in Instances, Kill(i) PROVE Acts(k)
  <2>1. job'[k] = IF Host(k) = i THEN IdleJob ELSE job[k]
    BY <1>6 DEF Kill
  <2> QED BY <1>6, <2>1 DEF Acts
<1> QED
  BY <1>1, <1>2, <1>3, <1>4, <1>5, <1>6 DEF Kinds

(* What is explicitly cancelled stays so while its task lives. *)
LEMMA ExplicitKept ==
  ASSUME TypeOK, Rest, NoTwins, Kinds, NEW k \in Jobs, job[k].pc \notin {"free", "held"},
         job[k].run \in explicit[Host(k)], ~Leaves(k)
  PROVE  job[k].run \in explicit'[Host(k)]
<1> DEFINE h == Host(k)
           Goal == job[k].run \in explicit'[h]
<1>0. h \in Instances /\ explicit \in [Instances -> SUBSET Runs]
  BY HostType DEF TypeOK, RegistriesOK
<1>1. UNCHANGED explicit => Goal
  OBVIOUS
<1>2. ASSUME NEW j \in Jobs, Advances(j) \/ Takes(j) \/ DbError(j) \/ Heartbeat(j) \/ Timeout(j)
      PROVE  Goal
  BY <1>1, <1>2 DEF Advances, Takes, DbError, Heartbeat, Timeout, sets
<1>3. ASSUME NEW j \in Jobs, Leaves(j) PROVE Goal
  <2>1. j # k
    BY <1>3
  <2>2. ~(h = Host(j) /\ job[j].pc = "finish" /\ job[j].run = job[k].run)
    BY <2>1 DEF NoTwins, Twins
  <2>3. \/ explicit'[h] = explicit[h]
        \/ h = Host(j) /\ job[j].pc = "finish" /\ explicit'[h] = explicit[h] \ {job[j].run}
    BY <1>0, <1>3 DEF Leaves
  <2> QED BY <2>2, <2>3
<1>4. ASSUME NEW i \in Instances, NEW r \in Runs, Reaches(i, r) PROVE Goal
  <2>1. PICK e : ExecuteCancel(i, r, e)
    BY <1>4 DEF Reaches
  <2>2. explicit' = explicit \/ explicit' = [explicit EXCEPT ![i] = @ \cup {r}]
    BY <2>1 DEF ExecuteCancel
  <2> QED BY <1>0, <2>2
<1>5. ASSUME NEW r \in Runs, PrepareRun(r) \/ InterruptReconciled(r) \/ ExpireLease(r)
      PROVE  Goal
  BY <1>1, <1>5 DEF PrepareRun, InterruptReconciled, ExpireLease, sets
<1>6. ASSUME NEW i \in Instances, ReapRecover(i) \/ Kill(i) PROVE Goal
  BY <1>1, <1>6 DEF ReapRecover, Kill, sets
<1>7. ASSUME NEW i \in Instances, Restart(i) PROVE Goal
  <2>1. inst[i] = "down" /\ explicit' = [explicit EXCEPT ![i] = {}]
    BY <1>7 DEF Restart
  <2>2. i # h
    BY <2>1 DEF Rest, Rested, Resting
  <2> QED BY <1>0, <2>1, <2>2
<1> QED
  BY <1>1, <1>2, <1>3, <1>4, <1>5, <1>6, <1>7 DEF Kinds

(***************************************************************************)
(* Who is cancelled, and why.                                              *)
(***************************************************************************)

(* A CancelledError that neither the user nor the timeout caused is that of *)
(* a heartbeat that found the claim gone.                                   *)
Lost(j) == job[j].kill /\ job[j].outer = "none" =>
             job[j].pc \in Executing /\ RowOf(j).owner # WorkerOf[j]

(* A task is cancelled for a user until it has told the table. *)
Wanted(j) == job[j].pc \notin {"free", "held"} /\ job[j].outer = "cancelled" =>
               job[j].run \in explicit[Host(j)]

(* A claim that a job has lost does not come back to it. *)
LEMMA OwnerStays ==
  ASSUME TypeOK, ClaimConsistent, NoTwins, Kinds, NEW k \in Jobs,
         job[k].pc \notin {"free", "held", "acquire"}, RowOf(k).owner # WorkerOf[k]
  PROVE  rows'[job[k].run].owner # WorkerOf[k]
<1> DEFINE r == job[k].run
           w == WorkerOf[k]
<1>1. r \in Runs /\ rows[r] \in Row /\ w \in Workers /\ rows[r].owner # w
  BY RunType, HostType DEF TypeOK, RowsOK, RowOf
<1>2. w # NoWorker
  BY <1>1, NoWorkerAssumption
<1>3. Moves(r)
  BY <1>1, RowMoves
<1>4. CASE Eases(rows[r], rows'[r])
  BY <1>1, <1>2, <1>4 DEF Eases
<1>5. ASSUME NEW j \in Jobs, job[j].run = r, Claims(j) PROVE rows'[r].owner # w
  <2>1. job[j].pc = "acquire" /\ rows'[r] = Claim(rows[r], WorkerOf[j]) /\ Claimable(rows[r])
    BY <1>5 DEF Claims, RowOf
  <2>2. rows'[r].owner = WorkerOf[j]
    BY <1>1, <2>1 DEF Claim, Row
  <2>3. j # k /\ ~Twins(j, k)
    BY <2>1 DEF NoTwins
  <2>4. Host(j) # Host(k)
    BY <1>5, <2>1, <2>3 DEF Twins
  <2> QED BY <2>2, <2>4 DEF Host
<1>6. ASSUME NEW j \in Jobs, job[j].run = r, Extends(j) PROVE rows'[r].owner # w
  BY <1>1, <1>6 DEF Extends, RowOf, Row
<1>7. ASSUME NEW params, rows'[r] = InsertRun(params) PROVE rows'[r].owner # w
  <2>1. \A q : InsertRun(q).owner = NoWorker
    BY DEF InsertRun, AbsentRow
  <2> QED BY <1>2, <1>7, <2>1
<1>8. CASE rows'[r] = [rows[r] EXCEPT !.lease = "expired"]
  BY <1>1, <1>8 DEF Row
<1>9. CASE Crashed(rows[r]) /\ rows'[r] = RecoverCrashed(rows[r])
  BY <1>2, <1>9 DEF RecoverCrashed
<1> QED BY <1>3, <1>4, <1>5, <1>6, <1>7, <1>8, <1>9 DEF Moves

(* The changes of a job by failures, timeouts, heartbeats and cancels. *)
LEMMA DbErrorMoves ==
  ASSUME TypeOK, NEW j \in Jobs, DbError(j)
  PROVE  /\ UNCHANGED <<rows, explicit, done>> /\ Spend("db") /\ ~job[j].kill
         /\ job'[j].run = job[j].run /\ job'[j].outer = job[j].outer
         /\ job'[j].kill = job[j].kill /\ job[j].pc \notin {"free", "held"}
<1> DEFINE p   == CASE job[j].pc \in {"start", "stream"} -> "cfinal"
                    [] job[j].pc = "cfinal" -> "finally"
                    [] job[j].pc = "outer" -> "finish"
                    [] OTHER -> "outer"
           out == IF job[j].pc \in {"start", "stream"} THEN "error" ELSE job[j].out
<1> HIDE DEF p, out
<1>1. job' = [job EXCEPT ![j] = [job[j] EXCEPT !.pc = p, !.out = out]] /\ job[j] \in JobState
  BY DEF DbError, TypeOK, JobsOK, p, out
<1>2. /\ job'[j].run = job[j].run /\ job'[j].outer = job[j].outer /\ job'[j].kill = job[j].kill
  BY <1>1 DEF TypeOK, JobsOK, JobState
<1> QED BY <1>2 DEF DbError, table, sets, signals

LEMMA TimeoutMoves ==
  ASSUME TypeOK, NEW j \in Jobs, Timeout(j)
  PROVE  /\ UNCHANGED <<rows, explicit, done>> /\ Spend("timeout")
         /\ job'[j] = [job[j] EXCEPT !.outer = "timedout", !.kill = TRUE]
         /\ job[j].pc \in {"release"} \cup (Executing \ {"start"}) /\ job[j].outer = "none"
BY DEF Timeout, TypeOK, JobsOK, table, signals

LEMMA CancelledFields ==
  ASSUME NEW a \in JobState
  PROVE  /\ Cancelled(a).run = a.run /\ Cancelled(a).pc = a.pc /\ Cancelled(a).outer = "cancelled"
         /\ Cancelled(a).beat = a.beat
BY DEF Cancelled, JobState

LEMMA WantedStep ==
  ASSUME TypeOK, Provenance, NoTwins, Kinds, NEW k \in Jobs, Wanted(k) PROVE Wanted(k)'
<1> SUFFICES ASSUME job'[k].pc \notin {"free", "held"}, job'[k].outer = "cancelled"
             PROVE  job'[k].run \in explicit'[Host(k)]
  BY DEF Wanted, Host
<1>0. Acts(k) /\ job[k] \in JobState
  BY JobActs DEF Provenance, TypeOK, JobsOK
<1>1. job'[k] # IdleJob
  BY DEF IdleJob
<1>2. ASSUME job[k].pc \notin {"free", "held"}, job[k].outer = "cancelled",
             job'[k].run = job[k].run
      PROVE  job'[k].run \in explicit'[Host(k)]
  <2>1. ~Leaves(k)
    BY <1>1 DEF Leaves
  <2> QED BY <1>2, <2>1, ExplicitKept DEF Wanted, Provenance
<1>3. CASE job'[k] = job[k]
  BY <1>2, <1>3
<1>4. CASE Advances(k)
  <2>1. job[k].pc \notin {"free", "held"}
    BY <1>4 DEF Advances, Path
  <2> QED BY <1>2, <1>4, <2>1 DEF Advances
<1>5. CASE Takes(k)
  BY <1>5 DEF Takes
<1>6. CASE DbError(k)
  BY <1>2, <1>6, DbErrorMoves
<1>7. CASE Heartbeat(k)
  <2>1. /\ job[k].pc \in Executing
        /\ job'[k] = job[k] \/ job'[k] = [job[k] EXCEPT !.kill = TRUE, !.beat = FALSE]
    BY <1>7, HeartbeatMoves DEF Extends
  <2>2. job'[k].run = job[k].run /\ job'[k].outer = job[k].outer
    BY <1>0, <2>1 DEF JobState
  <2> QED BY <1>2, <2>1, <2>2
<1>8. CASE Timeout(k)
  <2>1. job'[k].outer = "timedout"
    BY <1>0, <1>8, TimeoutMoves DEF JobState
  <2> QED BY <2>1
<1>9. CASE Stopped(k)
  BY <1>0, <1>9, CancelledFields DEF Stopped
<1> QED
  BY <1>0, <1>1, <1>3, <1>4, <1>5, <1>6, <1>7, <1>8, <1>9 DEF Acts, Leaves

LEMMA LostStep ==
  ASSUME TypeOK, ClaimConsistent, Registry, NoTwins, Kinds, NEW k \in Jobs, Lost(k)
  PROVE  Lost(k)'
<1> SUFFICES ASSUME job'[k].kill, job'[k].outer = "none"
             PROVE  job'[k].pc \in Executing /\ rows'[job'[k].run].owner # WorkerOf[k]
  BY DEF Lost, RowOf
<1>0. Acts(k) /\ job[k] \in JobState
  BY JobActs DEF TypeOK, JobsOK
<1>1. job'[k] # IdleJob
  BY DEF IdleJob
<1>2. CASE job'[k] = job[k]
  BY <1>2, OwnerStays DEF Lost, RowOf
<1>3. CASE Heartbeat(k)
  <2>1. CASE Extends(k)
    BY <1>2, <2>1 DEF Extends
  <2>2. CASE ~Extends(k)
    <3>1. /\ job'[k] = [job[k] EXCEPT !.kill = TRUE, !.beat = FALSE] /\ UNCHANGED rows
          /\ job[k].pc \in Executing /\ RowOf(k).owner # WorkerOf[k]
      BY <1>3, <2>2, HeartbeatMoves
    <3>2. job'[k].run = job[k].run /\ job'[k].pc = job[k].pc
      BY <1>0, <3>1 DEF JobState
    <3> QED BY <3>1, <3>2 DEF RowOf
  <2> QED BY <2>1, <2>2
<1>4. CASE Timeout(k)
  <2>1. job'[k].outer = "timedout"
    BY <1>0, <1>4, TimeoutMoves DEF JobState
  <2> QED BY <2>1
<1>5. CASE DbError(k)
  BY <1>5, DbErrorMoves
<1>6. CASE Stopped(k)
  BY <1>0, <1>6, CancelledFields DEF Stopped
<1> QED
  BY <1>0, <1>1, <1>2, <1>3, <1>4, <1>5, <1>6 DEF Acts, Advances, Takes, Leaves

(***************************************************************************)
(* What the retry budget is charged for.                                   *)
(***************************************************************************)
Failures == spent["crash"] + spent["stall"] + spent["db"]

LEMMA SpentGrows ==
  ASSUME TypeOK, NEW fs \in SUBSET Faults, SpendAll(fs)
  PROVE  \A f \in Faults : /\ spent'[f] \in Nat /\ spent'[f] >= spent[f]
                           /\ f \in fs => spent'[f] = spent[f] + 1
<1>1. spent \in [Faults -> Nat]
  BY DEF TypeOK
<1>2. spent' = [f \in Faults |-> IF f \in fs THEN spent[f] + 1 ELSE spent[f]]
  BY DEF SpendAll
<1> QED BY <1>1, <1>2

LEMMA FailuresCount ==
  ASSUME TypeOK
  PROVE  /\ Failures \in Nat
         /\ \A f \in {"crash", "stall", "db"} : Spend(f) => Failures' \in Nat /\ Failures' > Failures
<1>1. {"crash", "stall", "db"} \in SUBSET Faults /\ spent \in [Faults -> Nat]
  BY DEF Faults, TypeOK
<1>2. ASSUME NEW f \in {"crash", "stall", "db"}, Spend(f)
      PROVE  Failures' \in Nat /\ Failures' > Failures
  <2>1. \A g \in Faults : /\ spent'[g] \in Nat /\ spent'[g] >= spent[g]
                          /\ g \in {f} => spent'[g] = spent[g] + 1
    BY <1>1, <1>2, SpentGrows DEF Spend
  <2> QED BY <1>1, <2>1 DEF Failures
<1> QED BY <1>1, <1>2 DEF Failures

(* Faults are counted, and counted within one of the scenarios. *)
LEMMA FaultsCounted ==
  ASSUME [Next]_vars PROVE UNCHANGED spent \/ \E fs \in SUBSET Faults : SpendAll(fs)
<1> DEFINE Goal == UNCHANGED spent \/ \E fs \in SUBSET Faults : SpendAll(fs)
<1>0. (UNCHANGED spent => Goal) /\ (\A f \in Faults : Spend(f) => Goal)
      /\ (SpendAll({"cancel", "redis"}) => Goal)
  <2>1. {"cancel", "redis"} \in SUBSET Faults /\ \A f \in Faults : {f} \in SUBSET Faults
    BY DEF Faults
  <2> QED BY <2>1 DEF Spend
<1> HIDE DEF Goal
<1> SUFFICES Goal
  BY DEF Goal
<1> USE <1>0 DEF Faults
<1>1. ASSUME NEW r \in Runs, \/ PrepareRun(r) \/ Submit(r) \/ SubmitFails(r)
                             \/ InterruptReconciled(r) \/ InterruptOwned(r)
                             \/ ExpireLease(r) \/ Age(r)
                             \/ \E i \in Instances : InterruptLocally(i, r)
      PROVE  Goal
  BY <1>1 DEF PrepareRun, Submit, SubmitFails, InterruptReconciled, InterruptOwned,
              ExpireLease, Age, InterruptLocally
<1>2. ASSUME NEW m \in msgs, HandleCancelCommand(m) \/ LoseCancelCommand(m) PROVE Goal
  BY <1>2 DEF HandleCancelCommand, LoseCancelCommand
<1>3. ASSUME NEW j \in Jobs, JobStep(j) PROVE Goal
  BY <1>3 DEF JobStep, Begin, CancelledUnborn, Acquire, ErrorCorrupt, ExecuteRun, Start,
     GraphCompletes, GraphRaises, FinalizeInHandler, SignalEnd, Finally, Release,
     OuterCleanup, OuterFinally, CancelledInAcquire, CancelledBeforeStart,
     CancelledInBody, CancelledInHandler, CancelledInRelease
<1>4. ASSUME NEW j \in Jobs, \/ LoopStep(j) \/ Heartbeat(j) \/ Timeout(j) \/ PollPostgres(j)
                             \/ PushBackFails(j) \/ SignalEndFails(j) \/ DbError(j)
      PROVE  Goal
  BY <1>4 DEF LoopStep, Dequeue, DequeueWhileStopping, PushBack, Heartbeat, Timeout,
              PollPostgres, PushBackFails, SignalEndFails, DbError
<1>5. ASSUME NEW i \in Instances, \/ ReaperStep(i) \/ StopStep(i) \/ ReapRedisError(i)
                                  \/ PushDrainedFails(i) \/ Kill(i) \/ Restart(i) \/ Stop(i)
      PROVE  Goal
  BY <1>5 DEF ReaperStep, ReapFind, ReapRecover, ReapPush, ReapCheck, StopStep,
     DrainDeadline, StopLoops, Requeue, PushDrained, ReapRedisError, PushDrainedFails,
     Kill, Restart, Stop
<1>6. CASE UNCHANGED vars
  BY <1>6 DEF vars
<1>7. CASE Next
  BY <1>7, <1>1, <1>2, <1>3, <1>4, <1>5 DEF Next
<1> QED BY <1>6, <1>7

LEMMA FaultsRemembered ==
  ASSUME TypeOK, [Next]_vars
  PROVE  \A f \in Faults : spent'[f] \in Nat /\ spent'[f] >= spent[f]
<1>1. CASE UNCHANGED spent
  BY <1>1 DEF TypeOK
<1>2. ASSUME NEW fs \in SUBSET Faults, SpendAll(fs)
      PROVE  \A f \in Faults : spent'[f] \in Nat /\ spent'[f] >= spent[f]
  BY <1>2, SpentGrows
<1> QED BY <1>1, <1>2, FaultsCounted

LEMMA FailuresGrow ==
  ASSUME TypeOK, [Next]_vars PROVE Failures' \in Nat /\ Failures' >= Failures
<1>1. {"crash", "stall", "db"} \subseteq Faults /\ spent \in [Faults -> Nat]
  BY DEF Faults, TypeOK
<1> QED BY <1>1, FaultsRemembered DEF Failures

(* A job that will write the end of its run, or give the claim back. *)
Minds(a) == a.pc \in Owning \/ (a.pc = "outer" /\ a.outer # "none")

Responsible(j, r) == job[j].run = r /\ rows[r].owner = WorkerOf[j] /\ Minds(job[j])

(* The reaper has found, or will find, the lease of r expired. *)
Owing(r) == /\ Engaged(rows[r])
            /\ rows[r].lease = "expired" \/ \A j \in Jobs : ~Responsible(j, r)

Accounted(r) ==
  r \notin Legacy => /\ rows[r].params = "ok" /\ rows[r].retry <= Failures
                     /\ Owing(r) => rows[r].retry + 1 <= Failures

(* A job minds its run until it has ended it, given the claim back or died. *)
LEMMA MindsStep ==
  ASSUME TypeOK, ClaimConsistent, Registry, Kinds, NEW k \in Jobs, Lost(k), Wanted(k),
         Minds(job[k]), RowOf(k).owner = WorkerOf[k]
  PROVE  \/ Minds(job'[k]) /\ job'[k].run = job[k].run
         \/ ~Engaged(rows'[job[k].run])
         \/ Failures' > Failures
<1>0. Acts(k) /\ job[k] \in JobState
  BY JobActs DEF TypeOK, JobsOK
<1>1. job[k].pc \notin {"free", "held", "created", "acquire", "finish"}
  BY DEF Minds, Owning
<1>2. RowOf(k) \in Row /\ job[k].run \in Runs
  BY <1>1, RunType
<1>3. CASE Advances(k)
  <2> DEFINE a == job[k]
             b == job'[k]
             x == RowOf(k)
             y == rows'[job[k].run]
             w == WorkerOf[k]
             o == OuterOutcome(k)
  <2> HIDE DEF x, y, o
  <2>1. Path(a, b.pc, x, y, w, o) /\ b.run = a.run /\ b.outer = a.outer /\ x.owner = w /\ x \in Row
    BY <1>2, <1>3 DEF Advances, x, y, o
  <2>2. a.kill /\ a.pc \notin Executing => a.outer # "none"
    BY DEF Lost
  <2>3. CASE y = FailCorrupt(x, w) /\ a.pc = "corrupt"
    <3>1. ~Engaged(y)
      BY <2>1, <2>3 DEF FailCorrupt, Row, Engaged
    <3> QED BY <3>1 DEF y
  <2>4. CASE y = ReleaseLease(x, w) /\ a.pc = "release"
    <3>1. ~Engaged(y)
      BY <2>1, <2>4 DEF ReleaseLease, Row, Engaged
    <3> QED BY <3>1 DEF y
  <2>5. CASE a.pc = "outer"
    <3>1. a.outer \in {"cancelled", "timedout"}
      BY <1>0, <2>5 DEF Minds, Owning, JobState
    <3>2. a.outer = "timedout" \/ (a.outer = "cancelled" /\ a.run \in explicit[Host(k)])
      BY <3>1, <2>5 DEF Wanted
    <3>3. o.status \notin ActiveStates
      BY <1>1, <3>2, EasesOuter DEF o
    <3>4. y = o
      BY <2>1, <2>5 DEF Path
    <3> QED BY <3>3, <3>4 DEF Engaged, y
  <2>6. CASE b.pc \in Owning \/ (b.pc = "outer" /\ a.kill /\ a.pc \in {"corrupt", "leased", "release"})
    BY <2>1, <2>2, <2>6 DEF Minds
  <2>7. \/ y = FailCorrupt(x, w) /\ a.pc = "corrupt"
        \/ y = ReleaseLease(x, w) /\ a.pc = "release"
        \/ a.pc = "outer" \/ b.pc \in Owning
        \/ b.pc = "outer" /\ a.kill /\ a.pc \in {"corrupt", "leased", "release"}
    BY <1>1, <2>1 DEF Path, Owning
  <2> QED BY <2>3, <2>4, <2>5, <2>6, <2>7
<1>4. CASE Heartbeat(k)
  <2>1. job'[k] = job[k] \/ job'[k] = [job[k] EXCEPT !.kill = TRUE, !.beat = FALSE]
    BY <1>4, HeartbeatMoves DEF Extends
  <2> QED BY <1>0, <2>1 DEF Minds, JobState
<1>5. CASE Timeout(k)
  <2>1. job'[k] = [job[k] EXCEPT !.outer = "timedout", !.kill = TRUE]
    BY <1>5, TimeoutMoves
  <2> QED BY <1>0, <2>1 DEF Minds, JobState
<1>6. CASE Stopped(k)
  BY <1>0, <1>6, CancelledFields DEF Stopped, Minds
<1>7. CASE DbError(k) \/ Kill(Host(k))
  BY <1>7, DbErrorMoves, FailuresCount DEF Kill
<1> QED
  BY <1>0, <1>1, <1>3, <1>4, <1>5, <1>6, <1>7 DEF Acts, Takes, Leaves

LEMMA AccountedStep ==
  ASSUME TypeOK, ClaimConsistent, Registry, Kinds, [Next]_vars,
         \A k \in Jobs : Lost(k) /\ Wanted(k), NEW r \in Runs, Accounted(r)
  PROVE  Accounted(r)'
<1> SUFFICES ASSUME r \notin Legacy
             PROVE  /\ rows'[r].params = "ok" /\ rows'[r].retry <= Failures'
                    /\ Owing(r)' => rows'[r].retry + 1 <= Failures'
  BY DEF Accounted
<1> DEFINE x == rows[r]
           y == rows'[r]
<1>0. /\ x \in Row /\ x.params = "ok" /\ x.retry \in Nat /\ x.retry <= Failures
      /\ Owing(r) => x.retry + 1 <= Failures
      /\ job \in [Jobs -> JobState]
  BY DEF Accounted, TypeOK, RowsOK, JobsOK, Row
<1>1. Failures \in Nat /\ Failures' \in Nat /\ Failures' >= Failures
  BY FailuresCount, FailuresGrow
<1>2. Moves(r)
  BY RowMoves
<1>3. ASSUME y.retry = x.retry, y.params = x.params, ~Owing(r)' PROVE Accounted(r)'
  BY <1>0, <1>1, <1>3 DEF Accounted
<1>4. ASSUME y.retry = x.retry, y.params = x.params, Owing(r) \/ Failures' > Failures
      PROVE  Accounted(r)'
  BY <1>0, <1>1, <1>4 DEF Accounted
<1>5. CASE Eases(x, y)
  <2>1. y.retry = x.retry /\ y.params = x.params /\ (Engaged(y) => y = x)
    BY <1>5 DEF Eases
  <2>2. CASE ~Engaged(y)
    BY <1>3, <2>1, <2>2 DEF Owing, Accounted
  <2>3. CASE y = x /\ ~Owing(r) /\ Owing(r)' /\ ~(Failures' > Failures)
    <3>1. PICK k \in Jobs : Responsible(k, r)
      BY <2>3 DEF Owing
    <3>2. Minds(job[k]) /\ RowOf(k).owner = WorkerOf[k] /\ job[k].run = r
      BY <3>1 DEF Responsible, RowOf
    <3>3. Minds(job'[k]) /\ job'[k].run = r
      BY <2>3, <3>2, MindsStep DEF Owing
    <3>4. Responsible(k, r)'
      BY <2>3, <3>1, <3>3 DEF Responsible, Minds
    <3> QED BY <2>3, <3>4 DEF Owing
  <2> QED BY <1>3, <1>4, <2>1, <2>2, <2>3 DEF Accounted
<1>6. ASSUME NEW j \in Jobs, job[j].run = r, Advances(j), Claims(j) PROVE Accounted(r)'
  <2>1. /\ job[j].pc = "acquire" /\ y = Claim(x, WorkerOf[j]) /\ Claimable(x)
        /\ job'[j].pc = AfterClaim(x) \/ (job[j].kill /\ job'[j].pc = "outer")
    BY <1>6 DEF Claims, RowOf
  <2>2. /\ y.owner = WorkerOf[j] /\ y.retry = x.retry /\ y.params = x.params /\ y.lease = "live"
    BY <1>0, <2>1 DEF Claim, Row
  <2>3. job'[j].run = r /\ job'[j].outer = job[j].outer
    BY <1>6 DEF Advances
  <2>4. AfterClaim(x) = "leased"
    BY <1>0 DEF AfterClaim
  <2>5. job[j].kill => job[j].outer # "none"
    BY <2>1 DEF Lost
  <2>6. Minds(job'[j])
    BY <2>1, <2>3, <2>4, <2>5 DEF Minds, Owning
  <2>7. ~Owing(r)'
    BY <2>2, <2>3, <2>6 DEF Owing, Responsible, Minds
  <2> QED BY <1>3, <2>2, <2>7
<1>7. ASSUME NEW j \in Jobs, job[j].run = r, Extends(j) PROVE Accounted(r)'
  <2>1. /\ y = [x EXCEPT !.lease = "live"] /\ x.owner = WorkerOf[j] /\ job' = job
        /\ job[j].pc \in Executing
    BY <1>7 DEF Extends, RowOf, Heartbeat
  <2>2. y.retry = x.retry /\ y.params = x.params /\ y.owner = x.owner /\ y.lease = "live"
    BY <1>0, <2>1 DEF Row
  <2>3. ~Owing(r)'
    BY <1>7, <2>1, <2>2 DEF Owing, Responsible, Minds, Owning
  <2> QED BY <1>3, <2>2, <2>3
<1>8. CASE \E params \in Params(r) : y = InsertRun(params)
  <2>1. y.retry = 0 /\ y.params = "ok" /\ y.status = "pending"
    BY <1>8 DEF InsertRun, AbsentRow, Params
  <2> QED BY <1>1, <2>1 DEF Owing, Engaged
<1>9. CASE ExpireLease(r) /\ y = [x EXCEPT !.lease = "expired"]
  <2>1. y.retry = x.retry /\ y.params = x.params /\ y.status = x.status
    BY <1>0, <1>9 DEF Row
  <2>2. CASE {j \in Jobs : Holds(j, r)} = {}
    <3>1. \A j \in Jobs : ~Responsible(j, r)
      BY <2>2 DEF Responsible, Holds, Minds, Owning
    <3>2. Owing(r) \/ ~Owing(r)'
      BY <1>9, <2>1, <3>1 DEF Owing, Engaged, ExpireLease
    <3> QED BY <1>3, <1>4, <2>1, <3>2 DEF Accounted
  <2>3. CASE {j \in Jobs : Holds(j, r)} # {}
    <3>1. Failures' > Failures
      BY <1>9, <2>3, FailuresCount DEF ExpireLease
    <3> QED BY <1>4, <2>1, <3>1 DEF Accounted
  <2> QED BY <2>2, <2>3
<1>10. CASE Crashed(x) /\ y = RecoverCrashed(x)
  <2>1. Owing(r)
    BY <1>10 DEF Owing, Engaged, Crashed
  <2>2. y.retry = x.retry + 1 /\ y.params = "ok" /\ ~Engaged(y)
    BY <1>0, <1>10 DEF RecoverCrashed, Engaged
  <2> QED BY <1>0, <1>1, <2>1, <2>2 DEF Owing
<1>11. Accounted(r)'
  BY <1>2, <1>5, <1>6, <1>7, <1>8, <1>9, <1>10 DEF Moves, Accounted
<1> QED BY <1>11 DEF Accounted

(* The inductive invariant. *)
Accounts == \A r \in Runs : Accounted(r)
Reasonable == \A k \in Jobs : Lost(k) /\ Wanted(k)

LEMMA AccountsInit == Init => Undrained /\ Reasonable /\ Accounts
<1> SUFFICES ASSUME Init PROVE Reasonable /\ Accounts
  BY TenureInit
<1>1. Reasonable
  BY DEF Init, Reasonable, Lost, Wanted, IdleJob
<1>2. Failures = 0
  BY DEF Init, Failures, Faults
<1>3. Accounts
  BY <1>2 DEF Init, Accounts, Accounted, Owing, Engaged, AbsentRow
<1> QED BY <1>1, <1>3

LEMMA ReasonableNext ==
  ASSUME TypeOK, ClaimConsistent, Provenance, NoTwins, Undrained, Reasonable, [Next]_vars
  PROVE  Reasonable'
<1>1. Kinds
  BY StepKinds
<1> QED BY <1>1, WantedStep, LostStep DEF Reasonable, Provenance

LEMMA AccountsNext ==
  ASSUME TypeOK, ClaimConsistent, Provenance, NoTwins, Undrained, Reasonable, Accounts,
         [Next]_vars
  PROVE  Accounts'
<1>1. Kinds
  BY StepKinds
<1> QED BY <1>1, AccountedStep DEF Reasonable, Accounts, Provenance

(* Every retry that is charged to a run is paid for by a crash, a missed    *)
(* lease or a failing statement: never by the time it waits, a lost or      *)
(* duplicated queue entry, a cancel or a timeout.                           *)
THEOREM RetriesAreFailures ==
  ASSUME NeverStopped PROVE Spec /\ []NoTwins => []RetriesOnlyForFailures
<1>1. Init => Undrained /\ Reasonable /\ Accounts /\ Provenance
  BY AccountsInit, ProvenanceInit
<1>2. TypeOK /\ Undrained /\ [Next]_vars => Undrained'
  BY UndrainedNext
<1>3. TypeOK /\ NoTwins /\ Provenance /\ [Next]_vars => Provenance'
  BY ProvenanceNext
<1>4. /\ TypeOK /\ ClaimConsistent /\ Provenance /\ NoTwins /\ Undrained /\ Reasonable
      /\ [Next]_vars
      => Reasonable'
  BY ReasonableNext
<1>5. /\ TypeOK /\ ClaimConsistent /\ Provenance /\ NoTwins /\ Undrained /\ Reasonable
      /\ Accounts /\ [Next]_vars
      => Accounts'
  BY AccountsNext
<1>6. Accounts => RetriesOnlyForFailures
  BY DEF Accounts, Accounted, Failures, RetriesOnlyForFailures
<1> QED
  BY <1>1, <1>2, <1>3, <1>4, <1>5, <1>6, TypeCorrect, ClaimsConsistent, PTL DEF Spec

(***************************************************************************)
(* Runs nobody would come back for.                                        *)
(***************************************************************************)

(* No statement has failed, and no process died in a behaviour in which a  *)
(* run was cancelled or timed out.                                         *)
Harmless == /\ spent["db"] = 0
            /\ spent["crash"] = 0 \/ (spent["cancel"] = 0 /\ spent["timeout"] = 0)

(* Between its claim and start_run a job does not miss its lease. *)
Claiming == {"corrupt", "leased", "start"}
Prompt   == StallsAt \cap Claiming = {}

(* A task is cancelled from outside by a user or by its timeout. *)
Caused(j) == job[j].outer # "none" => spent["cancel"] > 0 \/ spent["timeout"] > 0
Causes == (msgs # {} => spent["cancel"] > 0) /\ \A j \in Jobs : Caused(j)

LEMMA CommandsAsked ==
  ASSUME TypeOK, [Next]_vars PROVE msgs' \subseteq msgs \/ spent'["cancel"] > 0
<1> DEFINE Goal == msgs' \subseteq msgs \/ spent'["cancel"] > 0
<1>1. Spend("cancel") => Goal
  BY SpentGrows DEF Spend, Faults, TypeOK
<1> HIDE DEF Goal
<1>2. UNCHANGED msgs => Goal
  BY DEF Goal
<1> SUFFICES Goal
  BY DEF Goal
<1>3. ASSUME NEW r \in Runs, \/ PrepareRun(r) \/ Submit(r) \/ SubmitFails(r)
                             \/ InterruptReconciled(r) \/ InterruptOwned(r)
                             \/ ExpireLease(r) \/ Age(r)
                             \/ \E i \in Instances : InterruptLocally(i, r)
      PROVE  Goal
  BY <1>1, <1>2, <1>3 DEF PrepareRun, Submit, SubmitFails, InterruptReconciled, InterruptOwned,
     ExpireLease, Age, InterruptLocally
<1>4. ASSUME NEW m \in msgs, HandleCancelCommand(m) \/ LoseCancelCommand(m) PROVE Goal
  BY <1>4 DEF HandleCancelCommand, LoseCancelCommand, Goal
<1>5. ASSUME NEW j \in Jobs, JobStep(j) PROVE Goal
  BY <1>2, <1>5 DEF JobStep, Begin, CancelledUnborn, Acquire, ErrorCorrupt, ExecuteRun, Start,
     GraphCompletes, GraphRaises, FinalizeInHandler, SignalEnd, Finally, Release,
     OuterCleanup, OuterFinally, CancelledInAcquire, CancelledBeforeStart,
     CancelledInBody, CancelledInHandler, CancelledInRelease
<1>6. ASSUME NEW j \in Jobs, \/ LoopStep(j) \/ Heartbeat(j) \/ Timeout(j) \/ PollPostgres(j)
                             \/ PushBackFails(j) \/ SignalEndFails(j) \/ DbError(j)
      PROVE  Goal
  BY <1>2, <1>6 DEF LoopStep, Dequeue, DequeueWhileStopping, PushBack, Heartbeat, Timeout,
     PollPostgres, PushBackFails, SignalEndFails, DbError
<1>7. ASSUME NEW i \in Instances, \/ ReaperStep(i) \/ StopStep(i) \/ ReapRedisError(i)
                                  \/ PushDrainedFails(i) \/ Kill(i) \/ Stop(i)
      PROVE  Goal
  BY <1>2, <1>7 DEF ReaperStep, ReapFind, ReapRecover, ReapPush, ReapCheck, StopStep,
     DrainDeadline, StopLoops, Requeue, PushDrained, ReapRedisError, PushDrainedFails,
     Kill, Stop
<1>8. ASSUME NEW i \in Instances, Restart(i) PROVE Goal
  BY <1>8 DEF Restart, Goal
<1>9. CASE UNCHANGED vars
  BY <1>2, <1>9 DEF vars
<1>10. CASE Next
  BY <1>10, <1>3, <1>4, <1>5, <1>6, <1>7, <1>8 DEF Next
<1> QED BY <1>9, <1>10

LEMMA CausesStep ==
  ASSUME TypeOK, Registry, Kinds, Causes, [Next]_vars PROVE Causes'
<1>1. /\ \A f \in Faults : spent'[f] \in Nat /\ spent'[f] >= spent[f] /\ spent[f] \in Nat
      /\ {"cancel", "redis"} \in SUBSET Faults /\ {"timeout"} \in SUBSET Faults
  BY FaultsRemembered DEF TypeOK, Faults
<1>2. (msgs # {} => spent["cancel"] > 0)'
  BY <1>1, CommandsAsked DEF Causes
<1>3. ASSUME NEW k \in Jobs PROVE Caused(k)'
  <2>0. Acts(k) /\ job[k] \in JobState /\ Caused(k)
    BY JobActs DEF TypeOK, JobsOK, Causes
  <2>1. job'[k].outer \in {job[k].outer, "none"} => Caused(k)'
    BY <1>1, <2>0 DEF Caused
  <2>2. CASE Advances(k) \/ Takes(k) \/ Leaves(k) \/ job'[k] = job[k] \/ job'[k] = IdleJob
    BY <2>1, <2>2 DEF Advances, Takes, Leaves, IdleJob
  <2>3. CASE DbError(k)
    BY <2>1, <2>3, DbErrorMoves
  <2>4. CASE Heartbeat(k)
    <3>1. job'[k] = job[k] \/ job'[k] = [job[k] EXCEPT !.kill = TRUE, !.beat = FALSE]
      BY <2>4, HeartbeatMoves DEF Extends
    <3>2. job'[k].outer = job[k].outer
      BY <2>0, <3>1 DEF JobState
    <3> QED BY <2>1, <3>2
  <2>5. CASE Timeout(k)
    <3>1. SpendAll({"timeout"})
      BY <2>5, TimeoutMoves DEF Spend
    <3>2. spent'["timeout"] = spent["timeout"] + 1
      BY <1>1, <3>1, SpentGrows
    <3> QED BY <1>1, <3>2 DEF Caused
  <2>6. CASE Stopped(k)
    <3>1. CASE msgs # {}
      BY <1>1, <3>1 DEF Causes, Caused
    <3>2. CASE SpendAll({"cancel", "redis"})
      BY <1>1, <3>2, SpentGrows DEF Caused
    <3> QED BY <2>6, <3>1, <3>2 DEF Stopped
  <2> QED BY <2>0, <2>2, <2>3, <2>4, <2>5, <2>6 DEF Acts
<1> QED BY <1>2, <1>3 DEF Causes

(* A run that is over stays over, and no row disappears. *)
LEMMA RowsLast ==
  ASSUME TypeOK, ClaimConsistent, Kinds, [Next]_vars, NEW r \in Runs
  PROVE  /\ IsTerminal(rows[r]) => IsTerminal(rows'[r])
         /\ rows[r].status # "absent" => rows'[r].status # "absent"
<1> DEFINE x == rows[r]
           y == rows'[r]
<1>0. x \in Row
  BY DEF TypeOK, RowsOK
<1>1. Moves(r) /\ RowStep(r)
  BY RowMoves, TableStep
<1>2. IsTerminal(x) => IsTerminal(y)
  <2> SUFFICES ASSUME IsTerminal(x) PROVE IsTerminal(y)
    OBVIOUS
  <2>1. CASE Eases(x, y)
    BY <2>1 DEF Eases
  <2>2. ~ \E j \in Jobs : job[j].run = r /\ Claims(j)
    BY DEF Claims, Claimable, RowOf, IsTerminal
  <2>3. ASSUME NEW j \in Jobs, job[j].run = r, Extends(j) PROVE IsTerminal(y)
    BY <1>0, <2>3 DEF Extends, RowOf, IsTerminal, Row
  <2>4. CASE y = [x EXCEPT !.lease = "expired"]
    BY <1>0, <2>4 DEF IsTerminal, Row
  <2> QED BY <1>1, <2>1, <2>2, <2>3, <2>4 DEF Moves, IsTerminal, Crashed
<1>3. x.status # "absent" => y.status # "absent"
  <2> SUFFICES ASSUME x.status # "absent" PROVE y.status # "absent"
    OBVIOUS
  <2>1. \A w : /\ Claim(x, w).status # "absent" /\ ReleaseLease(x, w).status # "absent"
              /\ ExtendLease(x, w).status # "absent" /\ FailCorrupt(x, w).status # "absent"
    BY <1>0 DEF Claim, ReleaseLease, ExtendLease, FailCorrupt, Row
  <2>2. \A s \in TerminalStates : FinalizeRun(x, s) \in Row /\ FinalizeRun(x, s).status # "absent"
    BY <1>0 DEF FinalizeRun, Row
  <2>3. \A w : ReleaseLease(FinalizeRun(x, "error"), w).status # "absent"
    BY <2>2 DEF ReleaseLease, Row
  <2>4. /\ StartRun(x).status # "absent" /\ InterruptUnowned(x).status # "absent"
        /\ RecoverCrashed(x).status # "absent" /\ RequeueDrained(x).status # "absent"
        /\ [x EXCEPT !.lease = "expired"].status # "absent"
    BY <1>0 DEF StartRun, InterruptUnowned, RecoverCrashed, RequeueDrained, Row
  <2> QED BY <1>1, <2>1, <2>2, <2>3, <2>4 DEF RowStep, Statement
<1> QED BY <1>2, <1>3

(* A job works for a run that exists. *)
Present(j) == job[j].pc \in Owning => RowOf(j).status # "absent"

LEMMA PresentStep ==
  ASSUME TypeOK, ClaimConsistent, Kinds, [Next]_vars, NEW k \in Jobs, Present(k)
  PROVE  Present(k)'
<1> SUFFICES ASSUME job'[k].pc \in Owning PROVE rows'[job'[k].run].status # "absent"
  BY DEF Present, RowOf
<1>1. Enters(k)
  BY EntersStep
<1>2. CASE Stays(job[k], job'[k])
  <2>1. job[k].pc \in Owning /\ job'[k].run = job[k].run /\ job[k].pc # "free"
    BY <1>2 DEF Stays, Owning
  <2> QED BY <2>1, RunType, RowsLast DEF Present, RowOf
<1>3. CASE Acquire(k) /\ Claimable(RowOf(k))
  <2>1. job[k].pc = "acquire"
    BY <1>3 DEF Acquire
  <2>2. job'[k].run = job[k].run
    BY <1>3 DEF Acquire, Goto, TypeOK, JobsOK, JobState
  <2> QED BY <1>3, <2>1, <2>2, RunType, RowsLast DEF RowOf, Claimable
<1> QED BY <1>1, <1>2, <1>3 DEF Enters

(* From its claim to start_run a job holds a live lease, or the run is over. *)
Secure(row, w) == IsTerminal(row) \/ (row.status = "running" /\ row.lease = "live" /\ row.owner = w)
Held(j) == job[j].pc \in Claiming => Secure(RowOf(j), WorkerOf[j])

(* A job that goes on by itself ends its run before it gives the claim back, *)
(* or has lost it.                                                           *)
Final(j) ==
  /\ job[j].pc \in {"committed", "csignal"} => IsTerminal(RowOf(j))
  /\ job[j].pc \in {"finally", "release"} /\ job[j].outer = "none"
     => IsTerminal(RowOf(j)) \/ RowOf(j).owner # WorkerOf[j]

(* The statements of a job on a running row that somebody else has claimed. *)
LEMMA Foreign ==
  ASSUME TypeOK, NEW j \in Jobs, Advances(j), job[j].pc # "free",
         RowOf(j).status = "running", RowOf(j).owner # WorkerOf[j], RowOf(j).owner # NoWorker
  PROVE  rows'[job[j].run] = RowOf(j) \/ IsTerminal(rows'[job[j].run])
<1> DEFINE a == job[j]
           p == job'[j].pc
           x == RowOf(j)
           y == rows'[job[j].run]
           w == WorkerOf[j]
           o == OuterOutcome(j)
           b == FinalizeRun(x, "error")
           c == FinalizeRun(x, "interrupted")
<1>0. x \in Row
  BY RunType
<1>1. Path(a, p, x, y, w, o)
  BY DEF Advances
<1>2. \/ y \in {x, Claim(x, w), FailCorrupt(x, w), StartRun(x), ReleaseLease(x, w), o}
      \/ \E s \in TerminalStates : y = FinalizeRun(x, s)
  <2> HIDE DEF x, y, w, o, a, p
  <2> QED BY <1>1 DEF Path
<1>3. Claim(x, w) = x /\ FailCorrupt(x, w) = x /\ StartRun(x) = x /\ ReleaseLease(x, w) = x
  BY <1>0 DEF Claim, Claimable, FailCorrupt, StartRun, IsActive, ReleaseLease, Row
<1>4. \A s \in TerminalStates : /\ FinalizeRun(x, s) \in Row /\ IsTerminal(FinalizeRun(x, s))
                                /\ FinalizeRun(x, s).owner = x.owner
  BY <1>0 DEF FinalizeRun, IsActive, IsTerminal, Row
<1>5. o = x \/ IsTerminal(o)
  <2>1. IsTerminal(c) /\ IsTerminal(b) /\ b.owner # w
    BY <1>4
  <2>2. ReleaseLease(b, w) = b
    BY <2>1 DEF ReleaseLease
  <2>3. o \in {x, c, ReleaseLease(b, w)}
    BY DEF OuterOutcome
  <2> QED BY <2>1, <2>2, <2>3
<1> QED BY <1>2, <1>3, <1>4, <1>5

LEMMA HeldRow ==
  ASSUME TypeOK, ClaimConsistent, NoTwins, Prompt, Kinds, [Next]_vars, NEW k \in Jobs,
         job[k].pc \in Claiming, Held(k), job'[k].pc = job[k].pc
  PROVE  Secure(rows'[job[k].run], WorkerOf[k])
<1> DEFINE r == job[k].run
           x == rows[r]
           y == rows'[r]
           w == WorkerOf[k]
<1>0. r \in Runs /\ x \in Row /\ w \in Workers /\ job[k].pc \notin {"free", "held"} /\ w # NoWorker
  BY RunType, HostType, NoWorkerAssumption DEF Claiming, TypeOK, RowsOK
<1>1. CASE IsTerminal(x)
  BY <1>0, <1>1, RowsLast DEF Secure
<1>2. CASE ~IsTerminal(x)
  <2>1. x.status = "running" /\ x.lease = "live" /\ x.owner = w
    BY <1>2 DEF Held, Secure, RowOf
  <2>2. y = x \/ IsTerminal(y) => Secure(y, w)
    BY <2>1 DEF Secure
  <2>3. ASSUME NEW j \in Jobs, Advances(j) PROVE Secure(y, w)
    <3>1. j # k
      <4>1. Path(job[j], job'[j].pc, RowOf(j), rows'[job[j].run], WorkerOf[j], OuterOutcome(j))
        BY <2>3 DEF Advances
      <4>2. job'[j].pc # job[j].pc \/ job[j].pc \notin Claiming
        BY <4>1 DEF Path, Claiming
      <4> QED BY <4>2
    <3>2. job[j].pc \notin {"free", "held"}
      BY <2>3, PathRow
    <3>3. CASE job[j].run # r
      BY <1>0, <2>2, <2>3, <3>3 DEF Advances
    <3>4. CASE job[j].run = r
      <4>1. Host(j) # Host(k)
        BY <1>0, <3>1, <3>2, <3>4 DEF NoTwins, Twins
      <4>2. WorkerOf[j] # w
        BY <4>1 DEF Host
      <4> QED BY <1>0, <2>1, <2>2, <2>3, <3>2, <3>4, <4>2, Foreign DEF RowOf
    <3> QED BY <3>3, <3>4
  <2>4. ASSUME NEW j \in Jobs, Takes(j) \/ Leaves(j) \/ DbError(j) \/ Timeout(j) PROVE y = x
    BY <2>4 DEF Takes, Leaves, DbError, Timeout, table
  <2>5. ASSUME NEW j \in Jobs, Heartbeat(j) PROVE y = x
    <3>1. CASE job[j].run # r
      BY <1>0, <2>5, <3>1, HeartbeatMoves
    <3>2. CASE job[j].run = r
      <4>1. y = x \/ y = [x EXCEPT !.lease = "live"]
        BY <2>5, <3>2, HeartbeatMoves DEF Extends, RowOf
      <4> QED BY <1>0, <2>1, <4>1 DEF Row
    <3> QED BY <3>1, <3>2
  <2>6. ASSUME NEW i \in Instances, NEW s \in Runs, Reaches(i, s) PROVE y = x
    BY <2>6 DEF Reaches
  <2>7. ASSUME NEW s \in Runs, PrepareRun(s) \/ InterruptReconciled(s) \/ ExpireLease(s)
        PROVE  y = x
    <3>1. s # r
      <4>1. ~PrepareRun(r) /\ ~InterruptReconciled(r)
        BY <1>0, <2>1 DEF PrepareRun, InterruptReconciled, Unowned
      <4>2. Holds(k, r) /\ job[k].pc \notin StallsAt
        BY <2>1 DEF Holds, Claiming, Prompt
      <4>3. ~ExpireLease(r)
        BY <4>2 DEF ExpireLease
      <4> QED BY <2>7, <4>1, <4>3
    <3>2. rows \in [Runs -> Row]
      BY DEF TypeOK, RowsOK
    <3> QED BY <1>0, <2>7, <3>1, <3>2 DEF PrepareRun, InterruptReconciled, ExpireLease
  <2>8. ASSUME NEW i \in Instances, ReapRecover(i) PROVE y = x
    <3>1. y = x \/ y = RecoverCrashed(x)
      BY <1>0, <2>8 DEF ReapRecover
    <3> QED BY <2>1, <3>1 DEF RecoverCrashed, Crashed
  <2>9. ASSUME NEW i \in Instances, Kill(i) \/ Restart(i) PROVE y = x
    BY <2>9 DEF Kill, Restart, table
  <2> QED BY <2>2, <2>3, <2>4, <2>5, <2>6, <2>7, <2>8, <2>9 DEF Kinds
<1> QED BY <1>1, <1>2

(* A step of a task, or a change of a job that stays where it is. *)
Stands(k) == /\ job'[k].pc = job[k].pc /\ job'[k].run = job[k].run
             /\ job'[k].outer # job[k].outer => job'[k].outer # "none"

LEMMA JobStands ==
  ASSUME TypeOK, Registry, Kinds, Harmless', [Next]_vars, NEW k \in Jobs
  PROVE  \/ Stands(k) \/ Advances(k) \/ Takes(k) \/ Leaves(k)
         \/ Kill(Host(k)) /\ job'[k] = IdleJob
<1>0. Acts(k) /\ job[k] \in JobState
  BY JobActs DEF TypeOK, JobsOK
<1>1. ~DbError(k)
  <2>1. {"db"} \in SUBSET Faults /\ spent["db"] \in Nat
    BY DEF Faults, TypeOK
  <2>2. SpendAll({"db"}) => spent'["db"] = spent["db"] + 1
    BY <2>1, SpentGrows
  <2> QED BY <2>1, <2>2, DbErrorMoves DEF Spend, Harmless
<1>2. CASE job'[k] = job[k]
  BY <1>2 DEF Stands
<1>3. CASE Heartbeat(k)
  <2>1. job'[k] = job[k] \/ job'[k] = [job[k] EXCEPT !.kill = TRUE, !.beat = FALSE]
    BY <1>3, HeartbeatMoves DEF Extends
  <2> QED BY <1>0, <2>1 DEF Stands, JobState
<1>4. CASE Timeout(k)
  <2>1. job'[k] = [job[k] EXCEPT !.outer = "timedout", !.kill = TRUE]
    BY <1>4, TimeoutMoves
  <2> QED BY <1>0, <2>1 DEF Stands, JobState
<1>5. CASE Stopped(k)
  BY <1>0, <1>5, CancelledFields DEF Stopped, Stands
<1> QED BY <1>0, <1>1, <1>2, <1>3, <1>4, <1>5 DEF Acts

LEMMA HeldStep ==
  ASSUME TypeOK, ClaimConsistent, NoTwins, Registry, Prompt, Kinds, Harmless', [Next]_vars,
         NEW k \in Jobs, Held(k), Lost(k)
  PROVE  Held(k)'
<1> SUFFICES ASSUME job'[k].pc \in Claiming
             PROVE  Secure(rows'[job'[k].run], WorkerOf[k])
  BY DEF Held, RowOf
<1>1. CASE Stands(k)
  BY <1>1, HeldRow DEF Stands
<1>2. CASE Advances(k)
  <2> DEFINE a == job[k]
             p == job'[k].pc
             x == RowOf(k)
             y == rows'[job[k].run]
             w == WorkerOf[k]
             o == OuterOutcome(k)
  <2>1. Path(a, p, x, y, w, o) /\ job'[k].run = a.run /\ x \in Row
    BY <1>2, PathRow, RunType DEF Advances
  <2>2. CASE a.pc = "leased"
    <3>1. y = x
      BY <2>1, <2>2 DEF Path
    <3> QED BY <2>1, <2>2, <3>1 DEF Held, Claiming
  <2>3. CASE a.pc = "acquire"
    <3>1. y = Claim(x, w) /\ Claimable(x)
      BY <2>1, <2>3 DEF Path, Claiming
    <3>2. Secure(y, w)
      BY <2>1, <3>1 DEF Claim, Secure, Row
    <3> QED BY <2>1, <3>2
  <2> QED BY <2>1, <2>2, <2>3 DEF Path, Claiming
<1> QED BY <1>1, <1>2, JobStands DEF Claiming, Takes, Leaves, IdleJob

LEMMA FinalStep ==
  ASSUME TypeOK, ClaimConsistent, NoTwins, Registry, Kinds, Harmless', [Next]_vars,
         NEW k \in Jobs, Final(k), Lost(k), Present(k)
  PROVE  Final(k)'
<1> DEFINE Quits == {"committed", "csignal", "finally", "release"}
<1> SUFFICES ASSUME job'[k].pc \in Quits
             PROVE  /\ job'[k].pc \in {"committed", "csignal"} => IsTerminal(rows'[job'[k].run])
                    /\ job'[k].pc \in {"finally", "release"} /\ job'[k].outer = "none" =>
                       IsTerminal(rows'[job'[k].run]) \/ rows'[job'[k].run].owner # WorkerOf[k]
  BY DEF Final, RowOf
<1>1. CASE Stands(k)
  <2>1. job[k].run \in Runs /\ job[k].pc \notin {"free", "held", "acquire"}
    BY <1>1, RunType DEF Stands
  <2>2. IsTerminal(RowOf(k)) => IsTerminal(rows'[job[k].run])
    BY <2>1, RowsLast DEF RowOf
  <2> QED BY <1>1, <2>1, <2>2, OwnerStays DEF Stands, Final
<1>2. CASE Advances(k)
  <2> DEFINE a == job[k]
             b == job'[k]
             x == RowOf(k)
             y == rows'[job[k].run]
             w == WorkerOf[k]
             o == OuterOutcome(k)
  <2>1. Path(a, b.pc, x, y, w, o) /\ b.run = a.run /\ b.outer = a.outer /\ x \in Row
    BY <1>2, PathRow, RunType DEF Advances
  <2>2. a.pc \in Owning => IsTerminal(x) \/ IsActive(x)
    BY <2>1 DEF Present, IsTerminal, IsActive, Row
  <2>3. a.kill /\ a.outer = "none" => a.pc \in Executing /\ x.owner # w
    BY DEF Lost
  <2>4. \A s \in TerminalStates : /\ FinalizeRun(x, s).owner = x.owner
                                  /\ a.pc \in Owning => IsTerminal(FinalizeRun(x, s))
    BY <2>1, <2>2 DEF FinalizeRun, IsTerminal, Row
  <2>5. StartRun(x).owner = x.owner /\ (IsTerminal(x) => StartRun(x) = x)
    BY <2>1 DEF StartRun, IsActive, IsTerminal, Row
  <2>6. /\ a.pc \in {"committed", "csignal"} => IsTerminal(x)
        /\ a.pc \in {"finally", "release"} /\ a.outer = "none" => IsTerminal(x) \/ x.owner # w
    BY DEF Final
  <2>0. AfterClaim(x) \notin Quits /\ a \in JobState
    BY DEF AfterClaim, TypeOK, JobsOK
  <2> HIDE DEF a, b, x, y, w, o
  <2>7. b.pc \in {"committed", "csignal"} => IsTerminal(y)
    BY <2>0, <2>1, <2>4 DEF Path, Owning, JobState
  <2>8. b.pc = "finally" /\ b.outer = "none" => IsTerminal(y) \/ y.owner # w
    BY <2>0, <2>1, <2>2, <2>3, <2>4, <2>5, <2>6 DEF Path, Owning, JobState
  <2>9. b.pc = "release" /\ b.outer = "none" => IsTerminal(y) \/ y.owner # w
    BY <2>0, <2>1, <2>2, <2>3, <2>5, <2>6 DEF Path, Owning, JobState
  <2> QED BY <2>1, <2>7, <2>8, <2>9 DEF a, b, x, y, w, o
<1> QED BY <1>1, <1>2, JobStands DEF Takes, Leaves, IdleJob

(* A cancelled job on its way to the except clause that ends its run. *)
Closes(j, r) == job[j].run = r /\ job[j].pc \in {"release", "outer"} /\ job[j].outer # "none"

LEMMA ClosesStep ==
  ASSUME TypeOK, ClaimConsistent, Registry, Kinds, Causes, Harmless', [Next]_vars,
         NEW r \in Runs, NEW j \in Jobs, Closes(j, r), Wanted(j)
  PROVE  \/ Closes(j, r)' /\ (job[j].pc = "outer" => job'[j].pc = "outer")
         \/ job[j].pc = "outer" /\ rows'[r].status \notin ActiveStates
<1>0. job[j] \in JobState /\ job[j].pc # "free"
  BY DEF Closes, TypeOK, JobsOK
<1>1. CASE Stands(j)
  BY <1>1 DEF Stands, Closes
<1>2. CASE Advances(j)
  <2>1. /\ Path(job[j], job'[j].pc, RowOf(j), rows'[r], WorkerOf[j], OuterOutcome(j))
        /\ job'[j].run = r /\ job'[j].outer = job[j].outer
    BY <1>2 DEF Advances, Closes
  <2>2. CASE job[j].pc = "release"
    <3>1. job'[j].pc = "outer"
      BY <2>1, <2>2 DEF Path
    <3> QED BY <2>1, <2>2, <3>1 DEF Closes
  <2>3. CASE job[j].pc = "outer"
    <3>1. rows'[r] = OuterOutcome(j)
      BY <2>1, <2>3 DEF Path
    <3>2. job[j].outer \in {"timedout", "cancelled"}
      BY <1>0 DEF Closes, JobState
    <3>3. OuterOutcome(j).status \notin ActiveStates
      BY <1>0, <2>3, <3>2, EasesOuter DEF Wanted
    <3> QED BY <2>3, <3>1, <3>3
  <2> QED BY <2>2, <2>3 DEF Closes
<1>3. ~Takes(j) /\ ~Leaves(j)
  BY DEF Takes, Leaves, Closes
<1>4. ~Kill(Host(j))
  <2>1. /\ {"crash"} \in SUBSET Faults /\ {"cancel", "timeout"} \subseteq Faults
        /\ \A f \in Faults : spent[f] \in Nat
    BY DEF Faults, TypeOK
  <2>2. SUFFICES ASSUME SpendAll({"crash"}) PROVE FALSE
    BY DEF Kill, Spend
  <2>3. spent'["crash"] = spent["crash"] + 1
    BY <2>1, <2>2, SpentGrows
  <2>4. spent'["cancel"] = 0 /\ spent'["timeout"] = 0
    BY <2>1, <2>3 DEF Harmless
  <2>5. spent["cancel"] = 0 /\ spent["timeout"] = 0
    BY <2>1, <2>4, FaultsRemembered
  <2> QED BY <2>5 DEF Causes, Caused, Closes
<1> QED BY <1>1, <1>2, <1>3, <1>4, JobStands

Astray(row) == row.status = "running" /\ row.lease = "none"

(* A running row without a lease is that of a job that was cancelled and is *)
(* about to end it.                                                         *)
Stranded(r) == Astray(rows[r]) => \E j \in Jobs : Closes(j, r) /\ job[j].pc = "outer"

(* A row goes astray only when such a job gives up its claim. *)
LEMMA GoesAstray ==
  ASSUME TypeOK, ClaimConsistent, Kinds, NEW r \in Runs, ~Astray(rows[r]), Astray(rows'[r]),
         \A j \in Jobs : Held(j) /\ Final(j)
  PROVE  \E j \in Jobs : (Closes(j, r) /\ job[j].pc = "outer")'
<1> DEFINE Goal == \E j \in Jobs : (Closes(j, r) /\ job[j].pc = "outer")'
<1>0. rows \in [Runs -> Row] /\ rows[r] \in Row
  BY DEF TypeOK, RowsOK
<1>1. rows'[r] # rows[r]
  OBVIOUS
<1>2. ASSUME NEW j \in Jobs, Advances(j) PROVE Goal
  <2> DEFINE a == job[j]
             b == job'[j]
             x == RowOf(j)
             y == rows'[job[j].run]
             w == WorkerOf[j]
             o == OuterOutcome(j)
  <2>1. a.run = r
    BY <1>1, <1>2 DEF Advances
  <2>2. /\ Path(a, b.pc, x, y, w, o) /\ b.run = r /\ b.outer = a.outer /\ x = rows[r] /\ x \in Row
        /\ Astray(y) /\ ~Astray(x) /\ a.pc # "free"
    BY <1>0, <1>2, <2>1, PathRow DEF Advances, RowOf
  <2>3. y # Claim(x, w) /\ y # FailCorrupt(x, w) /\ \A s \in TerminalStates : y # FinalizeRun(x, s)
    BY <2>2 DEF Claim, Claimable, FailCorrupt, FinalizeRun, Astray, Row
  <2>4. y # o
    <3> DEFINE f == FinalizeRun(x, "error")
    <3>1. f \in Row /\ f.status \notin ActiveStates
      BY <2>2 DEF FinalizeRun, IsActive, Row
    <3>2. ReleaseLease(f, w).status \notin ActiveStates
      BY <3>1 DEF ReleaseLease, Row
    <3>3. o \in {x, FinalizeRun(x, "interrupted"), ReleaseLease(f, w)}
      BY DEF OuterOutcome
    <3> QED BY <2>2, <2>3, <3>2, <3>3 DEF Astray
  <2>5. CASE a.pc = "start" /\ y = StartRun(x)
    <3>1. Secure(x, w)
      BY <2>5 DEF Held, Claiming
    <3>2. y = x
      BY <2>2, <2>5, <3>1 DEF Secure, StartRun, IsActive, IsTerminal, Row
    <3> QED BY <2>2, <3>2
  <2>6. CASE a.pc = "release" /\ b.pc = "outer" /\ y = ReleaseLease(x, w)
    <3>1. x.owner = w /\ ~IsTerminal(x)
      BY <2>2, <2>6 DEF ReleaseLease, Astray, IsTerminal, Row
    <3>2. a.outer # "none"
      BY <2>6, <3>1 DEF Final
    <3> QED BY <2>2, <2>6, <3>2 DEF Closes
  <2>7. \/ y \in {x, Claim(x, w), FailCorrupt(x, w), o}
        \/ \E s \in TerminalStates : y = FinalizeRun(x, s)
        \/ a.pc = "start" /\ y = StartRun(x)
        \/ a.pc = "release" /\ b.pc = "outer" /\ y = ReleaseLease(x, w)
    <3> HIDE DEF a, b, x, y, w, o
    <3> QED BY <2>2 DEF Path
  <2> QED BY <2>2, <2>3, <2>4, <2>5, <2>6, <2>7
<1>3. ASSUME NEW j \in Jobs, Takes(j) \/ Leaves(j) \/ DbError(j) \/ Timeout(j) PROVE Goal
  BY <1>1, <1>3 DEF Takes, Leaves, DbError, Timeout, table
<1>4. ASSUME NEW j \in Jobs, Heartbeat(j) PROVE Goal
  <2>1. job[j].run = r /\ Extends(j)
    BY <1>1, <1>4, HeartbeatMoves
  <2> QED BY <1>0, <2>1 DEF Extends, RowOf, Astray, Row
<1>5. ASSUME NEW i \in Instances, NEW s \in Runs, Reaches(i, s) PROVE Goal
  BY <1>1, <1>5 DEF Reaches
<1>6. ASSUME NEW s \in Runs, PrepareRun(s) PROVE Goal
  <2>1. s = r /\ rows'[r].status = "pending"
    BY <1>0, <1>1, <1>6 DEF PrepareRun, InsertRun, AbsentRow
  <2> QED BY <2>1 DEF Astray
<1>7. ASSUME NEW s \in Runs, InterruptReconciled(s) PROVE Goal
  <2>1. s = r /\ rows'[r] = InterruptUnowned(rows[r])
    BY <1>0, <1>1, <1>7 DEF InterruptReconciled
  <2> QED BY <1>0, <1>1, <2>1 DEF InterruptUnowned, Astray, Row
<1>8. ASSUME NEW s \in Runs, ExpireLease(s) PROVE Goal
  <2>1. s = r /\ rows'[r] = [rows[r] EXCEPT !.lease = "expired"]
    BY <1>0, <1>1, <1>8 DEF ExpireLease
  <2> QED BY <1>0, <2>1 DEF Astray, Row
<1>9. ASSUME NEW i \in Instances, ReapRecover(i) PROVE Goal
  <2>1. rows'[r] = RecoverCrashed(rows[r])
    BY <1>1, <1>9 DEF ReapRecover
  <2> QED BY <1>1, <2>1 DEF RecoverCrashed, Astray
<1>10. ASSUME NEW i \in Instances, Kill(i) \/ Restart(i) PROVE Goal
  BY <1>1, <1>10 DEF Kill, Restart, table
<1> QED
  BY <1>1, <1>2, <1>3, <1>4, <1>5, <1>6, <1>7, <1>8, <1>9, <1>10 DEF Kinds

LEMMA StrandedStep ==
  ASSUME TypeOK, ClaimConsistent, Registry, Kinds, Causes, Reasonable, Harmless', [Next]_vars,
         \A j \in Jobs : Held(j) /\ Final(j), NEW r \in Runs, Stranded(r)
  PROVE  Stranded(r)'
<1> SUFFICES ASSUME Astray(rows'[r])
             PROVE  \E j \in Jobs : (Closes(j, r) /\ job[j].pc = "outer")'
  BY DEF Stranded
<1>1. CASE Astray(rows[r])
  <2>1. PICK j \in Jobs : Closes(j, r) /\ job[j].pc = "outer"
    BY <1>1 DEF Stranded
  <2>2. (Closes(j, r) /\ job[j].pc = "outer")'
    BY <2>1, ClosesStep DEF Reasonable, Astray
  <2> QED BY <2>2
<1>2. CASE ~Astray(rows[r])
  BY <1>2, GoesAstray
<1> QED BY <1>1, <1>2

(* While no lease was missed, the done key of a run is set when the run is  *)
(* over, or by a job that is about to end it.                               *)
Told(r) == r \in done => /\ rows[r].status # "absent"
                         /\ IsTerminal(rows[r]) \/ \E j \in Jobs : Closes(j, r)
Telling == spent["stall"] = 0 => \A r \in Runs : Told(r)

LEMMA TellingStep ==
  ASSUME TypeOK, TypeOK', ClaimConsistent, Registry, Kinds, Causes, Reasonable, Harmless',
         [Next]_vars, Tenure, Telling, \A j \in Jobs : Present(j) /\ Final(j)
  PROVE  Telling'
<1> SUFFICES ASSUME spent'["stall"] = 0, NEW r \in Runs, r \in done'
             PROVE  /\ rows'[r].status # "absent"
                    /\ IsTerminal(rows'[r]) \/ \E j \in Jobs : Closes(j, r)'
  BY DEF Telling, Told
<1>0. spent["stall"] = 0 /\ rows[r] \in Row /\ rows'[r] \in Row
  BY FaultsRemembered DEF TypeOK, RowsOK, Faults
<1>1. CASE r \in done
  <2>1. rows'[r].status # "absent" /\ (IsTerminal(rows[r]) => IsTerminal(rows'[r]))
    BY <1>0, <1>1, RowsLast DEF Telling, Told
  <2>2. ASSUME NEW j \in Jobs, Closes(j, r)
        PROVE  IsTerminal(rows'[r]) \/ Closes(j, r)'
    <3>1. rows'[r].status \notin ActiveStates => IsTerminal(rows'[r])
      BY <1>0, <2>1 DEF IsTerminal, Row
    <3> QED BY <2>2, <3>1, ClosesStep DEF Reasonable
  <2> QED BY <1>0, <1>1, <2>1, <2>2 DEF Telling, Told
<1>2. CASE r \notin done
  <2>1. PICK j \in Jobs : Advances(j) /\ done' # done
    <3>1. ASSUME NEW j \in Jobs, Takes(j) \/ Leaves(j) \/ DbError(j) \/ Heartbeat(j) \/ Timeout(j)
          PROVE  UNCHANGED done
      BY <3>1 DEF Takes, Leaves, DbError, Heartbeat, Timeout, signals
    <3>2. ASSUME NEW i \in Instances, \/ \E s \in Runs : Reaches(i, s)
                                      \/ ReapRecover(i) \/ Kill(i) \/ Restart(i)
          PROVE  UNCHANGED done
      BY <3>2 DEF Reaches, ReapRecover, Kill, Restart, signals
    <3>3. ASSUME NEW s \in Runs, PrepareRun(s) \/ InterruptReconciled(s) \/ ExpireLease(s)
          PROVE  UNCHANGED done
      BY <3>3 DEF PrepareRun, InterruptReconciled, ExpireLease, signals
    <3> QED BY <1>2, <3>1, <3>2, <3>3 DEF Kinds
  <2>2. job[j].pc = "finally" /\ job[j].run = r
    BY <1>2, <2>1 DEF Advances
  <2>3. /\ rows'[r] = rows[r] /\ job'[j].pc = "release"
        /\ job'[j].run = r /\ job'[j].outer = job[j].outer
    BY <2>1, <2>2 DEF Advances, Path, RowOf
  <2>4. rows[r].status # "absent"
    BY <2>2 DEF Present, Owning, RowOf
  <2>5. IsTerminal(rows[r]) \/ rows[r].owner = WorkerOf[j]
    BY <1>0, <2>2 DEF Tenure, Owned, Owning, RowOf
  <2>6. IsTerminal(rows[r]) \/ job[j].outer # "none"
    BY <2>2, <2>5 DEF Final, RowOf
  <2> QED BY <2>3, <2>4, <2>6 DEF Closes
<1> QED BY <1>1, <1>2

(* The inductive invariants. *)
Careful  == Undrained /\ Provenance /\ Reasonable /\ Causes /\ \A j \in Jobs : Present(j) /\ Final(j)
Stranding == (\A j \in Jobs : Held(j)) /\ \A r \in Runs : Stranded(r)

LEMMA CarefulInit == Init => Careful /\ Stranding /\ Tenure /\ Telling
<1> SUFFICES ASSUME Init PROVE Careful /\ Stranding /\ Tenure /\ Telling
  OBVIOUS
<1>1. Undrained /\ Tenure /\ Provenance /\ Reasonable
  BY TenureInit, ProvenanceInit, AccountsInit
<1>2. Causes /\ \A j \in Jobs : Present(j) /\ Final(j) /\ Held(j)
  BY DEF Init, Causes, Caused, Present, Final, Held, IdleJob, Owning, Claiming
<1>3. (\A r \in Runs : Stranded(r)) /\ Telling
  BY DEF Init, Stranded, Astray, AbsentRow, Telling, Told
<1> QED BY <1>1, <1>2, <1>3 DEF Careful, Stranding

LEMMA CarefulNext ==
  ASSUME NeverStopped, TypeOK, ClaimConsistent, NoTwins, Harmless', Careful, [Next]_vars
  PROVE  Careful'
<1> USE DEF Careful
<1>1. Kinds /\ Registry
  BY StepKinds DEF Provenance
<1>2. Undrained' /\ Provenance' /\ Reasonable'
  BY UndrainedNext, ProvenanceNext, ReasonableNext
<1>3. Causes'
  BY <1>1, CausesStep
<1>4. ASSUME NEW k \in Jobs PROVE Present(k)' /\ Final(k)'
  BY <1>1, PresentStep, FinalStep DEF Reasonable
<1> QED BY <1>2, <1>3, <1>4

LEMMA StrandingNext ==
  ASSUME Prompt, TypeOK, ClaimConsistent, NoTwins, Harmless', Careful, Stranding, [Next]_vars
  PROVE  Stranding'
<1> USE DEF Careful, Stranding
<1>1. Kinds /\ Registry
  BY StepKinds DEF Provenance
<1>2. ASSUME NEW k \in Jobs PROVE Held(k)'
  BY <1>1, HeldStep DEF Reasonable
<1>3. ASSUME NEW r \in Runs PROVE Stranded(r)'
  BY <1>1, StrandedStep
<1> QED BY <1>2, <1>3

LEMMA TellingNext ==
  ASSUME TypeOK, TypeOK', ClaimConsistent, Harmless', Careful, Tenure, Telling, [Next]_vars
  PROVE  Telling'
<1> USE DEF Careful
<1>1. Kinds /\ Registry
  BY StepKinds DEF Provenance
<1> QED BY <1>1, TellingStep

(* A running row without a lease is in the hands of a job that ends it, for  *)
(* any number of runs, workers, stalls, cancels and timeouts or any number   *)
(* of crashes: _find_recoverable, which never looks at such a row, need not. *)
(* The hypotheses are the cases in which the code does strand a run: a       *)
(* failing statement, a crash after a cancel or a timeout, a lease missed    *)
(* before start_run, a drain.                                                *)
THEOREM NoRunStranded ==
  ASSUME NeverStopped, Prompt PROVE Spec /\ []NoTwins /\ []Harmless => []NoStrandedRun
<1>1. Init => Careful /\ Stranding
  BY CarefulInit
<1>2. TypeOK /\ ClaimConsistent /\ NoTwins /\ Harmless' /\ Careful /\ [Next]_vars => Careful'
  BY CarefulNext
<1>3. /\ TypeOK /\ ClaimConsistent /\ NoTwins /\ Harmless' /\ Careful /\ Stranding
      /\ [Next]_vars
      => Stranding'
  BY StrandingNext
<1>4. Stranding => NoStrandedRun
  BY DEF Stranding, Stranded, Astray, Closes, NoStrandedRun, InHand
<1> QED
  BY <1>1, <1>2, <1>3, <1>4, TypeCorrect, ClaimsConsistent, PTL DEF Spec

(* A done key tells the truth to wait_for_completion: the run is over, or   *)
(* the job that set it is about to write its end, for any number of runs,   *)
(* workers and slots.                                                       *)
THEOREM DoneKeysTruthful ==
  ASSUME NeverStopped PROVE Spec /\ []NoTwins /\ []Harmless => []DoneKeyTruthful
<1>1. Init => Careful /\ Tenure /\ Telling
  BY CarefulInit
<1>2. TypeOK /\ ClaimConsistent /\ NoTwins /\ Harmless' /\ Careful /\ [Next]_vars => Careful'
  BY CarefulNext
<1>3. TypeOK /\ Careful /\ Tenure /\ [Next]_vars => Tenure'
  BY TenureNext DEF Careful
<1>4. /\ TypeOK /\ TypeOK' /\ ClaimConsistent /\ Harmless' /\ Careful /\ Tenure /\ Telling
      /\ [Next]_vars
      => Telling'
  BY TellingNext
<1>5. TypeOK /\ Telling => DoneKeyTruthful
  <2> SUFFICES ASSUME TypeOK, Telling, spent["stall"] + spent["stop"] = 0, NEW r \in done
               PROVE  IsTerminal(rows[r]) \/ InHand(r)
    BY DEF DoneKeyTruthful
  <2>1. spent["stall"] = 0
    BY DEF TypeOK, Faults
  <2>2. r \in Runs
    BY DEF TypeOK, TrafficOK
  <2>3. Told(r)
    BY <2>1, <2>2 DEF Telling
  <2> QED BY <2>3 DEF Told, Closes, InHand
<1> QED
  BY <1>1, <1>2, <1>3, <1>4, <1>5, TypeCorrect, ClaimsConsistent, PTL DEF Spec

(* The scenarios in which the code comes back for every run. *)
Survivable == \A l \in Limits : /\ l["db"] = 0
                                /\ l["crash"] = 0 \/ (l["cancel"] = 0 /\ l["timeout"] = 0)

LEMMA HarmlessNext == ASSUME Survivable, TypeOK, Harmless, [Next]_vars PROVE Harmless'
<1>1. CASE UNCHANGED spent
  BY <1>1 DEF Harmless
<1>2. ASSUME NEW fs \in SUBSET Faults, SpendAll(fs) PROVE Harmless'
  <2>1. PICK l \in Limits : \A f \in Faults : spent'[f] <= l[f]
    BY <1>2 DEF SpendAll
  <2>2. /\ {"db", "crash", "cancel", "timeout"} \subseteq Faults /\ l \in [Faults -> Nat]
        /\ \A f \in Faults : spent'[f] \in Nat
    BY <1>2, LimitsAssumption, SpentGrows DEF Faults
  <2>3. \A f \in Faults : l[f] = 0 => spent'[f] = 0
    BY <2>1, <2>2
  <2>4. l["db"] = 0 /\ (l["crash"] = 0 \/ (l["cancel"] = 0 /\ l["timeout"] = 0))
    BY DEF Survivable
  <2> QED BY <2>2, <2>3, <2>4 DEF Harmless
<1> QED BY <1>1, <1>2, FaultsCounted

(* With one slot in every process the three hold without a condition on the *)
(* behaviour, for any number of processes and runs in these scenarios.      *)
THEOREM OneSlotRecovery ==
  ASSUME NeverStopped, Prompt, Survivable, \A j, k \in Jobs : Host(j) = Host(k) => j = k
  PROVE  Spec => []NoStrandedRun /\ []DoneKeyTruthful /\ []RetriesOnlyForFailures
<1>1. NoTwins
  BY DEF NoTwins, Twins
<1>2. Init => Harmless
  BY DEF Init, Harmless, Faults
<1>3. TypeOK /\ Harmless /\ [Next]_vars => Harmless'
  BY HarmlessNext
<1>4. Spec => []Harmless
  BY <1>2, <1>3, TypeCorrect, PTL DEF Spec
<1> QED
  BY <1>1, <1>4, NoRunStranded, DoneKeysTruthful, RetriesAreFailures, PTL
=============================================================================
