----------------------------- MODULE WorkerProofs -----------------------------
(***************************************************************************)
(* TypeOK is an invariant of WorkerExecution for every value of the        *)
(* constants.  The lemmas go from the statements on a row, to a slot's job *)
(* record, to one lemma for each group of actions.  A slot's record stays  *)
(* opaque (GoodJob) except where an action builds one.                     *)
(*                                                                         *)
(* Then what the steps do to the runs table: each of them applies one of   *)
(* the statements of RunTable to every row (most of them to one row, a     *)
(* reaper or a drain to several).  ClaimConsistent and the refinement of   *)
(* RunLifecycle follow statement by statement.                             *)
(***************************************************************************)
EXTENDS WorkerExecution, TLAPS

(***************************************************************************)
(* Statements on a row.                                                    *)
(***************************************************************************)
USE DEF ActiveStates, TerminalStates

(* Every UPDATE statement of the code maps a row to a row. *)
LEMMA InsertRunType ==
  ASSUME NEW p \in {"ok", "none", "stub"} PROVE InsertRun(p) \in Row
BY DEF InsertRun, Row, AbsentRow

LEMMA ClaimType ==
  ASSUME NEW row \in Row, NEW w \in Workers PROVE Claim(row, w) \in Row
BY DEF Claim, Row

LEMMA FailCorruptType ==
  ASSUME NEW row \in Row, NEW w \in Workers PROVE FailCorrupt(row, w) \in Row
BY DEF FailCorrupt, Row

LEMMA StartRunType ==
  ASSUME NEW row \in Row PROVE StartRun(row) \in Row
BY DEF StartRun, Row

LEMMA FinalizeRunType ==
  ASSUME NEW row \in Row, NEW s \in TerminalStates PROVE FinalizeRun(row, s) \in Row
BY DEF FinalizeRun, Row

LEMMA InterruptUnownedType ==
  ASSUME NEW row \in Row PROVE InterruptUnowned(row) \in Row
BY DEF InterruptUnowned, Row

LEMMA ReleaseLeaseType ==
  ASSUME NEW row \in Row, NEW w \in Workers PROVE ReleaseLease(row, w) \in Row
BY DEF ReleaseLease, Row

LEMMA ExtendLeaseType ==
  ASSUME NEW row \in Row, NEW w \in Workers PROVE ExtendLease(row, w) \in Row
BY DEF ExtendLease, Row

LEMMA RecoverCrashedType ==
  ASSUME NEW row \in Row PROVE RecoverCrashed(row) \in Row
BY DEF RecoverCrashed, Row

LEMMA RequeueDrainedType ==
  ASSUME NEW row \in Row PROVE RequeueDrained(row) \in Row
BY DEF RequeueDrained, Row

LEMMA ExpireType ==
  ASSUME NEW row \in Row PROVE [row EXCEPT !.lease = "expired"] \in Row
BY DEF Row

(* A statement on one row of the table keeps the table's type. *)
LEMMA UpdateRow ==
  ASSUME RowsOK, NEW r \in Runs, NEW row \in Row, rows' = [rows EXCEPT ![r] = row]
  PROVE  RowsOK'
BY DEF RowsOK

(***************************************************************************)
(* Jobs.                                                                   *)
(***************************************************************************)
GoodJob(jb) == /\ jb \in JobState
               /\ jb.pc # "free" => jb.run \in Runs
               /\ jb.pc = "cfinal" => jb.out # "none"

LEMMA GoodJobs == JobsOK <=> job \in [Jobs -> JobState] /\ \A j \in Jobs : GoodJob(job[j])
BY DEF JobsOK, GoodJob

(* Writing a good job into a slot keeps the slots' type. *)
LEMMA UpdateJob ==
  ASSUME JobsOK, NEW j \in Jobs, NEW jb, GoodJob(jb), job' = [job EXCEPT ![j] = jb]
  PROVE  JobsOK'
BY DEF JobsOK, GoodJob

LEMMA IdleGood == GoodJob(IdleJob)
BY DEF GoodJob, IdleJob, JobState, JobPc

LEMMA GotoType ==
  ASSUME JobsOK, NEW j \in Jobs, NEW pc \in JobPc \ {"free", "cfinal"},
         job[j].pc # "free", Goto(j, pc)
  PROVE  JobsOK'
<1> DEFINE jb == [job[j] EXCEPT !.pc = pc, !.kill = FALSE]
<1>1. job[j] \in JobState /\ job[j].run \in Runs
  BY DEF JobsOK
<1>2. GoodJob(jb)
  BY <1>1 DEF GoodJob, JobState
<1>3. job' = [job EXCEPT ![j] = jb]
  BY DEF Goto
<1> HIDE DEF jb
<1> QED BY <1>2, <1>3, UpdateJob

LEMMA TakeType ==
  ASSUME JobsOK, NEW j \in Jobs, NEW r \in Runs, NEW pc \in JobPc \ {"cfinal"},
         Take(j, r, pc)
  PROVE  JobsOK'
<1> DEFINE jb == [IdleJob EXCEPT !.run = r, !.pc = pc]
<1>1. GoodJob(jb)
  BY DEF GoodJob, IdleJob, JobState
<1> HIDE DEF jb
<1> QED BY <1>1, UpdateJob DEF Take, jb

LEMMA CancelledGood ==
  ASSUME NEW jb, GoodJob(jb) PROVE GoodJob(Cancelled(jb))
BY DEF GoodJob, Cancelled, JobState

(* A step that writes all slots writes good jobs. *)
LEMMA ReplaceJobs ==
  ASSUME job' = [j \in Jobs |-> job'[j]], \A j \in Jobs : GoodJob(job'[j])
  PROVE  JobsOK'
BY DEF JobsOK, GoodJob

(***************************************************************************)
(* Parts of the state that a step leaves alone.                            *)
(***************************************************************************)
LEMMA StayRows == RowsOK /\ UNCHANGED rows => RowsOK'
BY DEF RowsOK
LEMMA StayJobs == JobsOK /\ UNCHANGED job => JobsOK'
BY DEF JobsOK
LEMMA StayRegistries == RegistriesOK /\ UNCHANGED <<active, sets>> => RegistriesOK'
BY DEF RegistriesOK, sets
LEMMA StayProcesses == ProcessesOK /\ UNCHANGED process => ProcessesOK'
BY DEF ProcessesOK, process
LEMMA StayTraffic ==
  TrafficOK /\ UNCHANGED <<aged, queue, msgs, signals, requests>> => TrafficOK'
BY DEF TrafficOK, signals, requests

(* A fault is counted, or nothing is. *)
LEMMA SpendType ==
  ASSUME NEW fs, spent \in [Faults -> Nat], SpendAll(fs) PROVE spent' \in [Faults -> Nat]
BY DEF SpendAll

(***************************************************************************)
(* Type correctness, action by action.                                     *)
(***************************************************************************)
LEMMA HostType == \A j \in Jobs : WorkerOf[j] \in Workers /\ Host(j) \in Instances
BY WorkerOfAssumption, InstanceOfAssumption DEF Host

LEMMA PublishType ==
  ASSUME TypeOK, NEW r \in Runs, NEW e \in BOOLEAN, Publish(r, e)
  PROVE  msgs' \subseteq [inst : Instances, run : Runs, emit : BOOLEAN]
BY DEF TypeOK, TrafficOK, Publish

LEMMA ExecuteCancelType ==
  ASSUME TypeOK, NEW i \in Instances, NEW r \in Runs, NEW e \in BOOLEAN,
         ExecuteCancel(i, r, e)
  PROVE  /\ JobsOK'
         /\ explicit' \in [Instances -> SUBSET Runs]
         /\ ended' \subseteq Runs
<1>1. CASE active[i][r] = NoJob
  BY <1>1, StayJobs DEF ExecuteCancel, TypeOK, RegistriesOK, TrafficOK
<1>2. CASE active[i][r] # NoJob
  <2>1. active[i][r] \in Jobs
    BY <1>2 DEF TypeOK, RegistriesOK
  <2> DEFINE j == active[i][r]
             jb == Cancelled(job[j])
  <2>2. GoodJob(jb)
    BY <2>1, GoodJobs, CancelledGood DEF TypeOK
  <2>3. job' = [job EXCEPT ![j] = jb]
    BY <1>2 DEF ExecuteCancel
  <2>4. JobsOK'
    <3> HIDE DEF j, jb
    <3>1. j \in Jobs
      BY <2>1 DEF j
    <3> QED BY <3>1, <2>2, <2>3, UpdateJob DEF TypeOK
  <2>5. explicit' \in [Instances -> SUBSET Runs]
    <3>1. explicit' = [explicit EXCEPT ![i] = @ \cup {r}]
      BY <1>2 DEF ExecuteCancel
    <3> QED BY <3>1 DEF TypeOK, RegistriesOK
  <2>6. ended' \subseteq Runs
    <3>1. ended' = IF e THEN ended \cup {r} ELSE ended
      BY <1>2 DEF ExecuteCancel
    <3> QED BY <3>1 DEF TypeOK, TrafficOK
  <2> QED BY <2>4, <2>5, <2>6
<1> QED BY <1>1, <1>2

LEMMA ApiType ==
  ASSUME TypeOK, NEW r \in Runs
  PROVE  /\ PrepareRun(r) => TypeOK'
         /\ Submit(r) => TypeOK'
         /\ SubmitFails(r) => TypeOK'
         /\ InterruptReconciled(r) => TypeOK'
         /\ InterruptOwned(r) => TypeOK'
         /\ \A i \in Instances : InterruptLocally(i, r) => TypeOK'
<1> USE DEF table, sets, process, signals, requests
<1>1. ASSUME PrepareRun(r) PROVE TypeOK'
  <2>1. RowsOK'
    BY <1>1, InsertRunType, UpdateRow DEF TypeOK, PrepareRun, Params
  <2>2. TrafficOK'
    BY <1>1 DEF TypeOK, TrafficOK, PrepareRun
  <2> QED BY <1>1, <2>1, <2>2, StayJobs, StayRegistries, StayProcesses DEF TypeOK, PrepareRun
<1>2. ASSUME Submit(r) PROVE TypeOK'
  <2>1. TrafficOK'
    BY <1>2 DEF TypeOK, TrafficOK, Submit
  <2> QED BY <1>2, <2>1, StayRows, StayJobs, StayRegistries, StayProcesses DEF TypeOK, Submit
<1>3. ASSUME SubmitFails(r) PROVE TypeOK'
  <2>1. TrafficOK'
    BY <1>3 DEF TypeOK, TrafficOK, SubmitFails
  <2> QED BY <1>3, <2>1, SpendType, StayRows, StayJobs, StayRegistries, StayProcesses
          DEF TypeOK, SubmitFails, Spend
<1>4. ASSUME InterruptReconciled(r) PROVE TypeOK'
  <2>1. RowsOK'
    BY <1>4, InterruptUnownedType, UpdateRow DEF TypeOK, RowsOK, InterruptReconciled
  <2>2. TrafficOK'
    BY <1>4, PublishType DEF TypeOK, TrafficOK, InterruptReconciled
  <2> QED BY <1>4, <2>1, <2>2, SpendType, StayJobs, StayRegistries, StayProcesses
          DEF TypeOK, InterruptReconciled, Spend
<1>5. ASSUME InterruptOwned(r) PROVE TypeOK'
  <2>1. TrafficOK'
    BY <1>5, PublishType DEF TypeOK, TrafficOK, InterruptOwned
  <2> QED BY <1>5, <2>1, SpendType, StayRows, StayJobs, StayRegistries, StayProcesses
          DEF TypeOK, InterruptOwned, Spend
<1>6. ASSUME NEW i \in Instances, InterruptLocally(i, r) PROVE TypeOK'
  <2>1. /\ JobsOK'
        /\ explicit' \in [Instances -> SUBSET Runs]
        /\ ended' \subseteq Runs
    BY <1>6, ExecuteCancelType DEF InterruptLocally
  <2>2. TrafficOK'
    BY <1>6, <2>1 DEF TypeOK, TrafficOK, InterruptLocally
  <2>3. RegistriesOK'
    BY <1>6, <2>1 DEF TypeOK, RegistriesOK, InterruptLocally
  <2> QED BY <1>6, <2>1, <2>2, <2>3, SpendType, StayRows, StayProcesses
          DEF TypeOK, InterruptLocally
<1> QED BY <1>1, <1>2, <1>3, <1>4, <1>5, <1>6

LEMMA CancelCommandType ==
  ASSUME TypeOK, NEW m \in msgs
  PROVE  /\ HandleCancelCommand(m) => TypeOK'
         /\ LoseCancelCommand(m) => TypeOK'
<1> USE DEF table, sets, process, signals, requests
<1>1. ASSUME HandleCancelCommand(m) PROVE TypeOK'
  <2>1. m.inst \in Instances /\ m.run \in Runs /\ m.emit \in BOOLEAN
    BY DEF TypeOK, TrafficOK
  <2>2. /\ JobsOK'
        /\ explicit' \in [Instances -> SUBSET Runs]
        /\ ended' \subseteq Runs
    BY <1>1, <2>1, ExecuteCancelType DEF HandleCancelCommand
  <2>3. TrafficOK'
    BY <1>1, <2>2 DEF TypeOK, TrafficOK, HandleCancelCommand
  <2>4. RegistriesOK'
    BY <1>1, <2>2 DEF TypeOK, RegistriesOK, HandleCancelCommand
  <2> QED BY <1>1, <2>2, <2>3, <2>4, StayRows, StayProcesses DEF TypeOK, HandleCancelCommand
<1>2. ASSUME LoseCancelCommand(m) PROVE TypeOK'
  <2>1. TrafficOK'
    BY <1>2 DEF TypeOK, TrafficOK, LoseCancelCommand
  <2> QED BY <1>2, <2>1, SpendType, StayRows, StayJobs, StayRegistries, StayProcesses
          DEF TypeOK, LoseCancelCommand, Spend
<1> QED BY <1>1, <1>2

LEMMA LoopType ==
  ASSUME TypeOK, NEW j \in Jobs
  PROVE  /\ Dequeue(j) => TypeOK'
         /\ PollPostgres(j) => TypeOK'
         /\ DequeueWhileStopping(j) => TypeOK'
         /\ PushBack(j) => TypeOK'
         /\ PushBackFails(j) => TypeOK'
<1> USE DEF table, sets, process, signals, requests
<1>1. ASSUME Dequeue(j) PROVE TypeOK'
  <2>1. Head(queue) \in Runs /\ TrafficOK'
    BY <1>1 DEF TypeOK, TrafficOK, Dequeue
  <2>2. JobsOK'
    BY <1>1, <2>1, TakeType DEF TypeOK, Dequeue, JobPc, Unclaimed
  <2> QED BY <1>1, <2>1, <2>2, StayRows, StayRegistries, StayProcesses DEF TypeOK, Dequeue
<1>2. ASSUME PollPostgres(j) PROVE TypeOK'
  <2>1. JobsOK'
    BY <1>2, TakeType DEF TypeOK, PollPostgres, JobPc, Unclaimed
  <2> QED BY <1>2, <2>1, SpendType, StayRows, StayRegistries, StayProcesses, StayTraffic
          DEF TypeOK, PollPostgres, Spend
<1>3. ASSUME DequeueWhileStopping(j) PROVE TypeOK'
  <2>1. Head(queue) \in Runs /\ TrafficOK'
    BY <1>3 DEF TypeOK, TrafficOK, DequeueWhileStopping
  <2>2. JobsOK'
    BY <1>3, <2>1, TakeType DEF TypeOK, DequeueWhileStopping, JobPc
  <2>3. ProcessesOK'
    BY <1>3 DEF TypeOK, ProcessesOK, DequeueWhileStopping
  <2> QED BY <1>3, <2>1, <2>2, <2>3, StayRows, StayRegistries DEF TypeOK, DequeueWhileStopping
<1>4. ASSUME PushBack(j) PROVE TypeOK'
  <2>1. JobsOK'
    BY <1>4, IdleGood, UpdateJob DEF TypeOK, PushBack
  <2>2. job[j].run \in Runs
    BY <1>4 DEF TypeOK, JobsOK, PushBack
  <2>3. TrafficOK'
    BY <1>4, <2>2 DEF TypeOK, TrafficOK, PushBack
  <2> QED BY <1>4, <2>1, <2>3, StayRows, StayRegistries, StayProcesses DEF TypeOK, PushBack
<1>5. ASSUME PushBackFails(j) PROVE TypeOK'
  <2>1. JobsOK'
    BY <1>5, IdleGood, UpdateJob DEF TypeOK, PushBackFails
  <2> QED BY <1>5, <2>1, SpendType, StayRows, StayRegistries, StayProcesses, StayTraffic
          DEF TypeOK, PushBackFails, Spend
<1> QED BY <1>1, <1>2, <1>3, <1>4, <1>5

USE DEF Unclaimed, Leased, Executing, Closing

LEMMA PcType == {"start", "committed", "cfinal", "csignal", "finally", "release",
                 "outer", "finish"} \subseteq JobPc
BY DEF JobPc

(* The run of a slot that is taken, and its row. *)
LEMMA RunType ==
  ASSUME TypeOK, NEW j \in Jobs, job[j].pc # "free"
  PROVE  job[j].run \in Runs /\ RowOf(j) \in Row
BY DEF TypeOK, JobsOK, RowsOK, RowOf

(* A statement a job issues on its run, committed or not. *)
LEMMA UpdateOwnRow ==
  ASSUME TypeOK, NEW j \in Jobs, job[j].pc # "free", NEW row \in Row,
         rows' = [rows EXCEPT ![job[j].run] = row]
  PROVE  RowsOK'
BY RunType, UpdateRow DEF TypeOK

LEMMA AppliedType ==
  ASSUME TypeOK, NEW j \in Jobs, job[j].pc # "free", NEW row \in Row, Applied(j, row)
  PROVE  RowsOK'
BY UpdateOwnRow, StayRows DEF Applied, TypeOK

LEMMA LeaveType ==
  ASSUME TypeOK, NEW j \in Jobs, job[j].pc # "free", LeaveExecuteRun(j)
  PROVE  JobsOK' /\ RegistriesOK'
<1>1. job[j].run \in Runs /\ Host(j) \in Instances
  BY RunType, HostType
<1>2. JobsOK'
  <2> DEFINE jb == [job[j] EXCEPT !.pc = "release", !.kill = FALSE, !.beat = FALSE]
  <2>1. GoodJob(job[j]) /\ job[j].pc # "free"
    BY GoodJobs DEF TypeOK, LeaveExecuteRun
  <2>2. GoodJob(jb)
    BY <2>1, PcType DEF GoodJob, JobState
  <2>3. job' = [job EXCEPT ![j] = jb]
    BY DEF TypeOK, JobsOK, LeaveExecuteRun
  <2> HIDE DEF jb
  <2> QED BY <2>2, <2>3, UpdateJob DEF TypeOK
<1>3. /\ loss' \in [Instances -> SUBSET Runs]
      /\ shutdown' \in [Instances -> SUBSET Runs]
  BY <1>1 DEF TypeOK, RegistriesOK, LeaveExecuteRun
<1>4. /\ timeout' \in [Instances -> SUBSET Runs]
      /\ explicit' \in [Instances -> SUBSET Runs]
  BY <1>1 DEF TypeOK, RegistriesOK, LeaveExecuteRun
<1>5. active' \in [Instances -> [Runs -> Jobs \cup {NoJob}]]
  BY <1>1 DEF TypeOK, RegistriesOK, LeaveExecuteRun
<1> QED BY <1>2, <1>3, <1>4, <1>5 DEF RegistriesOK

LEMMA FinalizeType ==
  ASSUME TypeOK, NEW j \in Jobs, job[j].pc # "free",
         NEW s \in TerminalStates, NEW pc \in {"committed", "csignal"}, Finalize(j, s, pc)
  PROVE  RowsOK' /\ JobsOK'
<1>1. RowsOK'
  BY UpdateOwnRow, RunType, FinalizeRunType DEF Finalize, TypeOK, RowsOK, RowOf
<1>2. JobsOK'
  <2> DEFINE jb == [job[j] EXCEPT !.pc = pc,
                           !.note = IF IsActive(RowOf(j)) THEN "finalized" ELSE "none"]
  <2>1. GoodJob(job[j]) /\ job[j].pc # "free"
    BY GoodJobs DEF TypeOK, Finalize
  <2>2. GoodJob(jb)
    BY <2>1, PcType DEF GoodJob, JobState
  <2>3. job' = [job EXCEPT ![j] = jb]
    BY DEF TypeOK, JobsOK, Finalize
  <2> HIDE DEF jb
  <2> QED BY <2>2, <2>3, UpdateJob DEF TypeOK
<1> QED BY <1>1, <1>2

LEMMA AcquireType ==
  ASSUME TypeOK, NEW j \in Jobs
  PROVE  /\ Begin(j) => TypeOK'
         /\ CancelledUnborn(j) => TypeOK'
         /\ Acquire(j) => TypeOK'
         /\ ErrorCorrupt(j) => TypeOK'
         /\ ExecuteRun(j) => TypeOK'
         /\ Start(j) => TypeOK'
<1> USE DEF table, sets, process, signals, requests
<1> WorkerOf[j] \in Workers /\ Host(j) \in Instances
  BY HostType
<1>1. ASSUME Begin(j) PROVE TypeOK'
  <2>1. job[j].pc # "free" /\ job[j].run \in Runs
    BY <1>1, RunType DEF Begin
  <2>2. JobsOK'
    BY <1>1, <2>1, GotoType DEF TypeOK, Begin, JobPc
  <2>3. RegistriesOK'
    BY <1>1, <2>1 DEF TypeOK, RegistriesOK, Begin
  <2> QED BY <1>1, <2>2, <2>3, StayRows, StayProcesses, StayTraffic DEF TypeOK, Begin
<1>2. ASSUME CancelledUnborn(j) PROVE TypeOK'
  <2>1. JobsOK'
    BY <1>2, IdleGood, UpdateJob DEF TypeOK, CancelledUnborn
  <2> QED BY <1>2, <2>1, StayRows, StayRegistries, StayProcesses, StayTraffic
          DEF TypeOK, CancelledUnborn
<1>3. ASSUME Acquire(j) PROVE TypeOK'
  <2>1. job[j].pc # "free" /\ RowOf(j) \in Row
    BY <1>3, RunType DEF Acquire
  <2>2. RowsOK'
    <3>1. rows' = [rows EXCEPT ![job[j].run] = Claim(RowOf(j), WorkerOf[j])]
      BY <1>3 DEF Acquire, RowOf
    <3> QED BY <2>1, <3>1, ClaimType, UpdateOwnRow
  <2>3. JobsOK'
    BY <1>3, <2>1, GotoType DEF TypeOK, Acquire, AfterClaim, JobPc
  <2> QED BY <1>3, <2>2, <2>3, StayRegistries, StayProcesses, StayTraffic DEF TypeOK, Acquire
<1>4. ASSUME ErrorCorrupt(j) PROVE TypeOK'
  <2>1. job[j].pc # "free" /\ RowOf(j) \in Row
    BY <1>4, RunType DEF ErrorCorrupt
  <2>2. RowsOK'
    <3>1. rows' = [rows EXCEPT ![job[j].run] = FailCorrupt(RowOf(j), WorkerOf[j])]
      BY <1>4 DEF ErrorCorrupt, RowOf
    <3> QED BY <2>1, <3>1, FailCorruptType, UpdateOwnRow
  <2>3. JobsOK'
    BY <1>4, <2>1, GotoType DEF TypeOK, ErrorCorrupt, JobPc
  <2> QED BY <1>4, <2>2, <2>3, StayRegistries, StayProcesses, StayTraffic
          DEF TypeOK, ErrorCorrupt
<1>5. ASSUME ExecuteRun(j) PROVE TypeOK'
  <2>1. JobsOK'
      <3> DEFINE jb == [job[j] EXCEPT !.pc = "start", !.beat = TRUE]
      <3>1. GoodJob(job[j]) /\ job[j].pc # "free"
        BY <1>5, GoodJobs DEF TypeOK, ExecuteRun
      <3>2. GoodJob(jb)
        BY <3>1, PcType DEF GoodJob, JobState
      <3>3. job' = [job EXCEPT ![j] = jb]
        BY <1>5 DEF TypeOK, JobsOK, ExecuteRun
      <3> HIDE DEF jb
      <3> QED BY <3>2, <3>3, UpdateJob DEF TypeOK
  <2> QED BY <1>5, <2>1, StayRows, StayRegistries, StayProcesses, StayTraffic
          DEF TypeOK, ExecuteRun
<1>6. ASSUME Start(j) PROVE TypeOK'
  <2>1. job[j].pc # "free" /\ RowOf(j) \in Row
    BY <1>6, RunType DEF Start
  <2>2. RowsOK'
    <3>1. rows' = [rows EXCEPT ![job[j].run] = StartRun(RowOf(j))]
      BY <1>6 DEF Start, RowOf
    <3> QED BY <2>1, <3>1, StartRunType, UpdateOwnRow
  <2>3. JobsOK'
    BY <1>6, <2>1, GotoType DEF TypeOK, Start, JobPc
  <2> QED BY <1>6, <2>2, <2>3, StayRegistries, StayProcesses, StayTraffic DEF TypeOK, Start
<1> QED BY <1>1, <1>2, <1>3, <1>4, <1>5, <1>6

LEMMA ExecuteType ==
  ASSUME TypeOK, NEW j \in Jobs
  PROVE  /\ GraphCompletes(j) => TypeOK'
         /\ GraphRaises(j) => TypeOK'
         /\ FinalizeInHandler(j) => TypeOK'
         /\ SignalEnd(j) => TypeOK'
         /\ SignalEndFails(j) => TypeOK'
         /\ Finally(j) => TypeOK'
         /\ Release(j) => TypeOK'
         /\ OuterCleanup(j) => TypeOK'
         /\ OuterFinally(j) => TypeOK'
         /\ Timeout(j) => TypeOK'
<1> USE DEF table, sets, process, signals, requests
<1> WorkerOf[j] \in Workers /\ Host(j) \in Instances
  BY HostType
<1>1. ASSUME GraphCompletes(j) PROVE TypeOK'
  <2>1. RowsOK' /\ JobsOK'
    BY <1>1, FinalizeType DEF TypeOK, GraphCompletes
  <2> QED BY <1>1, <2>1, StayRegistries, StayProcesses, StayTraffic DEF TypeOK, GraphCompletes
<1>2. ASSUME GraphRaises(j) PROVE TypeOK'
  <2>1. JobsOK'
    <3> DEFINE jb == [job[j] EXCEPT !.pc = "cfinal", !.out = "error"]
    <3>1. GoodJob(job[j]) /\ job[j].pc # "free"
      BY <1>2, GoodJobs DEF TypeOK, GraphRaises
    <3>2. GoodJob(jb)
      BY <3>1, PcType DEF GoodJob, JobState
    <3>3. job' = [job EXCEPT ![j] = jb]
      BY <1>2 DEF TypeOK, JobsOK, GraphRaises
    <3> HIDE DEF jb
    <3> QED BY <3>2, <3>3, UpdateJob DEF TypeOK
  <2> QED BY <1>2, <2>1, StayRows, StayRegistries, StayProcesses, StayTraffic
          DEF TypeOK, GraphRaises
<1>3. ASSUME FinalizeInHandler(j) PROVE TypeOK'
  <2>1. job[j].pc # "free" /\ job[j].out \in TerminalStates
    BY <1>3 DEF TypeOK, JobsOK, JobState, FinalizeInHandler
  <2>2. RowsOK' /\ JobsOK'
    BY <1>3, <2>1, FinalizeType DEF FinalizeInHandler
  <2> QED BY <1>3, <2>1, <2>2, StayRegistries, StayProcesses, StayTraffic
          DEF TypeOK, FinalizeInHandler
<1>4. ASSUME SignalEnd(j) PROVE TypeOK'
  <2>1. job[j].pc # "free" /\ job[j].run \in Runs
    BY <1>4, RunType DEF SignalEnd
  <2>2. JobsOK'
    BY <1>4, <2>1, PcType, GotoType DEF TypeOK, SignalEnd
  <2>3. TrafficOK'
    BY <1>4, <2>1 DEF TypeOK, TrafficOK, SignalEnd
  <2> QED BY <1>4, <2>1, <2>2, <2>3, StayRows, StayRegistries, StayProcesses
          DEF TypeOK, SignalEnd
<1>5. ASSUME SignalEndFails(j) PROVE TypeOK'
  <2>1. JobsOK'
    BY <1>5, PcType, GotoType DEF TypeOK, SignalEndFails
  <2> QED BY <1>5, <2>1, SpendType, StayRows, StayRegistries, StayProcesses, StayTraffic
          DEF TypeOK, SignalEndFails, Spend
<1>6. ASSUME Finally(j) PROVE TypeOK'
  <2>1. job[j].pc # "free" /\ job[j].run \in Runs
    BY <1>6, RunType DEF Finally
  <2>2. JobsOK' /\ RegistriesOK'
    BY <1>6, <2>1, LeaveType DEF Finally
  <2>3. TrafficOK'
    BY <1>6, <2>1 DEF TypeOK, TrafficOK, Finally
  <2> QED BY <1>6, <2>1, <2>2, <2>3, StayRows, StayProcesses DEF TypeOK, Finally
<1>7. ASSUME Release(j) PROVE TypeOK'
  <2>1. job[j].pc # "free" /\ RowOf(j) \in Row
    BY <1>7, RunType DEF Release
  <2>2. RowsOK'
    <3>1. rows' = [rows EXCEPT ![job[j].run] = ReleaseLease(RowOf(j), WorkerOf[j])]
      BY <1>7 DEF Release, RowOf
    <3> QED BY <2>1, <3>1, ReleaseLeaseType, UpdateOwnRow
  <2>3. JobsOK'
    BY <1>7, PcType, GotoType DEF TypeOK, Release
  <2> QED BY <1>7, <2>1, <2>2, <2>3, StayRegistries, StayProcesses, StayTraffic
          DEF TypeOK, Release
<1>8. ASSUME OuterCleanup(j) PROVE TypeOK'
  <2>1. job[j].pc # "free" /\ RowOf(j) \in Row
    BY <1>8, RunType DEF OuterCleanup
  <2>2. OuterOutcome(j) \in Row
    BY <2>1, FinalizeRunType, ReleaseLeaseType DEF OuterOutcome
  <2>3. RowsOK'
    BY <1>8, <2>1, <2>2, UpdateOwnRow DEF OuterCleanup
  <2>4. JobsOK'
    BY <1>8, PcType, GotoType DEF TypeOK, OuterCleanup
  <2> QED BY <1>8, <2>1, <2>2, <2>3, <2>4, StayRegistries, StayProcesses, StayTraffic
          DEF TypeOK, OuterCleanup
<1>9. ASSUME OuterFinally(j) PROVE TypeOK'
  <2>1. job[j].run \in Runs
    BY <1>9, RunType DEF OuterFinally
  <2>2. JobsOK'
    BY <1>9, IdleGood, UpdateJob DEF TypeOK, OuterFinally
  <2>3. RegistriesOK'
    <3>1. active' \in [Instances -> [Runs -> Jobs \cup {NoJob}]]
      BY <1>9, <2>1 DEF TypeOK, RegistriesOK, OuterFinally
    <3>2. /\ loss' \in [Instances -> SUBSET Runs]
          /\ shutdown' \in [Instances -> SUBSET Runs]
      BY <1>9, <2>1 DEF TypeOK, RegistriesOK, OuterFinally
    <3>3. /\ timeout' \in [Instances -> SUBSET Runs]
          /\ explicit' \in [Instances -> SUBSET Runs]
      BY <1>9, <2>1 DEF TypeOK, RegistriesOK, OuterFinally
    <3> QED BY <3>1, <3>2, <3>3 DEF RegistriesOK
  <2> QED BY <1>9, <2>1, <2>2, <2>3, StayRows, StayProcesses, StayTraffic
          DEF TypeOK, OuterFinally
<1>10. ASSUME Timeout(j) PROVE TypeOK'
  <2>1. job[j].pc # "free" /\ job[j].run \in Runs
    BY <1>10, RunType DEF Timeout
  <2>2. JobsOK'
    <3> DEFINE jb == [job[j] EXCEPT !.outer = "timedout", !.kill = TRUE]
    <3>1. GoodJob(job[j]) /\ job[j].pc # "free"
      BY <1>10, GoodJobs DEF TypeOK, Timeout
    <3>2. GoodJob(jb)
      BY <3>1, PcType DEF GoodJob, JobState
    <3>3. job' = [job EXCEPT ![j] = jb]
      BY <1>10 DEF TypeOK, JobsOK, Timeout
    <3> HIDE DEF jb
    <3> QED BY <3>2, <3>3, UpdateJob DEF TypeOK
  <2>3. RegistriesOK'
    BY <1>10, <2>1 DEF TypeOK, RegistriesOK, Timeout
  <2> QED BY <1>10, <2>1, <2>2, <2>3, SpendType, StayRows, StayProcesses, StayTraffic
          DEF TypeOK, Timeout, Spend
<1> QED BY <1>1, <1>2, <1>3, <1>4, <1>5, <1>6, <1>7, <1>8, <1>9, <1>10

LEMMA CancelType ==
  ASSUME TypeOK, NEW j \in Jobs
  PROVE  /\ CancelledInAcquire(j) => TypeOK'
         /\ CancelledBeforeStart(j) => TypeOK'
         /\ CancelledInBody(j) => TypeOK'
         /\ CancelledInHandler(j) => TypeOK'
         /\ CancelledInRelease(j) => TypeOK'
         /\ DbError(j) => TypeOK'
         /\ Heartbeat(j) => TypeOK'
<1> USE DEF table, sets, process, signals, requests
<1> WorkerOf[j] \in Workers /\ Host(j) \in Instances
  BY HostType
<1>1. ASSUME CancelledInAcquire(j) PROVE TypeOK'
  <2>1. job[j].pc # "free" /\ RowOf(j) \in Row
    BY <1>1, RunType DEF CancelledInAcquire
  <2>2. RowsOK'
    BY <1>1, <2>1, ClaimType, FailCorruptType, AppliedType, StayRows
    DEF TypeOK, CancelledInAcquire
  <2>3. JobsOK'
    BY <1>1, PcType, GotoType DEF TypeOK, CancelledInAcquire
  <2> QED BY <1>1, <2>1, <2>2, <2>3, StayRegistries, StayProcesses, StayTraffic
          DEF TypeOK, CancelledInAcquire
<1>2. ASSUME CancelledBeforeStart(j) PROVE TypeOK'
  <2>1. JobsOK'
    BY <1>2, PcType, GotoType DEF TypeOK, CancelledBeforeStart
  <2> QED BY <1>2, <2>1, StayRows, StayRegistries, StayProcesses, StayTraffic
          DEF TypeOK, CancelledBeforeStart
<1>3. ASSUME CancelledInBody(j) PROVE TypeOK'
  <2>1. job[j].pc # "free" /\ RowOf(j) \in Row
    BY <1>3, RunType DEF CancelledInBody
  <2>2. RowsOK'
    BY <1>3, <2>1, StartRunType, AppliedType, StayRows DEF TypeOK, CancelledInBody
  <2>3. JobsOK' /\ RegistriesOK'
    <3>1. CASE ResumesElsewhere(j)
      BY <1>3, <2>1, <3>1, LeaveType DEF CancelledInBody
    <3>2. CASE ~ResumesElsewhere(j)
      <4> DEFINE jb == [job[j] EXCEPT !.pc = "cfinal", !.kill = FALSE, !.out = CancelOutcome(j)]
      <4>1. GoodJob(job[j]) /\ CancelOutcome(j) \in {"error", "interrupted"}
        BY GoodJobs DEF TypeOK, CancelOutcome
      <4>2. GoodJob(jb)
        BY <2>1, <4>1, PcType DEF GoodJob, JobState
      <4>3. job' = [job EXCEPT ![j] = jb] /\ UNCHANGED <<active, sets>>
        BY <1>3, <3>2 DEF TypeOK, JobsOK, CancelledInBody
      <4> HIDE DEF jb
      <4> QED BY <4>2, <4>3, UpdateJob, StayRegistries DEF TypeOK
    <3> QED BY <3>1, <3>2
  <2> QED BY <1>3, <2>1, <2>2, <2>3, StayProcesses, StayTraffic DEF TypeOK, CancelledInBody
<1>4. ASSUME CancelledInHandler(j) PROVE TypeOK'
  <2>1. job[j].pc # "free" /\ RowOf(j) \in Row
    BY <1>4, RunType DEF CancelledInHandler
  <2>2. RowsOK'
    <3>1. job[j].pc = "cfinal" => job[j].out \in TerminalStates
      BY DEF TypeOK, JobsOK, JobState
    <3> QED BY <1>4, <2>1, <3>1, FinalizeRunType, AppliedType, StayRows
            DEF TypeOK, CancelledInHandler
  <2>3. JobsOK'
    BY <1>4, PcType, GotoType DEF TypeOK, CancelledInHandler
  <2> QED BY <1>4, <2>1, <2>2, <2>3, StayRegistries, StayProcesses, StayTraffic
          DEF TypeOK, CancelledInHandler
<1>5. ASSUME CancelledInRelease(j) PROVE TypeOK'
  <2>1. job[j].pc # "free" /\ RowOf(j) \in Row
    BY <1>5, RunType DEF CancelledInRelease
  <2>2. RowsOK'
    BY <1>5, <2>1, ReleaseLeaseType, AppliedType DEF CancelledInRelease
  <2>3. JobsOK'
    BY <1>5, PcType, GotoType DEF TypeOK, CancelledInRelease
  <2> QED BY <1>5, <2>1, <2>2, <2>3, StayRegistries, StayProcesses, StayTraffic
          DEF TypeOK, CancelledInRelease
<1>6. ASSUME DbError(j) PROVE TypeOK'
  <2>1. JobsOK'
    <3> DEFINE pc  == CASE job[j].pc \in {"start", "stream"} -> "cfinal"
                        [] job[j].pc = "cfinal" -> "finally"
                        [] job[j].pc = "outer" -> "finish"
                        [] OTHER -> "outer"
               out == IF job[j].pc \in {"start", "stream"} THEN "error" ELSE job[j].out
               jb  == [job[j] EXCEPT !.pc = pc, !.out = out]
    <3>1. GoodJob(job[j]) /\ job[j].pc # "free"
      BY <1>6, GoodJobs DEF TypeOK, DbError
    <3>2. /\ pc \in {"cfinal", "finally", "finish", "outer"}
          /\ out \in {"none", "error", "interrupted"}
          /\ pc = "cfinal" => out = "error"
      BY <3>1 DEF GoodJob, JobState
    <3>3. job' = [job EXCEPT ![j] = jb]
      BY <1>6 DEF TypeOK, JobsOK, DbError
    <3> HIDE DEF pc, out
    <3>4. GoodJob(jb)
      BY <3>1, <3>2, PcType DEF GoodJob, JobState
    <3> HIDE DEF jb
    <3> QED BY <3>3, <3>4, UpdateJob DEF TypeOK
  <2> QED BY <1>6, <2>1, SpendType, StayRows, StayRegistries, StayProcesses, StayTraffic
          DEF TypeOK, DbError, Spend
<1>7. ASSUME Heartbeat(j) PROVE TypeOK'
  <2>1. job[j].pc # "free" /\ RowOf(j) \in Row
    BY <1>7, RunType DEF Heartbeat
  <2>2. RowsOK'
    <3>1. rows' = [rows EXCEPT ![job[j].run] = ExtendLease(RowOf(j), WorkerOf[j])]
      BY <1>7 DEF Heartbeat, RowOf
    <3> QED BY <2>1, <3>1, ExtendLeaseType, UpdateOwnRow
  <2>3. JobsOK' /\ loss' \in [Instances -> SUBSET Runs]
    <3>1. CASE RowOf(j).owner = WorkerOf[j]
      BY <1>7, <3>1, StayJobs DEF TypeOK, RegistriesOK, Heartbeat
    <3>2. CASE RowOf(j).owner # WorkerOf[j]
      <4> DEFINE jb == [job[j] EXCEPT !.kill = TRUE, !.beat = FALSE]
      <4>1. GoodJob(jb)
        BY GoodJobs DEF TypeOK, GoodJob, JobState
      <4>2. job' = [job EXCEPT ![j] = jb]
        BY <1>7, <3>2 DEF TypeOK, JobsOK, Heartbeat
      <4>3. loss' \in [Instances -> SUBSET Runs]
        BY <1>7, <3>2, <2>1, RunType DEF TypeOK, RegistriesOK, Heartbeat
      <4> HIDE DEF jb
      <4> QED BY <4>1, <4>2, <4>3, UpdateJob DEF TypeOK
    <3> QED BY <3>1, <3>2
  <2>4. RegistriesOK'
    BY <1>7, <2>3 DEF TypeOK, RegistriesOK, Heartbeat
  <2> QED BY <1>7, <2>1, <2>2, <2>3, <2>4, StayProcesses, StayTraffic DEF TypeOK, Heartbeat
<1> QED BY <1>1, <1>2, <1>3, <1>4, <1>5, <1>6, <1>7

LEMMA TimeType ==
  ASSUME TypeOK, NEW r \in Runs
  PROVE  /\ ExpireLease(r) => TypeOK'
         /\ Age(r) => TypeOK'
<1> USE DEF table, sets, process, signals, requests
<1>1. ASSUME ExpireLease(r) PROVE TypeOK'
  <2>1. RowsOK'
    <3>1. rows[r] \in Row
      BY DEF TypeOK, RowsOK
    <3>2. rows' = [rows EXCEPT ![r] = [rows[r] EXCEPT !.lease = "expired"]]
      BY <1>1 DEF ExpireLease, TypeOK, RowsOK
    <3> QED BY <3>1, <3>2, ExpireType, UpdateRow DEF TypeOK
  <2>2. spent' \in [Faults -> Nat]
    BY <1>1, SpendType DEF TypeOK, ExpireLease, Spend
  <2> QED BY <1>1, <2>1, <2>2, StayJobs, StayRegistries, StayProcesses, StayTraffic
          DEF TypeOK, ExpireLease
<1>2. ASSUME Age(r) PROVE TypeOK'
  <2>1. TrafficOK'
    BY <1>2 DEF TypeOK, TrafficOK, Age
  <2> QED BY <1>2, <2>1, StayRows, StayJobs, StayRegistries, StayProcesses DEF TypeOK, Age
<1> QED BY <1>1, <1>2

LEMMA SetReaperType ==
  ASSUME TypeOK, NEW i \in Instances,
         NEW pc \in {"idle", "recover", "push", "check", "pushlost"},
         NEW ids \in SUBSET Runs, NEW stuck \in SUBSET Runs,
         SetReaper(i, pc, ids, stuck), UNCHANGED <<inst, loops, drained>>
  PROVE  ProcessesOK'
BY DEF TypeOK, ProcessesOK, SetReaper

LEMMA ThenStuckType ==
  ASSUME TypeOK, NEW i \in Instances, NEW stuck \in SUBSET Runs,
         ThenStuck(i, stuck), UNCHANGED <<inst, loops, drained>>
  PROVE  ProcessesOK'
BY SetReaperType DEF ThenStuck

LEMMA ReaperRuns ==
  ASSUME TypeOK, NEW i \in Instances
  PROVE  reaper[i].ids \in SUBSET Runs /\ reaper[i].stuck \in SUBSET Runs
BY DEF TypeOK, ProcessesOK

LEMMA ReaperType ==
  ASSUME TypeOK, NEW i \in Instances
  PROVE  /\ ReapFind(i) => TypeOK'
         /\ ReapRecover(i) => TypeOK'
         /\ ReapPush(i) => TypeOK'
         /\ ReapCheck(i) => TypeOK'
         /\ ReapRedisError(i) => TypeOK'
<1> USE DEF table, sets, process, signals, requests
<1>1. ASSUME ReapFind(i) PROVE TypeOK'
  <2>1. ProcessesOK'
    <3> DEFINE crashed == {r \in Runs : Crashed(rows[r])}
               stuck   == {r \in aged : Claimable(rows[r])}
    <3>1. crashed \in SUBSET Runs /\ stuck \in SUBSET Runs
      BY DEF TypeOK, TrafficOK
    <3>2. SetReaper(i, "recover", crashed, stuck) \/ ThenStuck(i, stuck)
      BY <1>1 DEF ReapFind
    <3> HIDE DEF crashed, stuck
    <3> QED BY <1>1, <3>1, <3>2, SetReaperType, ThenStuckType DEF ReapFind
  <2> QED BY <1>1, <2>1, StayRows, StayJobs, StayRegistries, StayTraffic DEF TypeOK, ReapFind
<1>2. ASSUME ReapRecover(i) PROVE TypeOK'
  <2>1. RowsOK'
    BY <1>2, RecoverCrashedType DEF TypeOK, RowsOK, ReapRecover
  <2>2. ProcessesOK'
    <3> DEFINE found     == {r \in reaper[i].ids : Crashed(rows[r])}
               retryable == {r \in found : ~Exhausted(rows[r])}
    <3>1. retryable \in SUBSET Runs
      BY ReaperRuns
    <3>2. \/ SetReaper(i, "push", retryable, reaper[i].stuck)
          \/ ThenStuck(i, reaper[i].stuck)
      BY <1>2 DEF ReapRecover
    <3> HIDE DEF found, retryable
    <3> QED BY <1>2, <3>1, <3>2, ReaperRuns, SetReaperType, ThenStuckType DEF ReapRecover
  <2> QED BY <1>2, <2>1, <2>2, StayJobs, StayRegistries, StayTraffic DEF TypeOK, ReapRecover
<1>3. ASSUME ReapPush(i) PROVE TypeOK'
  <2>1. ProcessesOK' /\ TrafficOK'
    <3>1. PICK r \in reaper[i].ids :
            /\ queue' = Append(queue, r)
            /\ IF reaper[i].ids # {r}
               THEN SetReaper(i, reaper[i].pc, reaper[i].ids \ {r}, reaper[i].stuck)
               ELSE ThenStuck(i, IF reaper[i].pc = "push" THEN reaper[i].stuck ELSE {})
      BY <1>3 DEF ReapPush
    <3>2. TrafficOK'
      BY <1>3, <3>1, ReaperRuns DEF TypeOK, TrafficOK, ReapPush
    <3>3. CASE reaper[i].ids # {r}
      BY <1>3, <3>1, <3>2, <3>3, ReaperRuns, SetReaperType DEF ReapPush
    <3>4. CASE reaper[i].ids = {r}
      BY <1>3, <3>1, <3>2, <3>4, ReaperRuns, ThenStuckType DEF ReapPush
    <3> QED BY <3>3, <3>4
  <2> QED BY <1>3, <2>1, StayRows, StayJobs, StayRegistries DEF TypeOK, ReapPush
<1>4. ASSUME ReapCheck(i) PROVE TypeOK'
  <2>1. ProcessesOK'
    <3> DEFINE lost == reaper[i].stuck \ {queue[n] : n \in DOMAIN queue}
    <3>1. lost \in SUBSET Runs
      BY ReaperRuns
    <3>2. SetReaper(i, IF lost = {} THEN "idle" ELSE "pushlost", lost, {})
      BY <1>4 DEF ReapCheck
    <3> HIDE DEF lost
    <3> QED BY <1>4, <3>1, <3>2, SetReaperType DEF ReapCheck
  <2> QED BY <1>4, <2>1, StayRows, StayJobs, StayRegistries, StayTraffic DEF TypeOK, ReapCheck
<1>5. ASSUME ReapRedisError(i) PROVE TypeOK'
  <2>1. ProcessesOK'
    BY <1>5, ReaperRuns, ThenStuckType DEF ReapRedisError
  <2> QED BY <1>5, <2>1, SpendType, StayRows, StayJobs, StayRegistries, StayTraffic
          DEF TypeOK, ReapRedisError, Spend
<1> QED BY <1>1, <1>2, <1>3, <1>4, <1>5

LEMMA InstanceType ==
  ASSUME TypeOK, NEW i \in Instances
  PROVE  /\ Kill(i) => TypeOK'
         /\ Restart(i) => TypeOK'
         /\ Stop(i) => TypeOK'
         /\ DrainDeadline(i) => TypeOK'
         /\ StopLoops(i) => TypeOK'
         /\ Requeue(i) => TypeOK'
         /\ PushDrained(i) => TypeOK'
         /\ PushDrainedFails(i) => TypeOK'
<1> USE DEF table, sets, process, signals, requests
<1>1. ASSUME Kill(i) PROVE TypeOK'
  <2>1. JobsOK'
    <3>1. \A j \in Jobs : GoodJob(job'[j])
      BY <1>1, GoodJobs, IdleGood DEF TypeOK, Kill
    <3>2. job' = [j \in Jobs |-> job'[j]]
      BY <1>1 DEF Kill
    <3> QED BY <3>1, <3>2, ReplaceJobs
  <2>2. ProcessesOK'
    BY <1>1 DEF TypeOK, ProcessesOK, Kill, IdleReaper
  <2> QED BY <1>1, <2>1, <2>2, SpendType, StayRows, StayRegistries, StayTraffic
          DEF TypeOK, Kill, Spend
<1>2. ASSUME Restart(i) PROVE TypeOK'
  <2>1. RegistriesOK'
    BY <1>2 DEF TypeOK, RegistriesOK, Restart
  <2>2. ProcessesOK'
    BY <1>2 DEF TypeOK, ProcessesOK, Restart
  <2>3. TrafficOK'
    BY <1>2 DEF TypeOK, TrafficOK, Restart
  <2> QED BY <1>2, <2>1, <2>2, <2>3, StayRows, StayJobs DEF TypeOK, Restart
<1>3. ASSUME Stop(i) PROVE TypeOK'
  <2>1. ProcessesOK'
    BY <1>3 DEF TypeOK, ProcessesOK, Stop, IdleReaper
  <2> QED BY <1>3, <2>1, SpendType, StayRows, StayJobs, StayRegistries, StayTraffic
          DEF TypeOK, Stop, Spend
<1>4. ASSUME DrainDeadline(i) PROVE TypeOK'
  <2>1. JobsOK'
    <3>1. \A j \in Jobs : GoodJob(job[j]) /\ GoodJob(Cancelled(job[j]))
      BY GoodJobs, CancelledGood DEF TypeOK
    <3>2. \A j \in Jobs : GoodJob(job'[j])
      BY <1>4, <3>1 DEF DrainDeadline
    <3>3. job' = [j \in Jobs |-> job'[j]]
      BY <1>4 DEF DrainDeadline
    <3> QED BY <3>2, <3>3, ReplaceJobs
  <2>2. {job[j].run : j \in Tasks(i)} \subseteq Runs
    BY RunType DEF Tasks, Slots
  <2>3. RegistriesOK'
    BY <1>4, <2>2 DEF TypeOK, RegistriesOK, DrainDeadline
  <2>4. ProcessesOK'
    BY <1>4, <2>2 DEF TypeOK, ProcessesOK, DrainDeadline
  <2> QED BY <1>4, <2>1, <2>2, <2>3, <2>4, StayRows, StayTraffic DEF TypeOK, DrainDeadline
<1>5. ASSUME StopLoops(i) PROVE TypeOK'
  <2>1. JobsOK'
    <3>1. \A j \in Jobs : GoodJob(job'[j])
      BY <1>5, GoodJobs, IdleGood DEF TypeOK, StopLoops
    <3>2. job' = [j \in Jobs |-> job'[j]]
      BY <1>5 DEF StopLoops
    <3> QED BY <3>1, <3>2, ReplaceJobs
  <2>2. ProcessesOK'
    BY <1>5 DEF TypeOK, ProcessesOK, StopLoops
  <2> QED BY <1>5, <2>1, <2>2, StayRows, StayRegistries, StayTraffic DEF TypeOK, StopLoops
<1>6. ASSUME Requeue(i) PROVE TypeOK'
  <2>1. RowsOK'
    BY <1>6, RequeueDrainedType DEF TypeOK, RowsOK, Requeue
  <2>2. ProcessesOK'
    BY <1>6 DEF TypeOK, ProcessesOK, Requeue
  <2> QED BY <1>6, <2>1, <2>2, StayJobs, StayRegistries, StayTraffic DEF TypeOK, Requeue
<1>7. ASSUME PushDrained(i) PROVE TypeOK'
  <2>1. ProcessesOK' /\ TrafficOK'
    <3>1. PICK r \in drained[i] :
            /\ queue' = Append(queue, r)
            /\ drained' = [drained EXCEPT ![i] = @ \ {r}]
            /\ inst' = [inst EXCEPT ![i] = IF drained[i] = {r} THEN "down" ELSE "push"]
      BY <1>7 DEF PushDrained
    <3>2. r \in Runs
      BY DEF TypeOK, ProcessesOK
    <3>3. TrafficOK'
      BY <1>7, <3>1, <3>2 DEF TypeOK, TrafficOK, PushDrained
    <3>4. ProcessesOK'
      BY <1>7, <3>1 DEF TypeOK, ProcessesOK, PushDrained
    <3> QED BY <3>3, <3>4
  <2> QED BY <1>7, <2>1, StayRows, StayJobs, StayRegistries DEF TypeOK, PushDrained
<1>8. ASSUME PushDrainedFails(i) PROVE TypeOK'
  <2>1. ProcessesOK'
    BY <1>8 DEF TypeOK, ProcessesOK, PushDrainedFails
  <2> QED BY <1>8, <2>1, SpendType, StayRows, StayJobs, StayRegistries, StayTraffic
          DEF TypeOK, PushDrainedFails, Spend
<1> QED BY <1>1, <1>2, <1>3, <1>4, <1>5, <1>6, <1>7, <1>8

LEMMA InitType == Init => TypeOK
<1> SUFFICES ASSUME Init PROVE TypeOK
  OBVIOUS
<1>1. AbsentRow \in Row
  BY DEF AbsentRow, Row
<1>2. RowsOK
  BY <1>1 DEF Init, RowsOK
<1>3. JobsOK
  BY IdleGood DEF Init, JobsOK, GoodJob
<1>4. RegistriesOK
  BY DEF Init, RegistriesOK
<1>5. ProcessesOK
  BY DEF Init, ProcessesOK, IdleReaper
<1>6. TrafficOK
  BY DEF Init, TrafficOK
<1> QED BY <1>2, <1>3, <1>4, <1>5, <1>6 DEF Init, TypeOK

LEMMA StepType == TypeOK /\ [Next]_vars => TypeOK'
<1> SUFFICES ASSUME TypeOK, [Next]_vars PROVE TypeOK'
  OBVIOUS
<1>1. CASE UNCHANGED vars
  BY <1>1, StayRows, StayJobs, StayRegistries, StayProcesses, StayTraffic
  DEF vars, table, TypeOK
<1>2. CASE Next
  BY <1>2, ApiType, CancelCommandType, LoopType, AcquireType, ExecuteType, CancelType,
     TimeType, ReaperType, InstanceType
  DEF Next, JobStep, LoopStep, ReaperStep, StopStep
<1> QED BY <1>1, <1>2

(* TypeOK holds in every reachable state, for every number of servers,      *)
(* workers, slots and runs and every pattern of faults: a slot that is      *)
(* taken has a run, and a handler that finalizes has a status to write.     *)
THEOREM TypeCorrect == Spec => []TypeOK
BY InitType, StepType, PTL DEF Spec

(***************************************************************************)
(* The rows of the runs table.                                             *)
(***************************************************************************)
USE DEF ActiveStates, TerminalStates, Unclaimed, Leased, Executing, Closing

(* What an inserted row may have for parameters. *)
Inserted == IF Legacy = {} THEN {"ok"} ELSE {"ok", "none"}

(* The statements other than the one on rows without parameters. *)
Statement(a, b) ==
  \/ b = a
  \/ a.status = "absent" /\ \E p \in Inserted : b = InsertRun(p)
  \/ \E w \in Workers : \/ b = Claim(a, w)
                        \/ b = ReleaseLease(a, w)
                        \/ b = ExtendLease(a, w)
                        \/ b = ReleaseLease(FinalizeRun(a, "error"), w)
  \/ \E s \in TerminalStates : b = FinalizeRun(a, s)
  \/ b = StartRun(a)
  \/ b = InterruptUnowned(a)
  \/ b = RecoverCrashed(a)
  \/ b = RequeueDrained(a)
  \/ a.lease = "live" /\ b = [a EXCEPT !.lease = "expired"]

(* The step of the table at run r. *)
RowStep(r) ==
  \/ Statement(rows[r], rows'[r])
  \/ \E j \in Jobs : /\ job[j].pc = "corrupt" /\ job[j].run = r
                     /\ rows'[r] = FailCorrupt(rows[r], WorkerOf[j])

LEMMA SameRow == \A a : Statement(a, a)
BY DEF Statement

LEMMA OneRow ==
  ASSUME TypeOK, NEW s \in Runs, NEW row, rows' = [rows EXCEPT ![s] = row],
         \/ Statement(rows[s], row)
         \/ \E j \in Jobs : /\ job[j].pc = "corrupt" /\ job[j].run = s
                            /\ row = FailCorrupt(rows[s], WorkerOf[j])
  PROVE  \A r \in Runs : RowStep(r)
<1> TAKE r \in Runs
<1>1. CASE r = s
  <2>1. rows'[s] = row
    BY DEF TypeOK, RowsOK
  <2> QED BY <1>1, <2>1 DEF RowStep
<1>2. CASE r # s
  <2>1. rows'[r] = rows[r]
    BY <1>2 DEF TypeOK, RowsOK
  <2> QED BY <2>1, SameRow DEF RowStep
<1> QED BY <1>1, <1>2

LEMMA NoRow == UNCHANGED rows => \A r \in Runs : RowStep(r)
BY SameRow DEF RowStep

LEMMA MayApply ==
  ASSUME TypeOK, NEW j \in Jobs, job[j].pc # "free", NEW row, Applied(j, row),
         \/ Statement(RowOf(j), row)
         \/ job[j].pc = "corrupt" /\ row = FailCorrupt(RowOf(j), WorkerOf[j])
  PROVE  \A r \in Runs : RowStep(r)
<1>1. CASE UNCHANGED rows
  BY <1>1, NoRow
<1>2. CASE rows' = [rows EXCEPT ![job[j].run] = row]
  <2>1. job[j].run \in Runs
    BY RunType
  <2> QED BY <1>2, <2>1, OneRow DEF RowOf
<1> QED BY <1>1, <1>2 DEF Applied

(* The steps that leave the table alone. *)
LEMMA QuietApi ==
  ASSUME NEW r \in Runs
  PROVE  /\ Submit(r) => UNCHANGED rows
         /\ SubmitFails(r) => UNCHANGED rows
         /\ InterruptOwned(r) => UNCHANGED rows
         /\ Age(r) => UNCHANGED rows
BY DEF table, Submit, SubmitFails, InterruptOwned, Age

LEMMA QuietJob ==
  ASSUME NEW j \in Jobs
  PROVE  /\ Dequeue(j) => UNCHANGED rows
         /\ PollPostgres(j) => UNCHANGED rows
         /\ DequeueWhileStopping(j) => UNCHANGED rows
         /\ PushBack(j) => UNCHANGED rows
         /\ PushBackFails(j) => UNCHANGED rows
         /\ Begin(j) => UNCHANGED rows
         /\ CancelledUnborn(j) => UNCHANGED rows
         /\ ExecuteRun(j) => UNCHANGED rows
         /\ GraphRaises(j) => UNCHANGED rows
         /\ SignalEnd(j) => UNCHANGED rows
         /\ SignalEndFails(j) => UNCHANGED rows
         /\ Finally(j) => UNCHANGED rows
         /\ OuterFinally(j) => UNCHANGED rows
         /\ Timeout(j) => UNCHANGED rows
         /\ CancelledBeforeStart(j) => UNCHANGED rows
         /\ DbError(j) => UNCHANGED rows
BY DEF table, Dequeue, PollPostgres, DequeueWhileStopping, PushBack, PushBackFails, Begin, CancelledUnborn, ExecuteRun, GraphRaises, SignalEnd, SignalEndFails, Finally, OuterFinally, Timeout, CancelledBeforeStart, DbError

LEMMA QuietInstance ==
  ASSUME NEW i \in Instances
  PROVE  /\ ReapFind(i) => UNCHANGED rows
         /\ ReapPush(i) => UNCHANGED rows
         /\ ReapCheck(i) => UNCHANGED rows
         /\ ReapRedisError(i) => UNCHANGED rows
         /\ Kill(i) => UNCHANGED rows
         /\ Restart(i) => UNCHANGED rows
         /\ Stop(i) => UNCHANGED rows
         /\ DrainDeadline(i) => UNCHANGED rows
         /\ StopLoops(i) => UNCHANGED rows
         /\ PushDrained(i) => UNCHANGED rows
         /\ PushDrainedFails(i) => UNCHANGED rows
BY DEF table, ReapFind, ReapPush, ReapCheck, ReapRedisError, Kill, Restart, Stop, DrainDeadline, StopLoops, PushDrained, PushDrainedFails

LEMMA QuietCancel ==
  /\ \A m \in msgs : (HandleCancelCommand(m) \/ LoseCancelCommand(m)) => UNCHANGED rows
  /\ \A i \in Instances, r \in Runs : InterruptLocally(i, r) => UNCHANGED rows
BY DEF table, HandleCancelCommand, LoseCancelCommand, InterruptLocally

(* The statements of a job on the row of its run. *)
LEMMA JobRowSteps ==
  ASSUME TypeOK, NEW j \in Jobs,
         \/ Acquire(j) \/ ErrorCorrupt(j) \/ Start(j) \/ GraphCompletes(j)
         \/ FinalizeInHandler(j) \/ Release(j) \/ OuterCleanup(j) \/ Heartbeat(j)
         \/ CancelledInAcquire(j) \/ CancelledInBody(j) \/ CancelledInHandler(j)
         \/ CancelledInRelease(j)
  PROVE  \A r \in Runs : RowStep(r)
<1> DEFINE Goal == \A r \in Runs : RowStep(r)
<1> HIDE DEF Goal
<1> SUFFICES Goal
  BY DEF Goal
<1> WorkerOf[j] \in Workers
  BY HostType
<1>1. ASSUME Acquire(j) PROVE Goal
  <2>1. job[j].run \in Runs
    BY <1>1, RunType DEF Acquire
  <2>2. rows' = [rows EXCEPT ![job[j].run] = Claim(RowOf(j), WorkerOf[j])]
    BY <1>1 DEF Acquire, RowOf
  <2>3. Statement(RowOf(j), Claim(RowOf(j), WorkerOf[j]))
    BY DEF Statement
  <2> QED BY <2>1, <2>2, <2>3, OneRow DEF RowOf, Goal
<1>2. ASSUME ErrorCorrupt(j) PROVE Goal
  <2>1. job[j].run \in Runs
    BY <1>2, RunType DEF ErrorCorrupt
  <2>2. /\ rows' = [rows EXCEPT ![job[j].run] = FailCorrupt(RowOf(j), WorkerOf[j])]
        /\ job[j].pc = "corrupt"
    BY <1>2 DEF ErrorCorrupt, RowOf
  <2> QED BY <2>1, <2>2, OneRow DEF RowOf, Goal
<1>3. ASSUME Start(j) PROVE Goal
  <2>1. job[j].run \in Runs
    BY <1>3, RunType DEF Start
  <2>2. rows' = [rows EXCEPT ![job[j].run] = StartRun(RowOf(j))]
    BY <1>3 DEF Start, RowOf
  <2>3. Statement(RowOf(j), StartRun(RowOf(j)))
    BY DEF Statement
  <2> QED BY <2>1, <2>2, <2>3, OneRow DEF RowOf, Goal
<1>4. ASSUME GraphCompletes(j) PROVE Goal
  <2>1. job[j].run \in Runs
    BY <1>4, RunType DEF GraphCompletes
  <2>2. rows' = [rows EXCEPT ![job[j].run] = FinalizeRun(RowOf(j), "success")]
    BY <1>4 DEF GraphCompletes, Finalize, RowOf
  <2>3. Statement(RowOf(j), FinalizeRun(RowOf(j), "success"))
    BY DEF Statement
  <2> QED BY <2>1, <2>2, <2>3, OneRow DEF RowOf, Goal
<1>5. ASSUME FinalizeInHandler(j) PROVE Goal
  <2>1. job[j].run \in Runs
    BY <1>5, RunType DEF FinalizeInHandler
  <2>2. rows' = [rows EXCEPT ![job[j].run] = FinalizeRun(RowOf(j), job[j].out)]
    BY <1>5 DEF FinalizeInHandler, Finalize, RowOf
  <2>3. Statement(RowOf(j), FinalizeRun(RowOf(j), job[j].out))
    <3>1. job[j].out \in TerminalStates
      BY <1>5 DEF FinalizeInHandler, TypeOK, JobsOK, JobState
    <3> QED BY <3>1 DEF Statement
  <2> QED BY <2>1, <2>2, <2>3, OneRow DEF RowOf, Goal
<1>6. ASSUME Release(j) PROVE Goal
  <2>1. job[j].run \in Runs
    BY <1>6, RunType DEF Release
  <2>2. rows' = [rows EXCEPT ![job[j].run] = ReleaseLease(RowOf(j), WorkerOf[j])]
    BY <1>6 DEF Release, RowOf
  <2>3. Statement(RowOf(j), ReleaseLease(RowOf(j), WorkerOf[j]))
    BY DEF Statement
  <2> QED BY <2>1, <2>2, <2>3, OneRow DEF RowOf, Goal
<1>7. ASSUME OuterCleanup(j) PROVE Goal
  <2>1. job[j].run \in Runs
    BY <1>7, RunType DEF OuterCleanup
  <2>2. rows' = [rows EXCEPT ![job[j].run] = OuterOutcome(j)]
    BY <1>7 DEF OuterCleanup, RowOf
  <2>3. Statement(RowOf(j), OuterOutcome(j))
    BY DEF Statement, OuterOutcome
  <2> QED BY <2>1, <2>2, <2>3, OneRow DEF RowOf, Goal
<1>8. ASSUME Heartbeat(j) PROVE Goal
  <2>1. job[j].run \in Runs
    BY <1>8, RunType DEF Heartbeat
  <2>2. rows' = [rows EXCEPT ![job[j].run] = ExtendLease(RowOf(j), WorkerOf[j])]
    BY <1>8 DEF Heartbeat, RowOf
  <2>3. Statement(RowOf(j), ExtendLease(RowOf(j), WorkerOf[j]))
    BY DEF Statement
  <2> QED BY <2>1, <2>2, <2>3, OneRow DEF RowOf, Goal
<1>9. ASSUME CancelledInAcquire(j) PROVE Goal
  <2>1. Statement(RowOf(j), Claim(RowOf(j), WorkerOf[j]))
    BY DEF Statement
  <2>2. CASE job[j].pc = "acquire" /\ Applied(j, Claim(RowOf(j), WorkerOf[j]))
    BY <2>1, <2>2, MayApply DEF Goal
  <2>3. CASE job[j].pc = "corrupt" /\ Applied(j, FailCorrupt(RowOf(j), WorkerOf[j]))
    BY <2>3, MayApply DEF Goal
  <2>4. CASE UNCHANGED rows
    BY <2>4, NoRow DEF Goal
  <2> QED BY <1>9, <2>2, <2>3, <2>4 DEF CancelledInAcquire
<1>10. ASSUME CancelledInBody(j) PROVE Goal
  <2>1. Statement(RowOf(j), StartRun(RowOf(j)))
    BY DEF Statement
  <2>2. \/ job[j].pc # "free" /\ Applied(j, StartRun(RowOf(j)))
        \/ UNCHANGED rows
    BY <1>10 DEF CancelledInBody
  <2> QED BY <2>1, <2>2, MayApply, NoRow DEF Goal
<1>11. ASSUME CancelledInHandler(j) PROVE Goal
  <2>1. \/ job[j].pc = "cfinal" /\ Applied(j, FinalizeRun(RowOf(j), job[j].out))
        \/ UNCHANGED rows
    BY <1>11 DEF CancelledInHandler
  <2>2. job[j].pc = "cfinal" => Statement(RowOf(j), FinalizeRun(RowOf(j), job[j].out))
    <3>1. job[j].pc = "cfinal" => job[j].out \in TerminalStates
      BY DEF TypeOK, JobsOK, JobState
    <3> QED BY <3>1 DEF Statement
  <2> QED BY <2>1, <2>2, MayApply, NoRow DEF Goal
<1>12. ASSUME CancelledInRelease(j) PROVE Goal
  <2>1. Statement(RowOf(j), ReleaseLease(RowOf(j), WorkerOf[j]))
    BY DEF Statement
  <2>2. job[j].pc # "free" /\ Applied(j, ReleaseLease(RowOf(j), WorkerOf[j]))
    BY <1>12 DEF CancelledInRelease
  <2> QED BY <2>1, <2>2, MayApply DEF Goal
<1> QED BY <1>1, <1>2, <1>3, <1>4, <1>5, <1>6, <1>7, <1>8, <1>9, <1>10, <1>11, <1>12

(* The other statements: the API, time, the reaper and a drain. *)
LEMMA OtherRowSteps ==
  ASSUME TypeOK
  PROVE  /\ \A s \in Runs : PrepareRun(s) \/ InterruptReconciled(s) \/ ExpireLease(s)
                             => \A r \in Runs : RowStep(r)
         /\ \A i \in Instances : ReapRecover(i) \/ Requeue(i)
                                  => \A r \in Runs : RowStep(r)
<1>1. ASSUME NEW s \in Runs, PrepareRun(s) PROVE \A r \in Runs : RowStep(r)
  <2>0. PICK params \in Params(s) : rows' = [rows EXCEPT ![s] = InsertRun(params)]
    BY <1>1 DEF PrepareRun
  <2> DEFINE row == InsertRun(params)
  <2>1. Statement(rows[s], row)
    BY <1>1, <2>0 DEF PrepareRun, Statement, Inserted, Params
  <2>2. rows' = [rows EXCEPT ![s] = row]
    BY <2>0
  <2> HIDE DEF row
  <2> QED BY <2>1, <2>2, OneRow
<1>2. ASSUME NEW s \in Runs, InterruptReconciled(s) PROVE \A r \in Runs : RowStep(r)
  <2>1. rows' = [rows EXCEPT ![s] = InterruptUnowned(rows[s])]
    BY <1>2 DEF InterruptReconciled
  <2>2. Statement(rows[s], InterruptUnowned(rows[s]))
    BY DEF Statement
  <2> QED BY <2>1, <2>2, OneRow
<1>3. ASSUME NEW s \in Runs, ExpireLease(s) PROVE \A r \in Runs : RowStep(r)
  <2>1. rows' = [rows EXCEPT ![s] = [rows[s] EXCEPT !.lease = "expired"]]
    BY <1>3 DEF ExpireLease, TypeOK, RowsOK
  <2>2. Statement(rows[s], [rows[s] EXCEPT !.lease = "expired"])
    BY <1>3 DEF Statement, ExpireLease
  <2> QED BY <2>1, <2>2, OneRow
<1>4. ASSUME NEW i \in Instances, ReapRecover(i), NEW r \in Runs PROVE RowStep(r)
  <2>1. rows'[r] = RecoverCrashed(rows[r]) \/ rows'[r] = rows[r]
    BY <1>4 DEF ReapRecover
  <2> QED BY <2>1 DEF RowStep, Statement
<1>5. ASSUME NEW i \in Instances, Requeue(i), NEW r \in Runs PROVE RowStep(r)
  <2>1. rows'[r] = RequeueDrained(rows[r]) \/ rows'[r] = rows[r]
    BY <1>5 DEF Requeue
  <2> QED BY <2>1 DEF RowStep, Statement
<1> QED BY <1>1, <1>2, <1>3, <1>4, <1>5

(* Every step of the system is a statement at every row. *)
LEMMA TableStep == TypeOK /\ [Next]_vars => \A r \in Runs : RowStep(r)
<1> SUFFICES ASSUME TypeOK, [Next]_vars PROVE \A r \in Runs : RowStep(r)
  OBVIOUS
<1> DEFINE Goal == \A r \in Runs : RowStep(r)
<1>1. UNCHANGED rows => Goal
  BY NoRow
<1>2. CASE UNCHANGED vars
  BY <1>1, <1>2 DEF vars, table
<1>3. CASE Next
  <2> HIDE DEF Goal
  <2>1. ASSUME NEW r \in Runs, \/ PrepareRun(r) \/ Submit(r) \/ SubmitFails(r)
                               \/ InterruptReconciled(r) \/ InterruptOwned(r)
                               \/ ExpireLease(r) \/ Age(r)
                               \/ \E i \in Instances : InterruptLocally(i, r)
        PROVE  Goal
    BY <1>1, <2>1, QuietApi, QuietCancel, OtherRowSteps DEF Goal
  <2>2. ASSUME NEW m \in msgs, HandleCancelCommand(m) \/ LoseCancelCommand(m) PROVE Goal
    BY <1>1, <2>2, QuietCancel
  <2>3. ASSUME NEW j \in Jobs, \/ JobStep(j) \/ LoopStep(j) \/ Heartbeat(j) \/ Timeout(j)
                               \/ PollPostgres(j) \/ PushBackFails(j)
                               \/ SignalEndFails(j) \/ DbError(j)
        PROVE  Goal
    BY <1>1, <2>3, QuietJob, JobRowSteps DEF JobStep, LoopStep, Goal
  <2>4. ASSUME NEW i \in Instances, \/ ReaperStep(i) \/ StopStep(i) \/ ReapRedisError(i)
                                    \/ PushDrainedFails(i) \/ Kill(i) \/ Restart(i)
                                    \/ Stop(i)
        PROVE  Goal
    BY <1>1, <2>4, QuietInstance, OtherRowSteps DEF ReaperStep, StopStep, Goal
  <2> QED BY <1>3, <2>1, <2>2, <2>3, <2>4 DEF Next, Goal
<1> QED BY <1>2, <1>3

(***************************************************************************)
(* ClaimConsistent, row by row.                                            *)
(***************************************************************************)
RowConsistent(row) ==
  /\ row.owner = NoWorker <=> row.lease = "none"
  /\ row.status \in {"absent", "pending"} => row.owner = NoWorker
  /\ row.retry > MaxRetries => row.status \in TerminalStates

LEMMA FailCorruptConsistent ==
  ASSUME NEW a \in Row, NEW w \in Workers, RowConsistent(a)
  PROVE  RowConsistent(FailCorrupt(a, w))
BY NoWorkerAssumption, MaxRetriesAssumption DEF Row, RowConsistent, FailCorrupt

LEMMA FinalizeConsistent ==
  ASSUME NEW a \in Row, RowConsistent(a), NEW s \in TerminalStates
  PROVE  RowConsistent(FinalizeRun(a, s))
BY NoWorkerAssumption, MaxRetriesAssumption DEF Row, RowConsistent, FinalizeRun, IsActive

LEMMA ReleaseConsistent ==
  ASSUME NEW a \in Row, RowConsistent(a), NEW w \in Workers
  PROVE  RowConsistent(ReleaseLease(a, w))
BY NoWorkerAssumption, MaxRetriesAssumption DEF Row, RowConsistent, ReleaseLease

LEMMA StatementConsistent ==
  ASSUME NEW a \in Row, NEW b, Statement(a, b), RowConsistent(a)
  PROVE  RowConsistent(b)
<1>1. CASE b = a
  BY <1>1
<1>2. CASE a.status = "absent" /\ \E p \in Inserted : b = InsertRun(p)
  BY <1>2, NoWorkerAssumption, MaxRetriesAssumption
  DEF Row, RowConsistent, InsertRun, AbsentRow
<1>3. CASE \E w \in Workers : b = Claim(a, w)
  BY <1>3, NoWorkerAssumption, MaxRetriesAssumption
  DEF Row, RowConsistent, Claim, Claimable
<1>4. CASE \E w \in Workers : b = ReleaseLease(a, w)
  BY <1>4, ReleaseConsistent
<1>5. CASE \E w \in Workers : b = ExtendLease(a, w)
  BY <1>5, NoWorkerAssumption, MaxRetriesAssumption
  DEF Row, RowConsistent, ExtendLease
<1>6. CASE \E w \in Workers : b = ReleaseLease(FinalizeRun(a, "error"), w)
  BY <1>6, FinalizeConsistent, ReleaseConsistent, FinalizeRunType
<1>7. CASE \E s \in TerminalStates : b = FinalizeRun(a, s)
  BY <1>7, FinalizeConsistent
<1>8. CASE b = StartRun(a)
  BY <1>8, NoWorkerAssumption, MaxRetriesAssumption
  DEF Row, RowConsistent, StartRun, IsActive
<1>9. CASE b = InterruptUnowned(a)
  BY <1>9, NoWorkerAssumption, MaxRetriesAssumption
  DEF Row, RowConsistent, InterruptUnowned, Unowned, IsActive
<1>10. CASE b = RecoverCrashed(a)
  BY <1>10, NoWorkerAssumption, MaxRetriesAssumption
  DEF Row, RowConsistent, RecoverCrashed, Crashed, Exhausted
<1>11. CASE b = RequeueDrained(a)
  BY <1>11, NoWorkerAssumption, MaxRetriesAssumption
  DEF Row, RowConsistent, RequeueDrained, IsActive
<1>12. CASE a.lease = "live" /\ b = [a EXCEPT !.lease = "expired"]
  BY <1>12, NoWorkerAssumption, MaxRetriesAssumption
  DEF Row, RowConsistent
<1> QED BY <1>1, <1>2, <1>3, <1>4, <1>5, <1>6, <1>7, <1>8, <1>9, <1>10, <1>11, <1>12 DEF Statement

LEMMA StepConsistent == TypeOK /\ ClaimConsistent /\ [Next]_vars => ClaimConsistent'
<1> SUFFICES ASSUME TypeOK, ClaimConsistent, [Next]_vars, NEW r \in Runs
             PROVE  RowConsistent(rows'[r])
  BY DEF ClaimConsistent, RowConsistent
<1>1. rows[r] \in Row /\ RowConsistent(rows[r])
  BY DEF TypeOK, RowsOK, ClaimConsistent, RowConsistent
<1>2. RowStep(r)
  BY TableStep
<1> QED BY <1>1, <1>2, StatementConsistent, FailCorruptConsistent, HostType DEF RowStep

(* In every reachable state, whatever fails and whoever wrote last, a claim *)
(* and a lease go together, a waiting run is unclaimed (so the next worker  *)
(* can claim it) and a run that has used up its retries is over.            *)
THEOREM ClaimsConsistent == Spec => []ClaimConsistent
<1>1. Init => ClaimConsistent
  BY MaxRetriesAssumption DEF Init, ClaimConsistent, AbsentRow
<1>2. TypeOK /\ TypeOK' /\ ClaimConsistent /\ [Next]_vars => ClaimConsistent'
  BY StepConsistent
<1> QED BY <1>1, <1>2, TypeCorrect, PTL DEF Spec

(***************************************************************************)
(* Refinement of RunLifecycle.  When every run has its parameters, no job  *)
(* reaches the UPDATE of _acquire_and_load that ignores the status.        *)
(***************************************************************************)
GoodRow(row) == /\ row.params # "none"
                /\ row.status = "absent" => row.retry = 0

WellFormedRows == \A r \in Runs : GoodRow(rows[r])
WellFormedJobs == \A j \in Jobs : job[j].pc # "corrupt"
WellFormed     == WellFormedRows /\ WellFormedJobs

LEMMA SetPc ==
  ASSUME TypeOK, WellFormedJobs, NEW j \in Jobs, NEW jb, jb.pc # "corrupt",
         job' = [job EXCEPT ![j] = jb]
  PROVE  WellFormedJobs'
BY DEF WellFormedJobs, TypeOK, JobsOK

LEMMA GotoPc ==
  ASSUME TypeOK, WellFormedJobs, NEW j \in Jobs, NEW pc, pc # "corrupt", Goto(j, pc)
  PROVE  WellFormedJobs'
BY DEF WellFormedJobs, TypeOK, JobsOK, JobState, Goto

LEMMA SamePc == WellFormedJobs /\ UNCHANGED job => WellFormedJobs'
BY DEF WellFormedJobs

LEMMA LeavePc ==
  ASSUME TypeOK, WellFormedJobs, NEW j \in Jobs, LeaveExecuteRun(j)
  PROVE  WellFormedJobs'
BY DEF WellFormedJobs, TypeOK, JobsOK, JobState, LeaveExecuteRun

LEMMA CancelledPc == \A jb \in JobState : Cancelled(jb).pc = jb.pc
BY DEF Cancelled, JobState

LEMMA ExecuteCancelPc ==
  ASSUME TypeOK, WellFormedJobs, NEW i \in Instances, NEW r \in Runs, NEW e,
         ExecuteCancel(i, r, e)
  PROVE  WellFormedJobs'
<1>1. CASE active[i][r] = NoJob
  BY <1>1, SamePc DEF ExecuteCancel
<1>2. CASE active[i][r] # NoJob
  <2> DEFINE j == active[i][r]
             jb == Cancelled(job[j])
  <2>1. j \in Jobs /\ jb.pc # "corrupt"
    BY <1>2, CancelledPc DEF TypeOK, RegistriesOK, JobsOK, WellFormedJobs
  <2>2. job' = [job EXCEPT ![j] = jb]
    BY <1>2 DEF ExecuteCancel
  <2> HIDE DEF j, jb
  <2> QED BY <2>1, <2>2, SetPc
<1> QED BY <1>1, <1>2

LEMMA ApiPc ==
  ASSUME TypeOK, WellFormedJobs, NEW r \in Runs,
         \/ PrepareRun(r) \/ Submit(r) \/ SubmitFails(r) \/ InterruptReconciled(r)
         \/ InterruptOwned(r) \/ ExpireLease(r) \/ Age(r)
         \/ \E i \in Instances : InterruptLocally(i, r)
  PROVE  WellFormedJobs'
BY SamePc, ExecuteCancelPc
DEF PrepareRun, Submit, SubmitFails, InterruptReconciled, InterruptOwned, ExpireLease, Age,
    InterruptLocally

LEMMA CommandPc ==
  ASSUME TypeOK, WellFormedJobs, NEW m \in msgs,
         HandleCancelCommand(m) \/ LoseCancelCommand(m)
  PROVE  WellFormedJobs'
<1>1. m.inst \in Instances /\ m.run \in Runs
  BY DEF TypeOK, TrafficOK
<1> QED BY <1>1, SamePc, ExecuteCancelPc DEF HandleCancelCommand, LoseCancelCommand

LEMMA JobPcs ==
  ASSUME TypeOK, WellFormed, NEW j \in Jobs,
         \/ JobStep(j) \/ LoopStep(j) \/ Heartbeat(j) \/ Timeout(j) \/ PollPostgres(j)
         \/ PushBackFails(j) \/ SignalEndFails(j) \/ DbError(j)
  PROVE  WellFormedJobs'
<1> WellFormedJobs
  BY DEF WellFormed
<1>1. CASE \/ Begin(j) \/ ErrorCorrupt(j) \/ Start(j) \/ SignalEnd(j) \/ SignalEndFails(j)
           \/ Release(j) \/ OuterCleanup(j)
  BY <1>1, GotoPc
  DEF Begin, ErrorCorrupt, Start, SignalEnd, SignalEndFails, Release, OuterCleanup
<1>2. CASE \/ CancelledInAcquire(j) \/ CancelledBeforeStart(j)
           \/ CancelledInHandler(j) \/ CancelledInRelease(j)
  BY <1>2, GotoPc
  DEF CancelledInAcquire, CancelledBeforeStart, CancelledInHandler, CancelledInRelease
<1>3. CASE PushBack(j) \/ PushBackFails(j) \/ CancelledUnborn(j) \/ OuterFinally(j)
  <2>1. IdleJob.pc # "corrupt" /\ job' = [job EXCEPT ![j] = IdleJob]
    BY <1>3 DEF IdleJob, PushBack, PushBackFails, CancelledUnborn, OuterFinally
  <2> QED BY <2>1, SetPc
<1>4. CASE Dequeue(j) \/ PollPostgres(j) \/ DequeueWhileStopping(j)
  <2>1. PICK r \in Runs, pc \in {"created", "held"} : Take(j, r, pc)
    <3>1. queue # <<>> => Head(queue) \in Runs
      BY DEF TypeOK, TrafficOK
    <3> QED BY <1>4, <3>1 DEF Dequeue, PollPostgres, DequeueWhileStopping
  <2> DEFINE jb == [IdleJob EXCEPT !.run = r, !.pc = pc]
  <2>2. jb.pc # "corrupt"
    BY DEF IdleJob
  <2> HIDE DEF jb
  <2> QED BY <2>1, <2>2, SetPc DEF Take, jb
<1>5. CASE Acquire(j)
  <2>1. RowOf(j).params # "none"
    <3>1. job[j].run \in Runs
      BY <1>5, RunType DEF Acquire
    <3> QED BY <3>1 DEF WellFormed, WellFormedRows, GoodRow, RowOf
  <2>2. AfterClaim(RowOf(j)) # "corrupt"
    BY <2>1 DEF AfterClaim
  <2> QED BY <1>5, <2>2, GotoPc DEF Acquire
<1>6. CASE \/ ExecuteRun(j) \/ GraphCompletes(j) \/ GraphRaises(j) \/ FinalizeInHandler(j)
           \/ Timeout(j) \/ Heartbeat(j)
  BY <1>6 DEF WellFormedJobs, TypeOK, JobsOK, JobState, ExecuteRun, GraphCompletes,
              GraphRaises, FinalizeInHandler, Finalize, Timeout, Heartbeat
<1>7. CASE Finally(j) \/ CancelledInBody(j)
  BY <1>7, LeavePc
  DEF WellFormedJobs, TypeOK, JobsOK, JobState, Finally, CancelledInBody
<1>8. CASE DbError(j)
  BY <1>8 DEF WellFormedJobs, TypeOK, JobsOK, JobState, DbError
<1> QED BY <1>1, <1>2, <1>3, <1>4, <1>5, <1>6, <1>7, <1>8 DEF JobStep, LoopStep

LEMMA InstancePc ==
  ASSUME TypeOK, WellFormedJobs, NEW i \in Instances,
         \/ ReaperStep(i) \/ StopStep(i) \/ ReapRedisError(i) \/ PushDrainedFails(i)
         \/ Kill(i) \/ Restart(i) \/ Stop(i)
  PROVE  WellFormedJobs'
<1>1. CASE Kill(i) \/ StopLoops(i) \/ DrainDeadline(i)
  <2>1. \A j \in Jobs : job'[j] \in {job[j], IdleJob, Cancelled(job[j])}
    BY <1>1 DEF Kill, StopLoops, DrainDeadline
  <2>2. \A j \in Jobs : /\ job[j].pc # "corrupt"
                        /\ Cancelled(job[j]).pc # "corrupt"
    BY CancelledPc DEF WellFormedJobs, TypeOK, JobsOK
  <2>3. IdleJob.pc # "corrupt"
    BY DEF IdleJob
  <2> QED BY <2>1, <2>2, <2>3 DEF WellFormedJobs
<1>2. CASE \/ ReaperStep(i) \/ Requeue(i) \/ PushDrained(i) \/ ReapRedisError(i)
           \/ PushDrainedFails(i) \/ Restart(i) \/ Stop(i)
  BY <1>2, SamePc DEF ReaperStep, ReapFind, ReapRecover, ReapPush, ReapCheck, Requeue,
     PushDrained, ReapRedisError, PushDrainedFails, Restart, Stop
<1> QED BY <1>1, <1>2 DEF StopStep

(* The steps of RunLifecycle, on a row before and after. *)
Lived(a, b) ==
  \/ /\ b.retry = a.retry
     /\ \/ b.status = a.status
        \/ a.status = "absent" /\ b.status = "pending"
        \/ a.status = "pending" /\ b.status = "running"
        \/ a.status = "running" /\ b.status = "pending"
        \/ a.status \in {"pending", "running"} /\ b.status \in TerminalStates
  \/ /\ b.retry = a.retry + 1 /\ a.status = "running"
     /\ \/ b.status = "pending" /\ a.retry < MaxRetries
        \/ b.status = "error" /\ a.retry = MaxRetries

LEMMA StatementLives ==
  ASSUME Legacy = {}, NEW a \in Row, GoodRow(a), RowConsistent(a), NEW b, Statement(a, b)
  PROVE  Lived(a, b) /\ GoodRow(b)
<1>1. CASE b = a
  BY <1>1 DEF Row, Lived, GoodRow
<1>2. CASE a.status = "absent" /\ \E p \in Inserted : b = InsertRun(p)
  BY <1>2 DEF Row, Lived, GoodRow, Inserted, InsertRun, AbsentRow
<1>3. CASE \E w \in Workers : b = Claim(a, w)
  BY <1>3 DEF Row, Lived, GoodRow, Claim, Claimable
<1>4. CASE \E w \in Workers : b = ReleaseLease(a, w)
  BY <1>4 DEF Row, Lived, GoodRow, ReleaseLease
<1>5. CASE \E w \in Workers : b = ExtendLease(a, w)
  BY <1>5 DEF Row, Lived, GoodRow, ExtendLease
<1>6. CASE \E w \in Workers : b = ReleaseLease(FinalizeRun(a, "error"), w)
  BY <1>6 DEF Row, Lived, GoodRow, ReleaseLease, FinalizeRun, IsActive
<1>7. CASE \E s \in TerminalStates : b = FinalizeRun(a, s)
  BY <1>7 DEF Row, Lived, GoodRow, FinalizeRun, IsActive
<1>8. CASE b = StartRun(a)
  BY <1>8 DEF Row, Lived, GoodRow, StartRun, IsActive
<1>9. CASE b = InterruptUnowned(a)
  BY <1>9 DEF Row, Lived, GoodRow, InterruptUnowned, Unowned, IsActive
<1>10. CASE b = RecoverCrashed(a)
  BY <1>10, MaxRetriesAssumption
  DEF Row, Lived, GoodRow, RowConsistent, RecoverCrashed, Crashed, Exhausted
<1>11. CASE b = RequeueDrained(a)
  BY <1>11 DEF Row, Lived, GoodRow, RequeueDrained, IsActive
<1>12. CASE a.lease = "live" /\ b = [a EXCEPT !.lease = "expired"]
  BY <1>12 DEF Row, Lived, GoodRow
<1> QED BY <1>1, <1>2, <1>3, <1>4, <1>5, <1>6, <1>7, <1>8, <1>9, <1>10, <1>11, <1>12 DEF Statement

LEMMA StepLives ==
  ASSUME Legacy = {}, TypeOK, ClaimConsistent, WellFormed, [Next]_vars
  PROVE  /\ \A r \in Runs : Lived(rows[r], rows'[r])
         /\ WellFormed'
<1>1. ASSUME NEW r \in Runs
      PROVE  Lived(rows[r], rows'[r]) /\ GoodRow(rows'[r])
  <2>1. Statement(rows[r], rows'[r])
    BY TableStep DEF RowStep, WellFormed, WellFormedJobs
  <2>2. rows[r] \in Row /\ RowConsistent(rows[r]) /\ GoodRow(rows[r])
    BY DEF TypeOK, RowsOK, ClaimConsistent, RowConsistent, WellFormed, WellFormedRows
  <2> QED BY <2>1, <2>2, StatementLives
<1>2. WellFormedJobs'
  <2>1. CASE UNCHANGED vars
    BY <2>1, SamePc DEF vars, WellFormed
  <2>2. CASE Next
    BY <2>2, ApiPc, CommandPc, JobPcs, InstancePc DEF Next, WellFormed
  <2> QED BY <2>1, <2>2
<1> QED BY <1>1, <1>2 DEF WellFormed, WellFormedRows

(* The execution of runs refines RunLifecycle, for every number of servers, *)
(* slots and runs and every pattern of crashes, stops, stalls, failing      *)
(* statements, lost messages, timeouts and cancels: a run that is over is   *)
(* never revived or rewritten by a late UPDATE, and the retry budget is     *)
(* counted exactly.  It takes runs that were created with their parameters. *)
THEOREM LifecycleRefined ==
  ASSUME Legacy = {} PROVE Spec => RefinesLifecycle
<1>1. Init => Lifecycle!Init
  BY DEF Init, Lifecycle!Init, AbsentRow
<1>2. Init => WellFormed
  BY DEF Init, WellFormed, WellFormedRows, GoodRow, WellFormedJobs, AbsentRow, IdleJob
<1>3. TypeOK /\ ClaimConsistent /\ WellFormed /\ [Next]_vars => WellFormed'
  BY StepLives
<1>4. TypeOK /\ ClaimConsistent /\ WellFormed /\ [Next]_vars => Lifecycle!Next
  <2> SUFFICES ASSUME TypeOK, ClaimConsistent, WellFormed, [Next]_vars, NEW r \in Runs
               PROVE  Lifecycle!RunStep(r)
    BY DEF Lifecycle!Next
  <2>1. Lived(rows[r], rows'[r])
    BY StepLives
  <2> QED BY <2>1 DEF Lived, Lifecycle!RunStep, Lifecycle!Accept, Lifecycle!Begin,
          Lifecycle!HandBack, Lifecycle!Finish, Lifecycle!Retry, Lifecycle!GiveUp,
          Lifecycle!Stay, Lifecycle!Free, Lifecycle!Over
<1> QED BY <1>1, <1>2, <1>3, <1>4, TypeCorrect, ClaimsConsistent, PTL
        DEF Spec, RefinesLifecycle, Lifecycle!Spec

-----------------------------------------------------------------------------
(***************************************************************************)
(* What holds a job to its run, in two parts: leases and cancellation.     *)
(*                                                                         *)
(* What a lease is worth.  A job that claimed its run keeps the claim      *)
(* until it gives it up: LiveLeaseHonoured and, as no live job misses its  *)
(* heartbeats, NoDoubleExecution.  Both need servers that do not drain:    *)
(* _requeue_drained_runs resets a row whoever claims it.                   *)
(***************************************************************************)
USE DEF ActiveStates, TerminalStates, Unclaimed, Leased, Executing, Closing

(* No scenario stops a server, so none of them drains. *)
NeverStopped == \A l \in Limits : l["stop"] = 0
Undrained    == \A i \in Instances : inst[i] \in {"up", "down"}

LEMMA Spending ==
  ASSUME spent \in [Faults -> Nat], NEW fs \in SUBSET Faults, SpendAll(fs)
  PROVE  /\ spent'["stall"] >= spent["stall"]
         /\ "stall" \in fs => spent'["stall"] > 0
         /\ "stop" \in fs => ~NeverStopped
<1>1. PICK l \in Limits : \A f \in Faults : spent'[f] <= l[f]
  BY DEF SpendAll
<1>2. spent' = [f \in Faults |-> IF f \in fs THEN spent[f] + 1 ELSE spent[f]]
  BY DEF SpendAll
<1>3. {"stall", "stop"} \subseteq Faults
  BY DEF Faults
<1>4. spent'["stall"] >= spent["stall"] /\ ("stall" \in fs => spent'["stall"] > 0)
  BY <1>2, <1>3
<1>5. ASSUME "stop" \in fs, NeverStopped PROVE FALSE
  <2>1. spent'["stop"] = spent["stop"] + 1 /\ spent["stop"] \in Nat /\ spent'["stop"] <= 0
    BY <1>1, <1>2, <1>3, <1>5 DEF NeverStopped
  <2> QED BY <2>1
<1> QED BY <1>4, <1>5

LEMMA Spends ==
  ASSUME TypeOK, NEW f \in Faults, Spend(f)
  PROVE  /\ spent'["stall"] >= spent["stall"]
         /\ f = "stall" => spent'["stall"] > 0
         /\ f = "stop" => ~NeverStopped
BY Spending DEF Spend, TypeOK

(* Missed heartbeats are not forgotten. *)
LEMMA StallsRemembered ==
  TypeOK /\ [Next]_vars => spent'["stall"] >= spent["stall"]
<1> SUFFICES ASSUME TypeOK, [Next]_vars PROVE spent'["stall"] >= spent["stall"]
  OBVIOUS
<1> DEFINE Goal == spent'["stall"] >= spent["stall"]
<1>0. (UNCHANGED spent => Goal) /\ (\A f \in Faults : Spend(f) => Goal)
      /\ (SpendAll({"cancel", "redis"}) => Goal)
  <2>1. spent["stall"] \in Nat
    BY DEF TypeOK, Faults
  <2>2. UNCHANGED spent => Goal
    BY <2>1
  <2>3. {"cancel", "redis"} \in SUBSET Faults /\ spent \in [Faults -> Nat]
    BY DEF Faults, TypeOK
  <2> QED BY <2>2, <2>3, Spends, Spending
<1> HIDE DEF Goal
<1> SUFFICES Goal
  BY DEF Goal
<1> USE <1>0 DEF Faults
<1>1. ASSUME NEW r \in Runs, \/ PrepareRun(r) \/ Submit(r) \/ SubmitFails(r)
                             \/ InterruptReconciled(r) \/ InterruptOwned(r)
                             \/ ExpireLease(r) \/ Age(r)
                             \/ \E i \in Instances : InterruptLocally(i, r)
      PROVE  Goal
  BY <1>1 DEF PrepareRun, Submit, SubmitFails, InterruptReconciled, InterruptOwned,
              ExpireLease, Age, InterruptLocally
<1>2. ASSUME NEW m \in msgs, HandleCancelCommand(m) \/ LoseCancelCommand(m) PROVE Goal
  BY <1>2 DEF HandleCancelCommand, LoseCancelCommand
<1>3. ASSUME NEW j \in Jobs, JobStep(j) PROVE Goal
  BY <1>3 DEF JobStep, Begin, CancelledUnborn, Acquire, ErrorCorrupt, ExecuteRun, Start,
     GraphCompletes, GraphRaises, FinalizeInHandler, SignalEnd, Finally, Release,
     OuterCleanup, OuterFinally, CancelledInAcquire, CancelledBeforeStart,
     CancelledInBody, CancelledInHandler, CancelledInRelease
<1>4. ASSUME NEW j \in Jobs, \/ LoopStep(j) \/ Heartbeat(j) \/ Timeout(j) \/ PollPostgres(j)
                             \/ PushBackFails(j) \/ SignalEndFails(j) \/ DbError(j)
      PROVE  Goal
  BY <1>4 DEF LoopStep, Dequeue, DequeueWhileStopping, PushBack, Heartbeat, Timeout,
              PollPostgres, PushBackFails, SignalEndFails, DbError
<1>5. ASSUME NEW i \in Instances, \/ ReaperStep(i) \/ StopStep(i) \/ ReapRedisError(i)
                                  \/ PushDrainedFails(i) \/ Kill(i) \/ Restart(i) \/ Stop(i)
      PROVE  Goal
  BY <1>5 DEF ReaperStep, ReapFind, ReapRecover, ReapPush, ReapCheck, StopStep,
     DrainDeadline, StopLoops, Requeue, PushDrained, ReapRedisError, PushDrainedFails,
     Kill, Restart, Stop
<1>6. CASE UNCHANGED vars
  BY <1>6 DEF vars
<1>7. CASE Next
  BY <1>7, <1>1, <1>2, <1>3, <1>4, <1>5 DEF Next
<1> QED BY <1>6, <1>7

LEMMA UndrainedNext ==
  ASSUME NeverStopped, TypeOK, Undrained, [Next]_vars PROVE Undrained'
<1>1. UNCHANGED inst => Undrained'
  BY DEF Undrained
<1>2. ASSUME NEW r \in Runs, \/ PrepareRun(r) \/ Submit(r) \/ SubmitFails(r)
                             \/ InterruptReconciled(r) \/ InterruptOwned(r)
                             \/ ExpireLease(r) \/ Age(r)
                             \/ \E i \in Instances : InterruptLocally(i, r)
      PROVE  Undrained'
  BY <1>1, <1>2 DEF process, PrepareRun, Submit, SubmitFails, InterruptReconciled,
     InterruptOwned, ExpireLease, Age, InterruptLocally
<1>3. ASSUME NEW m \in msgs, HandleCancelCommand(m) \/ LoseCancelCommand(m) PROVE Undrained'
  BY <1>1, <1>3 DEF process, HandleCancelCommand, LoseCancelCommand
<1>4. ASSUME NEW j \in Jobs, JobStep(j) PROVE Undrained'
  BY <1>1, <1>4 DEF process, JobStep, Begin, CancelledUnborn, Acquire, ErrorCorrupt,
     ExecuteRun, Start, GraphCompletes, GraphRaises, FinalizeInHandler, SignalEnd, Finally,
     Release, OuterCleanup, OuterFinally, CancelledInAcquire, CancelledBeforeStart,
     CancelledInBody, CancelledInHandler, CancelledInRelease
<1>5. ASSUME NEW j \in Jobs, \/ LoopStep(j) \/ Heartbeat(j) \/ Timeout(j) \/ PollPostgres(j)
                             \/ PushBackFails(j) \/ SignalEndFails(j) \/ DbError(j)
      PROVE  Undrained'
  BY <1>1, <1>5 DEF process, LoopStep, Dequeue, DequeueWhileStopping, PushBack, Heartbeat,
     Timeout, PollPostgres, PushBackFails, SignalEndFails, DbError
<1>6. ASSUME NEW i \in Instances, ReaperStep(i) \/ ReapRedisError(i) PROVE Undrained'
  BY <1>1, <1>6 DEF ReaperStep, ReapFind, ReapRecover, ReapPush, ReapCheck, ReapRedisError
<1>7. ASSUME NEW i \in Instances, Stop(i) PROVE Undrained'
  BY <1>7, Spends DEF Stop, Faults
<1>8. ASSUME NEW i \in Instances, Kill(i) \/ Restart(i) PROVE Undrained'
  BY <1>8 DEF Kill, Restart, Undrained, TypeOK, ProcessesOK
<1>9. ASSUME NEW i \in Instances, StopStep(i) \/ PushDrainedFails(i) PROVE Undrained'
  BY <1>9 DEF Undrained, StopStep, DrainDeadline, StopLoops, Requeue, PushDrained,
     PushDrainedFails
<1>10. CASE UNCHANGED vars
  BY <1>1, <1>10 DEF vars, process
<1>11. CASE Next
  BY <1>11, <1>2, <1>3, <1>4, <1>5, <1>6, <1>7, <1>8, <1>9 DEF Next
<1> QED BY <1>10, <1>11

(***************************************************************************)
(* What a step does to a row that is claimed, or over.                     *)
(***************************************************************************)
Claimed(row) == row.status = "running" /\ row.lease = "live"

(* A claim that is alive stays unless the run is over. *)
Gentle(a, b) ==
  /\ IsTerminal(a) => IsTerminal(b)
  /\ Claimed(a) => IsTerminal(b) \/ (Claimed(b) /\ b.owner = a.owner)

(* _release_lease of job k. *)
Releases(k, r) ==
  /\ job[k].run = r /\ job[k].pc = "release" /\ job'[k].pc = "outer"
  /\ rows'[r] = ReleaseLease(rows[r], WorkerOf[k])

Kept(r) == 
  \/ Gentle(rows[r], rows'[r])
  \/ \E k \in Jobs : Releases(k, r)
  \/ ExpireLease(r) /\ rows'[r] = [rows[r] EXCEPT !.lease = "expired"]

LEMMA KeptSame == \A a : Gentle(a, a)
BY DEF Gentle

LEMMA KeptRow ==
  ASSUME TypeOK, NEW s \in Runs, NEW row, rows' = [rows EXCEPT ![s] = row],
         Gentle(rows[s], row) \/ \E k \in Jobs : Releases(k, s)
  PROVE  \A r \in Runs : Kept(r)
<1> TAKE r \in Runs
<1>1. CASE r = s
  <2>1. rows'[s] = row
    BY DEF TypeOK, RowsOK
  <2> QED BY <1>1, <2>1 DEF Kept
<1>2. CASE r # s
  <2>1. rows'[r] = rows[r]
    BY <1>2 DEF TypeOK, RowsOK
  <2> QED BY <2>1, KeptSame DEF Kept
<1> QED BY <1>1, <1>2

LEMMA KeptAll == UNCHANGED rows => \A r \in Runs : Kept(r)
BY KeptSame DEF Kept

(* The statements that spare a live claim. *)
LEMMA GentleClaims ==
  ASSUME NEW a \in Row, NEW w \in Workers
  PROVE  /\ Gentle(a, Claim(a, w)) /\ Gentle(a, FailCorrupt(a, w))
         /\ Gentle(a, ExtendLease(a, w))
<1>1. Gentle(a, Claim(a, w))
  BY DEF Row, Gentle, Claimed, IsTerminal, Claim, Claimable
<1>2. Gentle(a, FailCorrupt(a, w))
  BY DEF Row, Gentle, Claimed, IsTerminal, FailCorrupt
<1>3. Gentle(a, ExtendLease(a, w))
  BY DEF Row, Gentle, Claimed, IsTerminal, ExtendLease
<1> QED BY <1>1, <1>2, <1>3

LEMMA GentleExecution ==
  ASSUME NEW a \in Row
  PROVE  /\ Gentle(a, StartRun(a))
         /\ \A s \in TerminalStates : Gentle(a, FinalizeRun(a, s))
         /\ \A w \in Workers : Gentle(a, ReleaseLease(FinalizeRun(a, "error"), w))
<1>1. Gentle(a, StartRun(a))
  BY DEF Row, Gentle, Claimed, IsTerminal, IsActive, StartRun
<1>2. ASSUME NEW s \in TerminalStates PROVE Gentle(a, FinalizeRun(a, s))
  BY DEF Row, Gentle, Claimed, IsTerminal, IsActive, FinalizeRun
<1>3. ASSUME NEW w \in Workers PROVE Gentle(a, ReleaseLease(FinalizeRun(a, "error"), w))
  <2> DEFINE b == FinalizeRun(a, "error")
             c == ReleaseLease(b, w)
  <2>1. b \in Row
    BY FinalizeRunType
  <2>2. /\ IsTerminal(a) => IsTerminal(b)
        /\ Claimed(a) => IsTerminal(b)
    BY DEF Row, Claimed, IsTerminal, IsActive, FinalizeRun
  <2> HIDE DEF b
  <2>3. c.status = b.status
    BY <2>1 DEF Row, ReleaseLease
  <2> QED BY <2>2, <2>3 DEF Gentle, IsTerminal, b
<1> QED BY <1>1, <1>2, <1>3

LEMMA GentleOthers ==
  ASSUME NEW a \in Row
  PROVE  /\ Gentle(a, InterruptUnowned(a)) /\ Gentle(a, RecoverCrashed(a))
         /\ a.status = "absent" => \A b : Gentle(a, b)
<1>1. Gentle(a, InterruptUnowned(a))
  BY DEF Row, Gentle, Claimed, IsTerminal, IsActive, InterruptUnowned, Unowned
<1>2. Gentle(a, RecoverCrashed(a))
  BY DEF Row, Gentle, Claimed, IsTerminal, RecoverCrashed, Crashed
<1>3. ASSUME a.status = "absent", NEW b PROVE Gentle(a, b)
  BY <1>3 DEF Gentle, Claimed, IsTerminal
<1> QED BY <1>1, <1>2, <1>3

(* A statement of job j on the row of its run, applied or perhaps applied. *)
LEMMA GentleJob ==
  ASSUME TypeOK, NEW j \in Jobs, job[j].pc # "free", NEW row, Gentle(RowOf(j), row),
         rows' = [rows EXCEPT ![job[j].run] = row] \/ Applied(j, row)
  PROVE  \A r \in Runs : Kept(r)
<1>1. job[j].run \in Runs
  BY RunType
<1>2. CASE rows' = [rows EXCEPT ![job[j].run] = row]
  BY <1>1, <1>2, KeptRow DEF RowOf
<1>3. CASE UNCHANGED rows
  BY <1>3, KeptAll
<1> QED BY <1>2, <1>3 DEF Applied

LEMMA RowType ==
  ASSUME TypeOK, NEW j \in Jobs, job[j].pc # "free" PROVE RowOf(j) \in Row
BY RunType DEF RowOf, TypeOK, RowsOK

LEMMA KeptJob ==
  ASSUME TypeOK, NEW j \in Jobs,
         \/ Acquire(j) \/ ErrorCorrupt(j) \/ Start(j) \/ GraphCompletes(j)
         \/ FinalizeInHandler(j) \/ OuterCleanup(j) \/ Heartbeat(j)
         \/ CancelledInAcquire(j) \/ CancelledInBody(j) \/ CancelledInHandler(j)
  PROVE  \A r \in Runs : Kept(r)
<1> DEFINE Goal == \A r \in Runs : Kept(r)
           a == RowOf(j)
           w == WorkerOf[j]
<1> HIDE DEF Goal
<1> SUFFICES Goal
  BY DEF Goal
<1>0. w \in Workers /\ (job[j].pc # "free" => a \in Row)
  BY HostType, RowType
<1>a. ASSUME job[j].pc # "free", NEW row, Gentle(a, row),
             rows' = [rows EXCEPT ![job[j].run] = row] \/ Applied(j, row)
      PROVE  Goal
  BY <1>a, GentleJob DEF Goal
<1>b. ASSUME UNCHANGED rows PROVE Goal
  BY <1>b, KeptAll DEF Goal
<1>1. ASSUME Acquire(j) PROVE Goal
  <2>1. job[j].pc # "free" /\ rows' = [rows EXCEPT ![job[j].run] = Claim(a, w)]
    BY <1>1 DEF Acquire, RowOf
  <2> QED BY <1>0, <1>a, <2>1, GentleClaims
<1>2. ASSUME ErrorCorrupt(j) PROVE Goal
  <2>1. job[j].pc # "free" /\ rows' = [rows EXCEPT ![job[j].run] = FailCorrupt(a, w)]
    BY <1>2 DEF ErrorCorrupt, RowOf
  <2> QED BY <1>0, <1>a, <2>1, GentleClaims
<1>3. ASSUME Start(j) PROVE Goal
  <2>1. job[j].pc # "free" /\ rows' = [rows EXCEPT ![job[j].run] = StartRun(a)]
    BY <1>3 DEF Start, RowOf
  <2> QED BY <1>0, <1>a, <2>1, GentleExecution
<1>4. ASSUME GraphCompletes(j) PROVE Goal
  <2>1. job[j].pc # "free" /\ rows' = [rows EXCEPT ![job[j].run] = FinalizeRun(a, "success")]
    BY <1>4 DEF GraphCompletes, Finalize, RowOf
  <2> QED BY <1>0, <1>a, <2>1, GentleExecution
<1>5. ASSUME FinalizeInHandler(j) PROVE Goal
  <2>1. job[j].pc # "free" /\ rows' = [rows EXCEPT ![job[j].run] = FinalizeRun(a, job[j].out)]
    BY <1>5 DEF FinalizeInHandler, Finalize, RowOf
  <2>2. job[j].out \in TerminalStates
    BY <1>5 DEF FinalizeInHandler, TypeOK, JobsOK, JobState
  <2> QED BY <1>0, <1>a, <2>1, <2>2, GentleExecution
<1>6. ASSUME OuterCleanup(j) PROVE Goal
  <2>1. job[j].pc # "free" /\ rows' = [rows EXCEPT ![job[j].run] = OuterOutcome(j)]
    BY <1>6 DEF OuterCleanup, RowOf
  <2>2. \/ OuterOutcome(j) = ReleaseLease(FinalizeRun(a, "error"), w)
        \/ OuterOutcome(j) = FinalizeRun(a, "interrupted")
        \/ OuterOutcome(j) = a
    BY DEF OuterOutcome
  <2>3. Gentle(a, OuterOutcome(j))
    BY <1>0, <2>1, <2>2, GentleExecution, KeptSame
  <2> QED BY <1>a, <2>1, <2>3
<1>7. ASSUME Heartbeat(j) PROVE Goal
  <2>1. job[j].pc # "free" /\ rows' = [rows EXCEPT ![job[j].run] = ExtendLease(a, w)]
    BY <1>7 DEF Heartbeat, RowOf
  <2> QED BY <1>0, <1>a, <2>1, GentleClaims
<1>8. ASSUME CancelledInAcquire(j) PROVE Goal
  <2>1. \/ job[j].pc # "free" /\ Applied(j, Claim(a, w))
        \/ job[j].pc # "free" /\ Applied(j, FailCorrupt(a, w))
        \/ UNCHANGED rows
    BY <1>8 DEF CancelledInAcquire
  <2> QED BY <1>0, <1>a, <1>b, <2>1, GentleClaims
<1>9. ASSUME CancelledInBody(j) PROVE Goal
  <2>1. \/ job[j].pc # "free" /\ Applied(j, StartRun(a))
        \/ UNCHANGED rows
    BY <1>9 DEF CancelledInBody
  <2> QED BY <1>0, <1>a, <1>b, <2>1, GentleExecution
<1>10. ASSUME CancelledInHandler(j) PROVE Goal
  <2>1. \/ job[j].pc = "cfinal" /\ Applied(j, FinalizeRun(a, job[j].out))
        \/ UNCHANGED rows
    BY <1>10 DEF CancelledInHandler
  <2>2. job[j].pc = "cfinal" => job[j].out \in TerminalStates
    BY DEF TypeOK, JobsOK, JobState
  <2> QED BY <1>0, <1>a, <1>b, <2>1, <2>2, GentleExecution
<1> QED BY <1>1, <1>2, <1>3, <1>4, <1>5, <1>6, <1>7, <1>8, <1>9, <1>10

LEMMA KeptRelease ==
  ASSUME TypeOK, NEW j \in Jobs, Release(j) \/ CancelledInRelease(j)
  PROVE  \A r \in Runs : Kept(r)
<1> DEFINE row == ReleaseLease(RowOf(j), WorkerOf[j])
<1>1. /\ job[j].pc = "release" /\ Goto(j, "outer")
      /\ rows' = [rows EXCEPT ![job[j].run] = row] \/ UNCHANGED rows
  BY DEF Release, CancelledInRelease, Applied, RowOf
<1>2. job[j].run \in Runs
  BY <1>1, RunType
<1>3. job'[j].pc = "outer"
  BY <1>1 DEF Goto, TypeOK, JobsOK, JobState
<1>4. CASE rows' = [rows EXCEPT ![job[j].run] = row]
  <2>1. rows'[job[j].run] = row
    BY <1>2, <1>4 DEF TypeOK, RowsOK
  <2>2. Releases(j, job[j].run)
    BY <1>1, <1>3, <2>1 DEF Releases, RowOf
  <2> QED BY <1>2, <1>4, <2>2, KeptRow
<1> QED BY <1>1, <1>4, KeptAll

LEMMA KeptOthers ==
  ASSUME TypeOK
  PROVE  /\ \A s \in Runs : PrepareRun(s) \/ InterruptReconciled(s) \/ ExpireLease(s)
                             => \A r \in Runs : Kept(r)
         /\ \A i \in Instances : ReapRecover(i) => \A r \in Runs : Kept(r)
<1>0. \A s \in Runs : rows[s] \in Row
  BY DEF TypeOK, RowsOK
<1>1. ASSUME NEW s \in Runs, PrepareRun(s) PROVE \A r \in Runs : Kept(r)
  <2>0. PICK params \in Params(s) : rows' = [rows EXCEPT ![s] = InsertRun(params)]
    BY <1>1 DEF PrepareRun
  <2> DEFINE row == InsertRun(params)
  <2>1. Gentle(rows[s], row)
    BY <1>0, <1>1, GentleOthers DEF PrepareRun
  <2>2. rows' = [rows EXCEPT ![s] = row]
    BY <2>0
  <2> HIDE DEF row
  <2> QED BY <2>1, <2>2, KeptRow
<1>2. ASSUME NEW s \in Runs, InterruptReconciled(s) PROVE \A r \in Runs : Kept(r)
  <2>1. rows' = [rows EXCEPT ![s] = InterruptUnowned(rows[s])]
    BY <1>2 DEF InterruptReconciled
  <2> QED BY <1>0, <2>1, GentleOthers, KeptRow
<1>3. ASSUME NEW s \in Runs, ExpireLease(s), NEW r \in Runs PROVE Kept(r)
  <2>1. rows' = [rows EXCEPT ![s] = [rows[s] EXCEPT !.lease = "expired"]]
    BY <1>3 DEF ExpireLease, TypeOK, RowsOK
  <2>2. CASE r = s
    <3>1. rows'[s] = [rows[s] EXCEPT !.lease = "expired"]
      BY <2>1 DEF TypeOK, RowsOK
    <3> QED BY <1>3, <2>2, <3>1 DEF Kept
  <2>3. CASE r # s
    <3>1. rows'[r] = rows[r]
      BY <2>1, <2>3 DEF TypeOK, RowsOK
    <3> QED BY <3>1, KeptSame DEF Kept
  <2> QED BY <2>2, <2>3
<1>4. ASSUME NEW i \in Instances, ReapRecover(i), NEW r \in Runs PROVE Kept(r)
  <2>1. rows'[r] = RecoverCrashed(rows[r]) \/ rows'[r] = rows[r]
    BY <1>4 DEF ReapRecover
  <2> QED BY <1>0, <2>1, GentleOthers, KeptSame DEF Kept
<1> QED BY <1>1, <1>2, <1>3, <1>4

(* Every step keeps every live claim, releases it or lets it expire. *)
LEMMA KeptStep == TypeOK /\ Undrained /\ [Next]_vars => \A r \in Runs : Kept(r)
<1> SUFFICES ASSUME TypeOK, Undrained, [Next]_vars PROVE \A r \in Runs : Kept(r)
  OBVIOUS
<1> DEFINE Goal == \A r \in Runs : Kept(r)
<1>1. UNCHANGED rows => Goal
  BY KeptAll
<1>2. CASE UNCHANGED vars
  BY <1>1, <1>2 DEF vars, table
<1>3. CASE Next
  <2> HIDE DEF Goal
  <2>1. ASSUME NEW r \in Runs, \/ PrepareRun(r) \/ Submit(r) \/ SubmitFails(r)
                               \/ InterruptReconciled(r) \/ InterruptOwned(r)
                               \/ ExpireLease(r) \/ Age(r)
                               \/ \E i \in Instances : InterruptLocally(i, r)
        PROVE  Goal
    BY <1>1, <2>1, QuietApi, QuietCancel, KeptOthers DEF Goal
  <2>2. ASSUME NEW m \in msgs, HandleCancelCommand(m) \/ LoseCancelCommand(m) PROVE Goal
    BY <1>1, <2>2, QuietCancel
  <2>3. ASSUME NEW j \in Jobs, \/ JobStep(j) \/ LoopStep(j) \/ Heartbeat(j) \/ Timeout(j)
                               \/ PollPostgres(j) \/ PushBackFails(j)
                               \/ SignalEndFails(j) \/ DbError(j)
        PROVE  Goal
    BY <1>1, <2>3, QuietJob, KeptJob, KeptRelease DEF JobStep, LoopStep, Goal
  <2>4. ASSUME NEW i \in Instances, Requeue(i) PROVE FALSE
    BY <2>4 DEF Requeue, Undrained
  <2>5. ASSUME NEW i \in Instances, \/ ReaperStep(i) \/ StopStep(i) \/ ReapRedisError(i)
                                    \/ PushDrainedFails(i) \/ Kill(i) \/ Restart(i)
                                    \/ Stop(i)
        PROVE  Goal
    BY <1>1, <2>4, <2>5, QuietInstance, KeptOthers DEF ReaperStep, StopStep, Goal
  <2> QED BY <1>3, <2>1, <2>2, <2>3, <2>5 DEF Next, Goal
<1> QED BY <1>2, <1>3

(***************************************************************************)
(* Who may write under a claim: the jobs from _acquire_and_load to         *)
(* _release_lease.  A job enters by claiming a run that waits.             *)
(***************************************************************************)
Owning == Leased \cup Executing \cup {"release"}

Stays(a, b) == b.pc \in Owning => a.pc \in Owning /\ b.run = a.run

Enters(j) == Stays(job[j], job'[j]) \/ (Acquire(j) /\ Claimable(RowOf(j)))

LEMMA EntersOne ==
  ASSUME TypeOK, NEW j \in Jobs, NEW jb, job' = [job EXCEPT ![j] = jb], Stays(job[j], jb)
  PROVE  \A k \in Jobs : Enters(k)
BY DEF Enters, Stays, TypeOK, JobsOK

LEMMA EntersNone == UNCHANGED job => \A k \in Jobs : Enters(k)
BY DEF Enters, Stays

LEMMA StaysCancelled == \A jb \in JobState : Stays(jb, jb) /\ Stays(jb, Cancelled(jb))
BY DEF Stays, Cancelled, JobState

LEMMA StaysIdle == \A jb : Stays(jb, IdleJob)
BY DEF Stays, IdleJob, Owning

LEMMA EntersCancel ==
  ASSUME TypeOK, NEW i \in Instances, NEW r \in Runs, NEW e, ExecuteCancel(i, r, e)
  PROVE  \A k \in Jobs : Enters(k)
<1>1. CASE active[i][r] = NoJob
  BY <1>1, EntersNone DEF ExecuteCancel
<1>2. CASE active[i][r] # NoJob
  <2> DEFINE j == active[i][r]
  <2>1. j \in Jobs
    BY <1>2 DEF TypeOK, RegistriesOK
  <2>2. job' = [job EXCEPT ![j] = Cancelled(job[j])] /\ job[j] \in JobState
    BY <1>2, <2>1 DEF ExecuteCancel, TypeOK, JobsOK
  <2> QED BY <2>1, <2>2, StaysCancelled, EntersOne
<1> QED BY <1>1, <1>2

LEMMA EntersApi ==
  ASSUME TypeOK, NEW r \in Runs,
         \/ PrepareRun(r) \/ Submit(r) \/ SubmitFails(r) \/ InterruptReconciled(r)
         \/ InterruptOwned(r) \/ ExpireLease(r) \/ Age(r)
         \/ \E i \in Instances : InterruptLocally(i, r)
  PROVE  \A k \in Jobs : Enters(k)
<1>1. CASE \E i \in Instances : InterruptLocally(i, r)
  BY <1>1, EntersCancel DEF InterruptLocally
<1>2. CASE UNCHANGED job
  BY <1>2, EntersNone
<1> QED BY <1>1, <1>2 DEF PrepareRun, Submit, SubmitFails, InterruptReconciled,
                          InterruptOwned, ExpireLease, Age

LEMMA EntersCommand ==
  ASSUME TypeOK, NEW m \in msgs, HandleCancelCommand(m) \/ LoseCancelCommand(m)
  PROVE  \A k \in Jobs : Enters(k)
<1>1. m.inst \in Instances /\ m.run \in Runs
  BY DEF TypeOK, TrafficOK
<1>2. CASE HandleCancelCommand(m)
  BY <1>1, <1>2, EntersCancel DEF HandleCancelCommand
<1>3. CASE LoseCancelCommand(m)
  BY <1>3, EntersNone DEF LoseCancelCommand
<1> QED BY <1>2, <1>3

LEMMA EntersInstance ==
  ASSUME TypeOK, NEW i \in Instances,
         \/ ReaperStep(i) \/ StopStep(i) \/ ReapRedisError(i) \/ PushDrainedFails(i)
         \/ Kill(i) \/ Restart(i) \/ Stop(i)
  PROVE  \A k \in Jobs : Enters(k)
<1>1. CASE UNCHANGED job
  BY <1>1, EntersNone
<1>2. ASSUME DrainDeadline(i) \/ StopLoops(i) \/ Kill(i), NEW k \in Jobs PROVE Enters(k)
  <2>1. job[k] \in JobState
    BY DEF TypeOK, JobsOK
  <2>2. job'[k] \in {job[k], IdleJob, Cancelled(job[k])}
    BY <1>2 DEF DrainDeadline, StopLoops, Kill
  <2> QED BY <2>1, <2>2, StaysIdle, StaysCancelled DEF Enters
<1> QED BY <1>1, <1>2 DEF ReaperStep, ReapFind, ReapRecover, ReapPush, ReapCheck, StopStep,
     Requeue, PushDrained, ReapRedisError, PushDrainedFails, Restart, Stop

(* What a slot does to itself. *)
LEMMA EntersJob ==
  ASSUME TypeOK, NEW j \in Jobs,
         \/ JobStep(j) \/ LoopStep(j) \/ Heartbeat(j) \/ Timeout(j) \/ PollPostgres(j)
         \/ PushBackFails(j) \/ SignalEndFails(j) \/ DbError(j)
  PROVE  \A k \in Jobs : Enters(k)
<1> DEFINE Goal == \A k \in Jobs : Enters(k)
           Within(jb) == job' = [job EXCEPT ![j] = jb] /\ Stays(job[j], jb)
           Own == \E jb : Within(jb)
<1> HIDE DEF Goal
<1>a. Own => Goal
  BY EntersOne DEF Goal
<1>b. UNCHANGED job => Goal
  BY EntersNone DEF Goal
<1>c. job \in [Jobs -> JobState]
  BY DEF TypeOK, JobsOK
<1>d. ASSUME NEW pc, Goto(j, pc), pc \in Owning => job[j].pc \in Owning PROVE Goal
  <2>1. Within([job[j] EXCEPT !.pc = pc, !.kill = FALSE])
    BY <1>c, <1>d DEF Goto, Stays, JobState
  <2> QED BY <1>a, <2>1
<1>1. ASSUME \/ Begin(j) \/ ErrorCorrupt(j) \/ Start(j) \/ SignalEnd(j) \/ Release(j)
             \/ OuterCleanup(j) \/ CancelledInAcquire(j) \/ CancelledBeforeStart(j)
             \/ CancelledInHandler(j) \/ CancelledInRelease(j) \/ SignalEndFails(j)
      PROVE  Goal
  BY <1>1, <1>d DEF Owning, Begin, ErrorCorrupt, Start, SignalEnd, Release, OuterCleanup,
     CancelledInAcquire, CancelledBeforeStart, CancelledInHandler, CancelledInRelease,
     SignalEndFails
<1>2. ASSUME Acquire(j) PROVE Goal
  <2>1. CASE Claimable(RowOf(j))
    <3>1. ASSUME NEW k \in Jobs PROVE Enters(k)
      BY <1>2, <1>c, <2>1 DEF Enters, Stays, Acquire, Goto
    <3> QED BY <3>1 DEF Goal
  <2>2. CASE ~Claimable(RowOf(j))
    BY <1>2, <1>d, <2>2 DEF Acquire, Owning
  <2> QED BY <2>1, <2>2
<1>3. ASSUME \/ CancelledUnborn(j) \/ OuterFinally(j) \/ PushBack(j) \/ PushBackFails(j)
      PROVE  Goal
  <2>1. Within(IdleJob)
    BY <1>3, StaysIdle DEF CancelledUnborn, OuterFinally, PushBack, PushBackFails
  <2> QED BY <1>a, <2>1
<1>4. ASSUME NEW r, NEW pc \in {"created", "held"}, Take(j, r, pc) PROVE Goal
  <2>1. Within([IdleJob EXCEPT !.run = r, !.pc = pc])
    BY <1>4 DEF Take, Stays, IdleJob, Owning
  <2> QED BY <1>a, <2>1
<1>5. ASSUME LoopStep(j) \/ PollPostgres(j) PROVE Goal
  BY <1>3, <1>4, <1>5 DEF LoopStep, Dequeue, DequeueWhileStopping, PollPostgres
<1>6. ASSUME NEW jb, job' = [job EXCEPT ![j] = jb], jb.run = job[j].run, job[j].pc \in Owning
      PROVE  Goal
  <2>1. Within(jb)
    BY <1>6 DEF Stays
  <2> QED BY <1>a, <2>1
<1>7. ASSUME ExecuteRun(j) PROVE Goal
  <2>1. job' = [job EXCEPT ![j] = [job[j] EXCEPT !.pc = "start", !.beat = TRUE]]
    BY <1>7, <1>c DEF ExecuteRun
  <2>2. job[j].pc \in Owning
    BY <1>7 DEF ExecuteRun, Owning
  <2> QED BY <1>6, <1>c, <2>1, <2>2 DEF JobState
<1>8. ASSUME NEW s, NEW pc, Finalize(j, s, pc), job[j].pc \in Owning PROVE Goal
  <2>1. PICK note : job' = [job EXCEPT ![j] = [job[j] EXCEPT !.pc = pc, !.note = note]]
    BY <1>8, <1>c DEF Finalize
  <2> QED BY <1>6, <1>8, <1>c, <2>1 DEF JobState
<1>9. ASSUME GraphCompletes(j) \/ FinalizeInHandler(j) PROVE Goal
  BY <1>8, <1>9 DEF GraphCompletes, FinalizeInHandler, Owning
<1>10. ASSUME GraphRaises(j) PROVE Goal
  <2>1. job' = [job EXCEPT ![j] = [job[j] EXCEPT !.pc = "cfinal", !.out = "error"]]
    BY <1>10, <1>c DEF GraphRaises
  <2>2. job[j].pc \in Owning
    BY <1>10 DEF GraphRaises, Owning
  <2> QED BY <1>6, <1>c, <2>1, <2>2 DEF JobState
<1>11. ASSUME LeaveExecuteRun(j), job[j].pc \in Owning PROVE Goal
  <2>1. job' = [job EXCEPT ![j] = [job[j] EXCEPT !.pc = "release", !.kill = FALSE,
                                                 !.beat = FALSE]]
    BY <1>11, <1>c DEF LeaveExecuteRun
  <2> QED BY <1>6, <1>11, <1>c, <2>1 DEF JobState
<1>12. ASSUME Finally(j) PROVE Goal
  BY <1>11, <1>12 DEF Finally, Owning
<1>13. ASSUME CancelledInBody(j) PROVE Goal
  <2>1. job[j].pc \in Owning
    BY <1>13 DEF CancelledInBody, Owning
  <2>2. CASE ResumesElsewhere(j)
    BY <1>11, <1>13, <2>1, <2>2 DEF CancelledInBody
  <2>3. CASE ~ResumesElsewhere(j)
    <3>1. PICK out : job' = [job EXCEPT ![j] = [job[j] EXCEPT !.pc = "cfinal",
                                                   !.kill = FALSE, !.out = out]]
      BY <1>13, <1>c, <2>3 DEF CancelledInBody
    <3> QED BY <1>6, <1>c, <2>1, <3>1 DEF JobState
  <2> QED BY <2>2, <2>3
<1>14. ASSUME Heartbeat(j) PROVE Goal
  <2>1. \/ UNCHANGED job
        \/ job' = [job EXCEPT ![j] = [job[j] EXCEPT !.kill = TRUE, !.beat = FALSE]]
    BY <1>14, <1>c DEF Heartbeat
  <2>2. job[j].pc \in Owning
    BY <1>14 DEF Heartbeat, Owning
  <2> QED BY <1>6, <1>b, <1>c, <2>1, <2>2 DEF JobState
<1>15. ASSUME Timeout(j) PROVE Goal
  <2>1. job' = [job EXCEPT ![j] = [job[j] EXCEPT !.outer = "timedout", !.kill = TRUE]]
    BY <1>15, <1>c DEF Timeout
  <2>2. job[j].pc \in Owning
    BY <1>15 DEF Timeout, Owning
  <2> QED BY <1>6, <1>c, <2>1, <2>2 DEF JobState
<1>16. ASSUME DbError(j) PROVE Goal
  <2> DEFINE pc  == CASE job[j].pc \in {"start", "stream"} -> "cfinal"
                      [] job[j].pc = "cfinal" -> "finally"
                      [] job[j].pc = "outer" -> "finish"
                      [] OTHER -> "outer"
             out == IF job[j].pc \in {"start", "stream"} THEN "error" ELSE job[j].out
  <2>1. pc \in Owning => job[j].pc \in Owning
    BY DEF Owning
  <2>2. job' = [job EXCEPT ![j] = [job[j] EXCEPT !.pc = pc, !.out = out]]
    BY <1>16, <1>c DEF DbError
  <2> HIDE DEF pc, out
  <2>3. Within([job[j] EXCEPT !.pc = pc, !.out = out])
    BY <1>c, <2>1, <2>2 DEF Stays, JobState
  <2> QED BY <1>a, <2>3
<1>17. Goal
  BY <1>1, <1>2, <1>3, <1>5, <1>7, <1>9, <1>10, <1>12, <1>13, <1>14, <1>15, <1>16 DEF JobStep
<1> QED BY <1>17 DEF Goal

LEMMA EntersStep == TypeOK /\ [Next]_vars => \A j \in Jobs : Enters(j)
<1> SUFFICES ASSUME TypeOK, [Next]_vars PROVE \A j \in Jobs : Enters(j)
  OBVIOUS
<1>1. CASE UNCHANGED vars
  BY <1>1, EntersNone DEF vars
<1>2. CASE Next
  BY <1>2, EntersApi, EntersCommand, EntersJob, EntersInstance DEF Next
<1> QED BY <1>1, <1>2

(***************************************************************************)
(* The inductive invariant: while no lease has expired under its holder, a *)
(* job that writes under a claim owns its row, or the run is over, and it  *)
(* is the only such job of the run.                                        *)
(***************************************************************************)
Owned(j) == job[j].pc \in Owning =>
              IsTerminal(RowOf(j)) \/ (Claimed(RowOf(j)) /\ RowOf(j).owner = WorkerOf[j])

Alone == \A j, k \in Jobs : /\ j # k /\ job[j].pc \in Owning /\ job[k].pc \in Owning
                            => job[j].run # job[k].run

Tenure == spent["stall"] = 0 => Alone /\ \A j \in Jobs : Owned(j)

(* A lease expires under nobody's hands unless heartbeats were missed. *)
LEMMA ExpireStalls ==
  ASSUME TypeOK, NEW j \in Jobs, job[j].pc \in Owning, RowOf(j).owner = WorkerOf[j],
         ExpireLease(job[j].run)
  PROVE  spent'["stall"] > 0
<1>1. Holds(j, job[j].run)
  BY DEF Holds, RowOf, Owning
<1>2. Spend("stall")
  BY <1>1 DEF ExpireLease
<1> QED BY <1>2, Spends DEF Faults

LEMMA OwnedStep ==
  ASSUME TypeOK, Undrained, Alone, NEW j \in Jobs, Owned(j), [Next]_vars,
         spent'["stall"] = 0, job[j].pc \in Owning, job'[j].pc \in Owning,
         job'[j].run = job[j].run
  PROVE  Owned(j)'
<1> DEFINE r == job[j].run
           a == rows[r]
           b == rows'[r]
<1>1. r \in Runs
  BY RunType DEF Owning
<1>2. Kept(r)
  BY <1>1, KeptStep
<1>3. IsTerminal(a) \/ (Claimed(a) /\ a.owner = WorkerOf[j])
  BY DEF Owned, RowOf
<1>4. CASE Gentle(a, b)
  BY <1>3, <1>4 DEF Gentle, Owned, RowOf
<1>5. ASSUME NEW k \in Jobs, Releases(k, r) PROVE FALSE
  <2>1. job[k].pc \in Owning /\ job'[k].pc \notin Owning
    BY <1>5 DEF Releases, Owning
  <2> QED BY <1>5, <2>1 DEF Alone, Releases
<1>6. CASE ExpireLease(r) /\ b = [a EXCEPT !.lease = "expired"]
  <2>1. IsTerminal(a)
    BY <1>1, <1>3, <1>6, ExpireStalls DEF RowOf
  <2>2. a \in Row
    BY <1>1 DEF TypeOK, RowsOK
  <2> QED BY <1>6, <2>1, <2>2 DEF Owned, RowOf, IsTerminal, Row
<1> QED BY <1>2, <1>4, <1>5, <1>6 DEF Kept

(* A job that claims its run finds nobody working on it. *)
LEMMA ClaimStep ==
  ASSUME TypeOK, NEW j \in Jobs, \A k \in Jobs : Owned(k), Acquire(j), Claimable(RowOf(j))
  PROVE  /\ Owned(j)'
         /\ job'[j].run = job[j].run
         /\ \A k \in Jobs \ {j} : job'[k] = job[k]
         /\ \A k \in Jobs : job[k].pc \in Owning => job[k].run # job[j].run
<1>1. job[j].run \in Runs /\ RowOf(j) \in Row
  BY RunType, RowType DEF Acquire
<1>2. /\ job'[j].run = job[j].run
      /\ \A k \in Jobs \ {j} : job'[k] = job[k]
  BY DEF Acquire, Goto, TypeOK, JobsOK, JobState
<1>3. rows'[job[j].run] = Claim(RowOf(j), WorkerOf[j])
  BY <1>1 DEF Acquire, RowOf, TypeOK, RowsOK
<1>4. Claimed(Claim(RowOf(j), WorkerOf[j])) /\ Claim(RowOf(j), WorkerOf[j]).owner = WorkerOf[j]
  BY <1>1 DEF Claimed, Claim, Row
<1>5. Owned(j)'
  BY <1>2, <1>3, <1>4 DEF Owned, RowOf
<1>6. ASSUME NEW k \in Jobs, job[k].pc \in Owning, job[k].run = job[j].run PROVE FALSE
  BY <1>6 DEF Owned, RowOf, Claimable, Claimed, IsTerminal
<1> QED BY <1>2, <1>5, <1>6

LEMMA TenureNext ==
  ASSUME TypeOK, Undrained, Tenure, [Next]_vars PROVE Tenure'
<1> SUFFICES ASSUME spent'["stall"] = 0 PROVE Alone' /\ \A j \in Jobs : Owned(j)'
  BY DEF Tenure
<1>1. Alone /\ \A j \in Jobs : Owned(j)
  <2>1. spent["stall"] \in Nat /\ spent["stall"] <= 0
    BY StallsRemembered DEF TypeOK, Faults
  <2> QED BY <2>1 DEF Tenure
<1>2. \A j \in Jobs : Enters(j)
  BY EntersStep
<1>3. ASSUME NEW j \in Jobs, job'[j].pc \in Owning PROVE Owned(j)'
  <2>1. CASE Stays(job[j], job'[j])
    BY <1>1, <1>3, <2>1, OwnedStep DEF Stays
  <2>2. CASE Acquire(j) /\ Claimable(RowOf(j))
    BY <1>1, <2>2, ClaimStep
  <2> QED BY <1>2, <2>1, <2>2 DEF Enters
<1>4. ASSUME NEW j \in Jobs, job'[j].pc \notin Owning PROVE Owned(j)'
  BY <1>4 DEF Owned
<1>5. ASSUME NEW j \in Jobs, NEW k \in Jobs, j # k, job'[j].pc \in Owning,
             job'[k].pc \in Owning
      PROVE  job'[j].run # job'[k].run
  <2>1. CASE Acquire(j) /\ Claimable(RowOf(j))
    <3>1. job'[k] = job[k] /\ job'[j].run = job[j].run
      BY <1>1, <1>5, <2>1, ClaimStep
    <3> QED BY <1>1, <1>5, <2>1, <3>1, ClaimStep
  <2>2. CASE Acquire(k) /\ Claimable(RowOf(k))
    <3>1. job'[j] = job[j] /\ job'[k].run = job[k].run
      BY <1>1, <1>5, <2>2, ClaimStep
    <3> QED BY <1>1, <1>5, <2>2, <3>1, ClaimStep
  <2>3. CASE Stays(job[j], job'[j]) /\ Stays(job[k], job'[k])
    BY <1>1, <1>5, <2>3 DEF Alone, Stays
  <2> QED BY <1>2, <2>1, <2>2, <2>3 DEF Enters
<1>6. Alone'
  BY <1>5 DEF Alone
<1> QED BY <1>3, <1>4, <1>6

LEMMA TenureInit == Init => Undrained /\ Tenure
BY DEF Init, Undrained, Tenure, Alone, Owned, Owning, IdleJob

(* The graph of a run is executed by one job at a time on any number of     *)
(* servers, workers and slots, whatever crashes, fails, times out or is     *)
(* cancelled: as long as no holder misses a whole lease of heartbeats and   *)
(* no server is stopped.                                                    *)
THEOREM ExecutesOnce == ASSUME NeverStopped PROVE Spec => []NoDoubleExecution
<1>1. Init => Undrained /\ Tenure
  BY TenureInit
<1>2. TypeOK /\ Undrained /\ Tenure /\ [Next]_vars => Undrained' /\ Tenure'
  BY TenureNext, UndrainedNext
<1>3. Tenure => NoDoubleExecution
  BY DEF Tenure, Alone, NoDoubleExecution, Owning
<1> QED BY <1>1, <1>2, <1>3, TypeCorrect, PTL DEF Spec

(* Where a worker has one slot, nobody takes a live lease from its holder,  *)
(* even after missed heartbeats: with several slots, a job of a worker may  *)
(* release what another job of the same worker claimed after it.            *)
OneSlotPerWorker == \A j, k \in Jobs : WorkerOf[j] = WorkerOf[k] => j = k

LEMMA HonourStep ==
  ASSUME OneSlotPerWorker, TypeOK, Undrained, [Next]_vars, NEW r \in Runs, NEW j \in Jobs,
         Holds(j, r), Claimed(rows[r]), job'[j] = job[j]
  PROVE  rows'[r].owner = rows[r].owner \/ IsTerminal(rows'[r])
<1>1. rows[r] \in Row
  BY DEF TypeOK, RowsOK
<1>2. Kept(r)
  BY KeptStep
<1>3. CASE Gentle(rows[r], rows'[r])
  BY <1>3 DEF Gentle
<1>4. ASSUME NEW k \in Jobs, Releases(k, r) PROVE rows'[r].owner = rows[r].owner
  <2>1. WorkerOf[k] # WorkerOf[j]
    BY <1>4 DEF Releases, OneSlotPerWorker
  <2> QED BY <1>4, <2>1 DEF Releases, ReleaseLease, Holds
<1>5. CASE rows'[r] = [rows[r] EXCEPT !.lease = "expired"]
  BY <1>1, <1>5 DEF Row
<1> QED BY <1>2, <1>3, <1>4, <1>5 DEF Kept

(* A healthy worker never loses its lease, for any number of servers, one   *)
(* slot per worker, unless a server is stopped.                             *)
THEOREM LeasesHonoured ==
  ASSUME NeverStopped, OneSlotPerWorker PROVE Spec => LiveLeaseHonoured
<1> DEFINE Honoured == \A r \in Runs : \A j \in Jobs :
             /\ Holds(j, r) /\ rows[r].lease = "live" /\ rows[r].status = "running"
             /\ job'[j] = job[j]
             => rows'[r].owner = rows[r].owner \/ IsTerminal(rows'[r])
<1>1. Init => Undrained
  BY TenureInit
<1>2. TypeOK /\ Undrained /\ [Next]_vars => Undrained'
  BY UndrainedNext
<1>3. TypeOK /\ Undrained /\ [Next]_vars => [Honoured]_vars
  BY HonourStep DEF Claimed
<1> QED BY <1>1, <1>2, <1>3, TypeCorrect, PTL DEF Spec, LiveLeaseHonoured

---------------------------------------------------------------------------
(***************************************************************************)
(* Where a CancelledError comes from.  A job that is cancelled while it    *)
(* executes was cancelled by a user, or finds its run in one of the        *)
(* provenance sets of its process, so execute_run writes "interrupted"     *)
(* only for a user.  The sets hold run ids, not tasks: the argument needs  *)
(* a process that never has two tasks of one run (Twins).                  *)
(***************************************************************************)

Begun   == JobPc \ {"free", "held", "created"}
Working == {"acquire"} \cup Leased \cup Executing
Resting == {"requeue", "push", "down"}

(* active_runs of a live process points at the task of the run. *)
Registered(i, r) ==
  inst[i] # "down" /\ active[i][r] # NoJob =>
    /\ Host(active[i][r]) = i
    /\ job[active[i][r]].run = r
    /\ job[active[i][r]].pc \in Begun

(* ... and leads to every task from its first line to the finally clause of *)
(* execute_run.                                                             *)
Findable(j) == job[j].pc \in Working => active[Host(j)][job[j].run] = j

(* A process that has cancelled its loops, or is dead, has no jobs. *)
Rested(j) == inst[Host(j)] \in Resting => job[j].pc = "free"

(* A cancel command, and an explicit cancellation, come from a user. *)
Asked == /\ \A m \in msgs : m.run \in asked
         /\ \A i \in Instances : explicit[i] \subseteq asked

Excused(i) == asked \cup loss[i] \cup shutdown[i] \cup timeout[i]

Reasoned(j) ==
  /\ job[j].kill /\ job[j].pc \in Executing => job[j].run \in Excused(Host(j))
  /\ job[j].pc = "cfinal" /\ job[j].out = "interrupted" => job[j].run \in asked

Registry   == \A i \in Instances : \A r \in Runs : Registered(i, r)
Finding    == \A j \in Jobs : Findable(j)
Rest       == \A j \in Jobs : Rested(j)
Reasons    == \A j \in Jobs : Reasoned(j)
Provenance == Registry /\ Finding /\ Rest /\ Asked /\ Reasons /\ InterruptedOnlyIfAsked

(***************************************************************************)
(* What a step does to a job.                                              *)
(***************************************************************************)
Follows(a, b) == a.pc \in Begun => b.run = a.run /\ b.pc \in Begun

Calm(a, b) ==
  /\ b.kill /\ b.pc \in Executing => a.kill /\ a.pc \in Executing /\ b.run = a.run
  /\ b.pc = "cfinal" /\ b.out = "interrupted" =>
       a.pc = "cfinal" /\ a.out = "interrupted" /\ b.run = a.run

Works(a, b) == b.pc \in Working => a.pc \in Working /\ b.run = a.run

Sleeps(j) == job[j].pc = "free" /\ inst[Host(j)] \in Resting => job'[j].pc = "free"

Ordinary(j) == /\ Follows(job[j], job'[j]) /\ Works(job[j], job'[j])
               /\ Calm(job[j], job'[j]) /\ Sleeps(j)

LEMMA OrdinaryNone == UNCHANGED job => \A k \in Jobs : Ordinary(k)
BY DEF Ordinary, Follows, Works, Calm, Sleeps

LEMMA OrdinaryOne ==
  ASSUME TypeOK, NEW j \in Jobs, NEW jb, job' = [job EXCEPT ![j] = jb],
         Follows(job[j], jb), Works(job[j], jb), Calm(job[j], jb),
         job[j].pc # "free" \/ inst[Host(j)] \notin Resting
  PROVE  \A k \in Jobs : Ordinary(k)
BY DEF Ordinary, Follows, Works, Calm, Sleeps, TypeOK, JobsOK

LEMMA OrdinaryGoto ==
  ASSUME TypeOK, NEW j \in Jobs, NEW pc, Goto(j, pc),
         job[j].pc # "free", job[j].pc \in Begun => pc \in Begun, pc # "cfinal",
         pc \in Working => job[j].pc \in Working
  PROVE  \A k \in Jobs : Ordinary(k)
<1> DEFINE jb == [job[j] EXCEPT !.pc = pc, !.kill = FALSE]
<1>1. job[j] \in JobState /\ job' = [job EXCEPT ![j] = jb]
  BY DEF TypeOK, JobsOK, Goto
<1>2. Follows(job[j], jb) /\ Works(job[j], jb) /\ Calm(job[j], jb)
  BY <1>1 DEF Follows, Works, Calm, JobState
<1> HIDE DEF jb
<1> QED BY <1>1, <1>2, OrdinaryOne

(* The steps of a slot other than the start and end of its task, the delivery of a    *)
(* CancelledError into execute_run, and the heartbeat's and timeout's own.  *)
LEMMA OrdinaryJob ==
  ASSUME TypeOK, NEW j \in Jobs,
         \/ CancelledUnborn(j) \/ Acquire(j) \/ ErrorCorrupt(j) \/ ExecuteRun(j)
         \/ Start(j) \/ GraphCompletes(j) \/ GraphRaises(j)
         \/ FinalizeInHandler(j) \/ SignalEnd(j) \/ SignalEndFails(j) \/ Finally(j)
         \/ Release(j) \/ OuterCleanup(j) \/ CancelledInAcquire(j)
         \/ CancelledBeforeStart(j) \/ CancelledInHandler(j) \/ CancelledInRelease(j)
         \/ LoopStep(j) \/ PollPostgres(j) \/ PushBackFails(j) \/ DbError(j)
         \/ LeaveExecuteRun(j) /\ job[j].pc \in Executing
  PROVE  \A k \in Jobs : Ordinary(k)
<1> DEFINE Goal == \A k \in Jobs : Ordinary(k)
           Fine(jb) == /\ job' = [job EXCEPT ![j] = jb]
                       /\ Follows(job[j], jb) /\ Works(job[j], jb) /\ Calm(job[j], jb)
                       /\ job[j].pc # "free" \/ inst[Host(j)] \notin Resting
<1> HIDE DEF Goal
<1>a. ASSUME NEW jb, Fine(jb) PROVE Goal
  BY <1>a, OrdinaryOne DEF Goal
<1>c. job \in [Jobs -> JobState] /\ job[j] \in JobState
  BY DEF TypeOK, JobsOK
<1>d. ASSUME NEW pc, Goto(j, pc), job[j].pc # "free", job[j].pc \in Begun => pc \in Begun,
             pc # "cfinal", pc \in Working => job[j].pc \in Working
      PROVE  Goal
  BY <1>d, OrdinaryGoto DEF Goal
<1>1. ASSUME \/ ErrorCorrupt(j) \/ Start(j) \/ SignalEnd(j) \/ Release(j)
             \/ OuterCleanup(j) \/ CancelledInAcquire(j) \/ CancelledBeforeStart(j)
             \/ CancelledInHandler(j) \/ CancelledInRelease(j) \/ SignalEndFails(j)
      PROVE  Goal
  BY <1>1, <1>d DEF Begun, JobPc, Working, ErrorCorrupt, Start, SignalEnd, Release,
     OuterCleanup, CancelledInAcquire, CancelledBeforeStart, CancelledInHandler,
     CancelledInRelease, SignalEndFails
<1>2. ASSUME Acquire(j) PROVE Goal
  BY <1>2, <1>d DEF Acquire, AfterClaim, Begun, JobPc, Working
<1>3. ASSUME CancelledUnborn(j) \/ PushBack(j) \/ PushBackFails(j) PROVE Goal
  <2>1. Fine(IdleJob)
    BY <1>3 DEF CancelledUnborn, PushBack, PushBackFails, Follows, Works, Calm, Working, Begun, IdleJob
  <2> QED BY <1>a, <2>1
<1>4. ASSUME NEW r, NEW pc \in {"created", "held"}, Take(j, r, pc), job[j].pc = "free",
             inst[Host(j)] \notin Resting
      PROVE  Goal
  <2>1. Fine([IdleJob EXCEPT !.run = r, !.pc = pc])
    BY <1>4 DEF Take, Follows, Works, Calm, Working, Begun, IdleJob
  <2> QED BY <1>a, <2>1
<1>5. ASSUME LoopStep(j) \/ PollPostgres(j) PROVE Goal
  BY <1>3, <1>4, <1>5 DEF LoopStep, Dequeue, DequeueWhileStopping, PollPostgres, Resting
<1>6. ASSUME ExecuteRun(j) PROVE Goal
  <2>1. Fine([job[j] EXCEPT !.pc = "start", !.beat = TRUE])
    BY <1>6, <1>c DEF ExecuteRun, Follows, Works, Calm, Working, Begun, JobPc, JobState
  <2> QED BY <1>a, <2>1
<1>7. ASSUME NEW s, NEW pc \in {"committed", "csignal"}, Finalize(j, s, pc),
             job[j].pc \in Executing, ~job[j].kill
      PROVE  Goal
  <2> DEFINE note == IF IsActive(RowOf(j)) THEN "finalized" ELSE "none"
             jb == [job[j] EXCEPT !.pc = pc, !.note = note]
  <2> HIDE DEF note
  <2>1. job' = [job EXCEPT ![j] = jb]
    BY <1>7, <1>c DEF Finalize, note
  <2>2. Follows(job[j], jb) /\ Works(job[j], jb) /\ Calm(job[j], jb) /\ job[j].pc # "free"
    BY <1>7, <1>c DEF Follows, Works, Calm, Working, Begun, JobPc, JobState
  <2> QED BY <1>a, <2>1, <2>2
<1>8. ASSUME GraphCompletes(j) \/ FinalizeInHandler(j) PROVE Goal
  BY <1>7, <1>8 DEF GraphCompletes, FinalizeInHandler
<1>9. ASSUME GraphRaises(j) PROVE Goal
  <2>1. Fine([job[j] EXCEPT !.pc = "cfinal", !.out = "error"])
    BY <1>9, <1>c DEF GraphRaises, Follows, Works, Calm, Working, Begun, JobPc, JobState
  <2> QED BY <1>a, <2>1
<1>10. ASSUME LeaveExecuteRun(j), job[j].pc \in Executing PROVE Goal
  <2>1. Fine([job[j] EXCEPT !.pc = "release", !.kill = FALSE, !.beat = FALSE])
    BY <1>10, <1>c DEF LeaveExecuteRun, Follows, Works, Calm, Working, Begun, JobPc, JobState
  <2> QED BY <1>a, <2>1
<1>11. ASSUME Finally(j) PROVE Goal
  BY <1>10, <1>11 DEF Finally
<1>12. ASSUME DbError(j) PROVE Goal
  <2> DEFINE pc  == CASE job[j].pc \in {"start", "stream"} -> "cfinal"
                      [] job[j].pc = "cfinal" -> "finally"
                      [] job[j].pc = "outer" -> "finish"
                      [] OTHER -> "outer"
             out == IF job[j].pc \in {"start", "stream"} THEN "error" ELSE job[j].out
  <2>1. /\ pc \in Begun
        /\ pc = "cfinal" => out # "interrupted"
        /\ pc \in Working => job[j].pc \in Working
    BY DEF Begun, JobPc, Working
  <2>2. job' = [job EXCEPT ![j] = [job[j] EXCEPT !.pc = pc, !.out = out]]
    BY <1>12, <1>c DEF DbError
  <2>3. job[j].pc # "free" /\ ~job[j].kill
    BY <1>12 DEF DbError
  <2> HIDE DEF pc, out
  <2>4. Fine([job[j] EXCEPT !.pc = pc, !.out = out])
    BY <1>c, <2>1, <2>2, <2>3 DEF Follows, Works, Calm, JobState
  <2> QED BY <1>a, <2>4
<1>13. Goal
  BY <1>1, <1>2, <1>3, <1>5, <1>6, <1>8, <1>9, <1>10, <1>11, <1>12
<1> QED BY <1>13 DEF Goal

(***************************************************************************)
(* What keeps each part of the invariant.                                  *)
(***************************************************************************)
LEMMA RegistryKept ==
  ASSUME TypeOK, Registry, \A k \in Jobs : Follows(job[k], job'[k]), UNCHANGED inst,
         \A i \in Instances : \A r \in Runs : active'[i][r] \in {active[i][r], NoJob}
  PROVE  Registry'
<1> SUFFICES ASSUME NEW i \in Instances, NEW r \in Runs PROVE Registered(i, r)'
  BY DEF Registry
<1>1. active[i][r] \in Jobs \cup {NoJob}
  BY DEF TypeOK, RegistriesOK
<1>2. Registered(i, r)
  BY DEF Registry
<1> QED BY <1>1, <1>2 DEF Registered, Follows, Host

LEMMA FindingKept ==
  ASSUME TypeOK, Finding, \A k \in Jobs : Works(job[k], job'[k]),
         \A k \in Jobs : job'[k].pc \in Working => active'[Host(k)] = active[Host(k)]
  PROVE  Finding'
BY DEF Finding, Findable, Works, Host

LEMMA RestKept == Rest /\ (\A k \in Jobs : Sleeps(k)) /\ UNCHANGED inst => Rest'
BY DEF Rest, Rested, Sleeps, Host

LEMMA AskedKept ==
  ASSUME Asked, asked \subseteq asked', \A m \in msgs' : m \in msgs \/ m.run \in asked',
         \A i \in Instances : explicit'[i] \subseteq explicit[i] \cup asked'
  PROVE  Asked'
BY DEF Asked

LEMMA ReasonsKept ==
  ASSUME Reasons, asked \subseteq asked', \A k \in Jobs : Calm(job[k], job'[k]),
         \A i \in Instances : Excused(i) \subseteq Excused(i)'
  PROVE  Reasons'
<1> SUFFICES ASSUME NEW k \in Jobs PROVE Reasoned(k)'
  BY DEF Reasons
<1>1. Reasoned(k) /\ Host(k) \in Instances /\ Calm(job[k], job'[k])
  BY HostType DEF Reasons
<1>2. Excused(Host(k)) \subseteq Excused(Host(k))'
  BY <1>1 DEF Host
<1> QED BY <1>1, <1>2 DEF Reasoned, Calm, Host

LEMMA ExcusesKept ==
  asked \subseteq asked' /\ UNCHANGED <<loss, shutdown, timeout>> =>
    \A i \in Instances : Excused(i) \subseteq Excused(i)'
BY DEF Excused

(* Nobody but a user makes a row "interrupted". *)
Spares(a, b) == b.status = "interrupted" => a.status = "interrupted"

LEMMA InterruptedKept ==
  ASSUME InterruptedOnlyIfAsked, asked \subseteq asked',
         \A r \in Runs : Spares(rows[r], rows'[r]) \/ r \in asked'
  PROVE  InterruptedOnlyIfAsked'
BY DEF InterruptedOnlyIfAsked, Spares

LEMMA SparesRow ==
  ASSUME TypeOK, NEW s \in Runs, NEW row, rows' = [rows EXCEPT ![s] = row],
         Spares(rows[s], row) \/ s \in asked'
  PROVE  \A r \in Runs : Spares(rows[r], rows'[r]) \/ r \in asked'
BY DEF TypeOK, RowsOK, Spares

LEMMA SparesNone == UNCHANGED rows => \A r \in Runs : Spares(rows[r], rows'[r])
BY DEF Spares

LEMMA SparingStatements ==
  ASSUME NEW a \in Row
  PROVE  /\ Spares(a, a) /\ Spares(a, StartRun(a)) /\ Spares(a, RecoverCrashed(a))
         /\ Spares(a, RequeueDrained(a)) /\ \A p : Spares(a, InsertRun(p))
         /\ \A l : Spares(a, [a EXCEPT !.lease = l])
         /\ \A s \in {"success", "error"} : Spares(a, FinalizeRun(a, s))
         /\ \A w \in Workers : /\ Spares(a, Claim(a, w)) /\ Spares(a, FailCorrupt(a, w))
                               /\ Spares(a, ReleaseLease(a, w))
                               /\ Spares(a, ExtendLease(a, w))
                               /\ Spares(a, ReleaseLease(FinalizeRun(a, "error"), w))
<1> USE DEF Spares, Row
<1>1. Spares(a, a) /\ Spares(a, StartRun(a)) /\ Spares(a, RecoverCrashed(a))
  BY DEF StartRun, RecoverCrashed
<1>2. Spares(a, RequeueDrained(a)) /\ \A p : Spares(a, InsertRun(p))
  BY DEF RequeueDrained, InsertRun, AbsentRow
<1>3. \A l : Spares(a, [a EXCEPT !.lease = l])
  OBVIOUS
<1>4. \A s \in {"success", "error"} : Spares(a, FinalizeRun(a, s))
  BY DEF FinalizeRun
<1>5. ASSUME NEW w \in Workers
      PROVE  Spares(a, Claim(a, w)) /\ Spares(a, FailCorrupt(a, w))
  BY DEF Claim, FailCorrupt
<1>6. ASSUME NEW w \in Workers
      PROVE  Spares(a, ReleaseLease(a, w)) /\ Spares(a, ExtendLease(a, w))
  BY DEF ReleaseLease, ExtendLease
<1>7. ASSUME NEW w \in Workers PROVE Spares(a, ReleaseLease(FinalizeRun(a, "error"), w))
  <2> DEFINE b == FinalizeRun(a, "error")
  <2>1. b \in Row
    BY FinalizeRunType
  <2>2. Spares(a, b)
    BY DEF FinalizeRun
  <2> HIDE DEF b
  <2>3. ReleaseLease(b, w).status = b.status
    BY <2>1 DEF ReleaseLease
  <2> QED BY <2>2, <2>3 DEF b
<1> QED BY <1>1, <1>2, <1>3, <1>4, <1>5, <1>6, <1>7

(***************************************************************************)
(* The steps.                                                              *)
(***************************************************************************)
(* Two tasks of one run in one process. *)
Twins(j, k) == /\ j # k /\ Host(j) = Host(k) /\ job[j].run = job[k].run
               /\ job[j].pc \notin {"free", "held"} /\ job[k].pc \notin {"free", "held"}
NoTwins == \A j, k \in Jobs : ~Twins(j, k)

(* The API and time. *)
LEMMA ApiProvenance ==
  ASSUME TypeOK, Provenance, NEW s \in Runs,
         \/ PrepareRun(s) \/ Submit(s) \/ SubmitFails(s) \/ InterruptReconciled(s)
         \/ InterruptOwned(s) \/ ExpireLease(s) \/ Age(s)
  PROVE  Provenance'
<1> USE DEF Provenance
<1>0. /\ UNCHANGED <<job, active, inst, explicit>>
      /\ UNCHANGED <<loss, shutdown, timeout>>
      /\ asked \subseteq asked'
  BY DEF PrepareRun, Submit, SubmitFails, InterruptReconciled, InterruptOwned, ExpireLease,
         Age, sets, process, requests
<1>1. \A k \in Jobs : Ordinary(k)
  BY <1>0, OrdinaryNone
<1>2. Registry' /\ Finding'
  BY <1>0, <1>1, RegistryKept, FindingKept DEF Ordinary
<1>3. Rest'
  BY <1>0, <1>1, RestKept DEF Ordinary
<1>4. Asked'
  <2>1. \A m \in msgs' : m \in msgs \/ m.run \in asked'
    BY DEF PrepareRun, Submit, SubmitFails, InterruptReconciled, InterruptOwned,
           ExpireLease, Age, Publish
  <2> QED BY <1>0, <2>1, AskedKept
<1>5. Reasons'
  BY <1>0, <1>1, ReasonsKept, ExcusesKept DEF Ordinary
<1>6. InterruptedOnlyIfAsked'
  <2>0. rows[s] \in Row
    BY DEF TypeOK, RowsOK
  <2>1. \A r \in Runs : Spares(rows[r], rows'[r]) \/ r \in asked'
    <3>1. CASE UNCHANGED rows
      BY <3>1, SparesNone
    <3>2. CASE PrepareRun(s)
      BY <2>0, <3>2, SparesRow, SparingStatements DEF PrepareRun
    <3>3. CASE InterruptReconciled(s)
      BY <2>0, <3>3, SparesRow DEF InterruptReconciled
    <3>4. CASE ExpireLease(s)
      <4>1. rows' = [rows EXCEPT ![s] = [rows[s] EXCEPT !.lease = "expired"]]
        BY <3>4 DEF ExpireLease, TypeOK, RowsOK
      <4> QED BY <2>0, <4>1, SparesRow, SparingStatements
    <3> QED BY <3>1, <3>2, <3>3, <3>4, QuietApi
  <2> QED BY <1>0, <2>1, InterruptedKept
<1> QED BY <1>2, <1>3, <1>4, <1>5, <1>6

(* A user's cancel reaches the task of the run. *)
LEMMA CancelProvenance ==
  ASSUME TypeOK, Provenance, NEW i \in Instances, NEW r \in Runs, NEW e,
         ExecuteCancel(i, r, e), inst[i] # "down", r \in asked', asked \subseteq asked',
         UNCHANGED <<rows, active, inst, loss, shutdown, timeout>>,
         \A m \in msgs' : m \in msgs \/ m.run \in asked'
  PROVE  Provenance'
<1> USE DEF Provenance
<1>0. \A k \in Jobs : job[k] \in JobState
  BY DEF TypeOK, JobsOK
<1>1. ASSUME NEW k \in Jobs
      PROVE  \/ job'[k] = job[k]
             \/ job'[k] = Cancelled(job[k]) /\ job[k].run = r
  <2>1. CASE active[i][r] = NoJob
    BY <2>1 DEF ExecuteCancel
  <2>2. CASE active[i][r] # NoJob
    <3>1. active[i][r] \in Jobs /\ job[active[i][r]].run = r
      BY <2>2 DEF TypeOK, RegistriesOK, Registry, Registered
    <3>2. job' = [job EXCEPT ![active[i][r]] = Cancelled(job[active[i][r]])]
      BY <2>2 DEF ExecuteCancel
    <3> QED BY <3>1, <3>2 DEF TypeOK, JobsOK
  <2> QED BY <2>1, <2>2
<1>2. ASSUME NEW k \in Jobs
      PROVE  /\ job'[k].pc = job[k].pc /\ job'[k].run = job[k].run
             /\ job'[k].out = job[k].out
  BY <1>0, <1>1 DEF Cancelled, JobState
<1>3. \A k \in Jobs : Follows(job[k], job'[k]) /\ Works(job[k], job'[k]) /\ Sleeps(k)
  BY <1>2 DEF Follows, Works, Sleeps
<1>4. Registry' /\ Finding' /\ Rest'
  BY <1>3, RegistryKept, FindingKept, RestKept
<1>5. Asked'
  <2>1. \A n \in Instances : explicit'[n] \subseteq explicit[n] \cup asked'
    BY DEF ExecuteCancel, TypeOK, RegistriesOK
  <2> QED BY <2>1, AskedKept
<1>6. Reasons'
  <2> SUFFICES ASSUME NEW k \in Jobs PROVE Reasoned(k)'
    BY DEF Reasons
  <2>1. Reasoned(k)
    BY DEF Reasons
  <2>2. CASE job'[k] = job[k]
    BY <2>1, <2>2 DEF Reasoned, Excused, Host
  <2>3. CASE job[k].run = r
    BY <1>2, <2>3 DEF Reasoned, Excused, Host
  <2> QED BY <1>1, <2>2, <2>3
<1>7. InterruptedOnlyIfAsked'
  BY SparesNone, InterruptedKept
<1> QED BY <1>4, <1>5, <1>6, <1>7

LEMMA CommandProvenance ==
  ASSUME TypeOK, Provenance
  PROVE  /\ \A m \in msgs : HandleCancelCommand(m) \/ LoseCancelCommand(m) => Provenance'
         /\ \A i \in Instances, r \in Runs : InterruptLocally(i, r) => Provenance'
<1>1. ASSUME NEW m \in msgs, HandleCancelCommand(m) PROVE Provenance'
  <2>1. m.inst \in Instances /\ m.run \in Runs /\ m.run \in asked
    BY DEF TypeOK, TrafficOK, Provenance, Asked
  <2>2. /\ ExecuteCancel(m.inst, m.run, m.emit) /\ inst[m.inst] # "down"
        /\ UNCHANGED <<rows, active, inst, loss, shutdown, timeout>>
        /\ asked' = asked /\ msgs' \subseteq msgs
    BY <1>1 DEF HandleCancelCommand, table, process, requests
  <2> QED BY <2>1, <2>2, CancelProvenance
<1>2. ASSUME NEW i \in Instances, NEW r \in Runs, InterruptLocally(i, r) PROVE Provenance'
  <2>1. /\ ExecuteCancel(i, r, TRUE) /\ inst[i] # "down"
        /\ UNCHANGED <<rows, active, inst, loss, shutdown, timeout>>
        /\ asked' = asked \cup {r} /\ msgs' = msgs
    BY <1>2 DEF InterruptLocally, table, process
  <2> QED BY <2>1, CancelProvenance
<1>3. ASSUME NEW m \in msgs, LoseCancelCommand(m) PROVE Provenance'
  <2>1. /\ UNCHANGED <<job, active, inst, explicit>>
        /\ UNCHANGED <<loss, shutdown, timeout>>
        /\ UNCHANGED rows /\ asked' = asked /\ msgs' \subseteq msgs
    BY <1>3 DEF LoseCancelCommand, table, sets, process, requests
  <2>2. \A k \in Jobs : Ordinary(k)
    BY <2>1, OrdinaryNone
  <2> QED BY <2>1, <2>2, RegistryKept, FindingKept, RestKept, AskedKept, ReasonsKept, ExcusesKept,
             InterruptedKept, SparesNone DEF Ordinary, Provenance
<1> QED BY <1>1, <1>2, <1>3

(* What a slot writes to the table. *)
LEMMA JobSpares ==
  ASSUME TypeOK, Provenance, NEW j \in Jobs, asked' = asked,
         \/ JobStep(j) \/ LoopStep(j) \/ Heartbeat(j) \/ Timeout(j) \/ PollPostgres(j)
         \/ PushBackFails(j) \/ SignalEndFails(j) \/ DbError(j)
  PROVE  \A r \in Runs : Spares(rows[r], rows'[r]) \/ r \in asked'
<1> DEFINE Goal == \A r \in Runs : Spares(rows[r], rows'[r]) \/ r \in asked'
           a == RowOf(j)
           w == WorkerOf[j]
           s == job[j].run
<1> HIDE DEF Goal
<1>0. /\ w \in Workers
      /\ job[j].pc # "free" => s \in Runs /\ a \in Row
  BY HostType, RunType DEF RowOf, TypeOK, RowsOK
<1>a. ASSUME job[j].pc # "free", NEW row, Spares(a, row) \/ s \in asked,
             rows' = [rows EXCEPT ![s] = row] \/ Applied(j, row)
      PROVE  Goal
  <2>1. CASE UNCHANGED rows
    BY <2>1, SparesNone DEF Goal
  <2>2. CASE rows' = [rows EXCEPT ![s] = row]
    BY <1>0, <1>a, <2>2, SparesRow DEF Goal, RowOf
  <2> QED BY <1>a, <2>1, <2>2 DEF Applied
<1>b. ASSUME UNCHANGED rows PROVE Goal
  BY <1>b, SparesNone DEF Goal
<1>c. job[j].pc = "cfinal" => job[j].out \in {"error", "interrupted"}
                              /\ (job[j].out = "interrupted" => s \in asked)
  BY DEF TypeOK, JobsOK, JobState, Provenance, Reasons, Reasoned
<1>1. ASSUME Acquire(j) \/ CancelledInAcquire(j) PROVE Goal
  <2>1. \/ job[j].pc # "free" /\ rows' = [rows EXCEPT ![s] = Claim(a, w)]
        \/ job[j].pc # "free" /\ Applied(j, Claim(a, w))
        \/ job[j].pc # "free" /\ Applied(j, FailCorrupt(a, w))
        \/ UNCHANGED rows
    BY <1>1 DEF Acquire, CancelledInAcquire, RowOf
  <2> QED BY <1>0, <1>a, <1>b, <2>1, SparingStatements
<1>2. ASSUME ErrorCorrupt(j) PROVE Goal
  <2>1. job[j].pc # "free" /\ rows' = [rows EXCEPT ![s] = FailCorrupt(a, w)]
    BY <1>2 DEF ErrorCorrupt, RowOf
  <2> QED BY <1>0, <1>a, <2>1, SparingStatements
<1>3. ASSUME Start(j) \/ CancelledInBody(j) PROVE Goal
  <2>1. \/ job[j].pc # "free" /\ rows' = [rows EXCEPT ![s] = StartRun(a)]
        \/ job[j].pc # "free" /\ Applied(j, StartRun(a))
        \/ UNCHANGED rows
    BY <1>3 DEF Start, CancelledInBody, RowOf
  <2> QED BY <1>0, <1>a, <1>b, <2>1, SparingStatements
<1>4. ASSUME GraphCompletes(j) PROVE Goal
  <2>1. job[j].pc # "free" /\ rows' = [rows EXCEPT ![s] = FinalizeRun(a, "success")]
    BY <1>4 DEF GraphCompletes, Finalize, RowOf
  <2> QED BY <1>0, <1>a, <2>1, SparingStatements
<1>5. ASSUME FinalizeInHandler(j) \/ CancelledInHandler(j) PROVE Goal
  <2>1. \/ /\ job[j].pc = "cfinal"
           /\ \/ rows' = [rows EXCEPT ![s] = FinalizeRun(a, job[j].out)]
              \/ Applied(j, FinalizeRun(a, job[j].out))
        \/ UNCHANGED rows
    BY <1>5 DEF FinalizeInHandler, CancelledInHandler, Finalize, RowOf
  <2>2. job[j].pc = "cfinal" => Spares(a, FinalizeRun(a, job[j].out)) \/ s \in asked
    BY <1>0, <1>c, SparingStatements
  <2> QED BY <1>a, <1>b, <2>1, <2>2
<1>6. ASSUME Release(j) \/ CancelledInRelease(j) PROVE Goal
  <2>1. \/ job[j].pc # "free" /\ rows' = [rows EXCEPT ![s] = ReleaseLease(a, w)]
        \/ job[j].pc # "free" /\ Applied(j, ReleaseLease(a, w))
    BY <1>6 DEF Release, CancelledInRelease, RowOf
  <2> QED BY <1>0, <1>a, <2>1, SparingStatements
<1>7. ASSUME OuterCleanup(j) PROVE Goal
  <2>1. job[j].pc # "free" /\ rows' = [rows EXCEPT ![s] = OuterOutcome(j)]
    BY <1>7 DEF OuterCleanup, RowOf
  <2>2. \/ OuterOutcome(j) = ReleaseLease(FinalizeRun(a, "error"), w)
        \/ s \in explicit[Host(j)]
        \/ OuterOutcome(j) = a
    BY DEF OuterOutcome
  <2>3. s \in explicit[Host(j)] => s \in asked
    BY HostType DEF Provenance, Asked
  <2>4. Spares(a, OuterOutcome(j)) \/ s \in asked
    BY <1>0, <2>1, <2>2, <2>3, SparingStatements
  <2> QED BY <1>a, <2>1, <2>4
<1>8. ASSUME Heartbeat(j) PROVE Goal
  <2>1. job[j].pc # "free" /\ rows' = [rows EXCEPT ![s] = ExtendLease(a, w)]
    BY <1>8 DEF Heartbeat, RowOf
  <2> QED BY <1>0, <1>a, <2>1, SparingStatements
<1>9. Goal
  BY <1>b, <1>1, <1>2, <1>3, <1>4, <1>5, <1>6, <1>7, <1>8, QuietJob DEF JobStep, LoopStep
<1> QED BY <1>9 DEF Goal

(* The steps of a slot that leave the registries of its process alone. *)
LEMMA PlainProvenance ==
  ASSUME TypeOK, Provenance, NEW j \in Jobs,
         \/ CancelledUnborn(j) \/ Acquire(j) \/ ErrorCorrupt(j) \/ ExecuteRun(j)
         \/ Start(j) \/ GraphCompletes(j) \/ GraphRaises(j) \/ FinalizeInHandler(j)
         \/ SignalEnd(j) \/ SignalEndFails(j) \/ Release(j) \/ OuterCleanup(j)
         \/ CancelledInAcquire(j) \/ CancelledBeforeStart(j) \/ CancelledInHandler(j)
         \/ CancelledInRelease(j) \/ LoopStep(j) \/ PollPostgres(j) \/ PushBackFails(j)
         \/ DbError(j)
  PROVE  Provenance'
<1>1. /\ UNCHANGED <<active, inst, explicit, msgs, asked>>
      /\ UNCHANGED <<loss, shutdown, timeout>>
  BY DEF sets, process, requests, CancelledUnborn, Acquire, ErrorCorrupt, ExecuteRun, Start,
     GraphCompletes, GraphRaises, FinalizeInHandler, SignalEnd, SignalEndFails, Release,
     OuterCleanup, CancelledInAcquire, CancelledBeforeStart, CancelledInHandler,
     CancelledInRelease, LoopStep, Dequeue, DequeueWhileStopping, PushBack, PollPostgres,
     PushBackFails, DbError
<1>2. \A k \in Jobs : Ordinary(k)
  BY OrdinaryJob
<1>3. \A r \in Runs : Spares(rows[r], rows'[r]) \/ r \in asked'
  BY <1>1, JobSpares DEF JobStep
<1> QED BY <1>1, <1>2, <1>3, RegistryKept, FindingKept, RestKept, AskedKept, ReasonsKept, ExcusesKept,
           InterruptedKept DEF Ordinary, Provenance

LEMMA BeginProvenance ==
  ASSUME TypeOK, Provenance, NoTwins, NEW j \in Jobs, Begin(j) PROVE Provenance'
<1>1. /\ UNCHANGED <<inst, explicit, msgs, asked, rows>>
      /\ UNCHANGED <<loss, shutdown, timeout>> /\ job[j].pc = "created"
  BY DEF sets, process, requests, table, Begin
<1>2. /\ \A k \in Jobs \ {j} : job'[k] = job[k]
      /\ job'[j].run = job[j].run /\ job'[j].pc = "acquire" /\ ~job'[j].kill
  BY DEF Begin, Goto, TypeOK, JobsOK, JobState
<1>3. \A k \in Jobs : Follows(job[k], job'[k]) /\ Calm(job[k], job'[k]) /\ Sleeps(k)
  BY <1>1, <1>2 DEF Follows, Calm, Sleeps, Begun
<1>4. job[j].run \in Runs /\ Host(j) \in Instances
  BY <1>1, RunType, HostType
<1>5. \A i \in Instances : \A r \in Runs :
        active'[i][r] = IF i = Host(j) /\ r = job[j].run THEN j ELSE active[i][r]
  BY <1>4 DEF Begin, TypeOK, RegistriesOK
<1>6. ASSUME NEW i \in Instances, NEW r \in Runs PROVE Registered(i, r)'
  <2>1. active[i][r] \in Jobs \cup {NoJob} /\ Registered(i, r)
    BY DEF TypeOK, RegistriesOK, Provenance, Registry
  <2>2. CASE i = Host(j) /\ r = job[j].run
    <3>1. "acquire" \in Begun
      BY DEF Begun, JobPc
    <3> QED BY <1>2, <1>5, <2>2, <3>1 DEF Registered, Host
  <2>3. CASE ~(i = Host(j) /\ r = job[j].run)
    <3>1. active'[i][r] = active[i][r]
      BY <1>5, <2>3
    <3> QED BY <1>1, <1>3, <2>1, <3>1 DEF Registered, Follows, Host
  <2> QED BY <2>2, <2>3
<1>7. ASSUME NEW k \in Jobs PROVE Findable(k)'
  <2>1. CASE k = j
    BY <1>2, <1>4, <1>5, <2>1 DEF Findable, Host
  <2>2. ASSUME k # j, job[k].pc \in Working PROVE active'[Host(k)][job[k].run] = k
    <3>1. job[k].run \in Runs /\ Host(k) \in Instances
      BY <2>2, RunType, HostType DEF Working
    <3>2. ~(Host(k) = Host(j) /\ job[k].run = job[j].run)
      BY <1>1, <2>2 DEF NoTwins, Twins, Working
    <3> QED BY <1>5, <2>2, <3>1, <3>2 DEF Provenance, Finding, Findable
  <2> QED BY <1>2, <2>1, <2>2 DEF Findable, Host
<1> QED BY <1>1, <1>3, <1>6, <1>7, RestKept, AskedKept, ReasonsKept, ExcusesKept,
           SparesNone, InterruptedKept DEF Provenance, Registry, Finding

(* The finally clauses forget why the run of job j was cancelled: nobody    *)
(* else of the process needs it.                                            *)
LEMMA ForgetReasons ==
  ASSUME TypeOK, Reasons, NoTwins, NEW j \in Jobs, job[j].pc \notin {"free", "held"},
         asked' = asked, Calm(job[j], job'[j]), job'[j].pc \notin Executing,
         \A k \in Jobs \ {j} : job'[k] = job[k],
         \A i \in Instances : Excused(i) \ {job[j].run} \subseteq Excused(i)',
         \A i \in Instances : i # Host(j) => Excused(i) \subseteq Excused(i)'
  PROVE  Reasons'
<1> SUFFICES ASSUME NEW k \in Jobs PROVE Reasoned(k)'
  BY DEF Reasons
<1>0. Reasoned(k) /\ Host(k) \in Instances
  BY HostType DEF Reasons
<1>1. CASE k = j
  BY <1>1 DEF Reasoned
<1>2. CASE k # j
  <2>1. job'[k] = job[k]
    BY <1>2
  <2>2. ASSUME job[k].kill, job[k].pc \in Executing PROVE job[k].run \in Excused(Host(k))'
    <3>1. job[k].run \in Excused(Host(k))
      BY <1>0, <2>2 DEF Reasoned
    <3>2. Host(k) = Host(j) => job[k].run # job[j].run
      BY <1>2, <2>2 DEF NoTwins, Twins
    <3>3. CASE Host(k) = Host(j)
      BY <1>0, <3>1, <3>2, <3>3 DEF Host
    <3>4. CASE Host(k) # Host(j)
      BY <1>0, <3>1, <3>4 DEF Host
    <3> QED BY <3>3, <3>4
  <2> QED BY <1>0, <2>1, <2>2 DEF Reasoned, Host
<1> QED BY <1>1, <1>2

LEMMA ForgetFinding ==
  ASSUME TypeOK, Finding, NoTwins, NEW j \in Jobs, job[j].pc \notin {"free", "held"},
         job'[j].pc \notin Working, \A k \in Jobs \ {j} : job'[k] = job[k],
         active' = [active EXCEPT ![Host(j)][job[j].run] = NoJob]
  PROVE  Finding'
<1> SUFFICES ASSUME NEW k \in Jobs, k # j, job[k].pc \in Working
             PROVE  active'[Host(k)][job[k].run] = active[Host(k)][job[k].run]
  BY DEF Finding, Findable, Host
<1>1. ~(Host(k) = Host(j) /\ job[k].run = job[j].run)
  BY DEF NoTwins, Twins, Working
<1>2. Host(k) \in Instances /\ job[k].run \in Runs
  BY RunType, HostType DEF Working
<1> QED BY <1>1, <1>2 DEF TypeOK, RegistriesOK

LEMMA LeaveProvenance ==
  ASSUME TypeOK, Provenance, NoTwins, NEW j \in Jobs, LeaveExecuteRun(j),
         job[j].pc \in Executing, UNCHANGED <<inst, msgs, asked>>,
         \A r \in Runs : Spares(rows[r], rows'[r]) \/ r \in asked'
  PROVE  Provenance'
<1>1. \A k \in Jobs : Ordinary(k)
  BY OrdinaryJob
<1>2. /\ \A i \in Instances : \A r \in Runs : active'[i][r] \in {active[i][r], NoJob}
      /\ explicit' = explicit
  BY DEF LeaveExecuteRun, TypeOK, RegistriesOK
<1>3. /\ \A k \in Jobs \ {j} : job'[k] = job[k]
      /\ job'[j].pc \notin Executing /\ job'[j].pc \notin Working
  BY DEF LeaveExecuteRun, TypeOK, JobsOK, JobState, Working
<1>4. /\ \A i \in Instances : Excused(i) \ {job[j].run} \subseteq Excused(i)'
      /\ \A i \in Instances : i # Host(j) => Excused(i) \subseteq Excused(i)'
  BY HostType DEF LeaveExecuteRun, Excused, TypeOK, RegistriesOK
<1>5. Reasons'
  BY <1>1, <1>3, <1>4, ForgetReasons DEF Provenance, Ordinary
<1>6. Finding'
  BY <1>3, ForgetFinding DEF Provenance, LeaveExecuteRun
<1> QED BY <1>1, <1>2, <1>5, <1>6, RegistryKept, RestKept, AskedKept, InterruptedKept
        DEF Ordinary, Provenance

LEMMA FinallyProvenance ==
  ASSUME TypeOK, Provenance, NoTwins, NEW j \in Jobs, Finally(j) PROVE Provenance'
<1>1. /\ LeaveExecuteRun(j) /\ job[j].pc \in Executing
      /\ UNCHANGED <<inst, msgs, asked>> /\ UNCHANGED rows
  BY DEF Finally, process, requests, table
<1> QED BY <1>1, LeaveProvenance, SparesNone

LEMMA BodyProvenance ==
  ASSUME TypeOK, Provenance, NoTwins, NEW j \in Jobs, CancelledInBody(j) PROVE Provenance'
<1>1. UNCHANGED <<inst, msgs, asked>> /\ job[j].pc \in Executing /\ job[j].kill
  BY DEF CancelledInBody, process, requests
<1>2. \A r \in Runs : Spares(rows[r], rows'[r]) \/ r \in asked'
  BY <1>1, JobSpares DEF JobStep
<1>3. CASE ResumesElsewhere(j)
  BY <1>1, <1>2, <1>3, LeaveProvenance DEF CancelledInBody
<1>4. CASE ~ResumesElsewhere(j)
  <2> DEFINE jb == [job[j] EXCEPT !.pc = "cfinal", !.kill = FALSE, !.out = CancelOutcome(j)]
  <2>1. /\ job \in [Jobs -> JobState] /\ job' = [job EXCEPT ![j] = jb]
        /\ UNCHANGED <<active, explicit>> /\ UNCHANGED <<loss, shutdown, timeout>>
    BY <1>4 DEF CancelledInBody, TypeOK, JobsOK, sets
  <2>2. /\ job'[j].run = job[j].run /\ job'[j].pc = "cfinal" /\ ~job'[j].kill
        /\ job'[j].out = CancelOutcome(j)
        /\ \A k \in Jobs \ {j} : job'[k] = job[k]
    BY <2>1 DEF JobState
  <2>3. \A k \in Jobs : Follows(job[k], job'[k]) /\ Works(job[k], job'[k]) /\ Sleeps(k)
    BY <1>1, <2>2 DEF Follows, Works, Sleeps, Working, Begun, JobPc
  <2>4. CancelOutcome(j) = "interrupted" => job[j].run \in asked
    BY <1>1, <1>4 DEF Provenance, Reasons, Reasoned, Excused, CancelOutcome, ResumesElsewhere
  <2>5. Reasons'
    <3> SUFFICES ASSUME NEW k \in Jobs PROVE Reasoned(k)'
      BY DEF Reasons
    <3>1. Reasoned(k)
      BY DEF Provenance, Reasons
    <3>2. CASE k = j
      BY <1>1, <2>2, <2>4, <3>2 DEF Reasoned
    <3>3. CASE k # j
      BY <1>1, <2>1, <2>2, <3>1, <3>3 DEF Reasoned, Excused, Host
    <3> QED BY <3>2, <3>3
  <2> QED BY <1>1, <1>2, <2>1, <2>3, <2>5, RegistryKept, FindingKept, RestKept, AskedKept,
             InterruptedKept DEF Provenance
<1> QED BY <1>3, <1>4

LEMMA EndProvenance ==
  ASSUME TypeOK, Provenance, NoTwins, NEW j \in Jobs, OuterFinally(j) PROVE Provenance'
<1>1. /\ UNCHANGED <<inst, msgs, asked>> /\ UNCHANGED rows /\ UNCHANGED loss
      /\ job[j].pc = "finish"
  BY DEF OuterFinally, process, requests, table
<1>2. /\ job'[j] = IdleJob
      /\ \A k \in Jobs \ {j} : job'[k] = job[k]
  BY DEF OuterFinally, TypeOK, JobsOK
<1>3. /\ \A i \in Instances : Excused(i) \ {job[j].run} \subseteq Excused(i)'
      /\ \A i \in Instances : i # Host(j) => Excused(i) \subseteq Excused(i)'
      /\ \A i \in Instances : explicit'[i] \subseteq explicit[i]
  BY <1>1, HostType DEF OuterFinally, Excused, TypeOK, RegistriesOK
<1>4. Calm(job[j], job'[j]) /\ job'[j].pc \notin Executing /\ job'[j].pc = "free"
  BY <1>2 DEF Calm, IdleJob
<1>5. Reasons'
  BY <1>1, <1>2, <1>3, <1>4, ForgetReasons DEF Provenance
<1>6. ASSUME NEW i \in Instances, NEW r \in Runs PROVE Registered(i, r)'
  <2>1. active[i][r] \in Jobs \cup {NoJob} /\ Registered(i, r)
    BY DEF TypeOK, RegistriesOK, Provenance, Registry
  <2>2. active'[i][r] = IF i = Host(j) /\ r = job[j].run THEN NoJob ELSE active[i][r]
    BY DEF OuterFinally, TypeOK, RegistriesOK
  <2>3. inst[i] # "down" /\ active[i][r] = j => i = Host(j) /\ r = job[j].run
    BY <2>1, JobsAssumption DEF Registered
  <2> QED BY <1>1, <1>2, <2>1, <2>2, <2>3 DEF Registered, Host
<1>7. \A k \in Jobs : Sleeps(k)
  BY <1>2, <1>4 DEF Sleeps
<1>8. Finding'
  BY <1>1, <1>2, <1>4, ForgetFinding DEF Provenance, OuterFinally, Working
<1> QED BY <1>1, <1>3, <1>5, <1>6, <1>7, <1>8, RestKept, AskedKept, InterruptedKept, SparesNone
        DEF Provenance, Registry

(* The heartbeat and the timeout say why before they cancel. *)
LEMMA InfraProvenance ==
  ASSUME TypeOK, Provenance, NEW j \in Jobs, Heartbeat(j) \/ Timeout(j) PROVE Provenance'
<1>1. /\ UNCHANGED <<inst, msgs, asked, active, explicit>> /\ UNCHANGED shutdown
      /\ job[j].pc \in Executing \cup {"release"}
  BY DEF Heartbeat, Timeout, process, requests
<1>2. \A r \in Runs : Spares(rows[r], rows'[r]) \/ r \in asked'
  BY <1>1, JobSpares
<1>3. /\ \A k \in Jobs \ {j} : job'[k] = job[k]
      /\ job'[j].pc = job[j].pc /\ job'[j].run = job[j].run /\ job'[j].out = job[j].out
      /\ \/ job'[j] = job[j]
         \/ job[j].run \in loss'[Host(j)] \cup timeout'[Host(j)]
      /\ \A i \in Instances : loss[i] \subseteq loss'[i] /\ timeout[i] \subseteq timeout'[i]
  <2>0. /\ job \in [Jobs -> JobState] /\ Host(j) \in Instances
        /\ loss \in [Instances -> SUBSET Runs] /\ timeout \in [Instances -> SUBSET Runs]
    BY HostType DEF TypeOK, JobsOK, RegistriesOK
  <2>1. CASE Heartbeat(j) /\ RowOf(j).owner = WorkerOf[j]
    BY <2>1 DEF Heartbeat
  <2>2. CASE Heartbeat(j) /\ RowOf(j).owner # WorkerOf[j]
    <3>1. /\ job' = [job EXCEPT ![j].kill = TRUE, ![j].beat = FALSE]
          /\ loss' = [loss EXCEPT ![Host(j)] = @ \cup {job[j].run}]
          /\ timeout' = timeout
      BY <2>2 DEF Heartbeat
    <3>2. job[j].run \in loss'[Host(j)] /\ \A i \in Instances : loss[i] \subseteq loss'[i]
      BY <2>0, <3>1
    <3> QED BY <2>0, <3>1, <3>2 DEF JobState
  <2>3. CASE Timeout(j)
    <3>1. /\ job' = [job EXCEPT ![j].outer = "timedout", ![j].kill = TRUE]
          /\ timeout' = [timeout EXCEPT ![Host(j)] = @ \cup {job[j].run}]
          /\ loss' = loss
      BY <2>3 DEF Timeout
    <3>2. job[j].run \in timeout'[Host(j)] /\ \A i \in Instances : timeout[i] \subseteq timeout'[i]
      BY <2>0, <3>1
    <3> QED BY <2>0, <3>1, <3>2 DEF JobState
  <2> QED BY <2>1, <2>2, <2>3
<1>4. \A k \in Jobs : Follows(job[k], job'[k]) /\ Works(job[k], job'[k]) /\ Sleeps(k)
  BY <1>1, <1>3 DEF Follows, Works, Sleeps, Begun, JobPc
<1>5. Reasons'
  <2> SUFFICES ASSUME NEW k \in Jobs PROVE Reasoned(k)'
    BY DEF Reasons
  <2>1. Reasoned(k) /\ Host(k) \in Instances
    BY HostType DEF Provenance, Reasons
  <2>2. Excused(Host(k)) \subseteq Excused(Host(k))'
    BY <1>1, <1>3, <2>1 DEF Excused, Host
  <2>3. CASE job'[k] = job[k]
    BY <1>1, <2>1, <2>2, <2>3 DEF Reasoned, Host
  <2>4. CASE k = j /\ job[j].run \in loss'[Host(j)] \cup timeout'[Host(j)]
    BY <1>1, <1>3, <2>1, <2>4 DEF Reasoned, Excused, Host
  <2> QED BY <1>3, <2>3, <2>4
<1> QED BY <1>1, <1>2, <1>4, <1>5, RegistryKept, FindingKept, RestKept, AskedKept, InterruptedKept
        DEF Provenance

(***************************************************************************)
(* Life of a process.                                                      *)
(***************************************************************************)
LEMMA InstanceSpares ==
  ASSUME TypeOK, NEW i \in Instances,
         \/ ReaperStep(i) \/ StopStep(i) \/ ReapRedisError(i) \/ PushDrainedFails(i)
         \/ Kill(i) \/ Restart(i) \/ Stop(i)
  PROVE  \A r \in Runs : Spares(rows[r], rows'[r]) \/ r \in asked'
<1>1. ASSUME ReapRecover(i) \/ Requeue(i), NEW r \in Runs PROVE Spares(rows[r], rows'[r])
  <2>1. rows'[r] \in {rows[r], RecoverCrashed(rows[r]), RequeueDrained(rows[r])}
    BY <1>1 DEF ReapRecover, Requeue
  <2>2. rows[r] \in Row
    BY DEF TypeOK, RowsOK
  <2> QED BY <2>1, <2>2, SparingStatements
<1> QED BY <1>1, QuietInstance, SparesNone DEF ReaperStep, StopStep

(* The reaper, and a stop until it cancels. *)
LEMMA QuietProvenance ==
  ASSUME TypeOK, Provenance, NEW i \in Instances,
         \/ ReaperStep(i) \/ ReapRedisError(i) \/ Stop(i) \/ Requeue(i) \/ PushDrained(i)
         \/ PushDrainedFails(i)
  PROVE  Provenance'
<1>1. /\ UNCHANGED <<job, active, explicit, msgs, asked>>
      /\ UNCHANGED <<loss, shutdown, timeout>>
  BY DEF sets, requests, ReaperStep, ReapFind, ReapRecover, ReapPush, ReapCheck,
     ReapRedisError, Stop, Requeue, PushDrained, PushDrainedFails
<1>2. ASSUME NEW n \in Instances
      PROVE  /\ inst'[n] # "down" => inst[n] # "down"
             /\ inst'[n] \in Resting => inst[n] \in Resting
  BY DEF Resting, ReaperStep, ReapFind, ReapRecover, ReapPush, ReapCheck, ReapRedisError,
     Stop, Requeue, PushDrained, PushDrainedFails, TypeOK, ProcessesOK
<1>3. \A k \in Jobs : Ordinary(k)
  BY <1>1, OrdinaryNone
<1>4. Registry' /\ Finding'
  BY <1>1, <1>2 DEF Provenance, Registry, Registered, Finding, Findable, Host
<1>5. Rest'
  BY <1>1, <1>2, HostType DEF Provenance, Rest, Rested, Host
<1>6. \A r \in Runs : Spares(rows[r], rows'[r]) \/ r \in asked'
  BY InstanceSpares DEF StopStep
<1> QED BY <1>1, <1>3, <1>4, <1>5, <1>6, AskedKept, ReasonsKept, ExcusesKept,
           InterruptedKept DEF Ordinary, Provenance

(* The drain says why before it cancels. *)
LEMMA DrainProvenance ==
  ASSUME TypeOK, Provenance, NEW i \in Instances, DrainDeadline(i) PROVE Provenance'
<1> DEFINE survivors == {job[j].run : j \in Tasks(i)} \ explicit[i]
<1>1. /\ UNCHANGED <<active, explicit, msgs, asked>> /\ UNCHANGED <<loss, timeout>>
      /\ UNCHANGED rows
      /\ shutdown' = [shutdown EXCEPT ![i] = @ \cup survivors]
      /\ job' = [j \in Jobs |-> IF j \in Tasks(i) THEN Cancelled(job[j]) ELSE job[j]]
      /\ inst' = [inst EXCEPT ![i] = "cancelling"] /\ inst[i] = "draining"
  BY DEF DrainDeadline, requests, table
<1>2. ASSUME NEW k \in Jobs
      PROVE  /\ job'[k].pc = job[k].pc /\ job'[k].run = job[k].run
             /\ job'[k].out = job[k].out
             /\ k \notin Tasks(i) => job'[k] = job[k]
  BY <1>1, ZenonT(60) DEF Cancelled, JobState, TypeOK, JobsOK
<1>3. ASSUME NEW n \in Instances
      PROVE  /\ inst'[n] # "down" => inst[n] # "down"
             /\ inst'[n] \in Resting => inst[n] \in Resting
  BY <1>1 DEF Resting, TypeOK, ProcessesOK
<1>4. Registry'
  <2> SUFFICES ASSUME NEW n \in Instances, NEW r \in Runs PROVE Registered(n, r)'
    BY DEF Registry
  <2>1. active[n][r] \in Jobs \cup {NoJob} /\ Registered(n, r)
    BY DEF TypeOK, RegistriesOK, Provenance, Registry
  <2> QED BY <1>1, <1>2, <1>3, <2>1 DEF Registered, Host
<1>5. Rest'
  BY <1>2, <1>3, HostType DEF Provenance, Rest, Rested, Host
<1>6. Reasons'
  <2> SUFFICES ASSUME NEW k \in Jobs PROVE Reasoned(k)'
    BY DEF Reasons
  <2>1. Reasoned(k) /\ Host(k) \in Instances
    BY HostType DEF Provenance, Reasons
  <2>2. Excused(Host(k)) \subseteq Excused(Host(k))'
    BY <1>1, <2>1 DEF Excused, Host, TypeOK, RegistriesOK
  <2>3. CASE k \notin Tasks(i)
    BY <1>1, <1>2, <2>1, <2>2, <2>3 DEF Reasoned, Host
  <2>4. CASE k \in Tasks(i)
    <3>1. Host(k) = i
      BY <2>4 DEF Tasks, Slots
    <3>2. job[k].run \in survivors \cup explicit[i]
      BY <2>4
    <3>3. job[k].run \in shutdown'[i] \cup asked
      BY <1>1, <2>1, <3>1, <3>2 DEF Provenance, Asked, TypeOK, RegistriesOK
    <3> QED BY <1>1, <1>2, <2>1, <3>1, <3>3 DEF Reasoned, Excused, Host
  <2> QED BY <2>3, <2>4
<1>7. Finding'
  BY <1>1, <1>2 DEF Provenance, Finding, Findable, Host
<1> QED BY <1>1, <1>4, <1>5, <1>6, <1>7, AskedKept, InterruptedKept, SparesNone
        DEF Provenance

(* A process that ends, killed or stopped, takes its jobs with it. *)
LEMMA HaltProvenance ==
  ASSUME TypeOK, Provenance, NEW i \in Instances, Kill(i) \/ StopLoops(i) PROVE Provenance'
<1>1. /\ UNCHANGED <<active, explicit, msgs, asked>> /\ UNCHANGED <<loss, shutdown, timeout>>
      /\ UNCHANGED rows
      /\ job' = [j \in Jobs |-> IF Host(j) = i THEN IdleJob ELSE job[j]]
      /\ \A n \in Instances \ {i} : inst'[n] = inst[n]
      /\ inst'[i] = "down" \/ Tasks(i) = {}
      /\ inst'[i] # "down" => inst[i] # "down"
  BY DEF Kill, StopLoops, sets, requests, table, TypeOK, ProcessesOK
<1>2. Registry'
  <2> SUFFICES ASSUME NEW n \in Instances, NEW r \in Runs, inst'[n] # "down",
                      active[n][r] # NoJob
               PROVE  Registered(n, r)'
    BY <1>1 DEF Registry, Registered
  <2>1. active[n][r] \in Jobs /\ Registered(n, r)
    BY DEF TypeOK, RegistriesOK, Provenance, Registry
  <2>2. CASE n # i
    BY <1>1, <2>1, <2>2 DEF Registered, Host
  <2>3. CASE n = i
    <3>1. active[i][r] \in Tasks(i)
      BY <1>1, <2>1, <2>3 DEF Registered, Tasks, Slots, Begun
    <3> QED BY <1>1, <2>3, <3>1
  <2> QED BY <2>2, <2>3
<1>3. Rest'
  <2> SUFFICES ASSUME NEW k \in Jobs PROVE Rested(k)'
    BY DEF Rest
  <2>1. Rested(k) /\ Host(k) \in Instances
    BY HostType DEF Provenance, Rest
  <2>2. CASE Host(k) = i
    BY <1>1, <2>2 DEF Rested, IdleJob
  <2>3. CASE Host(k) # i
    BY <1>1, <2>1, <2>3 DEF Rested, Host
  <2> QED BY <2>2, <2>3
<1>4. \A k \in Jobs : Calm(job[k], job'[k]) /\ Works(job[k], job'[k])
  BY <1>1 DEF Calm, Works, IdleJob, Working
<1> QED BY <1>1, <1>2, <1>3, <1>4, FindingKept, AskedKept, ReasonsKept, ExcusesKept,
           InterruptedKept, SparesNone DEF Provenance

(* A new process starts with empty sets and no jobs. *)
LEMMA RestartProvenance ==
  ASSUME TypeOK, Provenance, NEW i \in Instances, Restart(i) PROVE Provenance'
<1>1. /\ UNCHANGED <<job, asked, rows>> /\ msgs' \subseteq msgs /\ inst[i] = "down"
      /\ \A n \in Instances \ {i} : /\ inst'[n] = inst[n] /\ active'[n] = active[n]
                                     /\ explicit'[n] = explicit[n] /\ loss'[n] = loss[n]
                                     /\ shutdown'[n] = shutdown[n] /\ timeout'[n] = timeout[n]
      /\ inst'[i] = "up" /\ explicit'[i] = {}
      /\ active'[i] = [r \in Runs |-> NoJob]
  BY DEF Restart, requests, table, TypeOK, ProcessesOK, RegistriesOK
<1>2. Registry'
  BY <1>1 DEF Provenance, Registry, Registered, Host
<1>3. Rest'
  BY <1>1, HostType DEF Provenance, Rest, Rested, Host, Resting
<1>4. Reasons'
  <2> SUFFICES ASSUME NEW k \in Jobs PROVE Reasoned(k)'
    BY DEF Reasons
  <2>1. Reasoned(k) /\ Rested(k) /\ Host(k) \in Instances
    BY HostType DEF Provenance, Reasons, Rest
  <2>2. CASE Host(k) = i
    BY <1>1, <2>1, <2>2 DEF Rested, Reasoned, Resting
  <2>3. CASE Host(k) # i
    BY <1>1, <2>1, <2>3 DEF Reasoned, Excused, Host
  <2> QED BY <2>2, <2>3
<1>5. Asked'
  <2>1. \A n \in Instances : explicit'[n] \subseteq explicit[n] \cup asked'
    BY <1>1
  <2> QED BY <1>1, <2>1, AskedKept DEF Provenance
<1>6. Finding'
  <2> SUFFICES ASSUME NEW k \in Jobs PROVE Findable(k)'
    BY DEF Finding
  <2>1. Findable(k) /\ Rested(k) /\ Host(k) \in Instances
    BY HostType DEF Provenance, Finding, Rest
  <2>2. CASE Host(k) = i
    BY <1>1, <2>1, <2>2 DEF Rested, Findable, Resting, Working
  <2>3. CASE Host(k) # i
    BY <1>1, <2>1, <2>3 DEF Findable, Host
  <2> QED BY <2>2, <2>3
<1> QED BY <1>1, <1>2, <1>3, <1>4, <1>5, <1>6, InterruptedKept, SparesNone DEF Provenance

LEMMA ProvenanceNext ==
  ASSUME TypeOK, Provenance, NoTwins, [Next]_vars PROVE Provenance'
<1>1. CASE UNCHANGED vars
  BY <1>1 DEF vars, table, sets, process, requests, Provenance, Registry, Registered, Finding,
     Findable, Rest, Rested, Asked, Reasons, Reasoned, Excused, Host, InterruptedOnlyIfAsked
<1>2. ASSUME NEW r \in Runs, \/ PrepareRun(r) \/ Submit(r) \/ SubmitFails(r)
                             \/ InterruptReconciled(r) \/ InterruptOwned(r)
                             \/ ExpireLease(r) \/ Age(r)
                             \/ \E i \in Instances : InterruptLocally(i, r)
      PROVE  Provenance'
  BY <1>2, ApiProvenance, CommandProvenance
<1>3. ASSUME NEW m \in msgs, HandleCancelCommand(m) \/ LoseCancelCommand(m)
      PROVE  Provenance'
  BY <1>3, CommandProvenance
<1>4. ASSUME NEW j \in Jobs, \/ JobStep(j) \/ LoopStep(j) \/ Heartbeat(j) \/ Timeout(j)
                             \/ PollPostgres(j) \/ PushBackFails(j) \/ SignalEndFails(j)
                             \/ DbError(j)
      PROVE  Provenance'
  BY <1>4, PlainProvenance, BeginProvenance, FinallyProvenance, BodyProvenance,
     EndProvenance, InfraProvenance DEF JobStep
<1>5. ASSUME NEW i \in Instances, \/ ReaperStep(i) \/ StopStep(i) \/ ReapRedisError(i)
                                  \/ PushDrainedFails(i) \/ Kill(i) \/ Restart(i) \/ Stop(i)
      PROVE  Provenance'
  BY <1>5, QuietProvenance, DrainProvenance, HaltProvenance, RestartProvenance DEF StopStep
<1>6. CASE Next
  BY <1>6, <1>2, <1>3, <1>4, <1>5 DEF Next
<1> QED BY <1>1, <1>6

LEMMA ProvenanceInit == Init => Provenance
BY DEF Init, Provenance, Registry, Registered, Finding, Findable, Rest, Rested, Asked,
       Reasons, Reasoned, InterruptedOnlyIfAsked, IdleJob, AbsentRow, Resting, Working

(* A drain, a timeout, a lost lease or a failing statement never makes a    *)
(* run look as if a user had interrupted it, on any number of servers and   *)
(* slots and under any faults, as long as no process executes two tasks of  *)
(* one run: the sets of run_executor.py hold run ids, and the first of two  *)
(* such tasks to end would take the other one's reason away.                *)
THEOREM InterruptsAreAsked == Spec /\ []NoTwins => []InterruptedOnlyIfAsked
<1>1. Init => Provenance
  BY ProvenanceInit
<1>2. TypeOK /\ NoTwins /\ Provenance /\ [Next]_vars => Provenance'
  BY ProvenanceNext
<1>3. Provenance => InterruptedOnlyIfAsked
  BY DEF Provenance
<1> QED BY <1>1, <1>2, <1>3, TypeCorrect, PTL DEF Spec

(* With one slot in every process (WORKER_COUNT = N_JOBS_PER_WORKER = 1)    *)
(* there are no two such tasks, and this holds without a condition.         *)
THEOREM OneSlotProvenance ==
  ASSUME \A j, k \in Jobs : Host(j) = Host(k) => j = k
  PROVE  Spec => []InterruptedOnlyIfAsked
<1>1. NoTwins
  BY DEF NoTwins, Twins
<1> QED BY <1>1, InterruptsAreAsked, PTL
=============================================================================
