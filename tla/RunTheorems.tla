--------------------------- MODULE RunTheorems ------------------------------
(* Proofs about what a run meets outside the runs table, which MCServices runs *)
(* side by side: the ephemeral thread of a stateless run, the skills and the   *)
(* connections of the hub, the graph, the preferences, the configuration, the  *)
(* history and the events of an execution.  Each theorem is about the          *)
(* specification of one of them, so a variable that two of them name alike     *)
(* (req, row, at) stands for each in turn; what a theorem needs of the         *)
(* constants is its ASSUME.                                                    *)
EXTENDS Naturals, Sequences, FiniteSets, TLAPS, WellFoundedInduction, SequenceTheorems,
        FiniteSetTheorems

CONSTANTS
  EntryPoints,                                                   \* StatelessRuns
  Requests, Payloads, Descriptions,                              \* HubSkills
  Patches,                                                       \* HubConnections
  FlowRuns, MaxRows, MaxFlows,                                   \* HubOAuth
  GraphRequests, GraphUsers, GraphKinds, GraphEdits,             \* GraphService
  Writers, Topics, Preferences, Blocked, Retention,              \* PreferenceMemory
  MaxDays, MaxSaves,
  Bodies, AssistantRows, ConfigUsers, MaxRuns, ConfigEdits,      \* RunConfig
  MaxAttempts,
  Clients, PageLimits, MaxCheckpoints, MaxFaults,                \* ThreadState
  ModeSets, MessageIds, MaxEmits                                 \* GraphStreaming

VARIABLES
  kind, keep, remote, cancels, at, thread, run, exec, ckpt, ended, asked, cleaner, answer, why, killed,
  skill, files, req,
  conn, mixed,
  row, rows, tokens, client, pending, code, states, flow, shown, browser, purge, raced,
  file, base, factory, hook, stable, reload,
  now, item, writer, loaded, saves, noted, undone,
  assistant, edits, cron, runs,
  graph, checkpoints, head, held, pager, faults,
  modes, subgraphs, rooted, emitted, parts, whole, state, messages, out, output, interrupt

Stateless == INSTANCE StatelessRuns WITH Kinds <- EntryPoints
Skill == INSTANCE HubSkills
Connection == INSTANCE HubConnections
OAuth == INSTANCE HubOAuth WITH Runs <- FlowRuns
Graph == INSTANCE GraphService WITH
  Requests <- GraphRequests, Users <- GraphUsers, Kinds <- GraphKinds, MaxEdits <- GraphEdits
Memory == INSTANCE PreferenceMemory WITH
  Keys <- Topics, Values <- Preferences, MaxTime <- MaxDays
Config == INSTANCE RunConfig WITH Users <- ConfigUsers, MaxEdits <- ConfigEdits
State == INSTANCE ThreadState WITH Limits <- PageLimits
Stream == INSTANCE GraphStreaming WITH Ids <- MessageIds

(* The least number of a set of numbers. *)
LEMMA LeastNumber ==
  ASSUME NEW T \in SUBSET Nat, T # {}
  PROVE  \E n \in T : \A m \in T : n <= m
<1> DEFINE R == OpToRel(<, Nat)
<1>1. IsWellFoundedOn(R, Nat)
  BY NatLessThanWellFounded
<1>2. \A x, y \in Nat : x < y => <<x, y>> \in R
  BY DEF OpToRel
<1> HIDE DEF R
<1>3. PICK n \in T : \A y \in T : <<y, n>> \notin R
  BY <1>1, WFMin
<1>4. ASSUME NEW m \in T PROVE n <= m
  <2>1. m \in Nat /\ n \in Nat
    OBVIOUS
  <2>2. ~ (m < n)
    BY <1>2, <1>3, <2>1, Zenon
  <2> QED BY <2>1, <2>2, SMT
<1> QED BY <1>4

(* Induction over the numbers, for a set. *)
LEMMA EveryNumber ==
  ASSUME NEW T, 0 \in T, \A n \in Nat : n \in T => n + 1 \in T
  PROVE  Nat \subseteq T
<1> SUFFICES ASSUME Nat \ T # {} PROVE FALSE
  OBVIOUS
<1>1. PICK n \in Nat \ T : \A m \in Nat \ T : n <= m
  <2>1. (Nat \ T) \in SUBSET Nat
    OBVIOUS
  <2> QED BY <2>1, LeastNumber
<1>2. n # 0 /\ n \in Nat
  OBVIOUS
<1>3. n - 1 \in Nat /\ (n - 1) + 1 = n /\ ~(n <= n - 1)
  BY <1>2
<1>4. n - 1 \in T
  BY <1>1, <1>3
<1> QED BY <1>3, <1>4

-----------------------------------------------------------------------------
(* Stateless runs and their ephemeral threads.                               *)

(* The run and the deletion of its thread.  The graph executes for a running   *)
(* row; an end event means that the row has settled; the deletion meets an     *)
(* active run only after a wait that did not end by itself, and once it has    *)
(* passed its cancellation whatever still runs is remote and was asked.        *)
StatelessLife ==
  /\ at = "idle" => run = "none" /\ thread = "absent" /\ ~exec /\ ~ckpt /\ ~ended /\ answer = "none"
  /\ at # "closed" => cleaner = "none"
  /\ at \in {"prepared", "open"} => thread = "present"
  /\ thread = "absent" => run = "none"
  /\ exec /\ thread = "present" => run = "running"
  /\ ended => ~Stateless!Active
  /\ cleaner = "cancel" /\ Stateless!Active => why \cap Stateless!EarlyEnds # {}
  /\ cleaner \in {"checkpoints", "row"} /\ (Stateless!Active \/ exec) => remote /\ killed
  /\ cleaner = "row" /\ ckpt => remote /\ killed
  /\ thread = "absent" /\ (exec \/ ckpt) => remote /\ killed

StatelessInv ==
  /\ Stateless!TypeOK /\ StatelessLife
  /\ Stateless!NoSilentLeak /\ Stateless!ActiveRunSpared
  /\ Stateless!OutputIsFinal /\ Stateless!CheckpointsGoWithThread

LEMMA StatelessStep ==
  ASSUME StatelessInv, [Stateless!Next]_(Stateless!vars) PROVE StatelessInv'
<1> USE DEF StatelessInv, StatelessLife, Stateless!TypeOK, Stateless!Active, Stateless!NoSilentLeak,
         Stateless!ActiveRunSpared, Stateless!OutputIsFinal, Stateless!CheckpointsGoWithThread,
         Stateless!request, Stateless!history, Stateless!HasOutput, Stateless!EarlyEnds, Stateless!GivenUp
<1>1. CASE Stateless!Prepare
  BY <1>1 DEF Stateless!Prepare
<1>2. CASE Stateless!PrepareFails
  BY <1>2 DEF Stateless!PrepareFails
<1>3. CASE Stateless!ScheduleCleanup
  BY <1>3 DEF Stateless!ScheduleCleanup
<1>4. CASE Stateless!Start
  BY <1>4 DEF Stateless!Start
<1>5. CASE Stateless!Checkpoint
  BY <1>5 DEF Stateless!Checkpoint
<1>6. CASE Stateless!DrainEnd
  BY <1>6 DEF Stateless!DrainEnd
<1>7. CASE Stateless!CancelArrives
  BY <1>7, ZenonT(60) DEF Stateless!CancelArrives
<1>8. CASE Stateless!CancelLost
  <2>1. Stateless!TypeOK'
    BY <1>8 DEF Stateless!CancelLost
  <2>2. UNCHANGED <<at, thread, run, exec, ckpt, ended, cleaner, answer, why, killed, keep, remote>>
    BY <1>8 DEF Stateless!CancelLost
  <2> QED BY <2>1, <2>2
<1>9. ASSUME NEW c \in {"done", "streamError"}, Stateless!StreamEnds(c) PROVE StatelessInv'
  BY <1>9 DEF Stateless!StreamEnds, Stateless!AfterBody
<1>10. CASE Stateless!Disconnect
  BY <1>10 DEF Stateless!Disconnect, Stateless!DeletesOnDisconnect
<1>11. CASE Stateless!CancelActive
  BY <1>11 DEF Stateless!CancelActive, Stateless!Awaited
<1>12. CASE Stateless!DropCheckpoints
  BY <1>12 DEF Stateless!DropCheckpoints
<1>13. CASE Stateless!DropThread
  BY <1>13 DEF Stateless!DropThread
<1>14. CASE Stateless!DeleteFails
  BY <1>14 DEF Stateless!DeleteFails
<1>15. CASE Stateless!Crash
  BY <1>15 DEF Stateless!Crash
<1>16. ASSUME NEW s \in {"success", "error", "interrupted"}, Stateless!Finish(s) PROVE StatelessInv'
  BY <1>16 DEF Stateless!Finish
<1>17. ASSUME NEW c \in {"done", "timeout", "waitError"}, Stateless!AnswerWait(c) PROVE StatelessInv'
  BY <1>17 DEF Stateless!AnswerWait, Stateless!ResultBody, Stateless!AfterBody
<1>18. ASSUME NEW c \in {"done", "timeout", "waitError", "shutdown"}, Stateless!CleanupWaited(c) PROVE StatelessInv'
  BY <1>18 DEF Stateless!CleanupWaited
<1>19. CASE UNCHANGED Stateless!vars
  BY <1>19 DEF Stateless!vars
<1>20. CASE Stateless!AnswerFails
  BY <1>20 DEF Stateless!AnswerFails
<1> QED
  BY <1>1, <1>2, <1>3, <1>4, <1>5, <1>6, <1>7, <1>8, <1>9, <1>10, <1>11, <1>12, <1>13, <1>14, <1>15, <1>16, <1>17, <1>18, <1>19, <1>20 DEF Stateless!Next

(* StatelessRuns, for every entry point: an ephemeral thread is only left      *)
(* behind for a known reason, an active run is only killed when waiting for it *)
(* ended early, it could not be queued or its stream broke off, the output     *)
(* that is returned is final, and no checkpoint outlives its thread but those  *)
(* of a remote run that was asked to stop.                                     *)
THEOREM EphemeralThreadsAreSettled ==
  Stateless!Spec => [](/\ Stateless!TypeOK /\ Stateless!NoSilentLeak /\ Stateless!ActiveRunSpared
                       /\ Stateless!OutputIsFinal /\ Stateless!CheckpointsGoWithThread)
<1>1. Stateless!Init => StatelessInv
  BY DEF Stateless!Init, StatelessInv, StatelessLife, Stateless!TypeOK, Stateless!Active,
         Stateless!NoSilentLeak, Stateless!ActiveRunSpared, Stateless!OutputIsFinal,
         Stateless!CheckpointsGoWithThread, Stateless!EarlyEnds, Stateless!GivenUp
<1>2. StatelessInv /\ [Stateless!Next]_(Stateless!vars) => StatelessInv'
  BY StatelessStep
<1> QED
  BY <1>1, <1>2, PTL DEF Stateless!Spec, StatelessInv

-----------------------------------------------------------------------------
(* The skills of the hub.                                                     *)

(* Everything rests on one fact about READ COMMITTED and the   *)
(* code's DELETE-then-INSERT: what a DELETE has seen of the stored files   *)
(* is all of them or, once another save has committed, none.               *)
SkillFile == [path : UNION Payloads, from : Requests]
SkillRow ==
  [row : Requests, desc : Descriptions,
   by : [from : Requests, paths : Payloads, desc : Descriptions, late : BOOLEAN]]
SkillTransaction ==
  [at : {"idle", "save", "insert", "snapshot", "delete", "flush", "drop", "cascade", "done"},
   paths : Payloads \cup {{}}, desc : Descriptions \cup {"none"},
   read : SkillRow \cup {Skill!None},
   sees : SUBSET SkillFile, drops : SUBSET SkillFile]

(* A transaction that writes files has a payload with a SKILL.md, and one that *)
(* replaces files has found a row.                                             *)
SkillValid(t) ==
  /\ t.at \in {"save", "insert", "snapshot", "delete", "flush"} =>
       "SKILL.md" \in t.paths /\ t.desc \in Descriptions
  /\ t.at \in {"snapshot", "delete"} => t.read # Skill!None

(* All or nothing: what a DELETE has seen, or holds, of the stored files. *)
SkillWhole(t) ==
  /\ t.sees \cap files # {} => files \subseteq t.sees
  /\ t.drops \cap files # {} => files \subseteq t.drops

(* A file, stored, seen or held, was written by a request that is over. *)
SkillWritten(f) == f.from \in Requests /\ req[f.from].at = "done"

SkillShape ==
  /\ skill \in SkillRow \cup {Skill!None}
  /\ files \in SUBSET SkillFile
  /\ req \in [Requests -> SkillTransaction]

SkillTransactions ==
  \A r \in Requests :
    /\ SkillValid(req[r]) /\ SkillWhole(req[r])
    /\ \A f \in req[r].sees \cup req[r].drops : SkillWritten(f)

(* The unique index on the name: one uncommitted INSERT, and none of a skill   *)
(* that is there.                                                              *)
SkillInserts ==
  /\ \A q, r \in Requests : Skill!Inserting(q) /\ Skill!Inserting(r) => q = r
  /\ \A r \in Requests : Skill!Inserting(r) => skill = Skill!None

SkillStored ==
  /\ \A f \in files : SkillWritten(f)
  /\ files = {[path |-> p, from |-> skill.by.from] : p \in skill.by.paths}
  /\ skill # Skill!None => "SKILL.md" \in skill.by.paths
  /\ ~skill.by.late => skill.desc = skill.by.desc

SkillInv == SkillShape /\ SkillTransactions /\ SkillInserts /\ SkillStored

(* A step of one transaction that leaves the tables alone: it keeps, forgets   *)
(* or takes in what is stored, and becomes an INSERT only of a skill that      *)
(* nobody has or inserts.                                                      *)
LEMMA SkillMoves ==
  ASSUME SkillInv, UNCHANGED <<skill, files>>, NEW r \in Requests, NEW t \in SkillTransaction,
         req' = [req EXCEPT ![r] = t], req[r].at = "done" => t.at = "done",
         SkillValid(t), SkillWhole(t),
         t.sees \subseteq req[r].sees \cup files, t.drops \subseteq req[r].drops \cup files,
         t.at = "flush" /\ t.read = Skill!None =>
           skill = Skill!None /\ ~\E q \in Requests : Skill!Inserting(q)
  PROVE  SkillInv'
<1>1. /\ req' \in [Requests -> SkillTransaction]
      /\ \A q \in Requests : req'[q] = IF q = r THEN t ELSE req[q]
  BY DEF SkillInv, SkillShape
<1>2. SkillShape'
  BY <1>1 DEF SkillInv, SkillShape, Skill!None
<1>3. \A f : SkillWritten(f) => SkillWritten(f)'
  BY <1>1 DEF SkillWritten
<1>4. SkillTransactions'
  <2> SUFFICES ASSUME NEW q \in Requests
               PROVE  /\ SkillValid(req'[q]) /\ SkillWhole(req[q])'
                      /\ \A f \in req'[q].sees \cup req'[q].drops : SkillWritten(f)'
    BY DEF SkillTransactions, SkillValid
  <2>1. CASE q # r
    BY <1>1, <1>3, <2>1 DEF SkillInv, SkillTransactions, SkillWhole
  <2>2. CASE q = r
    <3>1. \A f \in t.sees \cup t.drops : SkillWritten(f)
      BY DEF SkillInv, SkillTransactions, SkillStored
    <3> QED
      BY <1>1, <1>3, <2>2, <3>1 DEF SkillWhole
  <2> QED
    BY <2>1, <2>2
<1>5. SkillInserts'
  BY <1>1 DEF SkillInv, SkillInserts, Skill!Inserting, Skill!None
<1>6. SkillStored'
  BY <1>3 DEF SkillInv, SkillStored, Skill!None
<1> QED
  BY <1>2, <1>4, <1>5, <1>6 DEF SkillInv

(* The end of a request. *)
LEMMA SkillOver ==
  LET t == [Skill!Idle EXCEPT !.at = "done"] IN
  t \in SkillTransaction /\ t.at = "done" /\ t.sees = {} /\ t.drops = {}
BY DEF Skill!Idle, SkillTransaction

LEMMA SkillEnds ==
  ASSUME SkillInv, UNCHANGED <<skill, files>>, NEW r \in Requests, Skill!Done(r)
  PROVE  SkillInv'
<1> DEFINE t == [Skill!Idle EXCEPT !.at = "done"]
<1>1. t \in SkillTransaction /\ t.at = "done" /\ t.sees = {} /\ t.drops = {}
  BY SkillOver
<1>2. req' = [req EXCEPT ![r] = t]
  BY DEF Skill!Done
<1> HIDE DEF t
<1>3. SkillValid(t) /\ SkillWhole(t)
  BY <1>1 DEF SkillValid, SkillWhole
<1> QED
  BY <1>1, <1>2, <1>3, SkillMoves

(* The steps before the flush, and those of an uninstall before its cascade.   *)
LEMMA SkillReads ==
  ASSUME SkillInv, NEW r \in Requests, "none" \notin Requests,
         \/ \E paths \in Payloads, desc \in Descriptions : Skill!Install(r, paths, desc)
         \/ Skill!ReadRow(r) \/ Skill!InsertSkill(r) \/ Skill!SnapshotFiles(r)
         \/ Skill!DeleteFiles(r) \/ Skill!Uninstall(r) \/ Skill!DropSkill(r)
  PROVE  SkillInv'
<1>1. /\ req[r] \in SkillTransaction /\ SkillValid(req[r]) /\ SkillWhole(req[r])
      /\ files \in SUBSET SkillFile
  BY DEF SkillInv, SkillShape, SkillTransactions
<1>2. /\ skill \in SkillRow \cup {Skill!None}
      /\ \A x \in SkillRow \cup {Skill!None} : x # Skill!None <=> x.row # "none"
  BY DEF SkillInv, SkillShape, SkillRow, Skill!None
<1>3. ASSUME NEW paths \in Payloads, NEW desc \in Descriptions, Skill!Install(r, paths, desc)
      PROVE  SkillInv'
  <2> DEFINE t == [Skill!Idle EXCEPT !.at = "save", !.paths = paths, !.desc = desc, !.read = skill]
  <2>1. req' = [req EXCEPT ![r] = t] /\ UNCHANGED <<skill, files>> /\ "SKILL.md" \in paths
        /\ req[r].at = "idle"
    BY <1>3 DEF Skill!Install, Skill!Valid
  <2>2. /\ t \in SkillTransaction /\ t.at = "save" /\ t.paths = paths /\ t.desc = desc
        /\ t.sees = {} /\ t.drops = {}
    BY <1>2 DEF Skill!Idle, SkillTransaction
  <2> HIDE DEF t
  <2>3. SkillValid(t) /\ SkillWhole(t)
    BY <2>1, <2>2 DEF SkillValid, SkillWhole
  <2> QED
    BY <2>1, <2>2, <2>3, SkillMoves
<1>4. CASE Skill!ReadRow(r)
  <2> DEFINE object == IF req[r].read.row = skill.row THEN req[r].read ELSE skill
             t == [req[r] EXCEPT !.at = IF skill = Skill!None THEN "insert" ELSE "snapshot",
                                 !.read = object]
  <2>1. req' = [req EXCEPT ![r] = t] /\ UNCHANGED <<skill, files>> /\ req[r].at = "save"
    BY <1>1, <1>4 DEF Skill!ReadRow, SkillInv, SkillShape
  <2>0. object \in SkillRow \cup {Skill!None} /\ (object = Skill!None <=> skill = Skill!None)
    <3>1. req[r].read \in SkillRow \cup {Skill!None}
      BY <1>1 DEF SkillTransaction
    <3> QED BY <1>2, <3>1
  <2> HIDE DEF object
  <2>2. /\ t \in SkillTransaction /\ t.paths = req[r].paths /\ t.desc = req[r].desc /\ t.read = object
        /\ t.at = IF skill = Skill!None THEN "insert" ELSE "snapshot"
        /\ t.sees = req[r].sees /\ t.drops = req[r].drops
    BY <1>1, <2>0 DEF SkillTransaction
  <2> HIDE DEF t
  <2>3. SkillValid(t) /\ SkillWhole(t)
    BY <1>1, <2>0, <2>1, <2>2 DEF SkillValid, SkillWhole
  <2> QED
    BY <2>1, <2>2, <2>3, SkillMoves
<1>5. CASE Skill!InsertSkill(r)
  <2> DEFINE t == [req[r] EXCEPT !.at = "flush"]
  <2>1. CASE skill # Skill!None
    BY <1>5, <2>1, SkillEnds DEF Skill!InsertSkill
  <2>2. CASE skill = Skill!None
    <3>1. /\ req' = [req EXCEPT ![r] = t] /\ UNCHANGED <<skill, files>> /\ req[r].at = "insert"
          /\ ~\E q \in Requests : Skill!Inserting(q)
      BY <1>5, <2>2 DEF Skill!InsertSkill, Skill!Goto, SkillInv, SkillShape
    <3>2. /\ t \in SkillTransaction /\ t.paths = req[r].paths /\ t.desc = req[r].desc /\ t.read = req[r].read
          /\ t.at = "flush" /\ t.sees = req[r].sees /\ t.drops = req[r].drops
      BY <1>1 DEF SkillTransaction
    <3> HIDE DEF t
    <3>3. SkillValid(t) /\ SkillWhole(t)
      BY <1>1, <3>1, <3>2 DEF SkillValid, SkillWhole
    <3> QED
      BY <2>2, <3>1, <3>2, <3>3, SkillMoves
  <2> QED
    BY <2>1, <2>2
<1>6. CASE Skill!SnapshotFiles(r)
  <2> DEFINE seen == IF req[r].read.row = skill.row THEN files ELSE {}
             t == [req[r] EXCEPT !.at = "delete", !.sees = seen]
  <2>1. req' = [req EXCEPT ![r] = t] /\ UNCHANGED <<skill, files>> /\ req[r].at = "snapshot"
    BY <1>6 DEF Skill!SnapshotFiles, SkillInv, SkillShape
  <2>2. /\ t \in SkillTransaction /\ t.paths = req[r].paths /\ t.desc = req[r].desc /\ t.read = req[r].read
        /\ t.at = "delete" /\ t.sees = seen /\ t.drops = req[r].drops
    BY <1>1 DEF SkillTransaction
  <2> HIDE DEF t
  <2>3. SkillValid(t) /\ SkillWhole(t)
    BY <1>1, <2>1, <2>2 DEF SkillValid, SkillWhole
  <2> QED
    BY <2>1, <2>2, <2>3, SkillMoves
<1>7. CASE Skill!DeleteFiles(r)
  <2> DEFINE t == [req[r] EXCEPT !.at = "flush", !.drops = req[r].sees \cap files]
  <2>1. req' = [req EXCEPT ![r] = t] /\ UNCHANGED <<skill, files>> /\ req[r].at = "delete"
    BY <1>7 DEF Skill!DeleteFiles, SkillInv, SkillShape
  <2>2. /\ t \in SkillTransaction /\ t.paths = req[r].paths /\ t.desc = req[r].desc /\ t.read = req[r].read
        /\ t.at = "flush" /\ t.sees = req[r].sees /\ t.drops = req[r].sees \cap files
    BY <1>1 DEF SkillTransaction
  <2> HIDE DEF t
  <2>3. SkillValid(t) /\ SkillWhole(t) /\ t.read # Skill!None
    BY <1>1, <2>1, <2>2 DEF SkillValid, SkillWhole
  <2> QED
    BY <2>1, <2>2, <2>3, SkillMoves
<1>8. CASE Skill!Uninstall(r)
  <2> DEFINE t == [Skill!Idle EXCEPT !.at = "drop", !.read = skill]
  <2>1. req' = [req EXCEPT ![r] = t] /\ UNCHANGED <<skill, files>> /\ req[r].at = "idle"
    BY <1>8 DEF Skill!Uninstall
  <2>2. t \in SkillTransaction /\ t.at = "drop" /\ t.sees = {} /\ t.drops = {}
    BY <1>2 DEF Skill!Idle, SkillTransaction
  <2> HIDE DEF t
  <2>3. SkillValid(t) /\ SkillWhole(t)
    BY <2>2 DEF SkillValid, SkillWhole
  <2> QED
    BY <2>1, <2>2, <2>3, SkillMoves
<1>9. CASE Skill!DropSkill(r)
  <2> DEFINE t == [req[r] EXCEPT !.at = "cascade"]
  <2>1. CASE req[r].read.row # skill.row
    BY <1>9, <2>1, SkillEnds DEF Skill!DropSkill
  <2>2. CASE req[r].read.row = skill.row
    <3>1. req' = [req EXCEPT ![r] = t] /\ UNCHANGED <<skill, files>> /\ req[r].at = "drop"
      BY <1>9, <2>2 DEF Skill!DropSkill, Skill!Goto, SkillInv, SkillShape
    <3>2. /\ t \in SkillTransaction /\ t.at = "cascade" /\ t.sees = req[r].sees
          /\ t.drops = req[r].drops
      BY <1>1 DEF SkillTransaction
    <3> HIDE DEF t
    <3>3. SkillValid(t) /\ SkillWhole(t)
      BY <1>1, <3>2 DEF SkillValid, SkillWhole
    <3> QED
      BY <3>1, <3>2, <3>3, SkillMoves
  <2> QED
    BY <2>1, <2>2
<1> QED
  BY <1>3, <1>4, <1>5, <1>6, <1>7, <1>8, <1>9

(* A step that ends r and writes the tables, with files of r alone or none:    *)
(* what the other transactions have seen is not among them.                    *)
LEMMA SkillWrites ==
  ASSUME SkillInv, NEW r \in Requests, Skill!Done(r), req[r].at # "done",
         files' \in SUBSET SkillFile, \A f \in files' : f.from = r
  PROVE  /\ req' \in [Requests -> SkillTransaction] /\ req'[r].at = "done"
         /\ \A q \in Requests \ {r} : req'[q] = req[q]
         /\ SkillTransactions' /\ \A f \in files' : SkillWritten(f)'
<1> DEFINE t == [Skill!Idle EXCEPT !.at = "done"]
<1>1. t \in SkillTransaction /\ t.at = "done" /\ t.sees = {} /\ t.drops = {}
  BY SkillOver
<1>2. req' = [req EXCEPT ![r] = t]
  BY DEF Skill!Done
<1> HIDE DEF t
<1>3. req' \in [Requests -> SkillTransaction] /\ \A q \in Requests : req'[q] = IF q = r THEN t ELSE req[q]
  BY <1>1, <1>2 DEF SkillInv, SkillShape
<1>4. \A f : SkillWritten(f) => SkillWritten(f)' /\ f.from # r
  BY <1>1, <1>3 DEF SkillWritten
<1>5. ASSUME NEW q \in Requests
      PROVE  /\ SkillValid(req'[q]) /\ SkillWhole(req[q])'
             /\ \A f \in req'[q].sees \cup req'[q].drops : SkillWritten(f)'
  <2>1. CASE q = r
    BY <1>1, <1>3, <2>1 DEF SkillValid, SkillWhole
  <2>2. CASE q # r
    <3>1. /\ SkillValid(req[q]) /\ req'[q] = req[q]
          /\ \A f \in req[q].sees \cup req[q].drops : SkillWritten(f)
      BY <1>3, <2>2 DEF SkillInv, SkillTransactions
    <3>2. req[q].sees \cap files' = {} /\ req[q].drops \cap files' = {}
      BY <1>4, <3>1
    <3> QED
      BY <1>4, <3>1, <3>2 DEF SkillWhole
  <2> QED
    BY <2>1, <2>2
<1>6. SkillTransactions'
  BY <1>5 DEF SkillTransactions, SkillValid
<1>7. \A f \in files' : SkillWritten(f)'
  BY <1>1, <1>3 DEF SkillWritten, SkillFile
<1> QED
  BY <1>1, <1>3, <1>6, <1>7

(* The save: the SKILL.md of the payload clashes with the one that is stored   *)
(* unless the DELETE holds every stored file.                                  *)
LEMMA SkillSaves ==
  ASSUME SkillInv, NEW r \in Requests, "none" \notin Requests, Skill!Save(r)
  PROVE  SkillInv'
<1> DEFINE left == files \ req[r].drops
           new == {[path |-> p, from |-> r] : p \in req[r].paths}
<1>1. CASE UNCHANGED <<skill, files>>
  BY <1>1, SkillEnds DEF Skill!Save
<1>2. CASE /\ ~(req[r].read # Skill!None /\ req[r].read.row # skill.row)
           /\ ~Skill!Clash(left, req[r].paths)
           /\ skill' = [row |-> IF req[r].read = Skill!None THEN r ELSE skill.row,
                        desc |-> Skill!Written(req[r].read.desc, req[r].desc),
                        by |-> [from |-> r, paths |-> req[r].paths, desc |-> req[r].desc,
                                late |-> req[r].read # skill]]
           /\ files' = left \cup new
  <2>1. /\ req[r] \in SkillTransaction /\ SkillValid(req[r]) /\ SkillWhole(req[r])
        /\ files \in SUBSET SkillFile /\ req[r].at = "flush" /\ Skill!Done(r)
        /\ skill \in SkillRow \cup {Skill!None}
    BY DEF SkillInv, SkillShape, SkillTransactions, Skill!Save
  <2>2. "SKILL.md" \in req[r].paths /\ req[r].paths \in Payloads /\ req[r].desc \in Descriptions
    BY <2>1 DEF SkillValid, SkillTransaction
  <2>3. req[r].read = Skill!None => Skill!Inserting(r)
    BY <2>1 DEF Skill!Inserting
  <2>4. req[r].read # Skill!None => skill # Skill!None /\ skill \in SkillRow
    <3>1. req[r].read # Skill!None => req[r].read.row \in Requests
      BY <2>1 DEF SkillTransaction, SkillRow
    <3>2. Skill!None.row = "none"
      BY DEF Skill!None
    <3> QED BY <1>2, <2>1, <3>1, <3>2
  <2>5. left = {}
    <3>1. CASE req[r].read = Skill!None
      <4>1. skill = Skill!None
        BY <2>3, <3>1 DEF SkillInv, SkillInserts
      <4> QED BY <4>1 DEF SkillInv, SkillStored, Skill!None, Skill!NoInstall
    <3>2. CASE req[r].read # Skill!None
      <4>1. PICK f \in files : f.path = "SKILL.md"
        <5>1. [path |-> "SKILL.md", from |-> skill.by.from] \in files
          BY <2>4, <3>2 DEF SkillInv, SkillStored
        <5> QED BY <5>1
      <4>2. f \notin left
        BY <1>2, <2>2, <4>1 DEF Skill!Clash
      <4> QED
        BY <2>1, <4>1, <4>2 DEF SkillWhole
    <3> QED
      BY <3>1, <3>2
  <2>6. files' = new
    BY <1>2, <2>5
  <2>7. files' \in SUBSET SkillFile /\ \A f \in files' : f.from = r
    <3>2. \A p \in req[r].paths : p \in UNION Payloads
      BY <2>2
    <3>3. new \in SUBSET SkillFile /\ \A f \in new : f.from = r
      BY <3>2 DEF SkillFile
    <3> HIDE DEF new
    <3> QED
      BY <2>6, <3>3
  <2>8. /\ skill' \in SkillRow /\ skill'.by.from = r /\ skill'.by.paths = req[r].paths
        /\ ~skill'.by.late => skill'.desc = skill'.by.desc
    <3> DEFINE d == Skill!Written(req[r].read.desc, req[r].desc)
               id == IF req[r].read = Skill!None THEN r ELSE skill.row
               late == req[r].read # skill
    <3>1. d \in Descriptions
      <4>1. CASE req[r].read = Skill!None
        <5>1. skill = Skill!None
          BY <2>3, <4>1 DEF SkillInv, SkillInserts
        <5> QED BY <2>2, <4>1, <5>1 DEF Skill!Written
      <4>2. CASE req[r].read # Skill!None
        BY <2>2, <2>4, <4>2 DEF Skill!Written, SkillRow
      <4> QED BY <4>1, <4>2
    <3>2. id \in Requests /\ late \in BOOLEAN
      BY <2>4 DEF SkillRow
    <3>3. ~late => d = req[r].desc
      BY DEF Skill!Written
    <3>4. skill' = [row |-> id, desc |-> d,
                    by |-> [from |-> r, paths |-> req[r].paths, desc |-> req[r].desc, late |-> late]]
      BY <1>2
    <3> HIDE DEF d, id, late
    <3> QED BY <2>2, <3>1, <3>2, <3>3, <3>4 DEF SkillRow
  <2>9. skill' # Skill!None'
    BY <2>8 DEF Skill!None, SkillRow
  <2> HIDE DEF new, left
  <2>10. /\ req' \in [Requests -> SkillTransaction] /\ req'[r].at = "done"
         /\ \A q \in Requests \ {r} : req'[q] = req[q]
         /\ SkillTransactions' /\ \A f \in files' : SkillWritten(f)'
    BY <2>1, <2>7, SkillWrites
  <2>11. \A q \in Requests : ~Skill!Inserting(q)'
    <3>1. \A q \in Requests \ {r} : ~Skill!Inserting(q)
      BY <2>3, <2>4 DEF SkillInv, SkillInserts
    <3> QED
      BY <2>10, <3>1 DEF Skill!Inserting
  <2>12. SkillShape'
    BY <2>7, <2>8, <2>10 DEF SkillShape, Skill!None
  <2>13. SkillStored'
    <3>1. files' = {[path |-> p, from |-> skill'.by.from] : p \in skill'.by.paths}
      BY <2>6, <2>8 DEF new
    <3> QED BY <2>2, <2>8, <2>10, <3>1 DEF SkillStored
  <2> QED
    BY <2>10, <2>11, <2>12, <2>13 DEF SkillInv, SkillInserts
<1> QED
  BY <1>1, <1>2 DEF Skill!Save

LEMMA SkillCascades ==
  ASSUME SkillInv, NEW r \in Requests, Skill!Cascade(r)
  PROVE  SkillInv'
<1>1. /\ files' = {} /\ skill' = Skill!None /\ Skill!Done(r) /\ req[r].at # "done"
  BY DEF Skill!Cascade
<1>2. /\ req' \in [Requests -> SkillTransaction] /\ req'[r].at = "done"
      /\ \A q \in Requests \ {r} : req'[q] = req[q]
      /\ SkillTransactions' /\ \A f \in files' : SkillWritten(f)'
  BY <1>1, SkillWrites
<1>3. SkillShape' /\ SkillStored'
  BY <1>1, <1>2 DEF SkillShape, SkillStored, Skill!None, Skill!NoInstall
<1>4. SkillInserts'
  BY <1>1, <1>2 DEF SkillInv, SkillInserts, Skill!Inserting, Skill!None
<1> QED
  BY <1>2, <1>3, <1>4 DEF SkillInv

(* HubSkills, for any number of requests and any payloads: the files of a      *)
(* stored skill are those of one install, all of them, whatever installs,      *)
(* replaces and uninstalls of the name overlap, and so is its description      *)
(* unless another install was saved between that one's read and its save.      *)
THEOREM SkillsAreWhole ==
  ASSUME "none" \notin Requests
  PROVE  Skill!Spec => []Skill!SkillIsOneInstall
<1>1. Skill!Init => SkillInv
  <2> SUFFICES ASSUME Skill!Init PROVE SkillInv
    OBVIOUS
  <2>1. /\ Skill!Idle \in SkillTransaction /\ Skill!Idle.at = "idle"
        /\ Skill!Idle.sees = {} /\ Skill!Idle.drops = {}
    BY DEF Skill!Idle, SkillTransaction
  <2>2. \A r \in Requests : req[r] = Skill!Idle
    BY DEF Skill!Init
  <2>3. SkillShape /\ SkillStored
    BY <2>1 DEF Skill!Init, SkillShape, SkillStored, Skill!None, Skill!NoInstall
  <2>4. SkillTransactions /\ SkillInserts
    BY <2>1, <2>2 DEF SkillTransactions, SkillInserts, SkillValid, SkillWhole, Skill!Inserting
  <2> QED
    BY <2>3, <2>4 DEF SkillInv
<1>2. SkillInv => Skill!SkillIsOneInstall
  BY DEF SkillInv, SkillStored, Skill!SkillIsOneInstall
<1>3. SkillInv /\ [Skill!Next]_(Skill!vars) => SkillInv'
  <2> SUFFICES ASSUME SkillInv, [Skill!Next]_(Skill!vars) PROVE SkillInv'
    OBVIOUS
  <2>1. CASE UNCHANGED Skill!vars
    BY <2>1 DEF Skill!vars, SkillInv, SkillShape, SkillTransactions, SkillInserts, SkillStored,
                SkillValid, SkillWhole, SkillWritten, Skill!Inserting, Skill!None
  <2>2. ASSUME NEW r \in Requests,
               \/ \E paths \in Payloads, desc \in Descriptions :
                    Skill!Install(r, paths, desc) \/ Skill!Replace(r, paths, desc)
               \/ Skill!ReadRow(r) \/ Skill!InsertSkill(r) \/ Skill!SnapshotFiles(r)
               \/ Skill!DeleteFiles(r) \/ Skill!Uninstall(r) \/ Skill!DropSkill(r)
        PROVE  SkillInv'
    BY <2>2, SkillReads DEF Skill!Replace
  <2>3. ASSUME NEW r \in Requests, Skill!AbortVictim(r) PROVE SkillInv'
    BY <2>3, SkillEnds DEF Skill!AbortVictim
  <2> QED
    BY <2>1, <2>2, <2>3, SkillSaves, SkillCascades DEF Skill!Next
<1> QED
  BY <1>1, <1>2, <1>3, PTL DEF Skill!Spec

-----------------------------------------------------------------------------
(* The hub's MCP connections.                                                 *)

(* The patches that clients send, and the rows they may lead to. *)
ConnectionPatch ==
  [auth : {"keep", "none", "headers", "oauth"}, headers : {"keep", "none", "some"},
   enabled : {"keep", "yes", "no"}]
ConnectionRow ==
  [id : Requests \cup {"none"}, auth : {"none", "headers", "oauth"},
   headers : {"none", "some"}, enabled : {"yes", "no"}]
ConnectionPlaces ==
  {"idle", "insert", "update", "delete", "proxy", "201", "200", "204", "404", "409", "422",
   "500", "called"}

(* A payload that waits for its INSERT was validated. *)
ConnectionInv ==
  /\ conn \in ConnectionRow /\ mixed \in BOOLEAN
  /\ req \in [Requests -> [at : ConnectionPlaces, row : ConnectionRow, change : ConnectionPatch]]
  /\ \A r \in Requests : req[r].at = "insert" =>
       /\ "keep" \notin {req[r].change.auth, req[r].change.headers}
       /\ Connection!PairOk(req[r].change.auth, req[r].change.headers)
  /\ Connection!CredentialShape

(* A request moves to another place. *)
LEMMA ConnectionMoves ==
  ASSUME ConnectionInv, NEW r \in Requests,
         NEW t \in [at : ConnectionPlaces, row : ConnectionRow, change : ConnectionPatch],
         t.at = "insert" => /\ "keep" \notin {t.change.auth, t.change.headers}
                            /\ Connection!PairOk(t.change.auth, t.change.headers),
         req' = [req EXCEPT ![r] = t]
  PROVE  /\ req' \in [Requests -> [at : ConnectionPlaces, row : ConnectionRow, change : ConnectionPatch]]
         /\ \A q \in Requests : req'[q].at = "insert" =>
              /\ "keep" \notin {req'[q].change.auth, req'[q].change.headers}
              /\ Connection!PairOk(req'[q].change.auth, req'[q].change.headers)
<1>1. \A q \in Requests : req'[q] = IF q = r THEN t ELSE req[q]
  BY DEF ConnectionInv
<1>2. req' \in [Requests -> [at : ConnectionPlaces, row : ConnectionRow, change : ConnectionPatch]]
  BY DEF ConnectionInv
<1> QED BY <1>1, <1>2 DEF ConnectionInv

LEMMA ConnectionAnswers ==
  ASSUME ConnectionInv, NEW r \in Requests, NEW reply \in ConnectionPlaces \ {"insert"},
         Connection!Answer(r, reply)
  PROVE  /\ req' \in [Requests -> [at : ConnectionPlaces, row : ConnectionRow, change : ConnectionPatch]]
         /\ \A q \in Requests : req'[q].at = "insert" =>
              /\ "keep" \notin {req'[q].change.auth, req'[q].change.headers}
              /\ Connection!PairOk(req'[q].change.auth, req'[q].change.headers)
<1> DEFINE t == [Connection!Idle EXCEPT !.at = reply]
<1>1. t \in [at : ConnectionPlaces, row : ConnectionRow, change : ConnectionPatch] /\ t.at # "insert"
  BY DEF Connection!Idle, Connection!NoRow, Connection!NoChange, ConnectionRow, ConnectionPatch
<1>2. req' = [req EXCEPT ![r] = t]
  BY DEF Connection!Answer
<1> HIDE DEF t
<1> QED BY <1>1, <1>2, ConnectionMoves

LEMMA ConnectionStep ==
  ASSUME Patches \subseteq ConnectionPatch, ConnectionInv, [Connection!Next]_(Connection!vars)
  PROVE  ConnectionInv'
<1>1. ASSUME NEW r \in Requests, NEW p \in Patches, Connection!Create(r, p) PROVE ConnectionInv'
  <2> DEFINE t == [Connection!Idle EXCEPT !.at = "insert", !.change = p]
  <2>1. UNCHANGED <<conn, mixed>>
    BY <1>1 DEF Connection!Create
  <2>2. t \in [at : ConnectionPlaces, row : ConnectionRow, change : ConnectionPatch] /\ t.change = p
    BY DEF Connection!Idle, Connection!NoRow, Connection!NoChange, ConnectionRow, ConnectionPatch,
           ConnectionPlaces
  <2>3. /\ "keep" \notin {p.auth, p.headers} /\ Connection!PairOk(p.auth, p.headers)
        /\ Connection!Answer(r, "409") \/ req' = [req EXCEPT ![r] = t]
    BY <1>1 DEF Connection!Create
  <2> HIDE DEF t
  <2>4. CASE Connection!Answer(r, "409")
    BY <2>1, <2>4, ConnectionAnswers DEF ConnectionPlaces, ConnectionInv, Connection!CredentialShape,
       Connection!Present
  <2>5. CASE req' = [req EXCEPT ![r] = t]
    BY <2>1, <2>2, <2>3, <2>5, ConnectionMoves DEF ConnectionInv, Connection!CredentialShape,
       Connection!Present
  <2> QED BY <2>3, <2>4, <2>5
<1>2. ASSUME NEW r \in Requests, NEW to \in {"update", "delete", "proxy"},
             NEW p \in ConnectionPatch, Connection!Read(r, to, p)
      PROVE  ConnectionInv'
  <2> DEFINE t == [at |-> to, row |-> conn, change |-> p]
  <2>1. UNCHANGED <<conn, mixed>> /\ (Connection!Answer(r, "404") \/ req' = [req EXCEPT ![r] = t])
    BY <1>2 DEF Connection!Read
  <2>2. t \in [at : ConnectionPlaces, row : ConnectionRow, change : ConnectionPatch] /\ t.at # "insert"
    BY DEF ConnectionInv, ConnectionPlaces
  <2> HIDE DEF t
  <2>3. CASE Connection!Answer(r, "404")
    BY <2>1, <2>3, ConnectionAnswers DEF ConnectionPlaces, ConnectionInv, Connection!CredentialShape,
       Connection!Present
  <2>4. CASE req' = [req EXCEPT ![r] = t]
    BY <2>1, <2>2, <2>4, ConnectionMoves DEF ConnectionInv, Connection!CredentialShape,
       Connection!Present
  <2> QED BY <2>1, <2>3, <2>4
<1>3. ASSUME NEW r \in Requests, Connection!Insert(r) PROVE ConnectionInv'
  <2>1. mixed' = mixed
    BY <1>3 DEF Connection!Insert
  <2>2. CASE Connection!Present
    <3>1. conn' = conn /\ Connection!Answer(r, "500")
      BY <1>3, <2>2 DEF Connection!Insert
    <3> QED
      BY <2>1, <3>1, ConnectionAnswers DEF ConnectionPlaces, ConnectionInv, Connection!CredentialShape,
         Connection!Present
  <2>3. CASE ~Connection!Present
    <3>1. /\ conn' = [id |-> r, auth |-> req[r].change.auth, headers |-> req[r].change.headers,
                      enabled |-> "yes"]
          /\ Connection!Answer(r, "201")
      BY <1>3, <2>3 DEF Connection!Insert
    <3>2. /\ req[r].change \in ConnectionPatch
          /\ req[r].change.auth # "keep" /\ req[r].change.headers # "keep"
          /\ Connection!PairOk(req[r].change.auth, req[r].change.headers)
      BY <1>3 DEF ConnectionInv, Connection!Insert
    <3>3. conn' \in ConnectionRow /\ Connection!PairOk(conn'.auth, conn'.headers)
      BY <3>1, <3>2 DEF ConnectionRow, ConnectionPatch
    <3> QED
      BY <2>1, <3>1, <3>3, ConnectionAnswers DEF ConnectionPlaces, ConnectionInv,
         Connection!CredentialShape
  <2> QED BY <2>2, <2>3
<1>4. ASSUME NEW r \in Requests, Connection!Update(r) PROVE ConnectionInv'
  <2> DEFINE read == req[r].row
             new == Connection!Resulting(read, req[r].change)
  <2>1. read \in ConnectionRow /\ req[r].change \in ConnectionPatch
    BY DEF ConnectionInv
  <2>2. new \in ConnectionRow
    BY <2>1 DEF Connection!Resulting, Connection!Kept, ConnectionRow, ConnectionPatch
  <2>3. \/ UNCHANGED <<conn, mixed>> /\ (Connection!Answer(r, "422") \/ Connection!Answer(r, "500"))
        \/ /\ Connection!Accepts(read, req[r].change)
           /\ conn' = Connection!Written(read, new) /\ mixed' = (mixed \/ conn # read)
           /\ Connection!Answer(r, "200")
    BY <1>4 DEF Connection!Update
  <2>4. CASE UNCHANGED <<conn, mixed>> /\ (Connection!Answer(r, "422") \/ Connection!Answer(r, "500"))
    BY <2>4, ConnectionAnswers DEF ConnectionPlaces, ConnectionInv, Connection!CredentialShape,
       Connection!Present
  <2>5. CASE /\ Connection!Accepts(read, req[r].change)
             /\ conn' = Connection!Written(read, new) /\ mixed' = (mixed \/ conn # read)
             /\ Connection!Answer(r, "200")
    <3>1. Connection!PairOk(new.auth, new.headers)
      BY <2>5 DEF Connection!Accepts
    <3> HIDE DEF new, read
    <3>2. conn \in ConnectionRow /\ mixed \in BOOLEAN
      BY DEF ConnectionInv
    <3>3. DOMAIN conn = {"id", "auth", "headers", "enabled"}
      BY <3>2 DEF ConnectionRow
    <3>4. conn' \in ConnectionRow /\ (conn = read => conn'.auth = new.auth /\ conn'.headers = new.headers)
      <4>1. conn' = [c \in {"id", "auth", "headers", "enabled"} |->
                        IF new[c] = read[c] THEN conn[c] ELSE new[c]]
        BY <2>5, <3>3 DEF Connection!Written
      <4>2. conn' = [id |-> conn'["id"], auth |-> conn'["auth"], headers |-> conn'["headers"],
                     enabled |-> conn'["enabled"]]
        BY <4>1
      <4>3. /\ conn'["id"] \in {conn.id, new.id} /\ conn'["auth"] \in {conn.auth, new.auth}
            /\ conn'["headers"] \in {conn.headers, new.headers}
            /\ conn'["enabled"] \in {conn.enabled, new.enabled}
        BY <4>1
      <4>4. conn = read => conn'["auth"] = new.auth /\ conn'["headers"] = new.headers
        BY <4>1
      <4> QED BY <2>2, <3>2, <4>2, <4>3, <4>4 DEF ConnectionRow
    <3>5. mixed' \in BOOLEAN /\ (~mixed' => conn = read)
      BY <2>5, <3>2
    <3>6. Connection!CredentialShape'
      BY <3>1, <3>4, <3>5 DEF Connection!CredentialShape
    <3> QED
      BY <2>5, <3>4, <3>5, <3>6, ConnectionAnswers DEF ConnectionPlaces, ConnectionInv
  <2> QED BY <2>3, <2>4, <2>5
<1>5. ASSUME NEW r \in Requests, Connection!Delete(r) PROVE ConnectionInv'
  <2>1. Connection!Answer(r, "204") /\ mixed' = mixed /\ (conn' = Connection!NoRow \/ conn' = conn)
    BY <1>5 DEF Connection!Delete
  <2>2. Connection!NoRow \in ConnectionRow
    BY DEF Connection!NoRow, ConnectionRow
  <2> QED
    BY <2>1, <2>2, ConnectionAnswers DEF ConnectionPlaces, ConnectionInv, Connection!CredentialShape,
       Connection!Present
<1>6. ASSUME NEW r \in Requests, Connection!Proxy(r) PROVE ConnectionInv'
  <2>1. UNCHANGED <<conn, mixed>> /\ (Connection!Answer(r, "409") \/ Connection!Answer(r, "called"))
    BY <1>6 DEF Connection!Proxy
  <2> QED
    BY <2>1, ConnectionAnswers DEF ConnectionPlaces, ConnectionInv, Connection!CredentialShape,
       Connection!Present
<1>7. CASE UNCHANGED Connection!vars
  BY <1>7 DEF Connection!vars, ConnectionInv, Connection!CredentialShape, Connection!Present
<1>8. Connection!NoChange \in ConnectionPatch
  BY DEF Connection!NoChange, ConnectionPatch
<1> QED
  BY <1>1, <1>2, <1>3, <1>4, <1>5, <1>6, <1>7, <1>8 DEF Connection!Next

(* HubConnections, for any number of requests and any patches: a stored        *)
(* connection has headers exactly when its auth_type is headers, after every   *)
(* sequence of creates, patches and deletions in which no patch commits over a *)
(* row that changed since it was read.                                         *)
THEOREM CredentialsShaped ==
  ASSUME Patches \subseteq ConnectionPatch
  PROVE  Connection!Spec => [](Connection!TypeOK /\ Connection!CredentialShape)
<1>1. Connection!Init => ConnectionInv
  <2>1. Connection!NoRow \in ConnectionRow
    BY DEF Connection!NoRow, ConnectionRow
  <2>2. Connection!Idle \in [at : ConnectionPlaces, row : ConnectionRow, change : ConnectionPatch]
        /\ Connection!Idle.at = "idle"
    BY <2>1 DEF Connection!Idle, Connection!NoChange, ConnectionPatch, ConnectionPlaces
  <2> QED
    BY <2>1, <2>2 DEF Connection!Init, ConnectionInv, Connection!CredentialShape, Connection!Present
<1>2. ConnectionInv => Connection!TypeOK /\ Connection!CredentialShape
  BY DEF ConnectionInv, ConnectionRow, ConnectionPlaces, Connection!TypeOK
<1>3. ConnectionInv /\ [Connection!Next]_(Connection!vars) => ConnectionInv'
  BY ConnectionStep
<1> QED
  BY <1>1, <1>2, <1>3, PTL DEF Connection!Spec

-----------------------------------------------------------------------------
(* The hub's OAuth flows.                                                     *)

OAuthRun ==
  [at : {"idle", "tokens", "client", "register", "redirect", "state", "await", "code", "dropCode",
         "dropPending", "exchange"},
   row : 0 .. rows, flow : 0 .. Len(flow), saw : 0 .. Len(flow), got : 0 .. Len(flow)]
OAuthCallback ==
  [at : {"idle", "state", "pending", "park", "dropPending", "dropCode"},
   flow : 0 .. Len(flow), denied : BOOLEAN]
OAuthLeft1 == <<"code">>
OAuthLeft2 == <<"pending", "code">>
OAuthLeft3 == <<"client", "pending", "code">>
OAuthPurges == {<<>>, OAuthLeft1, OAuthLeft2, OAuthLeft3, OAuth!Purged}

OAuthShape ==
  /\ rows \in Nat /\ rows <= MaxRows /\ row \in 0 .. rows
  /\ tokens \in 0 .. rows /\ client \in 0 .. rows
  /\ flow \in Seq(1 .. rows) /\ Len(flow) <= MaxFlows
  /\ pending \in 0 .. Len(flow) /\ code \in 0 .. Len(flow)
  /\ states \subseteq 0 .. Len(flow) /\ shown \subseteq 0 .. Len(flow)
  /\ run \in [FlowRuns -> OAuthRun] /\ \A r \in FlowRuns : run[r].at # "idle" => run[r].row # 0
  /\ browser \in OAuthCallback
  /\ purge \in OAuthPurges /\ raced \in BOOLEAN

(* While nobody was in the middle of a flow when a row was deleted: only the   *)
(* purge follows a deletion, runs are runs of the row, what is stored is of    *)
(* the row or still to be purged, and a code is parked once a flow of the row  *)
(* has been.                                                                   *)
OAuthFlowOfRow == \E f \in 1 .. Len(flow) : flow[f] = row
OAuthClean ==
  /\ purge # <<>> => row = 0 /\ browser.at = "idle"
  /\ \A r \in FlowRuns : run[r].at # "idle" => row # 0 /\ run[r].row = row
  /\ browser.at = "park" => row # 0 /\ OAuthFlowOfRow
  /\ row = 0 =>
       /\ tokens = 0 \/ purge = OAuth!Purged
       /\ client = 0 \/ purge \in {OAuth!Purged, OAuthLeft3}
       /\ pending = 0 \/ purge \in {OAuth!Purged, OAuthLeft3, OAuthLeft2}
       /\ code = 0 \/ purge # <<>>
  /\ row # 0 =>
       /\ tokens \in {0, row} /\ client \in {0, row}
       /\ pending # 0 => flow[pending] = row
       /\ code # 0 => OAuthFlowOfRow
OAuthInv == OAuthShape /\ (~raced => OAuthClean)

(* The steps of a run that leave everything but its record alone. *)
LEMMA OAuthPurging ==
  /\ <<>> \notin {OAuthLeft1, OAuthLeft2, OAuthLeft3, OAuth!Purged}
  /\ Head(OAuth!Purged) = "tokens" /\ Tail(OAuth!Purged) = OAuthLeft3
  /\ Head(OAuthLeft3) = "client" /\ Tail(OAuthLeft3) = OAuthLeft2
  /\ Head(OAuthLeft2) = "pending" /\ Tail(OAuthLeft2) = OAuthLeft1
  /\ Head(OAuthLeft1) = "code" /\ Tail(OAuthLeft1) = <<>>
  /\ OAuthLeft1 # OAuthLeft2 /\ OAuthLeft1 # OAuthLeft3 /\ OAuthLeft2 # OAuthLeft3
  /\ OAuth!Purged \notin {OAuthLeft1, OAuthLeft2, OAuthLeft3}
BY DEF OAuth!Purged, OAuthLeft1, OAuthLeft2, OAuthLeft3

LEMMA OAuthRuns ==
  ASSUME OAuthInv, NEW r \in FlowRuns, NEW t \in OAuthRun, UNCHANGED <<row, rows, flow>>,
         t.at # "idle" => t.row # 0 /\ (~raced => row # 0 /\ t.row = row),
         run' = [run EXCEPT ![r] = t]
  PROVE  /\ run' \in [FlowRuns -> OAuthRun'] /\ \A q \in FlowRuns : run'[q].at # "idle" => run'[q].row # 0
         /\ ~raced => \A q \in FlowRuns : run'[q].at # "idle" => row' # 0 /\ run'[q].row = row'
<1>1. OAuthRun' = OAuthRun
  BY DEF OAuthRun
<1>2. \A q \in FlowRuns : run'[q] = IF q = r THEN t ELSE run[q]
  BY DEF OAuthInv, OAuthShape
<1>3. run' \in [FlowRuns -> OAuthRun]
  BY DEF OAuthInv, OAuthShape
<1> QED
  BY <1>1, <1>2, <1>3 DEF OAuthInv, OAuthShape, OAuthClean

(* A run that goes on to another place, or is over. *)
LEMMA OAuthGoes ==
  ASSUME OAuthInv, NEW r \in FlowRuns, run[r].at # "idle", UNCHANGED <<row, rows, flow>>,
         NEW place \in {"client", "register", "redirect", "await", "dropPending", "exchange"},
         OAuth!Goto(r, place) \/ run' = [run EXCEPT ![r] = OAuth!NoRun]
  PROVE  /\ run' \in [FlowRuns -> OAuthRun'] /\ \A q \in FlowRuns : run'[q].at # "idle" => run'[q].row # 0
         /\ ~raced => \A q \in FlowRuns : run'[q].at # "idle" => row' # 0 /\ run'[q].row = row'
<1>0. /\ run[r] \in OAuthRun /\ run[r].row # 0 /\ (~raced => row # 0 /\ run[r].row = row)
      /\ rows \in Nat /\ Len(flow) \in Nat
  BY DEF OAuthInv, OAuthShape, OAuthClean
<1>1. CASE OAuth!Goto(r, place)
  <2> DEFINE t == [run[r] EXCEPT !.at = place]
  <2>1. t \in OAuthRun /\ t.row = run[r].row
    BY <1>0 DEF OAuthRun
  <2>2. run' = [run EXCEPT ![r] = t]
    BY <1>1 DEF OAuth!Goto, OAuthInv, OAuthShape
  <2> HIDE DEF t
  <2> QED BY <1>0, <2>1, <2>2, OAuthRuns
<1>2. CASE run' = [run EXCEPT ![r] = OAuth!NoRun]
  <2>1. OAuth!NoRun \in OAuthRun /\ OAuth!NoRun.at = "idle"
    BY <1>0 DEF OAuth!NoRun, OAuthRun
  <2> QED BY <1>0, <1>2, <2>1, OAuthRuns
<1> QED BY <1>1, <1>2

(* The steps of the hub: the row and the purge. *)
LEMMA OAuthHub ==
  ASSUME MaxRows \in Nat, OAuthInv, OAuth!Create \/ OAuth!Delete \/ OAuth!Purge PROVE OAuthInv'
<1>0. rows \in Nat /\ Len(flow) \in Nat
  BY DEF OAuthInv, OAuthShape
<1>1. CASE OAuth!Create
  <2>0. /\ row = 0 /\ rows < MaxRows /\ rows' = rows + 1 /\ row' = rows + 1
        /\ raced' = (raced \/ purge # <<>>)
        /\ UNCHANGED <<tokens, client, pending, code, states, flow, shown, run, browser, purge>>
    BY <1>1 DEF OAuth!Create, OAuth!store
  <2>1. run \in [FlowRuns -> OAuthRun'] /\ flow \in Seq(1 .. rows')
    <3>1. 0 .. rows \subseteq 0 .. rows + 1 /\ 1 .. rows \subseteq 1 .. rows + 1
      BY <1>0
    <3>2. \A t \in OAuthRun : t \in OAuthRun'
      BY <2>0, <3>1 DEF OAuthRun
    <3>3. run \in [FlowRuns -> OAuthRun]
      BY DEF OAuthInv, OAuthShape
    <3>4. flow \in Seq(1 .. rows + 1)
      <4>1. flow \in Seq(1 .. rows)
        BY DEF OAuthInv, OAuthShape
      <4> QED BY <3>1, <4>1, SeqMonotonic
    <3>5. run \in [FlowRuns -> OAuthRun']
      BY <3>2, <3>3
    <3> QED BY <2>0, <3>4, <3>5
  <2>2. OAuthCallback' = OAuthCallback
    BY <2>0 DEF OAuthCallback
  <2>3. OAuthShape'
    <3>1. raced' \in BOOLEAN
      BY <2>0 DEF OAuthInv, OAuthShape
    <3>2. purge' \in OAuthPurges /\ browser' \in OAuthCallback'
      BY <2>0, <2>2 DEF OAuthInv, OAuthShape, OAuthPurges
    <3>3. run' \in [FlowRuns -> OAuthRun'] /\ \A r \in FlowRuns : run'[r].at # "idle" => run'[r].row # 0
      BY <2>0, <2>1 DEF OAuthInv, OAuthShape
    <3>4. /\ tokens' \in 0 .. rows' /\ client' \in 0 .. rows' /\ rows' \in Nat /\ rows' <= MaxRows
          /\ row' \in 0 .. rows'
      BY <1>0, <2>0 DEF OAuthInv, OAuthShape
    <3> QED
      BY <2>0, <2>1, <3>1, <3>2, <3>3, <3>4 DEF OAuthInv, OAuthShape
  <2>4. ~raced' => OAuthClean'
    BY <1>0, <2>0, OAuthPurging DEF OAuthInv, OAuthShape, OAuthClean
  <2> QED BY <2>3, <2>4 DEF OAuthInv
<1>2. CASE OAuth!Delete
  <2>0. /\ row # 0 /\ purge = <<>> /\ row' = 0 /\ purge' = OAuth!Purged
        /\ raced' = (raced \/ browser.at # "idle" \/ \E r \in FlowRuns : run[r].at # "idle")
        /\ UNCHANGED <<rows, tokens, client, pending, code, states, flow, shown, run, browser>>
    BY <1>2 DEF OAuth!Delete, OAuth!store
  <2>1. OAuthRun' = OAuthRun /\ OAuthCallback' = OAuthCallback
    BY <2>0 DEF OAuthRun, OAuthCallback
  <2>2. OAuthShape'
    BY <1>0, <2>0, <2>1 DEF OAuthInv, OAuthShape, OAuthPurges
  <2>3. ~raced' => OAuthClean'
    BY <1>0, <2>0, OAuthPurging DEF OAuthInv, OAuthShape, OAuthClean
  <2> QED BY <2>2, <2>3 DEF OAuthInv
<1>3. CASE OAuth!Purge
  <2>0. /\ purge # <<>> /\ purge' = Tail(purge)
        /\ tokens' = IF Head(purge) = "tokens" THEN 0 ELSE tokens
        /\ client' = IF Head(purge) = "client" THEN 0 ELSE client
        /\ pending' = IF Head(purge) = "pending" THEN 0 ELSE pending
        /\ code' = IF Head(purge) = "code" THEN 0 ELSE code
        /\ UNCHANGED <<row, rows, states, flow, shown, run, browser, raced>>
    BY <1>3 DEF OAuth!Purge
  <2>1. OAuthRun' = OAuthRun /\ OAuthCallback' = OAuthCallback
    BY <2>0 DEF OAuthRun, OAuthCallback
  <2>2. purge \in {OAuthLeft1, OAuthLeft2, OAuthLeft3, OAuth!Purged}
    BY <2>0 DEF OAuthInv, OAuthShape, OAuthPurges
  <2>3. purge' \in OAuthPurges
    BY <2>0, <2>2, OAuthPurging DEF OAuthPurges
  <2>4. OAuthShape'
    BY <1>0, <2>0, <2>1, <2>3 DEF OAuthInv, OAuthShape
  <2>5. ~raced' => OAuthClean'
    <3> SUFFICES ASSUME ~raced PROVE OAuthClean'
      BY <2>0
    <3>0. row = 0 /\ OAuthClean
      BY <2>0 DEF OAuthInv, OAuthClean
    <3>1. CASE purge = OAuth!Purged
      BY <2>0, <3>0, <3>1, OAuthPurging DEF OAuthClean
    <3>2. CASE purge = OAuthLeft3
      BY <2>0, <3>0, <3>2, OAuthPurging DEF OAuthClean
    <3>3. CASE purge = OAuthLeft2
      BY <2>0, <3>0, <3>3, OAuthPurging DEF OAuthClean
    <3>4. CASE purge = OAuthLeft1
      BY <2>0, <3>0, <3>4, OAuthPurging DEF OAuthClean
    <3> QED BY <2>2, <3>1, <3>2, <3>3, <3>4
  <2> QED BY <2>4, <2>5 DEF OAuthInv
<1> QED BY <1>1, <1>2, <1>3

(* What the steps that leave the row and the flows alone have to show. *)
OAuthKeeps ==
  /\ UNCHANGED <<row, rows, flow, purge, raced>>
  /\ run' \in [FlowRuns -> OAuthRun'] /\ \A q \in FlowRuns : run'[q].at # "idle" => run'[q].row # 0
  /\ ~raced => \A q \in FlowRuns : run'[q].at # "idle" => row' # 0 /\ run'[q].row = row'
  /\ browser' \in OAuthCallback' /\ states' \subseteq 0 .. Len(flow) /\ shown' \subseteq 0 .. Len(flow)
  /\ tokens' \in 0 .. rows /\ client' \in 0 .. rows
  /\ pending' \in {0, pending} /\ code' \in 0 .. Len(flow)
  /\ ~raced =>
       /\ purge # <<>> => browser'.at = "idle"
       /\ browser'.at = "park" => row # 0 /\ OAuthFlowOfRow
       /\ tokens' \in {0, tokens} \/ (row # 0 /\ tokens' = row)
       /\ client' \in {0, client} \/ (row # 0 /\ client' = row)
       /\ code' \in {0, code} \/ (row # 0 /\ OAuthFlowOfRow)

LEMMA OAuthKept == ASSUME OAuthInv, OAuthKeeps PROVE OAuthInv'
<1>1. OAuthFlowOfRow' = OAuthFlowOfRow
  BY DEF OAuthKeeps, OAuthFlowOfRow
<1>2. OAuthShape'
  BY DEF OAuthInv, OAuthShape, OAuthKeeps
<1>3. ASSUME ~raced PROVE OAuthClean'
  <2>1. OAuthClean
    BY <1>3 DEF OAuthInv
  <2>2. CASE row = 0
    BY <1>3, <2>1, <2>2 DEF OAuthKeeps, OAuthClean
  <2>3. CASE row # 0
    BY <1>1, <1>3, <2>1, <2>3 DEF OAuthKeeps, OAuthClean
  <2> QED BY <2>2, <2>3
<1> QED BY <1>2, <1>3 DEF OAuthInv, OAuthKeeps

(* The steps of a run but the one that parks a new flow. *)
LEMMA OAuthRunSteps ==
  ASSUME OAuthInv, NEW r \in FlowRuns,
         \/ OAuth!Connect(r) \/ OAuth!GetTokens(r) \/ OAuth!GetClient(r) \/ OAuth!SetClient(r)
         \/ OAuth!StoreState(r) \/ OAuth!ReadPending(r) \/ OAuth!ReadCode(r) \/ OAuth!DropCode(r)
         \/ OAuth!DropPending(r) \/ OAuth!Exchange(r)
  PROVE  OAuthKeeps
<1>0. /\ rows \in Nat /\ Len(flow) \in Nat /\ run[r] \in OAuthRun /\ row \in 0 .. rows
      /\ tokens \in 0 .. rows /\ client \in 0 .. rows /\ pending \in 0 .. Len(flow)
      /\ code \in 0 .. Len(flow) /\ states \subseteq 0 .. Len(flow) /\ shown \subseteq 0 .. Len(flow)
      /\ browser \in OAuthCallback
      /\ run[r].row \in 0 .. rows /\ run[r].flow \in 0 .. Len(flow) /\ run[r].saw \in 0 .. Len(flow)
      /\ run[r].at # "idle" => run[r].row # 0 /\ (~raced => row # 0 /\ run[r].row = row)
      /\ ~raced => /\ purge # <<>> => browser.at = "idle"
                   /\ browser.at = "park" => row # 0 /\ OAuthFlowOfRow
  BY DEF OAuthInv, OAuthShape, OAuthClean, OAuthRun
<1>a. UNCHANGED <<row, rows, flow, purge, raced, browser>>
  BY DEF OAuth!Connect, OAuth!GetTokens, OAuth!GetClient, OAuth!SetClient, OAuth!StoreState,
         OAuth!ReadPending, OAuth!ReadCode, OAuth!DropCode, OAuth!DropPending, OAuth!Exchange,
         OAuth!others, OAuth!store
<1>b. OAuthCallback' = OAuthCallback
  BY <1>a DEF OAuthCallback
<1>1. CASE OAuth!Connect(r)
  <2>1. UNCHANGED <<tokens, client, pending, code, states, shown>>
    BY <1>1 DEF OAuth!Connect, OAuth!others, OAuth!store
  <2> DEFINE t == [OAuth!NoRun EXCEPT !.at = "tokens", !.row = row]
  <2>c. OAuth!NoRun \in OAuthRun
    BY <1>0 DEF OAuth!NoRun, OAuthRun
  <2>a. t \in OAuthRun /\ t.row # 0 /\ (~raced => row # 0 /\ t.row = row)
    BY <1>0, <1>1, <2>c DEF OAuth!Connect, OAuthRun
  <2>b. run' = [run EXCEPT ![r] = t]
    BY <1>1 DEF OAuth!Connect
  <2> HIDE DEF t
  <2>2. /\ run' \in [FlowRuns -> OAuthRun'] /\ \A q \in FlowRuns : run'[q].at # "idle" => run'[q].row # 0
        /\ ~raced => \A q \in FlowRuns : run'[q].at # "idle" => row' # 0 /\ run'[q].row = row'
    BY <1>a, <2>a, <2>b, OAuthRuns
  <2> QED BY <1>0, <1>a, <1>b, <2>1, <2>2 DEF OAuthKeeps
<1>2. CASE OAuth!GetTokens(r)
  <2>1. UNCHANGED <<tokens, client, pending, code, states, shown>>
    BY <1>2 DEF OAuth!GetTokens, OAuth!others, OAuth!store
  <2>2. /\ run' \in [FlowRuns -> OAuthRun'] /\ \A q \in FlowRuns : run'[q].at # "idle" => run'[q].row # 0
        /\ ~raced => \A q \in FlowRuns : run'[q].at # "idle" => row' # 0 /\ run'[q].row = row'
    BY <1>a, <1>2, OAuthGoes DEF OAuth!GetTokens
  <2> QED BY <1>0, <1>a, <1>b, <2>1, <2>2 DEF OAuthKeeps
<1>3. CASE OAuth!GetClient(r)
  <2>1. UNCHANGED <<tokens, client, pending, code, states, shown>>
    BY <1>3 DEF OAuth!GetClient, OAuth!others, OAuth!store
  <2>a. run[r].at # "idle" /\ (OAuth!Goto(r, "redirect") \/ OAuth!Goto(r, "register"))
    BY <1>3 DEF OAuth!GetClient
  <2>2. /\ run' \in [FlowRuns -> OAuthRun'] /\ \A q \in FlowRuns : run'[q].at # "idle" => run'[q].row # 0
        /\ ~raced => \A q \in FlowRuns : run'[q].at # "idle" => row' # 0 /\ run'[q].row = row'
    BY <1>a, <2>a, OAuthGoes
  <2> QED BY <1>0, <1>a, <1>b, <2>1, <2>2 DEF OAuthKeeps
<1>4. CASE OAuth!SetClient(r)
  <2>1. UNCHANGED <<tokens, pending, code, states, shown>> /\ client' = run[r].row /\ run[r].at # "idle"
    BY <1>4 DEF OAuth!SetClient, OAuth!others, OAuth!store
  <2>2. /\ run' \in [FlowRuns -> OAuthRun'] /\ \A q \in FlowRuns : run'[q].at # "idle" => run'[q].row # 0
        /\ ~raced => \A q \in FlowRuns : run'[q].at # "idle" => row' # 0 /\ run'[q].row = row'
    BY <1>a, <1>4, OAuthGoes DEF OAuth!SetClient
  <2> QED BY <1>0, <1>a, <1>b, <2>1, <2>2 DEF OAuthKeeps
<1>5. CASE OAuth!StoreState(r)
  <2>1. UNCHANGED <<tokens, client, pending, code, shown>> /\ states' = states \cup {run[r].flow}
    BY <1>5 DEF OAuth!StoreState, OAuth!others, OAuth!store
  <2>2. /\ run' \in [FlowRuns -> OAuthRun'] /\ \A q \in FlowRuns : run'[q].at # "idle" => run'[q].row # 0
        /\ ~raced => \A q \in FlowRuns : run'[q].at # "idle" => row' # 0 /\ run'[q].row = row'
    BY <1>a, <1>5, OAuthGoes DEF OAuth!StoreState
  <2> QED BY <1>0, <1>a, <1>b, <2>1, <2>2 DEF OAuthKeeps
<1>6. CASE OAuth!ReadPending(r)
  <2>1. UNCHANGED <<tokens, client, pending, code, states, shown>>
    BY <1>6 DEF OAuth!ReadPending, OAuth!others, OAuth!store
  <2> DEFINE t == [run[r] EXCEPT !.at = "code", !.saw = pending]
  <2>a. t \in OAuthRun /\ t.row # 0 /\ (~raced => row # 0 /\ t.row = row)
    BY <1>0, <1>6 DEF OAuth!ReadPending, OAuthRun, OAuth!NoRun
  <2>b. run' = [run EXCEPT ![r] = t]
    BY <1>6 DEF OAuth!ReadPending, OAuthInv, OAuthShape
  <2> HIDE DEF t
  <2>2. /\ run' \in [FlowRuns -> OAuthRun'] /\ \A q \in FlowRuns : run'[q].at # "idle" => run'[q].row # 0
        /\ ~raced => \A q \in FlowRuns : run'[q].at # "idle" => row' # 0 /\ run'[q].row = row'
    BY <1>a, <2>a, <2>b, OAuthRuns
  <2> QED BY <1>0, <1>a, <1>b, <2>1, <2>2 DEF OAuthKeeps
<1>8. CASE OAuth!DropCode(r)
  <2>1. UNCHANGED <<tokens, client, pending, states, shown>> /\ code' = 0
    BY <1>8 DEF OAuth!DropCode, OAuth!others, OAuth!store
  <2>2. /\ run' \in [FlowRuns -> OAuthRun'] /\ \A q \in FlowRuns : run'[q].at # "idle" => run'[q].row # 0
        /\ ~raced => \A q \in FlowRuns : run'[q].at # "idle" => row' # 0 /\ run'[q].row = row'
    BY <1>a, <1>8, OAuthGoes DEF OAuth!DropCode
  <2> QED BY <1>0, <1>a, <1>b, <2>1, <2>2 DEF OAuthKeeps
<1>9. CASE OAuth!DropPending(r)
  <2>1. UNCHANGED <<tokens, client, code, states, shown>> /\ pending' = 0
    BY <1>9 DEF OAuth!DropPending, OAuth!others, OAuth!store
  <2>2. /\ run' \in [FlowRuns -> OAuthRun'] /\ \A q \in FlowRuns : run'[q].at # "idle" => run'[q].row # 0
        /\ ~raced => \A q \in FlowRuns : run'[q].at # "idle" => row' # 0 /\ run'[q].row = row'
    BY <1>a, <1>9, OAuthGoes DEF OAuth!DropPending
  <2> QED BY <1>0, <1>a, <1>b, <2>1, <2>2 DEF OAuthKeeps
<1>10. CASE OAuth!Exchange(r)
  <2>1. UNCHANGED <<client, pending, code, states, shown>> /\ tokens' \in {tokens, run[r].row} /\ run[r].at # "idle"
    BY <1>10 DEF OAuth!Exchange, OAuth!others, OAuth!store
  <2>2. /\ run' \in [FlowRuns -> OAuthRun'] /\ \A q \in FlowRuns : run'[q].at # "idle" => run'[q].row # 0
        /\ ~raced => \A q \in FlowRuns : run'[q].at # "idle" => row' # 0 /\ run'[q].row = row'
    BY <1>a, <1>10, OAuthGoes DEF OAuth!Exchange
  <2> QED BY <1>0, <1>a, <1>b, <2>1, <2>2 DEF OAuthKeeps
<1>7. CASE OAuth!ReadCode(r)
  <2> DEFINE t == [run[r] EXCEPT !.at = "dropCode", !.got = code]
  <2>1. /\ run[r].at # "idle" /\ UNCHANGED <<tokens, client, pending, code, states>>
        /\ shown' \subseteq shown \cup {run[r].saw}
        /\ run' = [run EXCEPT ![r] = t] \/ run' = [run EXCEPT ![r] = OAuth!NoRun]
    BY <1>7 DEF OAuth!ReadCode, OAuth!store, OAuthInv, OAuthShape
  <2>2. t \in OAuthRun /\ t.row # 0 /\ (~raced => row # 0 /\ t.row = row)
    BY <1>0, <2>1 DEF OAuthRun
  <2> HIDE DEF t
  <2>3. /\ run' \in [FlowRuns -> OAuthRun'] /\ \A q \in FlowRuns : run'[q].at # "idle" => run'[q].row # 0
        /\ ~raced => \A q \in FlowRuns : run'[q].at # "idle" => row' # 0 /\ run'[q].row = row'
    <3>1. CASE run' = [run EXCEPT ![r] = t]
      BY <1>a, <2>2, <3>1, OAuthRuns
    <3>2. CASE run' = [run EXCEPT ![r] = OAuth!NoRun]
      BY <1>a, <2>1, <3>2, OAuthGoes
    <3> QED BY <2>1, <3>1, <3>2
  <2> QED BY <1>0, <1>a, <1>b, <2>1, <2>3 DEF OAuthKeeps
<1> QED
  BY <1>1, <1>2, <1>3, <1>4, <1>5, <1>6, <1>7, <1>8, <1>9, <1>10

(* on_redirect: the flow that a run parks is the row's newest. *)
LEMMA OAuthParks ==
  ASSUME MaxFlows \in Nat, OAuthInv, NEW r \in FlowRuns, OAuth!ParkUrl(r) PROVE OAuthInv'
<1> DEFINE n == Len(flow) + 1
           t == [run[r] EXCEPT !.at = "state", !.flow = n]
<1>0. /\ rows \in Nat /\ Len(flow) \in Nat /\ run[r] \in OAuthRun /\ flow \in Seq(1 .. rows)
      /\ run[r].row \in 1 .. rows /\ (~raced => row # 0 /\ run[r].row = row)
      /\ run \in [FlowRuns -> OAuthRun]
  BY DEF OAuthInv, OAuthShape, OAuthClean, OAuthRun, OAuth!ParkUrl
<1>1. /\ flow' = Append(flow, run[r].row) /\ Len(flow) < MaxFlows
      /\ UNCHANGED <<row, rows, tokens, client, code, states, shown, browser, purge, raced>>
  BY DEF OAuth!ParkUrl
<1>2. flow' \in Seq(1 .. rows) /\ Len(flow') = n /\ flow'[n] = run[r].row
      /\ \A i \in 1 .. Len(flow) : flow'[i] = flow[i]
  BY <1>0, <1>1
<1>3. pending' = n /\ run' = [run EXCEPT ![r] = t]
  BY <1>0, <1>1, <1>2 DEF OAuth!ParkUrl
<1>4. 0 .. Len(flow) \subseteq 0 .. n /\ n \in 0 .. n /\ n \in Nat /\ n <= MaxFlows /\ n # 0
  BY <1>0, <1>1
<1>5. \A u \in OAuthRun : u \in OAuthRun'
  BY <1>1, <1>2, <1>4 DEF OAuthRun
<1>6. t \in OAuthRun' /\ t.row = run[r].row /\ t.at # "idle"
  BY <1>0, <1>1, <1>2, <1>4, <1>5 DEF OAuthRun
<1>7. browser \in OAuthCallback'
  BY <1>1, <1>2, <1>4 DEF OAuthInv, OAuthShape, OAuthCallback
<1> HIDE DEF t, n
<1>8. /\ run' \in [FlowRuns -> OAuthRun']
      /\ \A q \in FlowRuns : run'[q] = IF q = r THEN t ELSE run[q]
  BY <1>0, <1>3, <1>5, <1>6
<1>9. OAuthShape'
  <2>1. /\ pending' \in 0 .. Len(flow') /\ code' \in 0 .. Len(flow')
        /\ states' \subseteq 0 .. Len(flow') /\ shown' \subseteq 0 .. Len(flow')
        /\ Len(flow') <= MaxFlows /\ flow' \in Seq(1 .. rows')
    BY <1>1, <1>2, <1>3, <1>4 DEF OAuthInv, OAuthShape
  <2>2. \A q \in FlowRuns : run'[q].at # "idle" => run'[q].row # 0
    BY <1>0, <1>6, <1>8 DEF OAuthInv, OAuthShape
  <2> QED BY <1>1, <1>7, <1>8, <2>1, <2>2 DEF OAuthInv, OAuthShape
<1>10. ASSUME ~raced PROVE OAuthClean'
  <2>1. /\ OAuthClean /\ row # 0 /\ run[r].row = row /\ pending' # 0 /\ flow'[pending'] = row
        /\ purge = <<>>
    BY <1>0, <1>2, <1>3, <1>4, <1>10 DEF OAuthInv, OAuthClean
  <2>2. OAuthFlowOfRow'
    BY <1>0, <1>1, <1>2, <1>4, <2>1 DEF OAuthFlowOfRow
  <2>3. \A q \in FlowRuns : run'[q].at # "idle" => row # 0 /\ run'[q].row = row
    BY <1>6, <1>8, <2>1 DEF OAuthClean
  <2> QED BY <1>1, <2>1, <2>2, <2>3 DEF OAuthClean
<1> QED BY <1>1, <1>9, <1>10 DEF OAuthInv

(* The browser's callback, and the TTL of what is stored. *)
LEMMA OAuthBrowser ==
  ASSUME OAuthInv,
         \/ OAuth!DropState \/ OAuth!CheckPending \/ OAuth!ParkCode \/ OAuth!AbandonPending
         \/ OAuth!AbandonCode \/ OAuth!Expire
  PROVE  OAuthKeeps
<1>0. /\ rows \in Nat /\ Len(flow) \in Nat /\ row \in 0 .. rows
      /\ tokens \in 0 .. rows /\ client \in 0 .. rows /\ pending \in 0 .. Len(flow)
      /\ code \in 0 .. Len(flow) /\ states \subseteq 0 .. Len(flow) /\ shown \subseteq 0 .. Len(flow)
      /\ browser \in OAuthCallback /\ browser.flow \in 0 .. Len(flow)
      /\ ~raced => /\ purge # <<>> => browser.at = "idle"
                   /\ browser.at = "park" => row # 0 /\ OAuthFlowOfRow
  BY DEF OAuthInv, OAuthShape, OAuthClean, OAuthCallback
<1>a. UNCHANGED <<row, rows, flow, purge, raced, run, client, shown>>
  BY DEF OAuth!DropState, OAuth!CheckPending, OAuth!ParkCode, OAuth!AbandonPending,
         OAuth!AbandonCode, OAuth!Expire, OAuth!others, OAuth!store
<1>b. OAuthCallback' = OAuthCallback /\ OAuthRun' = OAuthRun
  BY <1>a DEF OAuthCallback, OAuthRun
<1>c. /\ run' \in [FlowRuns -> OAuthRun'] /\ \A q \in FlowRuns : run'[q].at # "idle" => run'[q].row # 0
      /\ ~raced => \A q \in FlowRuns : run'[q].at # "idle" => row' # 0 /\ run'[q].row = row'
  BY <1>a, <1>b DEF OAuthInv, OAuthShape, OAuthClean
<1>d. OAuth!NoCallback \in OAuthCallback /\ OAuth!NoCallback.at = "idle"
  BY <1>0 DEF OAuth!NoCallback, OAuthCallback
<1>e. ASSUME NEW place \in {"pending", "park", "dropPending", "dropCode"}
      PROVE  /\ [browser EXCEPT !.at = place] \in OAuthCallback
             /\ [browser EXCEPT !.at = place].at = place
  BY <1>0 DEF OAuthCallback
<1>1. CASE OAuth!DropState
  <2>1. /\ browser.at = "state" /\ states' \subseteq states
        /\ browser' \in {[browser EXCEPT !.at = "dropPending"], [browser EXCEPT !.at = "pending"]}
        /\ UNCHANGED <<tokens, pending, code>>
    BY <1>1 DEF OAuth!DropState
  <2> QED BY <1>0, <1>a, <1>b, <1>c, <1>e, <2>1 DEF OAuthKeeps
<1>2. CASE OAuth!CheckPending
  <2>1. /\ browser.at = "pending" /\ UNCHANGED <<tokens, pending, code, states>>
        /\ \/ browser' = OAuth!NoCallback
           \/ pending # 0 /\ browser' = [browser EXCEPT !.at = "park"]
    BY <1>2 DEF OAuth!CheckPending, OAuth!Accepts, OAuth!store
  <2>2. ASSUME ~raced, pending # 0 PROVE row # 0 /\ OAuthFlowOfRow
    <3>1. OAuthClean /\ purge = <<>>
      BY <1>0, <2>1, <2>2 DEF OAuthInv
    <3>2. row # 0 /\ flow[pending] = row
      BY <2>2, <3>1, OAuthPurging DEF OAuthClean
    <3> QED BY <1>0, <2>2, <3>2 DEF OAuthFlowOfRow
  <2>3. CASE browser' = OAuth!NoCallback
    BY <1>0, <1>a, <1>b, <1>c, <1>d, <2>1, <2>3 DEF OAuthKeeps
  <2>4. CASE pending # 0 /\ browser' = [browser EXCEPT !.at = "park"]
    BY <1>0, <1>a, <1>b, <1>c, <1>e, <2>1, <2>2, <2>4 DEF OAuthKeeps
  <2> QED BY <2>1, <2>3, <2>4
<1>3. CASE OAuth!ParkCode
  <2>1. /\ browser.at = "park" /\ code' = browser.flow /\ browser' = OAuth!NoCallback
        /\ UNCHANGED <<tokens, pending, states>>
    BY <1>3 DEF OAuth!ParkCode
  <2> QED BY <1>0, <1>a, <1>b, <1>c, <1>d, <2>1 DEF OAuthKeeps
<1>4. CASE OAuth!AbandonPending
  <2>1. /\ browser.at = "dropPending" /\ pending' = 0
        /\ browser' = [browser EXCEPT !.at = "dropCode"] /\ UNCHANGED <<tokens, code, states>>
    BY <1>4 DEF OAuth!AbandonPending
  <2> QED BY <1>0, <1>a, <1>b, <1>c, <1>e, <2>1 DEF OAuthKeeps
<1>5. CASE OAuth!AbandonCode
  <2>1. code' = 0 /\ browser' = OAuth!NoCallback /\ UNCHANGED <<tokens, pending, states>>
    BY <1>5 DEF OAuth!AbandonCode
  <2> QED BY <1>0, <1>a, <1>b, <1>c, <1>d, <2>1 DEF OAuthKeeps
<1>6. CASE OAuth!Expire
  <2>1. /\ tokens' \in {0, tokens} /\ pending' \in {0, pending} /\ code' \in {0, code}
        /\ states' \subseteq states /\ browser' = browser
    BY <1>6 DEF OAuth!Expire, OAuth!others
  <2> QED BY <1>0, <1>a, <1>b, <1>c, <2>1 DEF OAuthKeeps
<1> QED BY <1>1, <1>2, <1>3, <1>4, <1>5, <1>6

LEMMA OAuthCalledBack ==
  ASSUME OAuthInv, NEW f \in shown, NEW denied \in BOOLEAN, OAuth!Callback(f, denied)
  PROVE  OAuthInv'
<1>1. /\ browser' = [at |-> "state", flow |-> f, denied |-> denied]
      /\ raced' = (raced \/ purge # <<>>)
      /\ UNCHANGED <<row, rows, tokens, client, pending, code, states, flow, shown, run, purge>>
  BY DEF OAuth!Callback, OAuth!store
<1>2. OAuthCallback' = OAuthCallback /\ OAuthRun' = OAuthRun /\ OAuthFlowOfRow' = OAuthFlowOfRow
  BY <1>1 DEF OAuthCallback, OAuthRun, OAuthFlowOfRow
<1>3. f \in 0 .. Len(flow)
  BY DEF OAuthInv, OAuthShape
<1>4. browser' \in OAuthCallback /\ browser'.at = "state"
  BY <1>1, <1>3 DEF OAuthCallback
<1>5. raced' \in BOOLEAN
  BY <1>1 DEF OAuthInv, OAuthShape
<1>6. OAuthShape'
  BY <1>1, <1>2, <1>4, <1>5 DEF OAuthInv, OAuthShape
<1>7. ASSUME ~raced' PROVE OAuthClean'
  <2>1. ~raced /\ purge = <<>> /\ OAuthClean
    BY <1>1, <1>7 DEF OAuthInv
  <2> QED BY <1>1, <1>2, <1>4, <2>1 DEF OAuthClean
<1> QED BY <1>6, <1>7 DEF OAuthInv

(* HubOAuth, for any number of rows, flows and runs: a connection recreated    *)
(* under the name of a deleted one starts clean, whatever was parked, expires  *)
(* or is delivered late, unless somebody was in the middle of a flow when the  *)
(* row was deleted.                                                            *)
THEOREM ConnectionsStartClean ==
  ASSUME MaxRows \in Nat, MaxFlows \in Nat
  PROVE  OAuth!Spec => [](OAuth!TypeOK /\ OAuth!StartsClean)
<1>1. OAuth!Init => OAuthInv
  <2> SUFFICES ASSUME OAuth!Init PROVE OAuthInv
    OBVIOUS
  <2>0. /\ row = 0 /\ rows = 0 /\ tokens = 0 /\ client = 0 /\ pending = 0 /\ code = 0
        /\ states = {} /\ flow = <<>> /\ shown = {} /\ purge = <<>> /\ raced = FALSE
        /\ run = [r \in FlowRuns |-> OAuth!NoRun] /\ browser = OAuth!NoCallback
    BY DEF OAuth!Init
  <2>1. Len(flow) = 0 /\ flow \in Seq(1 .. rows)
    BY <2>0
  <2>2. OAuth!NoRun \in OAuthRun /\ OAuth!NoRun.at = "idle"
    BY <2>0, <2>1 DEF OAuth!NoRun, OAuthRun
  <2>3. OAuth!NoCallback \in OAuthCallback /\ OAuth!NoCallback.at = "idle"
    BY <2>0, <2>1 DEF OAuth!NoCallback, OAuthCallback
  <2>4. purge \in OAuthPurges
    BY <2>0 DEF OAuthPurges
  <2>5. OAuthShape
    <3>1. run \in [FlowRuns -> OAuthRun] /\ \A r \in FlowRuns : run[r].at = "idle"
      BY <2>0, <2>2
    <3>2. browser \in OAuthCallback
      BY <2>0, <2>3
    <3>3. /\ rows \in Nat /\ rows <= MaxRows /\ row \in 0 .. rows /\ tokens \in 0 .. rows
          /\ client \in 0 .. rows
      <4>1. rows = 0 /\ row = 0 /\ tokens = 0 /\ client = 0
        BY <2>0
      <4> QED BY <4>1
    <3>5. raced \in BOOLEAN
      BY <2>0
    <3>4. /\ Len(flow) <= MaxFlows /\ pending \in 0 .. Len(flow) /\ code \in 0 .. Len(flow)
          /\ states \subseteq 0 .. Len(flow) /\ shown \subseteq 0 .. Len(flow)
      BY <2>0, <2>1
    <3> QED BY <2>1, <2>4, <3>1, <3>2, <3>3, <3>4, <3>5 DEF OAuthShape
  <2>6. OAuthClean
    BY <2>0, <2>2, <2>3 DEF OAuthClean
  <2> QED
    BY <2>5, <2>6 DEF OAuthInv
<1>2. OAuthInv => OAuth!TypeOK /\ OAuth!StartsClean
  <2> SUFFICES ASSUME OAuthInv PROVE OAuth!TypeOK /\ OAuth!StartsClean
    OBVIOUS
  <2>1. OAuth!TypeOK
    <3>1. flow \in Seq(1 .. MaxRows)
      <4>1. 1 .. rows \subseteq 1 .. MaxRows /\ flow \in Seq(1 .. rows)
        BY DEF OAuthInv, OAuthShape
      <4> QED BY <4>1, SeqMonotonic
    <3>2. \A r \in FlowRuns : run[r] \in OAuthRun
      BY DEF OAuthInv, OAuthShape
    <3>3. {pending, code} \cup states \cup shown \subseteq 0 .. Len(flow)
      BY DEF OAuthInv, OAuthShape
    <3> QED
      BY <3>1, <3>2, <3>3 DEF OAuthInv, OAuthShape, OAuth!TypeOK, OAuthRun, OAuthCallback
  <2>2. OAuth!StartsClean
    BY DEF OAuthInv, OAuthClean, OAuthFlowOfRow, OAuth!StartsClean
  <2> QED BY <2>1, <2>2
<1>3. ASSUME OAuthInv, [OAuth!Next]_(OAuth!vars) PROVE OAuthInv'
  <2>1. CASE UNCHANGED OAuth!vars
    <3>1. OAuthRun' = OAuthRun /\ OAuthCallback' = OAuthCallback /\ OAuthFlowOfRow' = OAuthFlowOfRow
      BY <2>1 DEF OAuth!vars, OAuthRun, OAuthCallback, OAuthFlowOfRow
    <3> QED
      BY <1>3, <2>1, <3>1 DEF OAuth!vars, OAuthInv, OAuthShape, OAuthClean
  <2>2. CASE OAuth!Next
    BY <1>3, <2>2, OAuthHub, OAuthRunSteps, OAuthParks, OAuthBrowser, OAuthKept, OAuthCalledBack
       DEF OAuth!Next
  <2> QED BY <1>3, <2>1, <2>2
<1> QED
  BY <1>1, <1>2, <1>3, PTL DEF OAuth!Spec

-----------------------------------------------------------------------------
(* The graph service.                                                         *)

GraphObtained == [edit : Nat, user : GraphUsers \cup {Graph!NoUser}, hook : Nat]
GraphRequest ==
  [op : {"", "run", "read"}, user : GraphUsers \cup {Graph!NoUser},
   at : {"idle", "new", "probe", "base", "done", "failed"}, graph : GraphObtained]

(* A cached graph was built for nobody, the hook is the factory's, and the     *)
(* caches hold nothing older than the last reload unless a load was in flight. *)
GraphCached ==
  /\ base \in GraphObtained /\ base.user = Graph!NoUser /\ base.hook \in {0, base.edit}
  /\ factory \in Nat /\ factory <= file.edit /\ hook = factory
  /\ Graph!ReloadTakesEffect

(* A request: the file it probes is a 0-arg factory while nothing changes      *)
(* under it; what it loads is no older than the last reload, and is a graph of *)
(* a factory only while one is registered, or it was in flight when the reload *)
(* came; and what it has obtained is its own.                                  *)
GraphWay(t, settled, registered) ==
  /\ t.at = "probe" => t.op = "run" /\ (settled => file.kind = "zero")
  /\ t.at = "base" =>
       /\ t.graph.user = Graph!NoUser /\ t.graph.hook \in {0, t.graph.edit}
       /\ t.op = "run" /\ t.graph.hook # 0 => ~settled
       /\ ~reload.raced => t.graph.edit >= reload.edit /\ (t.graph.hook # 0 => registered)
  /\ t.at = "done" =>
       /\ t.graph.user \in {Graph!NoUser, t.user} /\ t.graph.hook \in {0, t.graph.edit}
       /\ t.op = "run" /\ t.graph.hook # 0 /\ settled /\ ~reload.raced => t.graph.user = t.user

GraphInv ==
  /\ file \in [kind : GraphKinds, edit : Nat \ {0}] /\ file.edit <= GraphEdits + 1
  /\ reload \in [edit : Nat, raced : BOOLEAN] /\ reload.edit <= file.edit
  /\ GraphCached
  /\ stable \in [GraphRequests -> BOOLEAN] /\ req \in [GraphRequests -> GraphRequest]
  /\ \A r \in GraphRequests : GraphWay(req[r], stable[r], factory # 0)

(* The step of one request. *)
LEMMA GraphMoves ==
  ASSUME GraphInv, NEW r \in GraphRequests, NEW t \in GraphRequest, GraphWay(t, stable[r], factory' # 0),
         req' = [req EXCEPT ![r] = t], UNCHANGED <<file, stable, reload>>, GraphCached',
         factory # 0 => factory' # 0
  PROVE  GraphInv'
<1>1. /\ req' \in [GraphRequests -> GraphRequest]
      /\ \A q \in GraphRequests : req'[q] = IF q = r THEN t ELSE req[q]
  BY DEF GraphInv
<1>2. (\A q \in GraphRequests : GraphWay(req[q], stable[q], factory # 0))'
  BY <1>1 DEF GraphInv, GraphWay
<1> QED
  BY <1>1, <1>2 DEF GraphInv

LEMMA GraphObtains ==
  ASSUME GraphInv, NEW r \in GraphRequests, NEW g \in GraphObtained, Graph!Obtains(r, g),
         g.user \in {Graph!NoUser, req[r].user}, g.hook \in {0, g.edit},
         req[r].op = "run" /\ g.hook # 0 /\ stable[r] /\ ~reload.raced => g.user = req[r].user,
         UNCHANGED <<file, stable, reload>>, GraphCached', factory # 0 => factory' # 0
  PROVE  GraphInv'
<1> DEFINE t == [req[r] EXCEPT !.at = "done", !.graph = g]
<1>1. req[r] \in GraphRequest
  BY DEF GraphInv
<1>2. t \in GraphRequest /\ t.at = "done" /\ t.graph = g /\ t.user = req[r].user /\ t.op = req[r].op
  BY <1>1 DEF GraphRequest
<1>3. req' = [req EXCEPT ![r] = t]
  BY DEF Graph!Obtains, GraphInv
<1> HIDE DEF t
<1>4. GraphWay(t, stable[r], factory' # 0)
  BY <1>2 DEF GraphWay
<1> QED BY <1>2, <1>3, <1>4, GraphMoves

(* A request that waits for a factory, or fails. *)
LEMMA GraphFails ==
  ASSUME GraphInv, NEW r \in GraphRequests, Graph!Refused(r), UNCHANGED <<file, base, factory, hook, stable, reload>>
  PROVE  GraphInv'
<1> DEFINE t == [req[r] EXCEPT !.at = "failed"]
<1>1. t \in GraphRequest /\ t.at = "failed"
  BY DEF GraphRequest, GraphInv
<1>2. req' = [req EXCEPT ![r] = t]
  BY DEF Graph!Refused, GraphInv
<1> HIDE DEF t
<1>3. GraphCached'
  BY DEF GraphInv, GraphCached, Graph!ReloadTakesEffect
<1> QED BY <1>1, <1>2, <1>3, GraphMoves DEF GraphWay

LEMMA GraphWaits ==
  ASSUME GraphInv, NEW r \in GraphRequests, NEW place \in {"base", "probe"}, NEW g \in GraphObtained,
         Graph!Builds(r, place, g), UNCHANGED <<file, stable, reload>>, GraphCached',
         factory # 0 => factory' # 0,
         place = "probe" => req[r].op = "run" /\ file.kind = "zero",
         place = "base" => /\ g.user = Graph!NoUser /\ g.hook \in {0, g.edit} /\ g.edit = file.edit
                           /\ g.hook # 0 => factory' # 0
                           /\ req[r].op = "run" /\ g.hook # 0 => ~stable[r]
  PROVE  GraphInv'
<1>0. req[r] \in GraphRequest /\ file.edit \in Nat /\ reload.edit <= file.edit /\ reload.edit \in Nat
  BY DEF GraphInv
<1> DEFINE t == [req[r] EXCEPT !.at = place, !.graph = g]
<1>1. t \in GraphRequest /\ t.at = place /\ t.graph = g /\ t.op = req[r].op
  BY <1>0 DEF GraphRequest
<1>2. req' = [req EXCEPT ![r] = t]
  BY DEF Graph!Builds, GraphInv
<1> HIDE DEF t
<1>3. GraphWay(t, stable[r], factory' # 0)
  BY <1>0, <1>1 DEF GraphWay
<1> QED BY <1>1, <1>2, <1>3, GraphMoves

(* A factory that is registered, or is now, and its hook. *)
LEMMA GraphRegisters ==
  ASSUME GraphInv, NEW u \in GraphUsers \cup {Graph!NoUser}, UNCHANGED <<file, base, reload>>,
         \/ UNCHANGED <<factory, hook>>
         \/ factory = 0 /\ factory' = file.edit /\ hook' = Graph!Classified(hook, file.edit)
  PROVE  /\ GraphCached' /\ (factory # 0 => factory' # 0)
         /\ \E g \in GraphObtained : /\ g = Graph!Invoked(factory', hook', u)
                                     /\ g.user = u /\ g.hook = g.edit /\ g.edit = factory'
<1>0. file.edit \in Nat \ {0} /\ reload.edit <= file.edit /\ reload.edit \in Nat
  BY DEF GraphInv
<1>1. factory' \in Nat /\ factory' <= file.edit /\ hook' = factory'
  BY <1>0 DEF GraphInv, GraphCached, Graph!Classified
<1>2. factory' = factory \/ factory' = file.edit
  OBVIOUS
<1>3. GraphCached'
  BY <1>0, <1>1, <1>2 DEF GraphInv, GraphCached, Graph!ReloadTakesEffect
<1> DEFINE g == Graph!Invoked(factory', hook', u)
<1>4. g \in GraphObtained /\ g.user = u /\ g.hook = g.edit /\ g.edit = factory'
  BY <1>1 DEF Graph!Invoked, Graph!Graph, GraphObtained
<1> QED BY <1>0, <1>2, <1>3, <1>4

(* A factory called for user u. *)
LEMMA GraphInvokes ==
  ASSUME GraphInv, NEW r \in GraphRequests, NEW u \in GraphUsers \cup {Graph!NoUser},
         u \in {Graph!NoUser, req[r].user}, req[r].op = "run" /\ stable[r] => u = req[r].user,
         Graph!Obtains(r, Graph!Invoked(factory', hook', u)), UNCHANGED <<file, base, stable, reload>>,
         \/ UNCHANGED <<factory, hook>>
         \/ factory = 0 /\ factory' = file.edit /\ hook' = Graph!Classified(hook, file.edit)
  PROVE  GraphInv'
<1>1. GraphCached' /\ (factory # 0 => factory' # 0)
  BY GraphRegisters
<1>2. PICK g \in GraphObtained : /\ g = Graph!Invoked(factory', hook', u)
                                 /\ g.user = u /\ g.hook = g.edit
  BY GraphRegisters
<1>3. Graph!Obtains(r, g)
  BY <1>2
<1> QED BY <1>1, <1>2, <1>3, GraphObtains

LEMMA GraphGetsBase ==
  ASSUME GraphInv, NEW r \in GraphRequests, factory = 0, Graph!GetBase(r),
         req[r].op = "run" /\ stable[r] => base # Graph!NoGraph \/ file.kind # "factory",
         UNCHANGED <<file, stable, reload>>
  PROVE  GraphInv'
<1>0. /\ file.edit \in Nat \ {0} /\ reload.edit <= file.edit /\ reload.edit \in Nat
      /\ base \in GraphObtained /\ base.user = Graph!NoUser /\ base.hook \in {0, base.edit}
      /\ ~reload.raced /\ base # Graph!NoGraph => base.hook = 0
  BY DEF GraphInv, GraphCached, Graph!ReloadTakesEffect
<1>1. CASE base # Graph!NoGraph
  <2>1. Graph!Obtains(r, base) /\ UNCHANGED <<base, factory, hook>>
    BY <1>1 DEF Graph!GetBase
  <2>2. GraphCached'
    BY <2>1 DEF GraphInv, GraphCached, Graph!ReloadTakesEffect
  <2> QED BY <1>0, <1>1, <2>1, <2>2, GraphObtains
<1>2. CASE base = Graph!NoGraph
  <2>0. Graph!LoadBase(r)
    BY <1>2 DEF Graph!GetBase
  <2>1. CASE /\ file.kind = "factory" /\ factory' = file.edit
             /\ hook' = Graph!Classified(hook, file.edit)
             /\ Graph!Builds(r, "base", Graph!Invoked(file.edit, hook', Graph!NoUser)) /\ UNCHANGED base
    <3>1. GraphCached' /\ (factory # 0 => factory' # 0)
      BY <2>1, GraphRegisters
    <3>2. PICK g \in GraphObtained : /\ g = Graph!Invoked(factory', hook', Graph!NoUser)
                                     /\ g.user = Graph!NoUser /\ g.hook = g.edit /\ g.edit = factory'
      BY <2>1, GraphRegisters
    <3>3. Graph!Builds(r, "base", g) /\ g.edit = file.edit /\ factory' # 0
      BY <1>0, <2>1, <3>2
    <3>4. ~(req[r].op = "run" /\ stable[r])
      BY <1>2, <2>1
    <3> QED BY <3>1, <3>2, <3>3, <3>4, GraphWaits
  <2>2. CASE /\ file.kind = "graph" /\ base' = Graph!Graph(file.edit, Graph!NoUser, 0)
             /\ Graph!Obtains(r, base') /\ UNCHANGED <<factory, hook>>
    <3>1. /\ base' \in GraphObtained /\ base'.user = Graph!NoUser /\ base'.hook = 0
          /\ base'.edit = file.edit
      BY <1>0, <2>2 DEF Graph!Graph, GraphObtained
    <3>2. GraphCached'
      BY <1>0, <2>2, <3>1 DEF GraphInv, GraphCached, Graph!ReloadTakesEffect
    <3> QED BY <2>2, <3>1, <3>2, GraphObtains
  <2>3. CASE Graph!Builds(r, "base", Graph!Graph(file.edit, Graph!NoUser, 0)) /\ UNCHANGED <<base, factory, hook>>
    <3>0. /\ Graph!Graph(file.edit, Graph!NoUser, 0) \in GraphObtained
          /\ Graph!Graph(file.edit, Graph!NoUser, 0).user = Graph!NoUser
          /\ Graph!Graph(file.edit, Graph!NoUser, 0).hook = 0
          /\ Graph!Graph(file.edit, Graph!NoUser, 0).edit = file.edit
      BY <1>0 DEF Graph!Graph, GraphObtained
    <3>1. PICK g \in GraphObtained : /\ g = Graph!Graph(file.edit, Graph!NoUser, 0)
                                     /\ g.user = Graph!NoUser /\ g.hook = 0 /\ g.edit = file.edit
      BY <3>0
    <3>2. Graph!Builds(r, "base", g)
      BY <2>3, <3>1
    <3>3. GraphCached'
      BY <2>3 DEF GraphInv, GraphCached, Graph!ReloadTakesEffect
    <3> QED BY <2>3, <3>1, <3>2, <3>3, GraphWaits
  <2>4. CASE Graph!Refused(r) /\ UNCHANGED <<base, factory, hook>>
    BY <2>4, GraphFails
  <2> QED BY <2>0, <2>1, <2>2, <2>3, <2>4 DEF Graph!LoadBase
<1> QED BY <1>1, <1>2

LEMMA GraphStep ==
  ASSUME GraphEdits \in Nat, GraphInv, [Graph!Next]_(Graph!vars) PROVE GraphInv'
<1>1. ASSUME NEW r \in GraphRequests, NEW u \in GraphUsers, Graph!GetGraph(r, u) PROVE GraphInv'
  <2>0. req[r].op = "run" /\ req[r].user = u /\ UNCHANGED <<file, stable, reload>>
    BY <1>1 DEF Graph!GetGraph
  <2>1. CASE Graph!Obtains(r, Graph!Invoked(factory, hook, u)) /\ UNCHANGED <<base, factory, hook>>
    BY <2>0, <2>1, GraphInvokes
  <2>2. CASE factory = 0 /\ (base # Graph!NoGraph \/ file.kind \in {"graph", "broken"}) /\ Graph!GetBase(r)
    BY <2>0, <2>2, GraphGetsBase
  <2>3. CASE /\ factory = 0 /\ factory' = file.edit /\ hook' = Graph!Classified(hook, file.edit)
             /\ Graph!Obtains(r, Graph!Invoked(file.edit, hook', u)) /\ UNCHANGED base
    <3>1. Graph!Obtains(r, Graph!Invoked(factory', hook', u))
      BY <2>3
    <3> QED BY <2>0, <2>3, <3>1, GraphInvokes
  <2>4. CASE file.kind = "zero" /\ Graph!Builds(r, "probe", Graph!NoGraph) /\ UNCHANGED <<base, factory, hook>>
    <3>1. Graph!NoGraph \in GraphObtained
      BY DEF Graph!NoGraph, GraphObtained
    <3>2. GraphCached'
      BY <2>0, <2>4 DEF GraphInv, GraphCached, Graph!ReloadTakesEffect
    <3> QED BY <2>0, <2>4, <3>1, <3>2, GraphWaits
  <2> QED BY <1>1, <2>1, <2>2, <2>3, <2>4 DEF Graph!GetGraph
<1>2. ASSUME NEW r \in GraphRequests, Graph!Probed(r) PROVE GraphInv'
  <2>0. /\ req[r] \in GraphRequest /\ req[r].at = "probe" /\ UNCHANGED <<file, stable, reload>>
        /\ req[r].user \in GraphUsers \cup {Graph!NoUser}
        /\ stable[r] => file.kind = "zero"
    BY <1>2 DEF Graph!Probed, GraphInv, GraphWay, GraphRequest
  <2>1. CASE factory # 0
    <3>1. Graph!Obtains(r, Graph!Invoked(factory, hook, req[r].user)) /\ UNCHANGED <<base, factory, hook>>
      BY <1>2, <2>1 DEF Graph!Probed
    <3> QED BY <2>0, <3>1, GraphInvokes
  <2>2. CASE factory = 0
    <3>1. Graph!GetBase(r)
      BY <1>2, <2>2 DEF Graph!Probed
    <3> QED BY <2>0, <2>2, <3>1, GraphGetsBase
  <2> QED BY <2>1, <2>2
<1>3. ASSUME NEW r \in GraphRequests, Graph!Loaded(r) PROVE GraphInv'
  <2>0. PICK g \in GraphObtained : g = req[r].graph
    BY DEF GraphInv, GraphRequest
  <2>1. /\ req[r].at = "base" /\ Graph!Obtains(r, g) /\ base' = (IF factory = 0 THEN g ELSE base)
        /\ UNCHANGED <<file, factory, hook, stable, reload>>
    BY <1>3, <2>0 DEF Graph!Loaded
  <2>2. /\ g.user = Graph!NoUser /\ g.hook \in {0, g.edit}
        /\ req[r].op = "run" /\ g.hook # 0 => ~stable[r]
        /\ ~reload.raced => g.edit >= reload.edit /\ (g.hook # 0 => factory # 0)
    BY <2>0, <2>1 DEF GraphInv, GraphWay
  <2>3. GraphCached'
    BY <2>1, <2>2 DEF GraphInv, GraphCached, Graph!ReloadTakesEffect
  <2> QED BY <2>1, <2>2, <2>3, GraphObtains
<1>4. ASSUME NEW r \in GraphRequests, NEW u \in GraphUsers, Graph!Validate(r, u) PROVE GraphInv'
  <2>0. req[r].op = "read" /\ req[r].user = u /\ UNCHANGED <<file, stable, reload>>
    BY <1>4 DEF Graph!Validate
  <2>1. CASE factory # 0
    <3>1. Graph!Obtains(r, Graph!Invoked(factory, hook, u)) /\ UNCHANGED <<base, factory, hook>>
      BY <1>4, <2>1 DEF Graph!Validate
    <3> QED BY <2>0, <3>1, GraphInvokes
  <2>2. CASE factory = 0
    <3>1. Graph!GetBase(r)
      BY <1>4, <2>2 DEF Graph!Validate
    <3> QED BY <2>0, <2>2, <3>1, GraphGetsBase
  <2> QED BY <2>1, <2>2
<1>5. ASSUME NEW r \in GraphRequests, NEW u \in GraphUsers, NEW op \in {"run", "read"},
             Graph!Request(r, op, u)
      PROVE  GraphInv'
  <2> DEFINE t == [req[r] EXCEPT !.op = op, !.user = u, !.at = "new"]
  <2>0. req[r] \in GraphRequest
    BY DEF GraphInv
  <2>1. t \in GraphRequest /\ t.at = "new"
    BY <2>0 DEF GraphRequest
  <2>2. req' = [req EXCEPT ![r] = t]
    BY <1>5 DEF Graph!Request, GraphInv
  <2> HIDE DEF t
  <2>3. UNCHANGED <<file, base, factory, hook, stable, reload>>
    BY <1>5 DEF Graph!Request
  <2>4. GraphCached'
    BY <2>3 DEF GraphInv, GraphCached, Graph!ReloadTakesEffect
  <2> QED BY <2>1, <2>2, <2>3, <2>4, GraphMoves DEF GraphWay
<1>6. ASSUME NEW r \in GraphRequests, Graph!Answer(r) PROVE GraphInv'
  <2> DEFINE t == [op |-> "", user |-> Graph!NoUser, at |-> "idle", graph |-> Graph!NoGraph]
  <2>0. /\ req' = [req EXCEPT ![r] = t] /\ stable' = [stable EXCEPT ![r] = TRUE]
        /\ UNCHANGED <<file, base, factory, hook, reload>>
    BY <1>6 DEF Graph!Answer
  <2>1. t \in GraphRequest /\ t.at = "idle"
    BY DEF GraphRequest, GraphObtained, Graph!NoGraph
  <2> HIDE DEF t
  <2>2. /\ req' \in [GraphRequests -> GraphRequest] /\ stable' \in [GraphRequests -> BOOLEAN]
        /\ \A q \in GraphRequests : /\ req'[q] = IF q = r THEN t ELSE req[q]
                                    /\ q # r => stable'[q] = stable[q]
    BY <2>0, <2>1 DEF GraphInv
  <2>3. GraphCached'
    BY <2>0 DEF GraphInv, GraphCached, Graph!ReloadTakesEffect
  <2>4. (\A q \in GraphRequests : GraphWay(req[q], stable[q], factory # 0))'
    BY <2>0, <2>1, <2>2 DEF GraphInv, GraphWay
  <2> QED BY <2>0, <2>2, <2>3, <2>4 DEF GraphInv
<1>7. ASSUME NEW k \in GraphKinds, Graph!Edit(k) PROVE GraphInv'
  <2>0. /\ file.edit <= GraphEdits /\ file' = [kind |-> k, edit |-> file.edit + 1]
        /\ stable' = Graph!Unsettled /\ UNCHANGED <<base, factory, hook, req, reload>>
    BY <1>7 DEF Graph!Edit
  <2>1. /\ file.edit \in Nat \ {0} /\ reload.edit \in Nat /\ factory \in Nat
        /\ reload.edit <= file.edit /\ factory <= file.edit
    BY DEF GraphInv, GraphCached
  <2>2. /\ file' \in [kind : GraphKinds, edit : Nat \ {0}] /\ file'.edit <= GraphEdits + 1
        /\ reload.edit <= file'.edit /\ factory <= file'.edit
    BY <2>0, <2>1
  <2>3. /\ stable' \in [GraphRequests -> BOOLEAN]
        /\ \A q \in GraphRequests : stable'[q] => /\ stable[q] /\ req[q].at \notin {"probe", "base"}
                                                  /\ req[q].at = "done" => ~reload.raced
    BY <2>0 DEF Graph!Unsettled, GraphInv
  <2>4. GraphCached'
    BY <2>0, <2>2 DEF GraphInv, GraphCached, Graph!ReloadTakesEffect
  <2>5. (\A q \in GraphRequests : GraphWay(req[q], stable[q], factory # 0))'
    BY <2>0, <2>3 DEF GraphInv, GraphWay
  <2> QED BY <2>0, <2>2, <2>3, <2>4, <2>5 DEF GraphInv
<1>8. CASE Graph!Invalidate
  <2>0. /\ base' = Graph!NoGraph /\ factory' = 0 /\ hook' = 0
        /\ stable' = Graph!Unsettled /\ reload' = Graph!Reloaded /\ UNCHANGED <<file, req>>
    BY <1>8 DEF Graph!Invalidate
  <2>1. file.edit \in Nat \ {0}
    BY DEF GraphInv
  <2>2. /\ reload' \in [edit : Nat, raced : BOOLEAN] /\ reload'.edit = file.edit
        /\ ~reload'.raced => \A q \in GraphRequests : req[q].at # "base"
    BY <2>0, <2>1 DEF Graph!Reloaded
  <2>3. /\ stable' \in [GraphRequests -> BOOLEAN]
        /\ \A q \in GraphRequests : stable'[q] => /\ stable[q] /\ req[q].at \notin {"probe", "base"}
                                                  /\ req[q].at = "done" => ~reload.raced
    BY <2>0 DEF Graph!Unsettled, GraphInv
  <2>4. GraphCached'
    BY <2>0, <2>1 DEF GraphCached, GraphObtained, Graph!NoGraph, Graph!ReloadTakesEffect
  <2>5. (\A q \in GraphRequests : GraphWay(req[q], stable[q], factory # 0))'
    BY <2>0, <2>2, <2>3 DEF GraphInv, GraphWay
  <2> QED BY <2>0, <2>1, <2>2, <2>3, <2>4, <2>5 DEF GraphInv
<1>9. CASE UNCHANGED Graph!vars
  BY <1>9 DEF Graph!vars, GraphInv, GraphCached, GraphWay, Graph!ReloadTakesEffect
<1> QED
  BY <1>1, <1>2, <1>3, <1>4, <1>5, <1>6, <1>7, <1>8, <1>9 DEF Graph!Next

(* GraphService, for any number of requests, users and edits: a graph that a   *)
(* request gets was never built for another user, a factory is called with the *)
(* arguments of its own signature and, for an execution, with its user, and a  *)
(* reload takes effect for what is cached after it.                            *)
THEOREM GraphsAreOwn ==
  ASSUME GraphEdits \in Nat
  PROVE  Graph!Spec => [](Graph!TypeOK /\ Graph!GraphIsOwn /\ Graph!ReloadTakesEffect)
<1>1. Graph!Init => GraphInv
  <2> SUFFICES ASSUME Graph!Init PROVE GraphInv
    OBVIOUS
  <2> DEFINE t == [op |-> "", user |-> Graph!NoUser, at |-> "idle", graph |-> Graph!NoGraph]
  <2>1. file \in [kind : GraphKinds, edit : Nat \ {0}] /\ file.edit = 1
    <3>1. file \in [kind : GraphKinds \ {"broken"}, edit : {1}]
      BY DEF Graph!Init
    <3>2. PICK k \in GraphKinds : file = [kind |-> k, edit |-> 1]
      BY <3>1
    <3> QED BY <3>2
  <2>2. reload = [edit |-> 1, raced |-> FALSE]
    BY DEF Graph!Init
  <2>3. t \in GraphRequest /\ t.at = "idle"
    BY DEF GraphRequest, GraphObtained, Graph!NoGraph
  <2>4. /\ base \in GraphObtained /\ base.user = Graph!NoUser /\ base.hook = 0
        /\ base # Graph!NoGraph => base.edit = 1
        /\ factory \in {0, 1} /\ hook = factory
    BY DEF Graph!Init, GraphObtained, Graph!NoGraph, Graph!Graph
  <2>5. req = [r \in GraphRequests |-> t] /\ stable = [r \in GraphRequests |-> TRUE]
    BY DEF Graph!Init
  <2> HIDE DEF t
  <2>6. GraphCached
    BY <2>1, <2>2, <2>4 DEF GraphCached, Graph!ReloadTakesEffect
  <2>7. \A r \in GraphRequests : GraphWay(req[r], stable[r], factory # 0)
    BY <2>3, <2>5 DEF GraphWay
  <2>8. reload \in [edit : Nat, raced : BOOLEAN] /\ reload.edit = 1
    BY <2>2
  <2>9. stable \in [GraphRequests -> BOOLEAN] /\ req \in [GraphRequests -> GraphRequest]
    BY <2>3, <2>5
  <2>10. file.edit <= GraphEdits + 1 /\ reload.edit <= file.edit
    BY <2>1, <2>8
  <2> QED BY <2>1, <2>6, <2>7, <2>8, <2>9, <2>10 DEF GraphInv
<1>2. GraphInv => Graph!TypeOK /\ Graph!GraphIsOwn /\ Graph!ReloadTakesEffect
  <2> SUFFICES ASSUME GraphInv PROVE Graph!TypeOK /\ Graph!GraphIsOwn /\ Graph!ReloadTakesEffect
    OBVIOUS
  <2>1. Graph!TypeOK
    <3>1. file \in [kind : GraphKinds, edit : 1 .. GraphEdits + 1]
      <4>1. file \in [kind : GraphKinds, edit : Nat \ {0}] /\ file.edit <= GraphEdits + 1
        BY DEF GraphInv
      <4>2. PICK k \in GraphKinds, e \in Nat \ {0} : file = [kind |-> k, edit |-> e]
        BY <4>1
      <4> QED BY <4>1, <4>2
    <3>2. \A r \in GraphRequests : req[r] \in GraphRequest
      BY DEF GraphInv
    <3>3. file.edit \in Nat /\ factory \in 0 .. file.edit /\ hook = factory
      BY <3>1 DEF GraphInv, GraphCached
    <3> QED BY <3>1, <3>2, <3>3 DEF GraphRequest, Graph!TypeOK
  <2>2. Graph!GraphIsOwn
    BY DEF GraphInv, GraphWay, Graph!GraphIsOwn, Graph!Done
  <2> QED BY <2>1, <2>2 DEF GraphInv, GraphCached
<1>3. GraphInv /\ [Graph!Next]_(Graph!vars) => GraphInv'
  BY GraphStep
<1> QED
  BY <1>1, <1>2, <1>3, PTL DEF Graph!Spec

-----------------------------------------------------------------------------
(* The customers' preferences.                                                *)

(* The store's item has a key for each topic that is remembered; no topic has  *)
(* the name that stands for an item that is missing.                           *)
MemoryDeployment ==
  "missing" \notin Topics /\ Retention \in Nat /\ MaxDays \in Nat

(* A set of facts: each is of a topic, allowed, and not from the future. *)
MemoryFacts(f) ==
  /\ f = [k \in DOMAIN f |-> f[k]] /\ DOMAIN f \subseteq Topics
  /\ \A k \in DOMAIN f : f[k].value \in Preferences /\ f[k].at \in Nat /\ f[k].at <= now

(* Every topic that no writer has undone is stored as the customer was told. *)
MemoryTold ==
  \A k \in Topics \ undone :
    /\ k \in DOMAIN Memory!Facts(item) <=> noted[k] # {}
    /\ k \in DOMAIN Memory!Facts(item) => Memory!Facts(item)[k].value \in {Memory!Normal(v) : v \in noted[k]}

MemoryInv ==
  /\ now \in Nat /\ now <= MaxDays /\ noted = [k \in Topics |-> noted[k]] /\ undone \subseteq Topics
  /\ MemoryFacts(Memory!Facts(item)) /\ MemoryFacts(loaded)
  /\ writer = [w \in Writers |-> writer[w]]
  /\ \A w \in Writers : writer[w].at \in {"save", "delete"} =>
       /\ writer[w].key \in Topics /\ MemoryFacts(writer[w].facts)
       /\ writer[w].at = "save" => Memory!Normal(writer[w].value) \in Preferences
  /\ MemoryTold

(* A missing item has no facts; what is stored is not the missing item. *)
LEMMA MemoryStored ==
  ASSUME MemoryDeployment
  PROVE  /\ Memory!Facts(Memory!Missing) = Memory!NoFacts /\ DOMAIN Memory!NoFacts = {}
         /\ \A f : DOMAIN f \subseteq Topics => Memory!Facts(f) = f
<1>1. Memory!Facts(Memory!Missing) = Memory!NoFacts /\ DOMAIN Memory!NoFacts = {}
  BY DEF Memory!Facts, Memory!NoFacts
<1>2. DOMAIN Memory!Missing = {"missing"}
  BY DEF Memory!Missing
<1>3. \A f : DOMAIN f \subseteq Topics => Memory!Facts(f) = f
  BY <1>2 DEF MemoryDeployment, Memory!Facts
<1> QED BY <1>1, <1>3

(* The writers after one of them has moved. *)
LEMMA MemoryMoves ==
  ASSUME MemoryInv, NEW w \in Writers, NEW t, writer' = [writer EXCEPT ![w] = t], now' = now,
         t.at \in {"save", "delete"} =>
           /\ t.key \in Topics /\ MemoryFacts(t.facts)
           /\ t.at = "save" => Memory!Normal(t.value) \in Preferences
  PROVE  /\ writer' = [q \in Writers |-> writer'[q]]
         /\ \A q \in Writers : writer'[q].at \in {"save", "delete"} =>
              /\ writer'[q].key \in Topics /\ MemoryFacts(writer[q].facts)'
              /\ writer'[q].at = "save" => Memory!Normal(writer'[q].value) \in Preferences
<1>1. /\ writer' = [q \in Writers |-> writer'[q]]
      /\ \A q \in Writers : writer'[q] = IF q = w THEN t ELSE writer[q]
  BY DEF MemoryInv
<1> QED BY <1>1, ZenonT(60) DEF MemoryInv, MemoryFacts

(* A write back: of all topics but the writer's own those that it undoes are   *)
(* told apart, the others are stored as before.                                *)
LEMMA MemoryWrites ==
  ASSUME MemoryDeployment, MemoryInv, NEW w \in Writers, NEW key \in Topics, NEW facts, NEW f,
         writer' = [writer EXCEPT ![w] = Memory!Idle], UNCHANGED <<now, loaded>>,
         MemoryFacts(f), item' = f, undone' = Memory!Undone(key, facts),
         \A k \in Topics \ {key} : /\ k \in DOMAIN facts <=> k \in DOMAIN f
                                   /\ k \in DOMAIN f => facts[k] = f[k],
         NEW told, noted' = [noted EXCEPT ![key] = told],
         key \in DOMAIN f <=> told # {}, key \in DOMAIN f => f[key].value \in {Memory!Normal(v) : v \in told}
  PROVE  MemoryInv'
<1>0. DOMAIN f \subseteq Topics /\ Memory!Facts(f) = f
  BY MemoryStored DEF MemoryFacts
<1>1. Memory!Facts(item)' = f /\ MemoryFacts(f)' /\ MemoryFacts(loaded)'
  BY <1>0 DEF MemoryInv, MemoryFacts, Memory!Facts, Memory!Missing, Memory!NoFacts
<1>2. noted' = [k \in Topics |-> noted'[k]] /\ noted'[key] = told
      /\ \A k \in Topics \ {key} : noted'[k] = noted[k]
  BY DEF MemoryInv
<1>3. undone' \subseteq Topics
  BY DEF MemoryInv, Memory!Undone
<1>4. ASSUME NEW k \in Topics \ undone'
      PROVE  (k \in DOMAIN f <=> noted'[k] # {}) /\ (k \in DOMAIN f => f[k].value \in {Memory!Normal(v) : v \in noted'[k]})
  <2>1. CASE k = key
    BY <1>2, <2>1
  <2>2. CASE k # key
    <3>1. k \notin undone /\ ~Memory!Differ(facts, Memory!Facts(item), k)
      BY <1>4, <2>2 DEF Memory!Undone
    <3>2. /\ k \in DOMAIN f <=> k \in DOMAIN Memory!Facts(item)
          /\ k \in DOMAIN f => f[k] = Memory!Facts(item)[k]
      BY <1>4, <2>2, <3>1 DEF Memory!Differ
    <3>3. noted'[k] = noted[k]
      BY <1>2, <2>2
    <3> QED BY <1>4, <3>1, <3>2, <3>3 DEF MemoryInv, MemoryTold
  <2> QED BY <2>1, <2>2
<1>5. MemoryTold'
  BY <1>1, <1>4 DEF MemoryTold
<1>6. Memory!Idle.at \notin {"save", "delete"}
  BY DEF Memory!Idle
<1>7. /\ writer' = [q \in Writers |-> writer'[q]]
      /\ \A q \in Writers : writer'[q].at \in {"save", "delete"} =>
           /\ writer'[q].key \in Topics /\ MemoryFacts(writer[q].facts)'
           /\ writer'[q].at = "save" => Memory!Normal(writer'[q].value) \in Preferences
  BY <1>6, MemoryMoves
<1>8. MemoryFacts(Memory!Facts(item))'
  BY <1>1 DEF MemoryFacts
<1> QED
  BY <1>1, <1>2, <1>3, <1>5, <1>7, <1>8 DEF MemoryInv

LEMMA MemoryStep ==
  ASSUME MemoryDeployment, MemoryInv, [Memory!Next]_(Memory!vars) PROVE MemoryInv'
<1>1. ASSUME NEW w \in Writers, NEW key \in Memory!Texts(Topics),
             NEW v \in Memory!Texts(Preferences \cup Blocked), Memory!Read(w, key, v)
      PROVE  MemoryInv'
  <2> DEFINE t == [at |-> "save", key |-> Memory!Normal(key), value |-> v, facts |-> Memory!Facts(item)]
  <2>1. /\ writer' = [writer EXCEPT ![w] = t]
        /\ Memory!Normal(key) \in Topics /\ Memory!Normal(v) \in Preferences
        /\ UNCHANGED <<now, item, loaded, noted, undone>>
    BY <1>1 DEF Memory!Read, Memory!validate_fact, Memory!Texts, Memory!Normal
  <2>2. /\ t.at = "save" /\ t.key \in Topics /\ MemoryFacts(t.facts) /\ Memory!Normal(t.value) \in Preferences
    BY <2>1 DEF MemoryInv
  <2> HIDE DEF t
  <2>3. /\ writer' = [q \in Writers |-> writer'[q]]
        /\ \A q \in Writers : writer'[q].at \in {"save", "delete"} =>
             /\ writer'[q].key \in Topics /\ MemoryFacts(writer[q].facts)'
             /\ writer'[q].at = "save" => Memory!Normal(writer'[q].value) \in Preferences
    BY <2>1, <2>2, MemoryMoves
  <2> QED
    BY <2>1, <2>3, ZenonT(60) DEF MemoryInv, MemoryFacts, MemoryTold, Memory!Facts
<1>2. ASSUME NEW w \in Writers, NEW k \in Topics, Memory!DeleteRead(w, k) PROVE MemoryInv'
  <2> DEFINE t == [at |-> "delete", key |-> k, value |-> "none", facts |-> item]
  <2>1. /\ writer' = [writer EXCEPT ![w] = t] /\ k \in DOMAIN Memory!Facts(item)
        /\ UNCHANGED <<now, item, loaded, noted, undone>>
    BY <1>2 DEF Memory!DeleteRead
  <2>2. Memory!Facts(item) = item
    BY <2>1, MemoryStored DEF Memory!Facts
  <2>3. t.at = "delete" /\ t.key \in Topics /\ MemoryFacts(t.facts)
    BY <2>2 DEF MemoryInv
  <2> HIDE DEF t
  <2>4. /\ writer' = [q \in Writers |-> writer'[q]]
        /\ \A q \in Writers : writer'[q].at \in {"save", "delete"} =>
             /\ writer'[q].key \in Topics /\ MemoryFacts(writer[q].facts)'
             /\ writer'[q].at = "save" => Memory!Normal(writer'[q].value) \in Preferences
    BY <2>1, <2>3, MemoryMoves
  <2> QED
    BY <2>1, <2>4, ZenonT(60) DEF MemoryInv, MemoryFacts, MemoryTold, Memory!Facts
<1>3. ASSUME NEW w \in Writers, Memory!Write(w) PROVE MemoryInv'
  <2> DEFINE key == writer[w].key
             fact == [value |-> Memory!Normal(writer[w].value), at |-> now]
             f == Memory!With(writer[w].facts, key, fact)
  <2>1. /\ key \in Topics /\ MemoryFacts(writer[w].facts) /\ Memory!Normal(writer[w].value) \in Preferences
    BY <1>3 DEF Memory!Write, MemoryInv
  <2>2. /\ item' = f /\ noted' = [noted EXCEPT ![key] = {writer[w].value}]
        /\ undone' = Memory!Undone(key, f) /\ writer' = [writer EXCEPT ![w] = Memory!Idle]
        /\ UNCHANGED <<now, loaded>>
    BY <1>3 DEF Memory!Write, Memory!Answered
  <2>3. now \in Nat /\ fact.value = Memory!Normal(writer[w].value) /\ fact.at = now
    BY DEF MemoryInv
  <2> HIDE DEF fact
  <2>4. /\ DOMAIN f = DOMAIN writer[w].facts \cup {key} /\ f[key] = fact
        /\ \A k \in DOMAIN writer[w].facts : k # key => f[k] = writer[w].facts[k]
        /\ f = [k \in DOMAIN f |-> f[k]]
    BY DEF Memory!With
  <2> HIDE DEF f
  <2>5. MemoryFacts(f)
    BY <2>1, <2>3, <2>4 DEF MemoryFacts
  <2> DEFINE told == {writer[w].value}
  <2>6. told # {} /\ f[key].value \in {Memory!Normal(v) : v \in told} /\ key \in DOMAIN f
    BY <2>3, <2>4
  <2>7. noted' = [noted EXCEPT ![key] = told]
    BY <2>2
  <2> HIDE DEF told, key
  <2>8. \A k \in Topics \ {key} : /\ k \in DOMAIN f <=> k \in DOMAIN f
                                  /\ k \in DOMAIN f => f[k] = f[k]
    OBVIOUS
  <2> QED
    BY <2>1, <2>2, <2>5, <2>6, <2>7, <2>8, MemoryWrites
<1>4. ASSUME NEW w \in Writers, Memory!DeleteWrite(w) PROVE MemoryInv'
  <2> DEFINE key == writer[w].key
             f == Memory!Without(writer[w].facts, key)
  <2>1. key \in Topics /\ MemoryFacts(writer[w].facts)
    BY <1>4 DEF Memory!DeleteWrite, MemoryInv
  <2>2. /\ item' = f /\ noted' = [noted EXCEPT ![key] = {}]
        /\ undone' = Memory!Undone(key, writer[w].facts) /\ writer' = [writer EXCEPT ![w] = Memory!Idle]
        /\ UNCHANGED <<now, loaded>>
    BY <1>4 DEF Memory!DeleteWrite
  <2>3. /\ DOMAIN f = DOMAIN writer[w].facts \ {key}
        /\ \A k \in DOMAIN f : f[k] = writer[w].facts[k]
        /\ f = [k \in DOMAIN f |-> f[k]]
    BY DEF Memory!Without
  <2> HIDE DEF f
  <2>4. MemoryFacts(f)
    BY <2>1, <2>3 DEF MemoryFacts
  <2> QED
    BY <2>1, <2>2, <2>3, <2>4, MemoryWrites
<1>5. ASSUME NEW w \in Writers, Memory!Purge(w) PROVE MemoryInv'
  <2>1. /\ item' = Memory!Missing /\ noted' = [k \in Topics |-> {}] /\ undone' = {}
        /\ UNCHANGED <<now, writer, loaded>>
    BY <1>5 DEF Memory!Purge
  <2>2. Memory!Facts(item)' = Memory!NoFacts
    BY <2>1 DEF Memory!Facts, Memory!Missing, Memory!NoFacts
  <2>3. MemoryFacts(Memory!Facts(item))' /\ MemoryFacts(loaded)'
    <3>1. Memory!Facts(item)' = [k \in {} |-> [value |-> "none", at |-> 0]]
      BY <2>2 DEF Memory!NoFacts
    <3> QED BY <2>1, <3>1 DEF MemoryInv, MemoryFacts
  <2>4. MemoryTold'
    BY <2>1, <2>2, MemoryStored DEF MemoryTold
  <2>5. \A q \in Writers : writer[q].at \in {"save", "delete"} => MemoryFacts(writer[q].facts)'
    BY <2>1 DEF MemoryInv, MemoryFacts
  <2> QED BY <2>1, <2>3, <2>4, <2>5 DEF MemoryInv
<1>6. CASE Memory!Load
  <2>1. loaded' = Memory!Retained(Memory!Facts(item), now) /\ UNCHANGED <<now, item, writer, noted, undone>>
    BY <1>6 DEF Memory!Load
  <2>2. MemoryFacts(Memory!Facts(item))
    BY DEF MemoryInv
  <2>3. MemoryFacts(loaded)'
    BY <2>1, <2>2 DEF Memory!Retained, MemoryFacts
  <2> QED BY <2>1, <2>3 DEF MemoryInv, MemoryFacts, MemoryTold, Memory!Facts
<1>7. CASE Memory!Tick
  <2>1. now < MaxDays /\ now' = now + 1 /\ UNCHANGED <<item, writer, loaded, noted, undone>>
    BY <1>7 DEF Memory!Tick
  <2>2. now \in Nat
    BY DEF MemoryInv
  <2>3. \A f : MemoryFacts(f) => /\ f = [k \in DOMAIN f |-> f[k]] /\ DOMAIN f \subseteq Topics
                                 /\ \A k \in DOMAIN f : /\ f[k].value \in Preferences
                                                        /\ f[k].at \in Nat /\ f[k].at <= now'
    BY <2>1, <2>2 DEF MemoryFacts
  <2>4. MemoryFacts(Memory!Facts(item))' /\ MemoryFacts(loaded)'
    BY <2>1, <2>3 DEF MemoryInv, MemoryFacts, Memory!Facts
  <2>5. \A q \in Writers : writer[q].at \in {"save", "delete"} => MemoryFacts(writer[q].facts)'
    BY <2>1, <2>3 DEF MemoryInv, MemoryFacts
  <2>6. MemoryTold'
    BY <2>1 DEF MemoryInv, MemoryTold, Memory!Facts
  <2>7. now' \in Nat /\ now' <= MaxDays
    BY <2>1, <2>2 DEF MemoryDeployment
  <2> QED BY <2>1, <2>4, <2>5, <2>6, <2>7 DEF MemoryInv
<1>8. CASE UNCHANGED Memory!vars
  BY <1>8 DEF Memory!vars, MemoryInv, MemoryFacts, MemoryTold, Memory!Facts
<1> QED
  BY <1>1, <1>2, <1>3, <1>4, <1>5, <1>6, <1>7, <1>8 DEF Memory!Next

LEMMA MemoryInductive == MemoryDeployment => (Memory!Spec => []MemoryInv)
<1> SUFFICES ASSUME MemoryDeployment PROVE Memory!Spec => []MemoryInv
  OBVIOUS
<1>1. Memory!Init => MemoryInv
  <2> SUFFICES ASSUME Memory!Init PROVE MemoryInv
    OBVIOUS
  <2>1. /\ now = 0 /\ item = Memory!Missing /\ writer = [w \in Writers |-> Memory!Idle]
        /\ loaded = Memory!NoFacts /\ noted = [k \in Topics |-> {}] /\ undone = {}
    BY DEF Memory!Init
  <2>2. Memory!Facts(item) = Memory!NoFacts /\ DOMAIN Memory!NoFacts = {}
    BY <2>1, MemoryStored
  <2>3. MemoryFacts(Memory!NoFacts)
    BY DEF Memory!NoFacts, MemoryFacts
  <2>4. \A w \in Writers : writer[w].at = "idle"
    BY <2>1 DEF Memory!Idle
  <2>5. MemoryTold
    BY <2>1, <2>2 DEF MemoryTold
  <2> QED
    BY <2>1, <2>2, <2>3, <2>4, <2>5 DEF MemoryInv, MemoryDeployment
<1>2. MemoryInv /\ [Memory!Next]_(Memory!vars) => MemoryInv'
  BY MemoryStep
<1> QED
  BY <1>1, <1>2, PTL DEF Memory!Spec

(* PreferenceMemory, for any number of writers, topics and days: a load gives  *)
(* the newest fact of every topic a save was answered for, and no expired or   *)
(* deleted one; a fact is lost, or comes back, only by a writer that had read  *)
(* the item before.                                                            *)
THEOREM PreferencesLoad ==
  ASSUME MemoryDeployment
  PROVE  Memory!Spec => []Memory!TypeOK /\ [][Memory!LoadsWhatIsNoted]_(Memory!vars)
<1>1. MemoryInv => Memory!TypeOK
  <2> SUFFICES ASSUME MemoryInv PROVE Memory!TypeOK
    OBVIOUS
  <2>1. ASSUME NEW k \in DOMAIN Memory!Facts(item) PROVE Memory!Facts(item) = item
    BY <2>1, MemoryStored DEF Memory!Facts
  <2> QED
    BY <2>1 DEF MemoryInv, MemoryFacts, Memory!TypeOK, MemoryDeployment
<1>2. MemoryInv => Memory!LoadsWhatIsNoted
  <2> SUFFICES ASSUME MemoryInv, Memory!Load, NEW k \in Topics \ undone
               PROVE  /\ k \in DOMAIN loaded' => /\ k \in DOMAIN item /\ item[k].at + Retention >= now
                                                 /\ loaded'[k].value \in {Memory!Normal(v) : v \in noted[k]}
                      /\ noted[k] # {} /\ k \notin DOMAIN loaded' =>
                           k \in DOMAIN item /\ item[k].at + Retention < now
    BY DEF Memory!LoadsWhatIsNoted
  <2> DEFINE facts == Memory!Facts(item)
  <2>1. k \in DOMAIN facts => facts = item
    BY MemoryStored DEF Memory!Facts
  <2>2. /\ k \in DOMAIN facts <=> noted[k] # {}
        /\ k \in DOMAIN facts => facts[k].value \in {Memory!Normal(v) : v \in noted[k]} /\ facts[k].at \in Nat
    BY DEF MemoryInv, MemoryTold, MemoryFacts
  <2>3. /\ k \in DOMAIN loaded' <=> k \in DOMAIN facts /\ ~(facts[k].at + Retention < now)
        /\ k \in DOMAIN loaded' => loaded'[k] = facts[k]
    BY DEF Memory!Load, Memory!Retained, Memory!Expired
  <2>4. now \in Nat /\ Retention \in Nat
    BY DEF MemoryInv, MemoryDeployment
  <2> HIDE DEF facts
  <2> QED BY <2>1, <2>2, <2>3, <2>4
<1>3. Memory!Spec => []MemoryInv
  BY MemoryInductive, PTL
<1> QED
  BY <1>1, <1>2, <1>3, PTL

-----------------------------------------------------------------------------
(* What a run executes with.                                                  *)

(* A run's row is the job of one body, one user and one state of the assistant; *)
(* every call made for it is the call of that job.                              *)
ConfigJobOf(x, n, b, u, a) ==
  /\ x = [asked |-> b, owner |-> u, job |-> Config!Job(n, b, u, a),
          params |-> Config!to_execution_params(Config!Job(n, b, u, a)), calls |-> x.calls]
  /\ x.calls \in Seq({Config!Call(Config!Job(n, b, u, a))})

ConfigRun(x, n) ==
  /\ \E b, a, u : u \in ConfigUsers /\ ConfigJobOf(x, n, b, u, a)
  /\ Len(x.calls) <= MaxAttempts

ConfigInv ==
  /\ \E S : runs \in Seq(S)
  /\ \A n \in DOMAIN runs : ConfigRun(runs[n], n)
  /\ Config!TypeOK

LEMMA ConfigOver ==
  ASSUME NEW new, NEW old
  PROVE  /\ DOMAIN Config!Over(new, old) = DOMAIN new \cup DOMAIN old
         /\ \A x \in DOMAIN new : Config!Over(new, old)[x] = new[x]
         /\ \A x \in DOMAIN old : x \notin DOMAIN new => Config!Over(new, old)[x] = old[x]
BY DEF Config!Over

(* What the worker reads back is the job, as far as the call is concerned. *)
LEMMA ConfigReadBack ==
  ASSUME NEW n, NEW b, NEW u, NEW a
  PROVE  LET j == Config!Job(n, b, u, a) IN
         Config!Call(Config!from_run_orm(n, Config!to_execution_params(j))) = Config!Call(j)
<1> DEFINE j == Config!Job(n, b, u, a)
           e == [input |-> j.input, command |-> j.command, config |-> j.config,
                 context |-> j.context, checkpoint |-> j.checkpoint, durability |-> j.durability]
           i == [run_id |-> n, thread_id |-> "thread", user |-> u]
           k == Config!Over(i, e)
<1>1. j.run_id = n /\ j.thread_id = "thread" /\ j.user = u
  BY DEF Config!Job
<1>2. Config!from_run_orm(n, Config!to_execution_params(j)) = k
  BY <1>1 DEF Config!from_run_orm, Config!to_execution_params
<1>3. /\ DOMAIN e = {"input", "command", "config", "context", "checkpoint", "durability"}
      /\ DOMAIN i = {"run_id", "thread_id", "user"}
  OBVIOUS
<1>4. /\ k.input = j.input /\ k.command = j.command /\ k.config = j.config
      /\ k.context = j.context /\ k.checkpoint = j.checkpoint /\ k.durability = j.durability
      /\ k.run_id = n /\ k.thread_id = "thread" /\ k.user = u
  <2> HIDE DEF j
  <2>1. /\ e["input"] = j.input /\ e["command"] = j.command /\ e["config"] = j.config
        /\ e["context"] = j.context /\ e["checkpoint"] = j.checkpoint
        /\ e["durability"] = j.durability
        /\ i["run_id"] = n /\ i["thread_id"] = "thread" /\ i["user"] = u
    OBVIOUS
  <2> HIDE DEF e, i
  <2>2. /\ \A x \in DOMAIN i : k[x] = i[x]
        /\ \A x \in DOMAIN e : x \notin DOMAIN i => k[x] = e[x]
    BY ConfigOver
  <2> HIDE DEF k
  <2> QED BY <1>3, <2>1, <2>2
<1> HIDE DEF k, j
<1>5. Config!create_run_config(k) = Config!create_run_config(j)
  BY <1>1, <1>4, Zenon DEF Config!create_run_config
<1>6. Config!Call(k) = Config!Call(j)
  BY <1>4, <1>5, Zenon DEF Config!Call
<1> QED
  BY <1>2, <1>6 DEF j

LEMMA ConfigExcept ==
  ASSUME NEW b, NEW u, NEW j, NEW p, NEW c, NEW d
  PROVE  [[asked |-> b, owner |-> u, job |-> j, params |-> p, calls |-> c] EXCEPT !.calls = d]
           = [asked |-> b, owner |-> u, job |-> j, params |-> p, calls |-> d]
OBVIOUS

LEMMA ConfigExecutes ==
  ASSUME ConfigInv, MaxAttempts \in Nat, NEW n \in DOMAIN runs, NEW j, Config!Execute(n, j),
         \/ j = runs[n].job
         \/ j = Config!from_run_orm(n, runs[n].params)
  PROVE  ConfigInv'
<1>1. PICK S : runs \in Seq(S)
  BY DEF ConfigInv
<1> DEFINE x == runs[n]
<1>2. PICK b, a, u : u \in ConfigUsers /\ ConfigJobOf(x, n, b, u, a)
  BY DEF ConfigInv, ConfigRun
<1> DEFINE job == Config!Job(n, b, u, a)
           call == Config!Call(job)
           y == [asked |-> b, owner |-> u, job |-> job,
                 params |-> Config!to_execution_params(job), calls |-> Append(x.calls, call)]
<1>3. /\ x = [asked |-> b, owner |-> u, job |-> job,
              params |-> Config!to_execution_params(job), calls |-> x.calls]
      /\ x.calls \in Seq({call})
  BY <1>2 DEF ConfigJobOf
<1>4. Config!Call(j) = call
  <2>1. x.job = job /\ x.params = Config!to_execution_params(job)
    BY <1>3
  <2> QED BY <2>1, ConfigReadBack
<1>5. /\ runs' = [runs EXCEPT ![n] = [x EXCEPT !.calls = Append(x.calls, call)]]
      /\ Len(x.calls) < MaxAttempts /\ UNCHANGED <<assistant, edits, cron>>
  BY <1>4 DEF Config!Execute
<1> HIDE DEF call, job
<1>6. [x EXCEPT !.calls = Append(x.calls, call)] = y
  <2> DEFINE c0 == x.calls
             P == Config!to_execution_params(job)
  <2>1. x = [asked |-> b, owner |-> u, job |-> job, params |-> P, calls |-> c0]
    BY <1>3
  <2> HIDE DEF x, P, c0
  <2>2. [x EXCEPT !.calls = Append(c0, call)]
          = [asked |-> b, owner |-> u, job |-> job, params |-> P, calls |-> Append(c0, call)]
    BY <2>1, ConfigExcept, SMTT(30)
  <2> QED BY <2>2 DEF P, c0
<1>7. y.calls = Append(x.calls, call) /\ y.calls \in Seq({call}) /\ Len(y.calls) <= MaxAttempts
  BY <1>3, <1>5
<1>8. ConfigRun(y, n)
  <2>1. y = [asked |-> b, owner |-> u, job |-> job,
             params |-> Config!to_execution_params(job), calls |-> y.calls]
    BY <1>7
  <2>2. ConfigJobOf(y, n, b, u, a)
    BY <1>7, <2>1 DEF ConfigJobOf, job, call
  <2> HIDE DEF y
  <2> QED BY <1>2, <1>7, <2>2 DEF ConfigRun
<1> HIDE DEF x
<1>9. /\ DOMAIN runs' = DOMAIN runs /\ runs'[n] = y /\ Len(runs') = Len(runs)
      /\ \A m \in DOMAIN runs \ {n} : runs'[m] = runs[m]
      /\ runs' \in Seq(S \cup {y})
  <2> HIDE DEF y
  <2>1. runs' = [runs EXCEPT ![n] = y]
    BY <1>5, <1>6
  <2>2. runs \in Seq(S \cup {y})
    BY <1>1
  <2> QED BY <1>1, <2>1, <2>2
<1>10. y.owner \in ConfigUsers
  BY <1>2 DEF y
<1> HIDE DEF y
<1>11. Config!TypeOK'
  BY <1>5, <1>7, <1>9, <1>10 DEF ConfigInv, Config!TypeOK
<1> QED
  BY <1>8, <1>9, <1>11 DEF ConfigInv

LEMMA ConfigPrepares ==
  ASSUME ConfigInv, MaxRuns \in Nat, MaxAttempts \in Nat, NEW b, NEW u \in ConfigUsers, Config!Prepare(b, u)
  PROVE  ConfigInv'
<1>1. PICK S : runs \in Seq(S)
  BY DEF ConfigInv
<1> DEFINE n == Len(runs) + 1
<1>2. PICK a \in assistant :
        runs' = Append(runs, [asked |-> b, owner |-> u, job |-> Config!Job(n, b, u, a),
                  params |-> Config!to_execution_params(Config!Job(n, b, u, a)), calls |-> <<>>])
  BY DEF Config!Prepare
<1>3. Len(runs) < MaxRuns /\ UNCHANGED <<assistant, edits, cron>>
  BY DEF Config!Prepare
<1> DEFINE x == [asked |-> b, owner |-> u, job |-> Config!Job(n, b, u, a),
                 params |-> Config!to_execution_params(Config!Job(n, b, u, a)), calls |-> <<>>]
<1>4. x.calls = <<>> /\ x.owner = u /\ Len(x.calls) = 0
  OBVIOUS
<1>5. ConfigRun(x, n)
  <2>1. x.calls \in Seq({Config!Call(Config!Job(n, b, u, a))})
    BY <1>4
  <2>2. ConfigJobOf(x, n, b, u, a)
    BY <2>1 DEF ConfigJobOf
  <2> QED BY <1>4, <2>2 DEF ConfigRun
<1> HIDE DEF x
<1>6. /\ DOMAIN runs' = DOMAIN runs \cup {n} /\ runs'[n] = x /\ Len(runs') = n
      /\ \A m \in DOMAIN runs : runs'[m] = runs[m]
      /\ runs' \in Seq(S \cup {x})
  <2>1. runs' = Append(runs, x)
    BY <1>2 DEF x
  <2>2. runs \in Seq(S \cup {x})
    BY <1>1
  <2> QED BY <1>1, <2>1, <2>2
<1>7. Config!TypeOK'
  <2>1. Len(runs') <= MaxRuns
    BY <1>1, <1>3, <1>6
  <2> HIDE DEF n
  <2>2. \A m \in DOMAIN runs' : runs'[m].owner \in ConfigUsers /\ Len(runs'[m].calls) <= MaxAttempts
    BY <1>4, <1>6 DEF ConfigInv, Config!TypeOK
  <2> QED BY <1>3, <2>1, <2>2 DEF ConfigInv, Config!TypeOK
<1> QED
  BY <1>5, <1>6, <1>7 DEF ConfigInv

LEMMA ConfigStep ==
  ASSUME ConfigEdits \in Nat, MaxRuns \in Nat, MaxAttempts \in Nat,
         ConfigInv, [Config!Next]_(Config!vars)
  PROVE  ConfigInv'
<1>1. CASE UNCHANGED Config!vars
  BY <1>1 DEF Config!vars, ConfigInv, Config!TypeOK
<1>2. CASE Config!CreateRun
  BY <1>2, ConfigPrepares DEF Config!CreateRun
<1>3. CASE Config!CreateCron
  <2>1. /\ UNCHANGED <<assistant, edits, runs>> /\ \A c \in cron' : c.user \in ConfigUsers
    BY <1>3 DEF Config!CreateCron
  <2> QED BY <2>1 DEF ConfigInv, Config!TypeOK
<1>4. CASE Config!FireCron
  BY <1>4, ConfigPrepares DEF Config!FireCron, ConfigInv, Config!TypeOK
<1>5. CASE Config!EditAssistant
  BY <1>5 DEF Config!EditAssistant, ConfigInv, Config!TypeOK
<1>6. CASE Config!ExecuteLocally \/ Config!ExecuteFromRow
  BY <1>6, ConfigExecutes DEF Config!ExecuteLocally, Config!ExecuteFromRow
<1> QED
  BY <1>1, <1>2, <1>3, <1>4, <1>5, <1>6 DEF Config!Next

(* The call of a job is pinned to the user, thread and run of the job, and asks *)
(* for what the body asks for.                                                  *)
ConfigCallAsAsked(c, n, b, u) ==
  /\ c.config.configurable["user_id"] = u
  /\ c.config.configurable["thread_id"] = "thread"
  /\ c.config.configurable["run_id"] = n
  /\ "user_id" \notin DOMAIN c.context
  /\ c.input = IF b.command # "none" THEN b.command ELSE b.input
  /\ b.durability # "none" => c.durability = b.durability
  /\ "checkpoint_id" \in DOMAIN c.config.configurable =>
       c.config.configurable["checkpoint_id"] = Config!CheckpointAsked(b)

LEMMA ConfigCall ==
  ASSUME NEW n, NEW b, NEW u, NEW a
  PROVE  ConfigCallAsAsked(Config!Call(Config!Job(n, b, u, a)), n, b, u)
<1> DEFINE j == Config!Job(n, b, u, a)
           c == Config!Call(j)
           own == Config!Config(b, a).configurable
           point == Config!resolve_checkpoint(b)
           keys == Config!CheckpointKeys(point)
           ids == [thread_id |-> "thread", run_id |-> n]
           routed == Config!Over(ids, own)
           placed == Config!Over(keys, routed)
           user == [user_id |-> u]
           all == Config!Over(user, placed)
<1>1. /\ c.config.configurable = all /\ c.context = Config!Context(b, a)
      /\ c.input = (IF b.command # "none" THEN b.command ELSE b.input)
      /\ c.durability = Config!resolve_durability(b)
  BY DEF Config!Call, Config!Job, Config!create_run_config, Config!Input, Config!None
<1>2. "user_id" \notin DOMAIN c.context
  BY <1>1 DEF Config!Context, Config!strip_pinned_config_keys, Config!IdentityKeys
<1>3. b.durability # "none" => c.durability = b.durability
  BY <1>1 DEF Config!resolve_durability, Config!None
<1>4. /\ "thread_id" \notin DOMAIN keys /\ "run_id" \notin DOMAIN keys
      /\ "checkpoint_id" \in DOMAIN keys <=>
           point # Config!Absent /\ "checkpoint_id" \in DOMAIN point
             /\ point["checkpoint_id"] # Config!Null
      /\ "checkpoint_id" \in DOMAIN keys => keys["checkpoint_id"] = point["checkpoint_id"]
  <2> HIDE DEF point
  <2> QED
    BY DEF Config!CheckpointKeys, Config!strip_pinned_config_keys, Config!PinnedKeys,
           Config!IdentityKeys, Config!Empty
<1>5. /\ DOMAIN ids = {"thread_id", "run_id"} /\ ids["thread_id"] = "thread" /\ ids["run_id"] = n
      /\ DOMAIN user = {"user_id"} /\ user["user_id"] = u
  OBVIOUS
<1>6. "checkpoint_id" \in DOMAIN own =>
        /\ own["checkpoint_id"] = b.config.configurable["checkpoint_id"]
  BY DEF Config!Config, Config!strip_pinned_config_keys, Config!Empty
<1> HIDE DEF keys, own, ids, user, point
<1>7. /\ DOMAIN routed = {"thread_id", "run_id"} \cup DOMAIN own
      /\ routed["thread_id"] = "thread" /\ routed["run_id"] = n
      /\ "checkpoint_id" \in DOMAIN own => routed["checkpoint_id"] = own["checkpoint_id"]
  <2>1. /\ DOMAIN routed = DOMAIN ids \cup DOMAIN own
        /\ \A x \in DOMAIN ids : routed[x] = ids[x]
        /\ \A x \in DOMAIN own : x \notin DOMAIN ids => routed[x] = own[x]
    BY ConfigOver
  <2> HIDE DEF routed
  <2> QED BY <1>5, <2>1
<1> HIDE DEF routed
<1>8. /\ DOMAIN placed = DOMAIN keys \cup DOMAIN routed
      /\ placed["thread_id"] = "thread" /\ placed["run_id"] = n
      /\ "checkpoint_id" \in DOMAIN keys => placed["checkpoint_id"] = keys["checkpoint_id"]
      /\ "checkpoint_id" \in DOMAIN own /\ "checkpoint_id" \notin DOMAIN keys =>
           placed["checkpoint_id"] = own["checkpoint_id"]
  <2>1. /\ DOMAIN placed = DOMAIN keys \cup DOMAIN routed
        /\ \A x \in DOMAIN keys : placed[x] = keys[x]
        /\ \A x \in DOMAIN routed : x \notin DOMAIN keys => placed[x] = routed[x]
    BY ConfigOver
  <2> HIDE DEF placed
  <2> QED BY <1>4, <1>7, <2>1
<1> HIDE DEF placed
<1>9. /\ all["user_id"] = u /\ all["thread_id"] = "thread" /\ all["run_id"] = n
      /\ "checkpoint_id" \in DOMAIN all =>
           /\ all["checkpoint_id"] = placed["checkpoint_id"]
           /\ "checkpoint_id" \in DOMAIN keys \cup DOMAIN own
  <2>1. /\ DOMAIN all = DOMAIN user \cup DOMAIN placed
        /\ \A x \in DOMAIN user : all[x] = user[x]
        /\ \A x \in DOMAIN placed : x \notin DOMAIN user => all[x] = placed[x]
    BY ConfigOver
  <2> HIDE DEF all
  <2> QED BY <1>5, <1>7, <1>8, <2>1
<1>10. "checkpoint_id" \in DOMAIN all => all["checkpoint_id"] = Config!CheckpointAsked(b)
  BY <1>4, <1>6, <1>8, <1>9 DEF Config!CheckpointAsked, point
<1> QED
  BY <1>1, <1>2, <1>3, <1>9, <1>10 DEF ConfigCallAsAsked

(* RunConfig, for any bodies and any assistant: every call made for a run, the  *)
(* first or a retry, from memory or from its row, before or after the assistant *)
(* is edited, acts for the user, thread and run the server chose, and gives the *)
(* graph the input, checkpoint and durability that were asked for.              *)
THEOREM RunsExecuteAsRequested ==
  ASSUME ConfigEdits \in Nat, MaxRuns \in Nat, MaxAttempts \in Nat
  PROVE  Config!Spec => [](Config!TypeOK /\ Config!ExecutesAsRequested)
<1>1. Config!Init => ConfigInv
  <2> SUFFICES ASSUME Config!Init PROVE ConfigInv
    OBVIOUS
  <2>1. runs = <<>> /\ runs \in Seq({}) /\ DOMAIN runs = {} /\ Len(runs) = 0
    BY DEF Config!Init
  <2> QED BY <2>1 DEF ConfigInv, Config!Init, Config!TypeOK
<1>2. ConfigInv => Config!TypeOK /\ Config!ExecutesAsRequested
  <2> SUFFICES ASSUME ConfigInv PROVE Config!ExecutesAsRequested
    BY DEF ConfigInv
  <2>1. ASSUME NEW n \in DOMAIN runs, NEW i \in DOMAIN runs[n].calls
        PROVE  /\ ConfigCallAsAsked(runs[n].calls[i], n, runs[n].asked, runs[n].owner)
               /\ runs[n].calls[i] = runs[n].calls[1]
    <3>1. PICK b, a, u : u \in ConfigUsers /\ ConfigJobOf(runs[n], n, b, u, a)
      BY DEF ConfigInv, ConfigRun
    <3> DEFINE call == Config!Call(Config!Job(n, b, u, a))
    <3>2. runs[n].calls \in Seq({call}) /\ runs[n].asked = b /\ runs[n].owner = u
      BY <3>1 DEF ConfigJobOf
    <3> HIDE DEF call
    <3>3. runs[n].calls[i] = call /\ runs[n].calls[1] = call
      BY <2>1, <3>2
    <3> QED BY <3>2, <3>3, ConfigCall DEF call
  <2> QED
    BY <2>1 DEF Config!ExecutesAsRequested, ConfigCallAsAsked, Config!None
<1>3. ConfigInv /\ [Config!Next]_(Config!vars) => ConfigInv'
  BY ConfigStep
<1> QED
  BY <1>1, <1>2, <1>3, PTL DEF Config!Spec

-----------------------------------------------------------------------------
(* The history of a thread.                                                   *)

(* kept is what convert_snapshots_to_thread_states has after i snapshots. *)
IsKept(kept, page) ==
  kept = [i \in 0..Len(page) |->
            IF i = 0 THEN <<>>
            ELSE IF State!Convertible(page[i]) THEN Append(kept[i - 1], page[i]) ELSE kept[i - 1]]

LEMMA KeptExists ==
  ASSUME NEW page, Len(page) \in Nat
  PROVE  \E kept : IsKept(kept, page)
<1> DEFINE B(f, i) == IF i = 0 THEN <<>>
                      ELSE IF State!Convertible(page[i]) THEN Append(f[i - 1], page[i]) ELSE f[i - 1]
           P(n) == \E f : f = [i \in 0..n |-> B(f, i)]
           T == {n \in Nat : P(n)}
<1>1. 0 \in T
  <2> DEFINE f == [i \in 0..0 |-> <<>>]
  <2>1. f = [i \in 0..0 |-> B(f, i)]
    OBVIOUS
  <2> HIDE DEF f, B
  <2> QED BY <2>1
<1>2. ASSUME NEW n \in Nat, n \in T PROVE n + 1 \in T
  <2>1. PICK f : f = [i \in 0..n |-> B(f, i)]
    BY <1>2
  <2> DEFINE g == [i \in 0..(n + 1) |-> IF i <= n THEN f[i] ELSE B(f, i)]
  <2>2. \A i \in 0..n : g[i] = f[i] /\ f[i] = B(f, i)
    <3> HIDE DEF B
    <3> QED BY <2>1
  <2>3. ASSUME NEW i \in 0..(n + 1) PROVE g[i] = B(g, i)
    <3>1. B(g, i) = B(f, i)
      <4>1. i # 0 => i - 1 \in 0..n
        OBVIOUS
      <4> HIDE DEF g
      <4> QED BY <2>2, <4>1
    <3>2. g[i] = B(f, i)
      <4>1. CASE i <= n
        <5>1. i \in 0..n
          BY <4>1
        <5> QED BY <2>2, <5>1
      <4>2. CASE ~(i <= n)
        <5> HIDE DEF B
        <5> QED BY <4>2
      <4> QED BY <4>1, <4>2
    <3> QED BY <3>1, <3>2
  <2>4. g = [i \in 0..(n + 1) |-> B(g, i)]
    <3>1. g = [i \in 0..(n + 1) |-> g[i]]
      OBVIOUS
    <3> HIDE DEF g, B
    <3> QED BY <2>3, <3>1
  <2>5. P(n + 1)
    <3> HIDE DEF g, B
    <3> QED BY <2>4
  <2> HIDE DEF P
  <2> QED BY <2>5
<1>3. Nat \subseteq T
  <2> HIDE DEF T
  <2> QED BY <1>1, <1>2, EveryNumber
<1>4. P(Len(page))
  <2> HIDE DEF P
  <2> QED BY <1>3
<1> QED BY <1>4 DEF IsKept

(* A walk through the history goes down. *)
Descends(seen) == \A i, j \in DOMAIN seen : i < j => seen[j] < seen[i]
Of(seen, page) == \A i \in DOMAIN seen : \E k \in DOMAIN page : seen[i] = page[k]

(* What is left of a page that goes down goes down. *)
LEMMA ConvertedPage ==
  ASSUME NEW page \in Seq(Nat), Descends(page)
  PROVE  LET c == State!Converted(page) IN c \in Seq(Nat) /\ Descends(c) /\ Of(c, page)
<1>1. PICK kept : IsKept(kept, page) /\ State!Converted(page) = kept[Len(page)]
  <2> DEFINE kept == CHOOSE kept : IsKept(kept, page)
  <2>1. IsKept(kept, page)
    <3>1. Len(page) \in Nat
      OBVIOUS
    <3> QED BY <3>1, KeptExists
  <2>2. State!Converted(page) = kept[Len(page)]
    BY DEF State!Converted, IsKept
  <2> HIDE DEF kept
  <2> QED BY <2>1, <2>2
<1>2. /\ kept[0] = <<>>
      /\ \A i \in 1..Len(page) :
           kept[i] = IF State!Convertible(page[i]) THEN Append(kept[i - 1], page[i]) ELSE kept[i - 1]
  <2> DEFINE B(i) == IF i = 0 THEN <<>>
                     ELSE IF State!Convertible(page[i]) THEN Append(kept[i - 1], page[i]) ELSE kept[i - 1]
  <2>1. kept = [i \in 0..Len(page) |-> B(i)] /\ Len(page) \in Nat
    <3>1. Len(page) \in Nat
      OBVIOUS
    <3> QED BY <1>1, <3>1, Zenon DEF IsKept
  <2>2. \A i \in 0..Len(page) : kept[i] = B(i)
    <3> HIDE DEF B
    <3> QED BY <2>1
  <2>3. B(0) = <<>> /\ 0 \in 0..Len(page)
    BY <2>1
  <2>4. ASSUME NEW i \in 1..Len(page)
        PROVE  kept[i] = IF State!Convertible(page[i]) THEN Append(kept[i - 1], page[i]) ELSE kept[i - 1]
    <3>1. i \in 0..Len(page) /\ i # 0
      BY <2>1
    <3>2. kept[i] = B(i)
      <4> HIDE DEF B
      <4> QED BY <2>2, <3>1
    <3> QED BY <3>1, <3>2
  <2>5. kept[0] = <<>>
    <3> HIDE DEF B
    <3> QED BY <2>2, <2>3
  <2> QED BY <2>4, <2>5
<1> DEFINE Good(i) == /\ kept[i] \in Seq(Nat) /\ Descends(kept[i])
                      /\ \A m \in DOMAIN kept[i] : \E k \in 1..i : kept[i][m] = page[k]
           T == {i \in Nat : i <= Len(page) => Good(i)}
<1>3. 0 \in T
  <2>1. kept[0] = <<>> /\ DOMAIN <<>> = {}
    BY <1>2
  <2>2. <<>> \in Seq(Nat)
    OBVIOUS
  <2>3. Good(0)
    BY <2>1, <2>2 DEF Descends
  <2> QED BY <2>3
<1>4. ASSUME NEW i \in Nat, i \in T PROVE i + 1 \in T
  <2> SUFFICES ASSUME i + 1 <= Len(page) PROVE Good(i + 1)
    OBVIOUS
  <2>1. Good(i) /\ i + 1 \in 1..Len(page) /\ (i + 1) - 1 = i
    BY <1>4
  <2>2. CASE ~State!Convertible(page[i + 1])
    <3>1. kept[i + 1] = kept[i]
      BY <1>2, <2>1, <2>2
    <3> QED BY <2>1, <3>1
  <2>3. CASE State!Convertible(page[i + 1])
    <3> DEFINE s == kept[i]
               x == page[i + 1]
    <3>1. kept[i + 1] = Append(s, x) /\ x \in Nat
      <4>1. page[i + 1] \in Nat
        BY <2>1
      <4>2. kept[i + 1] = Append(kept[(i + 1) - 1], page[i + 1])
        BY <1>2, <2>1, <2>3
      <4> QED BY <2>1, <4>1, <4>2
    <3>2. \A k \in 1..i : x < page[k]
      BY <2>1 DEF Descends
    <3>3. /\ s \in Seq(Nat) /\ Descends(s) /\ \A m \in DOMAIN s : \E k \in 1..i : s[m] = page[k]
      BY <2>1
    <3> HIDE DEF s, x
    <3>4. \A m \in DOMAIN s : x < s[m]
      BY <3>2, <3>3
    <3> DEFINE t == Append(s, x)
    <3>5. /\ t \in Seq(Nat) /\ DOMAIN t = 1..(Len(s) + 1) /\ t[Len(s) + 1] = x
          /\ \A m \in 1..Len(s) : t[m] = s[m]
      BY <3>1, <3>3
    <3>6. DOMAIN s = 1..Len(s) /\ Len(s) \in Nat
      BY <3>3
    <3> HIDE DEF t
    <3>7. Descends(t)
      <4> SUFFICES ASSUME NEW l \in DOMAIN t, NEW m \in DOMAIN t, l < m PROVE t[m] < t[l]
        BY DEF Descends
      <4>1. l \in 1..Len(s) /\ t[l] = s[l]
        BY <3>5, <3>6
      <4>2. CASE m = Len(s) + 1
        BY <3>4, <3>5, <3>6, <4>1, <4>2
      <4>3. CASE m \in 1..Len(s)
        <5>1. t[m] = s[m] /\ s[m] < s[l]
          BY <3>3, <3>5, <3>6, <4>1, <4>3 DEF Descends
        <5> QED BY <4>1, <5>1
      <4> QED BY <3>5, <3>6, <4>2, <4>3
    <3>8. \A m \in DOMAIN t : \E k \in 1..(i + 1) : t[m] = page[k]
      <4> SUFFICES ASSUME NEW m \in DOMAIN t PROVE \E k \in 1..(i + 1) : t[m] = page[k]
        OBVIOUS
      <4>1. CASE m = Len(s) + 1
        BY <3>5, <4>1 DEF x
      <4>2. CASE m \in 1..Len(s)
        <5>1. PICK k \in 1..i : s[m] = page[k]
          BY <3>3, <3>6, <4>2
        <5> QED BY <3>5, <4>2, <5>1
      <4> QED BY <3>5, <3>6, <4>1, <4>2
    <3> QED BY <3>1, <3>5, <3>7, <3>8 DEF t
  <2> QED BY <2>2, <2>3
<1>5. Nat \subseteq T
  <2> HIDE DEF T
  <2> QED BY <1>3, <1>4, EveryNumber
<1>6. Good(Len(page)) /\ DOMAIN page = 1..Len(page)
  BY <1>5
<1> QED BY <1>1, <1>6 DEF Of

Walk == [from : Nat, seen : Seq(Nat), open : BOOLEAN, spoilt : BOOLEAN,
         form : {"string", "checkpoint", "config"}]

(* A walk has gone down from where it began, without a gap unless an answer was *)
(* spoilt; it goes on from the last id it was given.                            *)
WalkOn(w) ==
  /\ Descends(w.seen) /\ \A i \in DOMAIN w.seen : w.seen[i] \in 1..w.from
  /\ ~w.spoilt => Len(w.seen) <= w.from /\ \A i \in DOMAIN w.seen : w.seen[i] = w.from + 1 - i

WalkEnds(w) ==
  /\ w.open => w.seen # <<>>
  /\ ~w.open /\ ~w.spoilt => Len(w.seen) = w.from

StateInv ==
  /\ graph \in {"none", "loadable", "missing"} /\ faults \in 0..MaxFaults
  /\ checkpoints \in Seq([parent : Nat, readable : BOOLEAN])
  /\ \A i \in DOMAIN checkpoints : checkpoints[i].parent \in 0..(i - 1)
  /\ head \in 0..Len(checkpoints) /\ held \in [Clients -> 0..Len(checkpoints)]
  /\ pager \in [Clients -> Walk]
  /\ \A c \in Clients : /\ pager[c].from <= Len(checkpoints)
                         /\ WalkOn(pager[c]) /\ WalkEnds(pager[c])

(* A page of a history: limit ids, or as many as there are, down from newest. *)
PageFrom(newest, limit) ==
  [i \in 1..(IF limit < newest THEN limit ELSE newest) |-> newest + 1 - i]

LEMMA PageFacts ==
  ASSUME NEW newest \in Nat, NEW limit \in Nat
  PROVE  LET h == PageFrom(newest, limit) IN
         /\ h \in Seq(Nat) /\ Descends(h) /\ Len(h) <= newest
         /\ Len(h) = IF limit < newest THEN limit ELSE newest
         /\ \A i \in DOMAIN h : h[i] = newest + 1 - i /\ h[i] \in 1..newest
<1> DEFINE n == IF limit < newest THEN limit ELSE newest
           h == [i \in 1..n |-> newest + 1 - i]
<1>1. n \in Nat /\ n <= newest
  OBVIOUS
<1> HIDE DEF n
<1>2. \A i \in 1..n : newest + 1 - i \in 1..newest
  BY <1>1
<1>3. h \in [1..n -> Nat]
  BY <1>1, <1>2
<1>4. h \in Seq(Nat) /\ Len(h) = n /\ DOMAIN h = 1..n
  BY <1>1, <1>3
<1>5. \A i \in 1..n : h[i] = newest + 1 - i
  OBVIOUS
<1> HIDE DEF h
<1>6. Descends(h)
  BY <1>1, <1>4, <1>5 DEF Descends
<1>7. PageFrom(newest, limit) = h
  BY DEF PageFrom, n, h
<1> QED BY <1>1, <1>2, <1>4, <1>5, <1>6, <1>7 DEF n

(* A page that goes on below the last id keeps the walk going down. *)
LEMMA WalkGoesOn ==
  ASSUME NEW w \in Walk, WalkOn(w), NEW page \in Seq(Nat), Descends(page),
         NEW newest \in Nat, newest <= w.from,
         \A i \in DOMAIN w.seen : newest < w.seen[i],
         \A i \in DOMAIN page : page[i] \in 1..newest,
         NEW all, all = w.seen \o page
  PROVE  all \in Seq(Nat) /\ Descends(all) /\ \A i \in DOMAIN all : all[i] \in 1..w.from
<1> DEFINE seen == w.seen
<1>1. seen \in Seq(Nat) /\ w.from \in Nat
  BY DEF Walk
<1>2. /\ all \in Seq(Nat) /\ DOMAIN all = 1..(Len(seen) + Len(page))
      /\ DOMAIN seen = 1..Len(seen) /\ DOMAIN page = 1..Len(page)
      /\ Len(seen) \in Nat /\ Len(page) \in Nat
      /\ \A i \in 1..Len(seen) : all[i] = seen[i]
      /\ \A i \in 1..Len(page) : all[Len(seen) + i] = page[i]
  BY <1>1
<1>3. /\ \A i, j \in 1..Len(seen) : i < j => seen[j] < seen[i]
      /\ \A i, j \in 1..Len(page) : i < j => page[j] < page[i]
      /\ \A i \in 1..Len(seen) : seen[i] \in 1..w.from /\ newest < seen[i]
      /\ \A i \in 1..Len(page) : page[i] \in 1..newest
  BY <1>2 DEF WalkOn, Descends
<1> HIDE DEF seen
<1>4. ASSUME NEW i \in DOMAIN all
      PROVE  \/ i \in 1..Len(seen) /\ all[i] = seen[i]
             \/ (i - Len(seen)) \in 1..Len(page) /\ all[i] = page[i - Len(seen)]
  <2>1. i \in 1..Len(seen) \/ (i - Len(seen) \in 1..Len(page) /\ i = Len(seen) + (i - Len(seen)))
    BY <1>2
  <2> QED BY <1>2, <2>1
<1>5. Descends(all)
  <2> SUFFICES ASSUME NEW i \in DOMAIN all, NEW j \in DOMAIN all, i < j PROVE all[j] < all[i]
    BY DEF Descends
  <2>1. CASE j \in 1..Len(seen)
    BY <1>2, <1>3, <2>1, SMTT(30)
  <2>2. CASE j \notin 1..Len(seen) /\ i \in 1..Len(seen)
    <3>1. j - Len(seen) \in 1..Len(page) /\ all[j] = page[j - Len(seen)] /\ all[i] = seen[i]
      BY <1>2, <1>4, <2>2
    <3>2. page[j - Len(seen)] \in 1..newest /\ newest < seen[i] /\ seen[i] \in 1..w.from
      BY <1>3, <2>2, <3>1
    <3>3. all[j] \in 1..newest /\ newest < all[i] /\ all[i] \in 1..w.from
      BY <3>1, <3>2, Zenon
    <3>a. /\ \A x \in 1..newest : x \in Nat /\ x <= newest
          /\ \A x \in 1..w.from : x \in Nat
      OBVIOUS
    <3>4. all[j] \in Nat /\ all[j] <= newest /\ all[i] \in Nat
      BY <3>3, <3>a, Zenon
    <3>5. \A x, y, z \in Nat : x <= y /\ y < z => x < z
      OBVIOUS
    <3> QED BY <3>3, <3>4, <3>5, Zenon
  <2>3. CASE j \notin 1..Len(seen) /\ i \notin 1..Len(seen)
    <3>1. /\ all[i] = page[i - Len(seen)] /\ all[j] = page[j - Len(seen)]
          /\ i - Len(seen) \in 1..Len(page) /\ j - Len(seen) \in 1..Len(page)
          /\ i - Len(seen) < j - Len(seen)
      <4>1. /\ all[i] = page[i - Len(seen)] /\ all[j] = page[j - Len(seen)]
            /\ i - Len(seen) \in 1..Len(page) /\ j - Len(seen) \in 1..Len(page)
        BY <1>4, <2>3
      <4>2. i \in Nat /\ j \in Nat
        BY <1>2
      <4> QED BY <1>2, <4>1, <4>2
    <3> QED BY <1>3, <3>1
  <2> QED BY <2>1, <2>2, <2>3
<1>6. ASSUME NEW i \in DOMAIN all PROVE all[i] \in 1..w.from
  <2>1. all[i] \in 1..newest \/ all[i] \in 1..w.from
    BY <1>3, <1>4
  <2> QED BY <1>1, <2>1, SMTT(30)
<1> QED BY <1>2, <1>5, <1>6

LEMMA ConcatFacts ==
  ASSUME NEW s \in Seq(Nat), NEW t \in Seq(Nat)
  PROVE  /\ DOMAIN (s \o t) = 1..(Len(s) + Len(t)) /\ Len(s \o t) = Len(s) + Len(t)
         /\ Len(s) \in Nat /\ Len(t) \in Nat /\ DOMAIN s = 1..Len(s) /\ DOMAIN t = 1..Len(t)
         /\ \A i \in 1..Len(s) : (s \o t)[i] = s[i]
         /\ \A i \in 1..Len(t) : (s \o t)[Len(s) + i] = t[i]
OBVIOUS

LEMMA PageWalks ==
  ASSUME Len(checkpoints) \in Nat, NEW w \in Walk, WalkOn(w), w.from <= Len(checkpoints),
         NEW limit \in Nat \ {0}, w.seen = <<>> => w.from = Len(checkpoints)
  PROVE  LET v == State!Page(w, limit) IN
         v \in Walk /\ v.from = w.from /\ WalkOn(v) /\ WalkEnds(v)
<1> DEFINE seen == w.seen
           latest == Len(checkpoints)
           newest == IF seen = <<>> THEN latest ELSE seen[Len(seen)] - 1
           before == State!BeforeConfig(IF seen = <<>> THEN [form |-> "none", id |-> 0]
                                        ELSE [form |-> w.form, id |-> State!Last(seen)])
           h == State!aget_state_history(before, limit)
           page == State!History(before, limit)
           all == seen \o page
           v == State!Page(w, limit)
<1>1. seen \in Seq(Nat) /\ w.from \in Nat /\ w.form \in {"string", "checkpoint", "config"}
      /\ w.spoilt \in BOOLEAN
  BY DEF Walk
<1>2. seen # <<>> => Len(seen) \in DOMAIN seen /\ Len(seen) \in Nat \ {0} /\ DOMAIN seen = 1..Len(seen)
  BY <1>1
<1>3. /\ newest \in Nat /\ newest <= w.from /\ newest <= latest
      /\ \A i \in DOMAIN seen : newest < seen[i]
  <2>1. CASE seen = <<>>
    BY <1>1, <2>1
  <2>2. CASE seen # <<>>
    <3>1. seen[Len(seen)] \in 1..w.from
      BY <1>2, <2>2 DEF WalkOn
    <3>2. \A i \in DOMAIN seen : seen[Len(seen)] <= seen[i] /\ seen[i] \in Nat
      <4> SUFFICES ASSUME NEW i \in DOMAIN seen PROVE seen[Len(seen)] <= seen[i] /\ seen[i] \in Nat
        OBVIOUS
      <4>1. i = Len(seen) \/ i < Len(seen)
        BY <1>2, <2>2
      <4>2. i < Len(seen) => seen[Len(seen)] < seen[i]
        BY <1>2, <2>2 DEF WalkOn, Descends
      <4>3. seen[i] \in Nat
        BY <1>1
      <4> QED BY <1>1, <3>1, <4>1, <4>2, <4>3
    <3> QED BY <1>1, <2>2, <3>1, <3>2
  <2> QED BY <2>1, <2>2
<1>4. h = PageFrom(newest, limit)
  <2>1. CASE seen = <<>>
    <3>1. before = [form |-> "none", id |-> 0]
      BY <2>1 DEF State!BeforeConfig
    <3>2. before.form = "none"
      BY <3>1
    <3> QED BY <2>1, <3>2 DEF State!aget_state_history, State!Latest, PageFrom
  <2>2. CASE seen # <<>>
    <3>1. before = [form |-> "config", id |-> seen[Len(seen)]]
      BY <1>1, <2>2 DEF State!BeforeConfig, State!Last
    <3>2. before.form = "config" /\ before.id = seen[Len(seen)]
      BY <3>1
    <3>3. seen[Len(seen)] <= latest
      <4>1. seen[Len(seen)] \in 1..w.from
        BY <1>2, <2>2 DEF WalkOn
      <4> QED BY <1>1, <4>1
    <3> QED BY <2>2, <3>2, <3>3 DEF State!aget_state_history, State!Latest, PageFrom
  <2> QED BY <2>1, <2>2
<1> HIDE DEF before, newest, h
<1>5. /\ h \in Seq(Nat) /\ Descends(h) /\ Len(h) <= newest
      /\ Len(h) = IF limit < newest THEN limit ELSE newest
      /\ \A i \in DOMAIN h : h[i] = newest + 1 - i /\ h[i] \in 1..newest
  <2>1. limit \in Nat /\ newest \in Nat
    BY <1>3
  <2> QED BY <1>4, <2>1, PageFacts
<1>6. /\ page \in Seq(Nat) /\ Descends(page) /\ \A i \in DOMAIN page : page[i] \in 1..newest
  <2>1. CASE State!Loadable
    <3>1. page = State!Converted(h)
      BY <2>1 DEF State!History, h
    <3>2. page \in Seq(Nat) /\ Descends(page) /\ Of(page, h)
      BY <1>5, <3>1, ConvertedPage
    <3> HIDE DEF page
    <3> QED BY <1>5, <3>2 DEF Of
  <2>2. CASE ~State!Loadable
    <3>1. page = <<>>
      BY <2>2 DEF State!History
    <3> QED BY <3>1 DEF Descends
  <2> QED BY <2>1, <2>2
<1> HIDE DEF page
<1>7. all \in Seq(Nat) /\ Descends(all) /\ \A i \in DOMAIN all : all[i] \in 1..w.from
  BY <1>3, <1>6, WalkGoesOn
<1>8. v = [w EXCEPT !.seen = all, !.open = (Len(page) = limit),
                    !.spoilt = w.spoilt \/ ~State!Loadable \/ page # h]
  BY DEF State!Page, page, h, before
<1> DEFINE sp == w.spoilt \/ ~State!Loadable \/ page # h
           op == (Len(page) = limit)
<1>9. sp \in BOOLEAN /\ op \in BOOLEAN
  OBVIOUS
<1> HIDE DEF sp, op, v, all
<1>10. /\ v \in Walk /\ v.from = w.from /\ v.seen = all /\ v.open = op /\ v.spoilt = sp
  <2>1. v = [w EXCEPT !.seen = all, !.open = op, !.spoilt = sp]
    BY <1>8 DEF op, sp
  <2> QED BY <1>7, <1>9, <2>1 DEF Walk
<1>11. ASSUME ~sp
       PROVE  /\ ~w.spoilt /\ page = h /\ Len(all) = Len(seen) + Len(h)
              /\ newest = w.from - Len(seen)
              /\ \A i \in DOMAIN all : all[i] = w.from + 1 - i
  <2>1. ~w.spoilt /\ page = h
    BY <1>11 DEF sp
  <2>2. Len(seen) <= w.from /\ \A i \in DOMAIN seen : seen[i] = w.from + 1 - i
    BY <2>1 DEF WalkOn
  <2>3. newest = w.from - Len(seen)
    BY <1>1, <1>2, <2>2 DEF newest
  <2>4. /\ DOMAIN all = 1..(Len(seen) + Len(h)) /\ Len(seen) \in Nat /\ Len(h) \in Nat
        /\ Len(all) = Len(seen) + Len(h) /\ DOMAIN seen = 1..Len(seen) /\ DOMAIN h = 1..Len(h)
        /\ \A i \in 1..Len(seen) : all[i] = seen[i]
        /\ \A i \in 1..Len(h) : all[Len(seen) + i] = h[i]
    BY <1>1, <1>5, <2>1, ConcatFacts DEF all
  <2>5. ASSUME NEW i \in DOMAIN all PROVE all[i] = w.from + 1 - i
    <3>1. CASE i \in 1..Len(seen)
      BY <2>2, <2>4, <3>1
    <3>2. CASE i \notin 1..Len(seen)
      <4> DEFINE k == i - Len(seen)
      <4>1. k \in 1..Len(h) /\ i = Len(seen) + k
        BY <2>4, <3>2
      <4>2. all[i] = h[k] /\ h[k] = newest + 1 - k
        <5> HIDE DEF k
        <5> QED BY <1>5, <2>4, <4>1
      <4> HIDE DEF k
      <4> QED BY <1>1, <2>3, <2>4, <4>1, <4>2
    <3> QED BY <3>1, <3>2
  <2> QED BY <2>1, <2>3, <2>4, <2>5
<1>12. WalkOn(v)
  <2>1. ~sp => Len(all) <= w.from
    BY <1>1, <1>5, <1>11, <1>3
  <2> QED BY <1>7, <1>10, <1>11, <2>1 DEF WalkOn
<1>13. op => all # <<>>
  <2> SUFFICES ASSUME Len(page) = limit PROVE all # <<>>
    BY DEF op
  <2>1. Len(all) = Len(seen) + Len(page) /\ Len(seen) \in Nat
    BY <1>1, <1>6, ConcatFacts DEF all
  <2> QED BY <2>1
<1>14. ~op /\ ~sp => Len(all) = w.from
  <2> SUFFICES ASSUME Len(page) # limit, ~sp PROVE Len(all) = w.from
    BY DEF op
  <2>1. Len(h) = newest
    BY <1>5, <1>11
  <2> QED BY <1>1, <1>11, <2>1
<1>15. WalkEnds(v)
  BY <1>10, <1>13, <1>14 DEF WalkEnds
<1> QED BY <1>10, <1>12, <1>15 DEF v

(* A walk is not disturbed by checkpoints that are added or spoilt. *)
LEMMA StatePuts ==
  ASSUME StateInv, NEW parent \in 0..Len(checkpoints), State!Put(parent),
         graph' \in {"none", "loadable", "missing"}, UNCHANGED <<pager, faults>>,
         head' \in 0..(Len(checkpoints) + 1), held' \in [Clients -> 0..(Len(checkpoints) + 1)]
  PROVE  StateInv'
<1> DEFINE x == [parent |-> parent, readable |-> TRUE]
<1>1. checkpoints' = Append(checkpoints, x) /\ x \in [parent : Nat, readable : BOOLEAN]
  BY DEF State!Put, StateInv
<1>2. x.parent = parent
  OBVIOUS
<1> HIDE DEF x
<1>3. /\ checkpoints' \in Seq([parent : Nat, readable : BOOLEAN])
      /\ Len(checkpoints') = Len(checkpoints) + 1 /\ Len(checkpoints) \in Nat
      /\ DOMAIN checkpoints = 1..Len(checkpoints) /\ DOMAIN checkpoints' = 1..(Len(checkpoints) + 1)
      /\ checkpoints'[Len(checkpoints) + 1] = x
      /\ \A i \in 1..Len(checkpoints) : checkpoints'[i] = checkpoints[i]
  BY <1>1 DEF StateInv
<1>4. \A i \in DOMAIN checkpoints' : checkpoints'[i].parent \in 0..(i - 1)
  <2> SUFFICES ASSUME NEW i \in DOMAIN checkpoints' PROVE checkpoints'[i].parent \in 0..(i - 1)
    OBVIOUS
  <2>1. CASE i = Len(checkpoints) + 1
    BY <1>2, <1>3, <2>1
  <2>2. CASE i \in 1..Len(checkpoints)
    BY <1>3, <2>2 DEF StateInv
  <2> QED BY <1>3, <2>1, <2>2
<1>5. \A c \in Clients : pager'[c].from <= Len(checkpoints')
  BY <1>3 DEF StateInv, Walk
<1>6. \A c \in Clients : WalkOn(pager'[c]) /\ WalkEnds(pager'[c])
  BY DEF StateInv
<1> QED
  BY <1>3, <1>4, <1>5, <1>6 DEF StateInv

LEMMA StateWalks ==
  ASSUME StateInv, NEW c \in Clients, NEW w \in Walk, WalkOn(w), w.from <= Len(checkpoints),
         NEW limit \in Nat \ {0}, w.seen = <<>> => w.from = Len(checkpoints),
         pager' = [pager EXCEPT ![c] = State!Page(w, limit)],
         UNCHANGED <<graph, checkpoints, head, held, faults>>
  PROVE  StateInv'
<1> DEFINE v == State!Page(w, limit)
<1>1. Len(checkpoints) \in Nat
  BY DEF StateInv
<1>2. v \in Walk /\ v.from = w.from /\ WalkOn(v) /\ WalkEnds(v)
  BY <1>1, PageWalks
<1> HIDE DEF v
<1>3. /\ pager' \in [Clients -> Walk] /\ pager'[c] = v
      /\ \A d \in Clients \ {c} : pager'[d] = pager[d]
  BY <1>2 DEF StateInv, v
<1>4. \A d \in Clients : /\ pager'[d].from <= Len(checkpoints)
                         /\ WalkOn(pager'[d]) /\ WalkEnds(pager'[d])
  BY <1>2, <1>3 DEF StateInv
<1> QED
  BY <1>3, <1>4 DEF StateInv

LEMMA StateStep ==
  ASSUME PageLimits \subseteq Nat \ {0}, MaxFaults \in Nat, StateInv, [State!Next]_(State!vars)
  PROVE  StateInv'
<1> DEFINE n == Len(checkpoints)
<1>1. n \in Nat /\ DOMAIN checkpoints = 1..n /\ State!Latest = n /\ held \in [Clients -> 0..n] /\ head \in 0..n
  BY DEF StateInv, State!Latest
<1>2. \A x \in 0..n : State!aget_state(x) \in 0..n
  BY <1>1 DEF State!aget_state
<1>3. \A x \in 0..n : x \in 0..(n + 1)
  BY <1>1
<1>4. CASE UNCHANGED State!vars
  <2>1. UNCHANGED <<graph, checkpoints, head, held, pager, faults>>
    BY <1>4 DEF State!vars
  <2>2. \A c \in Clients : WalkOn(pager'[c]) /\ WalkEnds(pager'[c])
    BY <2>1 DEF StateInv
  <2> QED BY <2>1, <2>2 DEF StateInv
<1>5. CASE State!StartRun
  <2>1. PICK x \in {0} \cup {held[c] : c \in Clients} : State!Put(State!aget_state(x))
    BY <1>5 DEF State!StartRun
  <2>2. x \in 0..n
    BY <1>1
  <2>3. /\ State!aget_state(x) \in 0..n /\ graph' = "loadable" /\ head' = n + 1
        /\ UNCHANGED <<held, pager, faults>>
    BY <1>1, <1>2, <1>5, <2>2 DEF State!StartRun
  <2>4. held' \in [Clients -> 0..(n + 1)] /\ head' \in 0..(n + 1)
    BY <1>1, <1>3, <2>3
  <2> QED BY <2>1, <2>3, <2>4, StatePuts
<1>6. CASE State!RunStep
  <2>1. /\ State!Put(head) /\ head' = n + 1 /\ UNCHANGED <<graph, held, pager, faults>>
    BY <1>1, <1>6 DEF State!RunStep
  <2>2. held' \in [Clients -> 0..(n + 1)] /\ head' \in 0..(n + 1) /\ graph' \in {"none", "loadable", "missing"}
    BY <1>1, <1>3, <2>1 DEF StateInv
  <2> QED BY <1>1, <2>1, <2>2, StatePuts
<1>7. ASSUME NEW c \in Clients, State!UpdateThreadState(c) PROVE StateInv'
  <2>1. PICK a, b \in {0, held[c]} : State!Put(State!aget_state(State!Target(a, b)))
    BY <1>7 DEF State!UpdateThreadState
  <2>2. State!Target(a, b) \in 0..n
    BY <1>1 DEF State!Target
  <2>3. /\ State!aget_state(State!Target(a, b)) \in 0..n /\ held' = [held EXCEPT ![c] = n + 1]
        /\ UNCHANGED <<graph, head, pager, faults>>
    BY <1>1, <1>2, <1>7, <2>2 DEF State!UpdateThreadState
  <2>4. held' \in [Clients -> 0..(n + 1)] /\ head' \in 0..(n + 1) /\ graph' \in {"none", "loadable", "missing"}
    BY <1>1, <1>3, <2>3 DEF StateInv
  <2> QED BY <2>1, <2>3, <2>4, StatePuts
<1>8. ASSUME NEW c \in Clients, State!FirstPage(c) PROVE StateInv'
  <2>1. PICK limit \in PageLimits, form \in {"string", "checkpoint", "config"} :
          pager' = [pager EXCEPT ![c] =
                      State!Page([State!NoWalk EXCEPT !.from = n, !.form = form], limit)]
    BY <1>1, <1>8 DEF State!FirstPage
  <2> DEFINE w == [State!NoWalk EXCEPT !.from = n, !.form = form]
  <2>2. State!NoWalk \in Walk /\ State!NoWalk.seen = <<>>
    BY DEF State!NoWalk, Walk
  <2>3. w \in Walk /\ w.seen = <<>> /\ w.from = n
    BY <1>1, <2>2 DEF Walk
  <2> HIDE DEF w
  <2>4. WalkOn(w)
    BY <1>1, <2>3 DEF WalkOn, Descends
  <2>5. UNCHANGED <<graph, checkpoints, head, held, faults>>
    BY <1>8 DEF State!FirstPage
  <2>6. limit \in Nat \ {0} /\ w.from <= n
    BY <1>1, <2>3
  <2> QED BY <2>1, <2>3, <2>4, <2>5, <2>6, StateWalks DEF w
<1>9. ASSUME NEW c \in Clients, State!NextPage(c) PROVE StateInv'
  <2>1. PICK limit \in PageLimits : pager' = [pager EXCEPT ![c] = State!Page(pager[c], limit)]
    BY <1>9 DEF State!NextPage
  <2>2. /\ pager[c] \in Walk /\ WalkOn(pager[c]) /\ pager[c].from <= n /\ WalkEnds(pager[c])
    BY DEF StateInv
  <2>3. pager[c].seen # <<>>
    BY <1>9, <2>2 DEF State!NextPage, WalkEnds
  <2>4. UNCHANGED <<graph, checkpoints, head, held, faults>> /\ limit \in Nat \ {0}
    BY <1>9 DEF State!NextPage
  <2> QED BY <2>1, <2>2, <2>3, <2>4, StateWalks
<1>10. CASE State!Unconvertible
  <2>1. PICK id \in 1..n : checkpoints' = [checkpoints EXCEPT ![id].readable = FALSE]
    BY <1>1, <1>10 DEF State!Unconvertible
  <2>2. faults' \in 0..MaxFaults /\ UNCHANGED <<graph, head, held, pager>>
    BY <1>10 DEF State!Unconvertible, StateInv
  <2>3. /\ checkpoints' \in Seq([parent : Nat, readable : BOOLEAN]) /\ Len(checkpoints') = n
        /\ DOMAIN checkpoints' = 1..n
        /\ \A i \in 1..n : checkpoints'[i].parent = checkpoints[i].parent
    <3> DEFINE x == [checkpoints[id] EXCEPT !.readable = FALSE]
    <3>a. checkpoints \in Seq([parent : Nat, readable : BOOLEAN])
      BY DEF StateInv
    <3>b. id \in 1..Len(checkpoints)
      BY <1>1
    <3>1. checkpoints[id] \in [parent : Nat, readable : BOOLEAN]
      BY <3>a, <3>b, ElementOfSeq
    <3>2. x \in [parent : Nat, readable : BOOLEAN] /\ x.parent = checkpoints[id].parent
      BY <3>1
    <3>3. checkpoints' = [checkpoints EXCEPT ![id] = x]
      BY <2>1
    <3> HIDE DEF x
    <3> QED BY <1>1, <3>2, <3>3 DEF StateInv
  <2>4. \A c \in Clients : WalkOn(pager'[c]) /\ WalkEnds(pager'[c])
    BY <2>2 DEF StateInv
  <2> QED BY <1>1, <2>2, <2>3, <2>4 DEF StateInv
<1>11. ASSUME NEW c \in Clients, State!GetThreadState(c) \/ State!GetThreadStateAtCheckpoint(c)
       PROVE  StateInv'
  <2>1. PICK x \in 0..n : held' = [held EXCEPT ![c] = State!aget_state(x)]
    BY <1>1, <1>11 DEF State!GetThreadState, State!GetThreadStateAtCheckpoint
  <2>2. UNCHANGED <<graph, checkpoints, head, pager, faults>>
    BY <1>11 DEF State!GetThreadState, State!GetThreadStateAtCheckpoint
  <2>3. held' \in [Clients -> 0..n]
    BY <1>1, <1>2, <2>1
  <2>4. \A d \in Clients : WalkOn(pager'[d]) /\ WalkEnds(pager'[d])
    BY <2>2 DEF StateInv
  <2> QED BY <2>2, <2>3, <2>4 DEF StateInv
<1>12. CASE State!EndRun \/ State!GraphGone
  <2>1. /\ graph' \in {"none", "loadable", "missing"} /\ faults' \in 0..MaxFaults /\ head' \in 0..n
        /\ UNCHANGED <<checkpoints, held, pager>>
    BY <1>1, <1>12 DEF State!EndRun, State!GraphGone, StateInv
  <2>2. \A d \in Clients : WalkOn(pager'[d]) /\ WalkEnds(pager'[d])
    BY <2>1 DEF StateInv
  <2> QED BY <2>1, <2>2 DEF StateInv
<1> QED
  BY <1>4, <1>5, <1>6, <1>7, <1>8, <1>9, <1>10, <1>11, <1>12 DEF State!Next

(* ThreadState, for any number of clients, page sizes and checkpoints: a client *)
(* that pages through a history that grows never sees a checkpoint twice or out *)
(* of order, and has seen every one that existed when it began when it reaches  *)
(* the end without a spoilt answer.                                             *)
THEOREM HistoriesComplete ==
  ASSUME PageLimits \subseteq Nat \ {0}, MaxFaults \in Nat
  PROVE  State!Spec => [](State!TypeOK /\ State!HistoryComplete)
<1>1. State!Init => StateInv
  <2> SUFFICES ASSUME State!Init PROVE StateInv
    OBVIOUS
  <2>1. /\ checkpoints = <<>> /\ Len(checkpoints) = 0 /\ DOMAIN checkpoints = {}
        /\ checkpoints \in Seq([parent : Nat, readable : BOOLEAN])
    BY DEF State!Init
  <2>2. State!NoWalk \in Walk /\ State!NoWalk.seen = <<>> /\ State!NoWalk.from = 0 /\ ~State!NoWalk.open
    BY DEF State!NoWalk, Walk
  <2>3. WalkOn(State!NoWalk) /\ WalkEnds(State!NoWalk)
    BY <2>2 DEF WalkOn, WalkEnds, Descends
  <2> QED BY <2>1, <2>2, <2>3 DEF State!Init, StateInv
<1>2. StateInv => State!TypeOK
  BY DEF StateInv, State!TypeOK, State!Latest, Walk
<1>3. StateInv => State!HistoryComplete
  <2> SUFFICES ASSUME StateInv, NEW c \in Clients
               PROVE  /\ Descends(pager[c].seen)
                      /\ ~pager[c].open /\ ~pager[c].spoilt =>
                           {pager[c].seen[i] : i \in DOMAIN pager[c].seen} = 1..pager[c].from
    BY Zenon DEF State!HistoryComplete, Descends, State!ToSet
  <2> DEFINE w == pager[c]
  <2>1. w \in Walk /\ WalkOn(w) /\ WalkEnds(w)
    BY DEF StateInv
  <2> HIDE DEF w
  <2>2. Descends(w.seen)
    BY <2>1 DEF WalkOn
  <2>3. ASSUME ~w.open, ~w.spoilt PROVE {w.seen[i] : i \in DOMAIN w.seen} = 1..w.from
    <3>1. /\ Len(w.seen) = w.from /\ \A i \in DOMAIN w.seen : w.seen[i] = w.from + 1 - i
      BY <2>1, <2>3 DEF WalkOn, WalkEnds
    <3>2. w.seen \in Seq(Nat) /\ w.from \in Nat
      BY <2>1 DEF Walk
    <3>3. DOMAIN w.seen = 1..w.from
      BY <3>1, <3>2
    <3>4. \A k \in 1..w.from : w.from + 1 - k \in 1..w.from /\ w.from + 1 - (w.from + 1 - k) = k
      BY <3>2
    <3> QED BY <3>1, <3>3, <3>4
  <2> QED BY <2>2, <2>3 DEF w
<1>4. StateInv /\ [State!Next]_(State!vars) => StateInv'
  BY StateStep
<1> QED
  BY <1>1, <1>2, <1>3, <1>4, PTL DEF State!Spec

-----------------------------------------------------------------------------
(* The events of one graph execution.                                         *)

MessageBody == [id : MessageIds \cup {Stream!NoId}, text : Seq(Nat)]
EventNames == {"metadata", "values", "updates", "debug", "custom", "events", "messages",
               "messages/metadata", "messages/partial", "messages/complete", "error", "end"}
StreamEvent == [event : EventNames, ns : {Stream!Root, Stream!Sub}, body : Nat \cup MessageBody,
                interrupt : BOOLEAN]

(* An event of messages/partial or messages/complete, and of messages/metadata, of message m. *)
Text(e, m) == e.event \in {"messages/partial", "messages/complete"} /\ e.body.id = m
Meta(e, m) == e.event = "messages/metadata" /\ e.body.id = m

(* An event that says nothing of a message. *)
Quiet(e) == e.event \notin {"messages/partial", "messages/complete", "messages/metadata"}

(* text is a beginning of what was emitted. *)
Begins(text, all) ==
  /\ text \in Seq(Nat)
  /\ Len(text) <= Len(all)
  /\ \A k \in 1..Len(text) : text[k] = all[k]

(* What the events o say of message m, of which all was emitted; it was       *)
(* announced if seen.                                                         *)
TellsOf(o, m, seen, all) ==
  /\ seen => \E j \in DOMAIN o : Meta(o[j], m)
  /\ \A j \in DOMAIN o : Meta(o[j], m) =>
       seen /\ \A k \in DOMAIN o : Meta(o[k], m) => k = j
  /\ \A i \in DOMAIN o : Text(o[i], m) =>
       /\ seen /\ Begins(o[i].body.text, all)
       /\ \E j \in 1..i : Meta(o[j], m)
       /\ \A j \in DOMAIN o : j < i /\ Text(o[j], m) => Len(o[j].body.text) < Len(o[i].body.text)

LEMMA AppendedEvent ==
  ASSUME NEW S, NEW o \in Seq(S), NEW e
  PROVE  /\ DOMAIN o = 1..Len(o) /\ Len(o) \in Nat
         /\ DOMAIN Append(o, e) = 1..(Len(o) + 1)
         /\ Append(o, e)[Len(o) + 1] = e
         /\ \A i \in DOMAIN o : Append(o, e)[i] = o[i]
OBVIOUS

LEMMA JoinedEvents ==
  ASSUME NEW S, NEW o \in Seq(S), NEW x \in Seq(S)
  PROVE  /\ DOMAIN o = 1..Len(o) /\ Len(o) \in Nat /\ DOMAIN x = 1..Len(x) /\ Len(x) \in Nat
         /\ DOMAIN (o \o x) = 1..(Len(o) + Len(x)) /\ o \o x \in Seq(S)
         /\ \A i \in 1..Len(o) : (o \o x)[i] = o[i]
         /\ \A i \in 1..Len(x) : (o \o x)[Len(o) + i] = x[i]
         /\ \A i \in 1..(Len(o) + Len(x)) : i \in 1..Len(o) \/ \E k \in 1..Len(x) : i = Len(o) + k
<1>1. \A i \in 1..(Len(o) + Len(x)) : i \in 1..Len(o) \/ (i - Len(o) \in 1..Len(x) /\ i = Len(o) + (i - Len(o)))
  OBVIOUS
<1>2. \A i \in 1..Len(x) : (o \o x)[Len(o) + i] = x[i]
  OBVIOUS
<1>3. \A i \in 1..(Len(o) + Len(x)) : i \in 1..Len(o) \/ \E k \in 1..Len(x) : i = Len(o) + k
  BY <1>1, Zenon
<1>4. /\ DOMAIN o = 1..Len(o) /\ Len(o) \in Nat /\ DOMAIN x = 1..Len(x) /\ Len(x) \in Nat
      /\ DOMAIN (o \o x) = 1..(Len(o) + Len(x)) /\ o \o x \in Seq(S)
      /\ \A i \in 1..Len(o) : (o \o x)[i] = o[i]
  OBVIOUS
<1> QED BY <1>2, <1>3, <1>4, Zenon

(* Events that say nothing of m change nothing that is told of it. *)
LEMMA TellsMore ==
  ASSUME NEW S, NEW o \in Seq(S), NEW x \in Seq(S), NEW m, NEW seen, NEW all,
         TellsOf(o, m, seen, all), \A k \in DOMAIN x : ~Text(x[k], m) /\ ~Meta(x[k], m)
  PROVE  TellsOf(o \o x, m, seen, all)
<1> DEFINE p == o \o x
           n == Len(o)
<1>1. /\ DOMAIN o = 1..n /\ n \in Nat /\ DOMAIN x = 1..Len(x) /\ Len(x) \in Nat
      /\ DOMAIN p = 1..(n + Len(x)) /\ \A i \in 1..n : p[i] = o[i]
      /\ \A i \in 1..Len(x) : p[n + i] = x[i]
      /\ \A i \in 1..(n + Len(x)) : i \in 1..n \/ \E k \in 1..Len(x) : i = n + k
  BY JoinedEvents
<1> HIDE DEF p, n
<1>a. /\ seen => \E j \in 1..n : Meta(o[j], m)
      /\ \A i \in 1..n : Meta(o[i], m) => seen
      /\ \A i, k \in 1..n : Meta(o[i], m) /\ Meta(o[k], m) => k = i
      /\ \A i, k \in 1..n : k < i /\ Text(o[i], m) /\ Text(o[k], m) =>
           Len(o[k].body.text) < Len(o[i].body.text)
      /\ \A i \in 1..n : Text(o[i], m) =>
           seen /\ Begins(o[i].body.text, all) /\ \E k \in 1..i : Meta(o[k], m)
  BY <1>1, Zenon DEF TellsOf
<1>b. \A i \in DOMAIN p : Text(p[i], m) \/ Meta(p[i], m) => i \in 1..n /\ p[i] = o[i]
  <2> SUFFICES ASSUME NEW i \in DOMAIN p, Text(p[i], m) \/ Meta(p[i], m) PROVE i \in 1..n
    BY <1>1
  <2>1. ASSUME NEW k \in 1..Len(x), i = n + k PROVE FALSE
    <3>1. p[i] = x[k] /\ k \in DOMAIN x
      BY <1>1, <2>1
    <3> QED BY <3>1, Zenon
  <2> QED BY <1>1, <2>1, Zenon
<1>2. seen => \E j \in DOMAIN p : Meta(p[j], m)
  <2> SUFFICES ASSUME seen PROVE \E j \in DOMAIN p : Meta(p[j], m)
    OBVIOUS
  <2>1. PICK j \in 1..n : Meta(o[j], m)
    BY <1>a
  <2>2. j \in DOMAIN p /\ p[j] = o[j]
    BY <1>1
  <2> QED BY <2>1, <2>2
<1>3. ASSUME NEW j \in DOMAIN p, Meta(p[j], m)
      PROVE  seen /\ \A k \in DOMAIN p : Meta(p[k], m) => k = j
  <2>1. j \in 1..n /\ Meta(o[j], m) /\ \A k \in DOMAIN p : Meta(p[k], m) => k \in 1..n /\ Meta(o[k], m)
    BY <1>b, <1>3, Zenon
  <2> QED BY <1>a, <2>1, Zenon
<1>4. ASSUME NEW i \in DOMAIN p, Text(p[i], m)
      PROVE  /\ seen /\ Begins(p[i].body.text, all)
             /\ \E j \in 1..i : Meta(p[j], m)
             /\ \A j \in DOMAIN p : j < i /\ Text(p[j], m) => Len(p[j].body.text) < Len(p[i].body.text)
  <2>1. i \in 1..n /\ p[i] = o[i] /\ Text(o[i], m)
    BY <1>b, <1>4, Zenon
  <2>2. PICK j \in 1..i : Meta(o[j], m)
    BY <1>a, <2>1, Zenon
  <2>3. j \in 1..n /\ p[j] = o[j]
    BY <1>1, <2>1, <2>2
  <2>4. seen /\ Begins(o[i].body.text, all)
    BY <1>a, <2>1, Zenon
  <2>5. ASSUME NEW k \in DOMAIN p, k < i, Text(p[k], m) PROVE Len(p[k].body.text) < Len(p[i].body.text)
    <3>1. k \in 1..n /\ p[k] = o[k] /\ Text(o[k], m)
      BY <1>b, <2>5, Zenon
    <3> QED BY <1>a, <2>1, <2>5, <3>1, Zenon
  <2> QED BY <2>1, <2>2, <2>3, <2>4, <2>5, Zenon
<1> QED BY <1>2, <1>3, <1>4, Zenon DEF TellsOf, p

(* The metadata of a message that was not announced announces it. *)
LEMMA TellsFirst ==
  ASSUME NEW S, NEW o \in Seq(S), NEW e, NEW m, NEW all, TellsOf(o, m, FALSE, all), Meta(e, m)
  PROVE  TellsOf(Append(o, e), m, TRUE, all)
<1> DEFINE p == Append(o, e)
           n == Len(o)
<1>1. /\ DOMAIN o = 1..n /\ n \in Nat /\ DOMAIN p = 1..(n + 1) /\ p[n + 1] = e
      /\ \A i \in 1..n : p[i] = o[i]
  BY AppendedEvent
<1> HIDE DEF p, n
<1>2. \A i \in 1..n : ~Meta(p[i], m) /\ ~Text(p[i], m)
  BY <1>1 DEF TellsOf
<1>3. ~Text(e, m)
  BY DEF Text, Meta
<1>4. \A i \in DOMAIN p : ~Text(p[i], m) /\ (Meta(p[i], m) => i = n + 1)
  BY <1>1, <1>2, <1>3
<1>5. n + 1 \in DOMAIN p /\ Meta(p[n + 1], m)
  BY <1>1
<1> QED BY <1>4, <1>5, Zenon DEF TellsOf, p

(* The next part of an announced message, with all that came before it. *)
LEMMA TellsNext ==
  ASSUME NEW S, NEW o \in Seq(S), NEW e, NEW m, NEW all \in Seq(Nat), NEW x \in Nat,
         TellsOf(o, m, TRUE, all), Text(e, m), e.body.text = Append(all, x)
  PROVE  TellsOf(Append(o, e), m, TRUE, Append(all, x))
<1> DEFINE p == Append(o, e)
           n == Len(o)
           more == Append(all, x)
<1>1. /\ DOMAIN o = 1..n /\ n \in Nat /\ DOMAIN p = 1..(n + 1) /\ p[n + 1] = e
      /\ \A i \in 1..n : p[i] = o[i]
  BY AppendedEvent
<1>2. /\ Len(all) \in Nat /\ more \in Seq(Nat) /\ Len(more) = Len(all) + 1 /\ \A k \in 1..Len(all) : more[k] = all[k]
  OBVIOUS
<1> HIDE DEF p, n, more
<1>a. /\ \A i, k \in 1..n : Meta(o[i], m) /\ Meta(o[k], m) => k = i
      /\ \A i, k \in 1..n : k < i /\ Text(o[i], m) /\ Text(o[k], m) =>
           Len(o[k].body.text) < Len(o[i].body.text)
  BY <1>1, Zenon DEF TellsOf
<1>3. ~Meta(e, m)
  BY DEF Text, Meta
<1>4. PICK j \in 1..n : Meta(p[j], m)
  BY <1>1 DEF TellsOf
<1>5. ASSUME NEW i \in DOMAIN p, Meta(p[i], m)
      PROVE  \A k \in DOMAIN p : Meta(p[k], m) => k = i
  <2>0. \A k \in DOMAIN p : k \in DOMAIN o \/ k = n + 1
    BY <1>1
  <2>1. \A k \in DOMAIN p : Meta(p[k], m) => k \in DOMAIN o
    BY <1>1, <1>3, <2>0, Zenon
  <2>2. i \in DOMAIN o
    BY <1>5, <2>1
  <2>3. Meta(o[i], m) /\ \A k \in DOMAIN p : Meta(p[k], m) => k \in 1..n /\ Meta(o[k], m)
    BY <1>1, <1>5, <2>1, <2>2
  <2> QED BY <1>1, <1>a, <2>2, <2>3
<1>6. ASSUME NEW i \in 1..n, Text(o[i], m)
      PROVE  Len(o[i].body.text) <= Len(all) /\ Begins(o[i].body.text, more)
  <2>1. Begins(o[i].body.text, all)
    BY <1>1, <1>6 DEF TellsOf
  <2> DEFINE l == Len(o[i].body.text)
  <2>2. o[i].body.text \in Seq(Nat) /\ l <= Len(all) /\ \A k \in 1..l : o[i].body.text[k] = all[k]
    BY <2>1 DEF Begins
  <2>3. l \in Nat
    BY <2>1 DEF Begins
  <2> HIDE DEF l
  <2>4. \A k \in 1..l : k \in 1..Len(all)
    BY <1>2, <2>2, <2>3
  <2>5. l <= Len(more)
    BY <1>2, <2>2, <2>3
  <2> QED BY <1>2, <2>2, <2>4, <2>5 DEF Begins, l
<1>7. ASSUME NEW i \in DOMAIN p, Text(p[i], m)
      PROVE  /\ Begins(p[i].body.text, more)
             /\ \E k \in 1..i : Meta(p[k], m)
             /\ \A k \in DOMAIN p : k < i /\ Text(p[k], m) => Len(p[k].body.text) < Len(p[i].body.text)
  <2>1. CASE i \in 1..n
    <3>1. Text(o[i], m) /\ p[i] = o[i]
      BY <1>1, <1>7, <2>1
    <3>2. Begins(p[i].body.text, more)
      BY <1>6, <2>1, <3>1
    <3>3. \E k \in 1..i : Meta(p[k], m)
      <4>1. PICK k \in 1..i : Meta(o[k], m)
        BY <1>1, <2>1, <3>1 DEF TellsOf
      <4> QED BY <1>1, <2>1, <4>1
    <3>4. ASSUME NEW k \in DOMAIN p, k < i, Text(p[k], m)
          PROVE  Len(p[k].body.text) < Len(p[i].body.text)
      <4>1. k \in 1..n /\ p[k] = o[k]
        BY <1>1, <2>1, <3>4
      <4> QED BY <1>a, <2>1, <3>1, <3>4, <4>1
    <3> QED BY <3>2, <3>3, <3>4
  <2>2. CASE i = n + 1
    <3>1. p[i].body.text = more
      BY <1>1, <2>2 DEF more
    <3>2. Begins(more, more)
      BY <1>2 DEF Begins
    <3>3. j \in 1..i
      BY <1>1, <1>4, <2>2
    <3>4. ASSUME NEW k \in DOMAIN p, k < i, Text(p[k], m)
          PROVE  Len(p[k].body.text) < Len(p[i].body.text)
      <4>1. k \in 1..n /\ p[k] = o[k]
        BY <1>1, <2>2, <3>4
      <4>2. Len(o[k].body.text) <= Len(all)
        BY <1>6, <3>4, <4>1
      <4> QED BY <1>2, <3>1, <4>1, <4>2
    <3> QED BY <1>4, <3>1, <3>2, <3>3, <3>4
  <2> QED BY <1>1, <2>1, <2>2
<1>8. \E k \in DOMAIN p : Meta(p[k], m)
  BY <1>1, <1>4
<1> QED BY <1>5, <1>7, <1>8, Zenon DEF TellsOf, p, more

Kept(m) == IF m \in DOMAIN parts THEN parts[m] ELSE <<>>

StreamTells == \A m : m # Stream!NoId => TellsOf(out, m, m \in DOMAIN messages, Kept(m))

StreamTypes ==
  /\ at \in {"start", "run", "paused", "done"} /\ emitted \in 0..MaxEmits
  /\ state \in 0..MaxEmits /\ output \in 0..MaxEmits /\ asked \in BOOLEAN /\ interrupt \in BOOLEAN
  /\ rooted \in BOOLEAN /\ whole \subseteq MessageIds
  /\ DOMAIN parts \subseteq MessageIds /\ parts \in [DOMAIN parts -> Seq(Nat)]
  /\ messages = IF "messages-tuple" \in modes THEN Stream!Empty ELSE parts
  /\ out \in Seq(StreamEvent)

StreamInv ==
  /\ StreamTypes /\ StreamTells
  /\ Stream!InterruptTold /\ Stream!OutputIsState

(* The event astream_events wraps a chunk in. *)
Wrapper == Stream!Event("events", Stream!Root, emitted + 1)

(* A step that yields the events x, wrapped or not. *)
Yields(x) ==
  /\ out' \in {out \o x, (out \o x) \o <<Wrapper>>}
  /\ interrupt' = (interrupt \/ \E i \in DOMAIN x : x[i].interrupt)
  /\ output' = IF Stream!States(x) = {} THEN output ELSE x[Stream!LastState(x)].body

LEMMA EventTypes ==
  ASSUME NEW name \in EventNames, NEW ns \in {Stream!Root, Stream!Sub}, NEW body \in Nat \cup MessageBody
  PROVE  /\ Stream!Event(name, ns, body) \in StreamEvent
         /\ Stream!Event(name, ns, body).event = name /\ Stream!Event(name, ns, body).ns = ns
         /\ Stream!Event(name, ns, body).body = body /\ Stream!Event(name, ns, body).interrupt = FALSE
BY DEF Stream!Event, StreamEvent

LEMMA YieldedPlain ==
  ASSUME NEW x, Stream!Yield(x)
  PROVE  Yields(x)
BY DEF Stream!Yield, Yields

LEMMA YieldedWrapped ==
  ASSUME NEW x \in Seq(StreamEvent), StreamTypes, MaxEmits \in Nat,
         \A i \in DOMAIN x : Stream!IsState(x[i]) => i = 1, Stream!Yield(Stream!Wrapped(x))
  PROVE  Yields(x)
<1>1. CASE "events" \notin modes
  <2>1. Stream!Wrapped(x) = x
    BY <1>1 DEF Stream!Wrapped
  <2> QED BY <2>1, YieldedPlain
<1>2. CASE "events" \in modes
  <2> DEFINE y == x \o <<Wrapper>>
             n == Len(x)
  <2>1. emitted + 1 \in Nat
    BY DEF StreamTypes
  <2>2. Wrapper \in StreamEvent /\ Wrapper.event = "events" /\ Wrapper.interrupt = FALSE
    <3>1. Wrapper = [event |-> "events", ns |-> Stream!Root, body |-> emitted + 1, interrupt |-> FALSE]
      BY DEF Wrapper, Stream!Event
    <3>2. Wrapper \in StreamEvent
      BY <2>1, <3>1 DEF StreamEvent, EventNames
    <3> QED BY <3>1, <3>2
  <2>3. Stream!Wrapped(x) = y
    <3>1. Stream!Wrapped(x) = Append(x, Wrapper)
      BY <1>2 DEF Stream!Wrapped, Wrapper
    <3>2. Append(x, Wrapper) = y
      BY <2>2
    <3> QED BY <3>1, <3>2
  <2>4. /\ DOMAIN x = 1..n /\ n \in Nat /\ DOMAIN y = 1..(n + 1) /\ y[n + 1] = Wrapper
        /\ \A i \in 1..n : y[i] = x[i]
    BY <2>2
  <2>5. (out \o x) \o <<Wrapper>> = out \o y
    BY <2>2, SMTT(30) DEF StreamTypes
  <2> HIDE DEF y, n
  <2>6. /\ Stream!States(y) = Stream!States(x)
        /\ Stream!States(x) \subseteq 1..n
    BY <2>2, <2>4 DEF Stream!States, Stream!IsState
  <2>7. Stream!LastState(y) = Stream!LastState(x)
    BY <2>6 DEF Stream!LastState
  <2>8. Stream!States(x) # {} => y[Stream!LastState(x)] = x[Stream!LastState(x)]
    <3> SUFFICES ASSUME Stream!States(x) # {}
                 PROVE  Stream!LastState(x) \in Stream!States(x)
      BY <2>4, <2>6, Zenon
    <3>1. \A i \in Stream!States(x) : i = 1
      BY DEF Stream!States
    <3>2. \E i \in Stream!States(x) : \A j \in Stream!States(x) : j <= i
      BY <3>1
    <3> QED BY <3>2, Zenon DEF Stream!LastState
  <2>9. (\E i \in DOMAIN y : y[i].interrupt) <=> (\E i \in DOMAIN x : x[i].interrupt)
    BY <2>2, <2>4
  <2>10. out' = (out \o x) \o <<Wrapper>>
    BY <2>3, <2>5 DEF Stream!Yield
  <2>11. interrupt' = (interrupt \/ \E i \in DOMAIN x : x[i].interrupt)
    BY <2>3, <2>9, Zenon DEF Stream!Yield
  <2>12. output' = IF Stream!States(x) = {} THEN output ELSE x[Stream!LastState(x)].body
    BY <2>3, <2>6, <2>7, <2>8 DEF Stream!Yield
  <2> QED BY <2>10, <2>11, <2>12, Zenon DEF Yields
<1> QED BY <1>1, <1>2

LEMMA WrapperQuiet ==
  ASSUME StreamTypes, MaxEmits \in Nat
  PROVE  /\ Wrapper \in StreamEvent /\ Wrapper.event = "events" /\ <<Wrapper>> \in Seq(StreamEvent)
         /\ \A m : \A k \in DOMAIN <<Wrapper>> : ~Text(<<Wrapper>>[k], m) /\ ~Meta(<<Wrapper>>[k], m)
<1>1. Wrapper = [event |-> "events", ns |-> Stream!Root, body |-> emitted + 1, interrupt |-> FALSE]
  BY DEF Wrapper, Stream!Event
<1>2. emitted + 1 \in Nat
  BY DEF StreamTypes
<1>3. Wrapper \in StreamEvent /\ Wrapper.event = "events"
  BY <1>1, <1>2 DEF StreamEvent, EventNames
<1>4. <<Wrapper>> \in Seq(StreamEvent) /\ \A k \in DOMAIN <<Wrapper>> : <<Wrapper>>[k] = Wrapper
  BY <1>3
<1>5. \A m : ~Text(Wrapper, m) /\ ~Meta(Wrapper, m)
  BY <1>3 DEF Text, Meta
<1> QED BY <1>3, <1>4, <1>5

(* The events a step adds. *)
LEMMA StreamOut ==
  ASSUME StreamTypes, MaxEmits \in Nat, NEW x \in Seq(StreamEvent), Yields(x)
  PROVE  /\ out' \in Seq(StreamEvent) /\ Len(out) \in Nat /\ Len(x) \in Nat
         /\ DOMAIN out = 1..Len(out) /\ DOMAIN x = 1..Len(x)
         /\ DOMAIN out' = 1..Len(out') /\ Len(out') \in Nat /\ Len(out) + Len(x) <= Len(out')
         /\ \A i \in 1..Len(out) : out'[i] = out[i]
         /\ \A i \in 1..Len(x) : out'[Len(out) + i] = x[i]
         /\ \A i \in DOMAIN out' : i > Len(out) + Len(x) => out'[i].event = "events"
<1> DEFINE n == Len(out) + Len(x)
           o == out \o x
<1>1. out \in Seq(StreamEvent)
  BY DEF StreamTypes
<1>2. /\ Len(out) \in Nat /\ Len(x) \in Nat /\ DOMAIN out = 1..Len(out) /\ DOMAIN x = 1..Len(x)
      /\ o \in Seq(StreamEvent) /\ Len(o) = n /\ DOMAIN o = 1..n
      /\ \A i \in 1..Len(out) : o[i] = out[i]
      /\ \A i \in 1..Len(x) : o[Len(out) + i] = x[i]
  <2>1. \A i \in 1..Len(x) : o[Len(out) + i] = x[i]
    BY <1>1, JoinedEvents
  <2> QED BY <1>1, <2>1
<1> HIDE DEF o
<1>3. CASE out' = o
  BY <1>2, <1>3
<1>4. CASE out' = o \o <<Wrapper>>
  <2>1. Wrapper \in StreamEvent /\ Wrapper.event = "events"
    BY WrapperQuiet
  <2>2. /\ out' \in Seq(StreamEvent) /\ Len(out') = n + 1 /\ DOMAIN out' = 1..(n + 1)
        /\ \A i \in 1..n : out'[i] = o[i]
        /\ out'[n + 1] = Wrapper
    <3>1. o \in Seq(StreamEvent) /\ Len(o) = n
      BY <1>2
    <3> HIDE DEF n
    <3>2. o \o <<Wrapper>> = Append(o, Wrapper)
      BY <2>1, <3>1
    <3>3. /\ Append(o, Wrapper) \in Seq(StreamEvent) /\ Len(Append(o, Wrapper)) = Len(o) + 1
          /\ DOMAIN Append(o, Wrapper) = 1..(Len(o) + 1)
          /\ \A i \in 1..Len(o) : Append(o, Wrapper)[i] = o[i]
          /\ Append(o, Wrapper)[Len(o) + 1] = Wrapper
      BY <2>1, <3>1
    <3> QED BY <1>4, <3>1, <3>2, <3>3
  <2>3. \A i \in 1..Len(x) : Len(out) + i \in 1..n
    BY <1>2
  <2>4. \A i \in 1..Len(out) : i \in 1..n
    BY <1>2
  <2>5. \A i \in DOMAIN out' : i > n => i = n + 1
    BY <1>2, <2>2
  <2> HIDE DEF n
  <2>6. /\ \A i \in 1..Len(out) : out'[i] = out[i]
        /\ \A i \in 1..Len(x) : out'[Len(out) + i] = x[i]
        /\ \A i \in DOMAIN out' : i > n => out'[i].event = "events"
    BY <1>2, <2>1, <2>2, <2>3, <2>4, <2>5
  <2>7. n \in Nat
    BY <1>2 DEF n
  <2> QED BY <1>2, <2>2, <2>6, <2>7 DEF n
<1> QED BY <1>3, <1>4 DEF Yields, o

(* What a step that says nothing of message m leaves told of it. *)
LEMMA StreamQuietly ==
  ASSUME StreamTypes, MaxEmits \in Nat, NEW x \in Seq(StreamEvent), Yields(x),
         NEW m, NEW seen, NEW all, TellsOf(out, m, seen, all),
         \A k \in DOMAIN x : ~Text(x[k], m) /\ ~Meta(x[k], m)
  PROVE  TellsOf(out', m, seen, all)
<1> DEFINE o == out \o x
<1>1. out \in Seq(StreamEvent)
  BY DEF StreamTypes
<1>2. TellsOf(o, m, seen, all) /\ o \in Seq(StreamEvent)
  BY <1>1, TellsMore
<1> HIDE DEF o
<1>3. TellsOf(o \o <<Wrapper>>, m, seen, all)
  BY <1>2, TellsMore, WrapperQuiet
<1> QED BY <1>2, <1>3 DEF Yields, o

(* A step adds no interrupt but one that it tells. *)
LEMMA StreamInterrupts ==
  ASSUME StreamTypes, MaxEmits \in Nat, NEW x \in Seq(StreamEvent), Yields(x), Stream!InterruptTold,
         UNCHANGED <<modes, rooted>>,
         Stream!Followed /\ asked' => asked \/ \E i \in DOMAIN x : x[i].interrupt
  PROVE  Stream!InterruptTold' /\ interrupt' \in BOOLEAN
<1>0. Stream!Followed' => Stream!Followed
  BY DEF Stream!Followed
<1>1. interrupt' = (interrupt \/ \E i \in DOMAIN x : x[i].interrupt)
  BY Zenon DEF Yields
<1>2. /\ \A i \in DOMAIN out : i \in DOMAIN out' /\ out'[i] = out[i]
      /\ \A i \in DOMAIN x : \E k \in DOMAIN out' : out'[k] = x[i]
  <2>1. \A i \in 1..Len(x) : Len(out) + i \in DOMAIN out' /\ out'[Len(out) + i] = x[i]
    BY StreamOut
  <2>2. \A i \in DOMAIN out : i \in DOMAIN out' /\ out'[i] = out[i]
    BY StreamOut
  <2> QED BY <2>1, <2>2, StreamOut, Zenon
<1>3. CASE asked
  BY <1>0, <1>1, <1>2, <1>3, Zenon DEF Stream!InterruptTold
<1>4. CASE \E i \in DOMAIN x : x[i].interrupt
  BY <1>1, <1>2, <1>4, Zenon DEF Stream!InterruptTold
<1>5. interrupt' \in BOOLEAN
  BY <1>1, Zenon
<1> QED BY <1>0, <1>3, <1>4, <1>5, Zenon DEF Stream!InterruptTold

(* The output after a step: as it was when no state is yielded, else that state. *)
LEMMA StreamOutput ==
  ASSUME StreamTypes, MaxEmits \in Nat, NEW x \in Seq(StreamEvent), Yields(x), Stream!OutputIsState,
         UNCHANGED <<modes, rooted>>,
         \/ Stream!States(x) = {} /\ (Stream!Followed /\ "values" \in modes => state' = state)
         \/ /\ Stream!States(x) = {1} /\ x[1].body \in 0..MaxEmits
            /\ x[1].body = state' \/ x[1].interrupt \/ x[1].ns = Stream!Sub
  PROVE  Stream!OutputIsState' /\ output' \in 0..MaxEmits
<1> DEFINE n == Len(out)
           Last(o, i) == /\ o[i].event = "values"
                         /\ \A j \in DOMAIN o : o[j].event = "values" => j <= i
<1>0. Stream!Followed' => Stream!Followed
  BY DEF Stream!Followed
<1>1. /\ n \in Nat /\ Len(x) \in Nat /\ DOMAIN out = 1..n /\ DOMAIN x = 1..Len(x)
      /\ DOMAIN out' = 1..Len(out') /\ Len(out') \in Nat /\ n + Len(x) <= Len(out')
      /\ \A i \in 1..n : out'[i] = out[i]
      /\ \A i \in 1..Len(x) : out'[n + i] = x[i]
      /\ \A i \in DOMAIN out' : i > n + Len(x) => out'[i].event = "events"
  BY StreamOut
<1> HIDE DEF n
<1>2. \A i \in DOMAIN out' : \/ i \in 1..n
                           \/ (i - n \in 1..Len(x) /\ i = n + (i - n))
                           \/ i > n + Len(x)
  BY <1>1
<1>3. CASE Stream!States(x) = {} /\ (Stream!Followed /\ "values" \in modes => state' = state)
  <2>1. output' = output
    BY <1>3 DEF Yields
  <2>2. output' \in 0..MaxEmits
    BY <2>1 DEF StreamTypes
  <2>3. \A i \in 1..Len(x) : x[i].event # "values"
    BY <1>1, <1>3 DEF Stream!States, Stream!IsState
  <2>4. \A i \in DOMAIN out' : out'[i].event = "values" => i \in DOMAIN out
    BY <1>1, <1>2, <2>3
  <2>5. ASSUME NEW i \in DOMAIN out, out[i].event = "values",
               \A j \in DOMAIN out : out[j].event = "values" => j <= i
        PROVE  /\ i \in DOMAIN out' /\ out'[i] = out[i]
               /\ \A j \in DOMAIN out' : out'[j].event = "values" => j <= i
    BY <1>1, <2>4, <2>5
  <2> QED BY <1>0, <1>3, <2>1, <2>2, <2>5 DEF Stream!OutputIsState
<1>4. CASE /\ Stream!States(x) = {1} /\ x[1].body \in 0..MaxEmits
           /\ x[1].body = state' \/ x[1].interrupt \/ x[1].ns = Stream!Sub
  <2>1. Stream!LastState(x) = 1
    <3>1. 1 <= 1
      OBVIOUS
    <3> QED BY <1>4, <3>1 DEF Stream!LastState
  <2>2. output' = x[1].body
    <3>1. Stream!States(x) # {}
      BY <1>4
    <3> QED BY <2>1, <3>1 DEF Yields
  <2>3. /\ 1 \in 1..Len(x) /\ x[1].event = "values"
        /\ \A i \in 1..Len(x) : x[i].event = "values" => i = 1
    BY <1>1, <1>4 DEF Stream!States, Stream!IsState
  <2>4. /\ n + 1 \in DOMAIN out' /\ out'[n + 1] = x[1]
        /\ \A j \in DOMAIN out' : out'[j].event = "values" => j <= n + 1
    <3>1. n + 1 \in DOMAIN out' /\ out'[n + 1] = x[1]
      BY <1>1, <2>3
    <3>2. ASSUME NEW j \in DOMAIN out', out'[j].event = "values" PROVE j <= n + 1
      <4>1. CASE j \in 1..n
        BY <1>1, <4>1
      <4>2. CASE j - n \in 1..Len(x) /\ j = n + (j - n)
        <5>1. out'[j] = x[j - n]
          BY <1>1, <4>2
        <5>2. j - n = 1
          BY <2>3, <3>2, <4>2, <5>1
        <5> QED BY <1>1, <4>2, <5>2
      <4>3. CASE j > n + Len(x)
        BY <1>1, <3>2, <4>3
      <4> QED BY <1>2, <4>1, <4>2, <4>3
    <3> QED BY <3>1, <3>2
  <2>5. CASE x[1].body = state'
    BY <1>4, <2>2, <2>5 DEF Stream!OutputIsState
  <2>6. CASE x[1].interrupt \/ x[1].ns = Stream!Sub
    <3>1. output' \in 0..MaxEmits
      BY <1>4, <2>2
    <3>2. Stream!OutputIsState'
      BY <2>3, <2>4, <2>6, Zenon DEF Stream!OutputIsState
    <3> QED BY <3>1, <3>2
  <2> QED BY <1>4, <2>5, <2>6
<1> QED BY <1>3, <1>4

LEMMA OneEvent ==
  ASSUME NEW e \in StreamEvent
  PROVE  /\ <<e>> \in Seq(StreamEvent) /\ DOMAIN <<e>> = {1} /\ <<e>>[1] = e
         /\ e.event = "values" => Stream!States(<<e>>) = {1}
         /\ e.event # "values" => Stream!States(<<e>>) = {}
<1>1. <<e>> \in Seq(StreamEvent) /\ DOMAIN <<e>> = {1} /\ <<e>>[1] = e
  OBVIOUS
<1> QED BY <1>1, Zenon DEF Stream!States, Stream!IsState

LEMMA TwoEvents ==
  ASSUME NEW S, NEW a \in S, NEW b \in S
  PROVE  <<a>> \o <<b>> = <<a, b>>
<1>1. /\ <<a>> \o <<b>> \in Seq(S) /\ Len(<<a>> \o <<b>>) = 2
      /\ (<<a>> \o <<b>>)[1] = a /\ (<<a>> \o <<b>>)[2] = b
  OBVIOUS
<1>2. <<a, b>> \in Seq(S) /\ Len(<<a, b>>) = 2 /\ <<a, b>>[1] = a /\ <<a, b>>[2] = b
  OBVIOUS
<1>3. \A i \in 1..2 : i = 1 \/ i = 2
  OBVIOUS
<1>4. \A i \in 1..2 : (<<a>> \o <<b>>)[i] = <<a, b>>[i]
  BY <1>1, <1>2, <1>3, Zenon
<1> QED BY <1>1, <1>2, <1>4, SeqEqual

LEMMA NoEvent ==
  /\ <<>> \in Seq(StreamEvent) /\ DOMAIN <<>> = {} /\ Stream!States(<<>>) = {}
<1>1. <<>> \in Seq(StreamEvent) /\ DOMAIN <<>> = {}
  OBVIOUS
<1> QED BY <1>1, Zenon DEF Stream!States

(* A step that says nothing of any message. *)
LEMMA StreamStill ==
  ASSUME StreamInv, MaxEmits \in Nat, NEW x \in Seq(StreamEvent), Yields(x),
         \A k \in DOMAIN x : Quiet(x[k]), UNCHANGED <<modes, parts, messages>>
  PROVE  StreamTells' /\ out' \in Seq(StreamEvent)
<1>1. StreamTypes /\ StreamTells
  BY DEF StreamInv
<1>2. \A m : \A k \in DOMAIN x : ~Text(x[k], m) /\ ~Meta(x[k], m)
  BY DEF Quiet, Text, Meta
<1>3. ASSUME NEW m, m # Stream!NoId
      PROVE  TellsOf(out', m, m \in DOMAIN messages', Kept(m)')
  <2>1. TellsOf(out, m, m \in DOMAIN messages, Kept(m))
    BY <1>1, <1>3, Zenon DEF StreamTells
  <2>2. TellsOf(out', m, m \in DOMAIN messages, Kept(m))
    BY <1>1, <1>2, <2>1, StreamQuietly
  <2>3. messages' = messages /\ Kept(m)' = Kept(m)
    BY DEF Kept
  <2> QED BY <2>2, <2>3
<1>4. out' \in Seq(StreamEvent)
  BY <1>1, StreamOut
<1> QED BY <1>3, <1>4, Zenon DEF StreamTells

(* What is left of the invariant when nothing is told of a message. *)
LEMMA StreamPasses ==
  ASSUME StreamInv, MaxEmits \in Nat, NEW x \in Seq(StreamEvent), Yields(x),
         \A k \in DOMAIN x : Quiet(x[k]), UNCHANGED <<modes, rooted, parts, whole, messages>>,
         at' \in {"start", "run", "paused", "done"}, emitted' \in 0..MaxEmits, state' \in 0..MaxEmits,
         asked' \in BOOLEAN, Stream!Followed /\ asked' => asked \/ \E i \in DOMAIN x : x[i].interrupt,
         \/ Stream!States(x) = {} /\ (Stream!Followed /\ "values" \in modes => state' = state)
         \/ /\ Stream!States(x) = {1} /\ x[1].body \in 0..MaxEmits
            /\ x[1].body = state' \/ x[1].interrupt \/ x[1].ns = Stream!Sub
  PROVE  StreamInv'
<1>1. StreamTypes /\ Stream!InterruptTold /\ Stream!OutputIsState
  BY DEF StreamInv
<1>2. StreamTells' /\ out' \in Seq(StreamEvent)
  BY StreamStill
<1>3. Stream!InterruptTold' /\ interrupt' \in BOOLEAN
  BY <1>1, StreamInterrupts
<1>4. Stream!OutputIsState' /\ output' \in 0..MaxEmits
  BY <1>1, StreamOutput
<1>5. StreamTypes'
  BY <1>1, <1>2, <1>3, <1>4, Zenon DEF StreamTypes, Stream!Empty
<1> QED BY <1>2, <1>3, <1>4, <1>5 DEF StreamInv

LEMMA StreamStarts ==
  ASSUME StreamInv, MaxEmits \in Nat, Stream!Start \/ \E ok \in BOOLEAN : Stream!Finish(ok)
  PROVE  StreamInv'
<1>1. StreamTypes
  BY DEF StreamInv
<1> DEFINE E(name) == Stream!Event(name, Stream!Root, 0)
<1>2. \A name \in {"metadata", "error", "end"} :
        E(name) \in StreamEvent /\ E(name).event = name
  <2> SUFFICES ASSUME NEW name \in {"metadata", "error", "end"}
               PROVE  E(name) \in StreamEvent /\ E(name).event = name
    OBVIOUS
  <2>1. name \in EventNames /\ 0 \in Nat \cup MessageBody /\ Stream!Root \in {Stream!Root, Stream!Sub}
    BY DEF EventNames
  <2> QED BY <2>1, EventTypes
<1> HIDE DEF E
<1>3. PICK x \in {<<E("metadata")>>, <<E("end")>>, <<E("error"), E("end")>>} : Stream!Yield(x)
  <2>1. CASE Stream!Start
    BY <2>1 DEF Stream!Start, E
  <2>2. ASSUME NEW ok \in BOOLEAN, Stream!Finish(ok)
        PROVE  Stream!Yield(<<E("end")>>) \/ Stream!Yield(<<E("error"), E("end")>>)
    <3>1. CASE ok = TRUE
      <4>1. <<>> \o <<E("end")>> = <<E("end")>>
        BY <1>2
      <4> QED BY <2>2, <3>1, <4>1 DEF Stream!Finish, E
    <3>2. CASE ok = FALSE
      <4>1. <<E("error")>> \o <<E("end")>> = <<E("error"), E("end")>>
        BY <1>2, TwoEvents
      <4> QED BY <2>2, <3>2, <4>1 DEF Stream!Finish, E
    <3> QED BY <3>1, <3>2
  <2> QED BY <2>1, <2>2
<1>4. x \in Seq(StreamEvent) /\ \A k \in DOMAIN x : Quiet(x[k]) /\ x[k].event # "values"
  <2>1. /\ E("metadata") \in StreamEvent /\ E("error") \in StreamEvent /\ E("end") \in StreamEvent
        /\ E("metadata").event = "metadata" /\ E("error").event = "error" /\ E("end").event = "end"
    BY <1>2
  <2>2. \A e \in {E("metadata"), E("error"), E("end")} : Quiet(e) /\ e.event # "values"
    BY <2>1 DEF Quiet
  <2>3. x \in Seq(StreamEvent) /\ \A k \in DOMAIN x : x[k] \in {E("metadata"), E("error"), E("end")}
    <3> DEFINE a == E("metadata")
               b == E("error")
               c == E("end")
    <3> HIDE DEF a, b, c
    <3>1. a \in StreamEvent /\ b \in StreamEvent /\ c \in StreamEvent
      BY <2>1 DEF a, b, c
    <3>2. /\ <<a>> \in Seq(StreamEvent) /\ \A k \in DOMAIN <<a>> : <<a>>[k] \in {a, b, c}
          /\ <<c>> \in Seq(StreamEvent) /\ \A k \in DOMAIN <<c>> : <<c>>[k] \in {a, b, c}
      BY <3>1
    <3>3. <<b, c>> \in Seq(StreamEvent) /\ \A k \in DOMAIN <<b, c>> : <<b, c>>[k] \in {a, b, c}
      BY <3>1
    <3> QED BY <3>2, <3>3 DEF a, b, c
  <2> QED BY <2>2, <2>3, Zenon
<1>5. Stream!States(x) = {}
  BY <1>4 DEF Stream!States, Stream!IsState
<1>6. Yields(x)
  BY <1>3, YieldedPlain
<1>7. /\ at' \in {"run", "done"}
      /\ UNCHANGED <<modes, subgraphs, rooted, emitted, parts, whole, state, asked, messages>>
  BY Zenon DEF Stream!Start, Stream!Finish, Stream!request, Stream!graph
<1>8. emitted' \in 0..MaxEmits /\ state' \in 0..MaxEmits
  BY <1>1, <1>7 DEF StreamTypes
<1>9. asked' \in BOOLEAN /\ (asked' => asked) /\ state' = state
  BY <1>1, <1>7, Zenon DEF StreamTypes
<1>10. at' \in {"start", "run", "paused", "done"} /\ UNCHANGED <<modes, rooted, parts, whole, messages>>
  BY <1>7, Zenon
<1> QED BY <1>4, <1>5, <1>6, <1>8, <1>9, <1>10, StreamPasses

(* The number of an emission. *)
LEMMA StreamEmitted ==
  ASSUME StreamTypes, MaxEmits \in Nat, Stream!Running
  PROVE  emitted + 1 \in 0..MaxEmits /\ emitted + 1 \in Nat
BY DEF StreamTypes, Stream!Running

LEMMA StreamEmits ==
  ASSUME StreamInv, MaxEmits \in Nat, NEW ns \in Stream!Namespaces,
         NEW mode \in {"values", "updates", "debug", "custom"}, Stream!Emit(mode, ns)
  PROVE  StreamInv'
<1> DEFINE e == Stream!Event(mode, ns, emitted + 1)
           x == IF mode \in modes THEN <<e>> ELSE <<>>
<1>1. StreamTypes
  BY DEF StreamInv
<1>2. emitted + 1 \in 0..MaxEmits /\ emitted + 1 \in Nat /\ emitted' = emitted + 1
  BY <1>1, StreamEmitted DEF Stream!Emit
<1>3. ns \in {Stream!Root, Stream!Sub} /\ mode \in EventNames
  BY DEF Stream!Namespaces, EventNames
<1>4. /\ e \in StreamEvent /\ e.event = mode /\ e.ns = ns /\ e.body = emitted + 1
  <2>1. emitted + 1 \in Nat \cup MessageBody
    BY <1>2
  <2> QED BY <1>3, <2>1 DEF Stream!Event, StreamEvent
<1>5. Stream!Yield(Stream!Wrapped(x))
  BY <1>2 DEF Stream!Emit
<1>6. /\ state' = IF mode = "values" /\ ns = Stream!Root THEN emitted' ELSE state
      /\ UNCHANGED <<modes, rooted, at, parts, whole, asked, messages>>
  <2>1. state' = IF mode = "values" /\ ns = Stream!Root THEN emitted' ELSE state
    BY DEF Stream!Emit
  <2>2. UNCHANGED <<modes, rooted, at, parts, whole, asked, messages>>
    BY DEF Stream!Emit, Stream!request
  <2> QED BY <2>1, <2>2
<1> HIDE DEF e
<1>7. x \in Seq(StreamEvent) /\ \A k \in DOMAIN x : k = 1 /\ x[k] = e
  BY <1>4, OneEvent, NoEvent
<1>8. Quiet(e)
  BY <1>4 DEF Quiet
<1>9. Yields(x)
  <2>1. \A i \in DOMAIN x : Stream!IsState(x[i]) => i = 1
    BY <1>7
  <2> HIDE DEF x
  <2> QED BY <1>1, <1>5, <1>7, <2>1, YieldedWrapped
<1>10. \/ Stream!States(x) = {} /\ (Stream!Followed /\ "values" \in modes => state' = state)
       \/ /\ Stream!States(x) = {1} /\ x[1].body \in 0..MaxEmits
          /\ x[1].body = state' \/ x[1].interrupt \/ x[1].ns = Stream!Sub
  <2>1. CASE mode \notin modes
    <3>1. Stream!States(x) = {}
      BY <2>1, NoEvent
    <3>2. "values" \in modes => state' = state
      BY <1>6, <2>1
    <3> QED BY <3>1, <3>2
  <2>2. CASE mode \in modes /\ mode # "values"
    <3>1. Stream!States(x) = {}
      BY <1>4, <2>2, OneEvent
    <3>2. state' = state
      BY <1>6, <2>2
    <3> QED BY <3>1, <3>2
  <2>3. CASE mode \in modes /\ mode = "values"
    <3>1. x = <<e>> /\ Stream!States(<<e>>) = {1} /\ <<e>>[1] = e
      BY <1>4, <2>3, OneEvent
    <3>2. e.body = state' \/ e.ns = Stream!Sub
      BY <1>2, <1>3, <1>4, <1>6, <2>3
    <3> QED BY <1>2, <1>4, <3>1, <3>2
  <2> QED BY <2>1, <2>2, <2>3
<1>11. \A k \in DOMAIN x : Quiet(x[k])
  BY <1>7, <1>8
<1> HIDE DEF x
<1>12. emitted' \in 0..MaxEmits /\ state' \in 0..MaxEmits
  BY <1>1, <1>2, <1>6 DEF StreamTypes
<1>13. asked' \in BOOLEAN /\ (asked' => asked) /\ at' \in {"start", "run", "paused", "done"}
  BY <1>1, <1>6, Zenon DEF StreamTypes
<1>14. UNCHANGED <<modes, rooted, parts, whole, messages>>
  BY <1>6
<1> QED BY <1>7, <1>9, <1>10, <1>11, <1>12, <1>13, <1>14, StreamPasses

LEMMA StreamRaws ==
  ASSUME StreamInv, MaxEmits \in Nat, NEW hidden \in BOOLEAN, Stream!Raw(hidden)
  PROVE  StreamInv'
<1> DEFINE e == Stream!Event("events", Stream!Root, emitted + 1)
<1>1. StreamTypes
  BY DEF StreamInv
<1>2. emitted + 1 \in 0..MaxEmits /\ emitted + 1 \in Nat /\ emitted' = emitted + 1
  BY <1>1, StreamEmitted DEF Stream!Raw
<1>3. "events" \in EventNames /\ Stream!Root \in {Stream!Root, Stream!Sub}
  BY DEF EventNames
<1>4. e \in StreamEvent /\ e.event = "events"
  BY <1>2, <1>3, EventTypes
<1>5. PICK x \in {<<>>, <<e>>} : Stream!Yield(x)
  BY <1>2, Zenon DEF Stream!Raw
<1>6. UNCHANGED <<modes, rooted, at, parts, whole, state, asked, messages>>
  BY Zenon DEF Stream!Raw, Stream!request, Stream!graph
<1> HIDE DEF e
<1>7. /\ x \in Seq(StreamEvent) /\ (\A k \in DOMAIN x : x[k] = e) /\ Stream!States(x) = {}
  BY <1>4, <1>5, OneEvent, NoEvent
<1>8. Quiet(e)
  BY <1>4 DEF Quiet
<1>9. Yields(x) /\ \A k \in DOMAIN x : Quiet(x[k])
  BY <1>5, <1>7, <1>8, YieldedPlain
<1>12. emitted' \in 0..MaxEmits /\ state' \in 0..MaxEmits /\ state' = state
  BY <1>1, <1>2, <1>6 DEF StreamTypes
<1>13. asked' \in BOOLEAN /\ (asked' => asked) /\ at' \in {"start", "run", "paused", "done"}
  BY <1>1, <1>6, Zenon DEF StreamTypes
<1>14. UNCHANGED <<modes, rooted, parts, whole, messages>>
  BY <1>6
<1> QED BY <1>7, <1>9, <1>12, <1>13, <1>14, StreamPasses

LEMMA StreamStrays == ASSUME StreamInv, MaxEmits \in Nat, Stream!Unfollowed PROVE StreamInv'
<1> DEFINE e == Stream!Event("events", Stream!Root, emitted + 1)
           x == <<e>>
<1>1. StreamTypes
  BY DEF StreamInv
<1>2. emitted + 1 \in 0..MaxEmits /\ emitted + 1 \in Nat /\ emitted' = emitted + 1
  BY <1>1, StreamEmitted DEF Stream!Unfollowed
<1>3. "events" \in EventNames /\ Stream!Root \in {Stream!Root, Stream!Sub}
  BY DEF EventNames
<1>4. e \in StreamEvent /\ e.event = "events"
  BY <1>2, <1>3, EventTypes
<1>5. Stream!Yield(x)
  BY <1>2, Zenon DEF Stream!Unfollowed
<1>6. /\ ~Stream!Followed /\ state' \in {state, emitted'} /\ asked' \in {asked, TRUE}
      /\ UNCHANGED <<modes, rooted, at, parts, whole, messages>>
  BY Zenon DEF Stream!Unfollowed, Stream!request
<1> HIDE DEF e
<1>7. x \in Seq(StreamEvent) /\ (\A k \in DOMAIN x : x[k] = e) /\ Stream!States(x) = {}
  BY <1>4, OneEvent
<1>8. Quiet(e)
  BY <1>4 DEF Quiet
<1> HIDE DEF x
<1>9. Yields(x) /\ \A k \in DOMAIN x : Quiet(x[k])
  BY <1>5, <1>7, <1>8, YieldedPlain
<1>10. emitted' \in 0..MaxEmits /\ state' \in 0..MaxEmits
  BY <1>1, <1>2, <1>6 DEF StreamTypes
<1>11. asked' \in BOOLEAN /\ at' \in {"start", "run", "paused", "done"}
  BY <1>1, <1>6, Zenon DEF StreamTypes
<1>12. UNCHANGED <<modes, rooted, parts, whole, messages>>
  BY <1>6
<1> QED BY <1>6, <1>7, <1>9, <1>10, <1>11, <1>12, StreamPasses

(* An empty interrupt without updates is filtered. *)
LEMMA StreamBreaks ==
  ASSUME StreamInv, MaxEmits \in Nat, NEW ns \in Stream!Namespaces, NEW empty \in BOOLEAN,
         Stream!Interrupt(ns, empty), "updates" \notin modes, empty
  PROVE  StreamInv'
<1> DEFINE x == <<>>
<1>1. StreamTypes
  BY DEF StreamInv
<1>2. emitted + 1 \in 0..MaxEmits /\ emitted' = emitted + 1
  BY <1>1, StreamEmitted DEF Stream!Interrupt
<1>3. Stream!Yield(Stream!Wrapped(x))
  BY DEF Stream!Interrupt
<1>4. /\ (asked' => asked) /\ asked' \in BOOLEAN /\ at' \in {"paused", at}
      /\ UNCHANGED <<modes, rooted, parts, whole, state, messages>>
  BY Zenon DEF Stream!Interrupt, Stream!request
<1>5. x \in Seq(StreamEvent) /\ DOMAIN x = {} /\ Stream!States(x) = {}
  BY NoEvent
<1> HIDE DEF x
<1>6. Yields(x)
  BY <1>1, <1>3, <1>5, YieldedWrapped
<1>7. emitted' \in 0..MaxEmits /\ state' \in 0..MaxEmits /\ state' = state
  BY <1>1, <1>2, <1>4 DEF StreamTypes
<1>8. at' \in {"start", "run", "paused", "done"}
  BY <1>1, <1>4, Zenon DEF StreamTypes
<1>9. UNCHANGED <<modes, rooted, parts, whole, messages>>
  BY <1>4
<1> QED BY <1>4, <1>5, <1>6, <1>7, <1>8, <1>9, StreamPasses

LEMMA StreamPauses ==
  ASSUME StreamInv, MaxEmits \in Nat, NEW ns \in Stream!Namespaces, NEW empty \in BOOLEAN,
         Stream!Interrupt(ns, empty), "updates" \in modes \/ ~empty
  PROVE  StreamInv'
<1> DEFINE E(name) == [Stream!Event(name, ns, emitted + 1) EXCEPT !.interrupt = TRUE]
<1>1. StreamTypes
  BY DEF StreamInv
<1>2. emitted + 1 \in 0..MaxEmits /\ emitted + 1 \in Nat /\ emitted' = emitted + 1
  BY <1>1, StreamEmitted DEF Stream!Interrupt
<1>3. ns \in {Stream!Root, Stream!Sub}
  BY DEF Stream!Namespaces
<1>4. \A name \in {"updates", "values"} :
        E(name) \in StreamEvent /\ E(name).event = name /\ E(name).interrupt = TRUE
                               /\ E(name).body = emitted + 1
  BY <1>2, <1>3 DEF Stream!Event, StreamEvent, EventNames
<1>5. PICK name \in {"updates", "values"} : Stream!Yield(Stream!Wrapped(<<E(name)>>))
  <2>1. CASE "updates" \in modes
    BY <1>2, <2>1 DEF Stream!Interrupt
  <2>2. CASE "updates" \notin modes
    BY <1>2, <2>2 DEF Stream!Interrupt, Stream!Remaps
  <2> QED BY <2>1, <2>2
<1>6. /\ asked' \in BOOLEAN /\ at' \in {"paused", at}
      /\ UNCHANGED <<modes, rooted, parts, whole, state, messages>>
  BY Zenon DEF Stream!Interrupt, Stream!request
<1> DEFINE e == E(name)
<1>7. /\ e \in StreamEvent /\ e.event = name /\ e.interrupt = TRUE /\ e.body = emitted + 1
  BY <1>4
<1> HIDE DEF e
<1>8. /\ <<e>> \in Seq(StreamEvent) /\ DOMAIN <<e>> = {1} /\ <<e>>[1] = e
      /\ Stream!States(<<e>>) \in {{}, {1}}
  BY <1>7, OneEvent
<1>9. Quiet(e)
  BY <1>7 DEF Quiet
<1>10. Yields(<<e>>)
  <2>1. \A i \in DOMAIN <<e>> : Stream!IsState(<<e>>[i]) => i = 1
    BY <1>8
  <2>2. Stream!Yield(Stream!Wrapped(<<e>>))
    BY <1>5 DEF e
  <2> QED BY <1>1, <1>8, <2>1, <2>2, YieldedWrapped
<1> DEFINE x == <<e>>
<1>11. /\ x \in Seq(StreamEvent) /\ Yields(x) /\ \A k \in DOMAIN x : Quiet(x[k])
  BY <1>8, <1>9, <1>10
<1>12. emitted' \in 0..MaxEmits /\ state' \in 0..MaxEmits
  BY <1>1, <1>2, <1>6 DEF StreamTypes
<1>13. /\ asked' \in BOOLEAN /\ (asked' => asked \/ \E i \in DOMAIN x : x[i].interrupt)
       /\ at' \in {"start", "run", "paused", "done"}
  <2>1. 1 \in DOMAIN x /\ x[1].interrupt = TRUE
    BY <1>7, <1>8
  <2>2. at' \in {"start", "run", "paused", "done"}
    BY <1>1, <1>6, Zenon DEF StreamTypes
  <2> HIDE DEF x
  <2> QED BY <1>6, <2>1, <2>2, Zenon
<1>14. UNCHANGED <<modes, rooted, parts, whole, messages>>
  BY <1>6
<1>15. \/ Stream!States(x) = {} /\ (Stream!Followed /\ "values" \in modes => state' = state)
       \/ /\ Stream!States(x) = {1} /\ x[1].body \in 0..MaxEmits
          /\ x[1].body = state' \/ x[1].interrupt \/ x[1].ns = Stream!Sub
  <2>1. x[1].body \in 0..MaxEmits
    BY <1>2, <1>7, <1>8
  <2>2. x[1].interrupt
    BY <1>7, <1>8, Zenon
  <2> QED BY <1>6, <1>8, <2>1, <2>2
<1> HIDE DEF x
<1> QED BY <1>11, <1>12, <1>13, <1>14, <1>15, StreamPasses

(* What the graph has emitted of the messages after one more part of m. *)
LEMMA StreamParts ==
  ASSUME StreamTypes, MaxEmits \in Nat, NEW m \in MessageIds \cup {Stream!NoId}, NEW ns, NEW form,
         Stream!Message(m, ns, form)
  PROVE  /\ emitted' = emitted + 1 /\ emitted + 1 \in Nat /\ emitted' \in 0..MaxEmits
         /\ \A j : Kept(j) \in Seq(Nat)
         /\ m = Stream!NoId => parts' = parts
         /\ m # Stream!NoId => /\ DOMAIN parts' = DOMAIN parts \cup {m}
                              /\ Kept(m)' = Append(Kept(m), emitted + 1)
                              /\ \A j : j # m => Kept(j)' = Kept(j)
         /\ DOMAIN parts' \subseteq MessageIds /\ parts' \in [DOMAIN parts' -> Seq(Nat)]
         /\ whole' \subseteq MessageIds
<1>1. emitted' = emitted + 1 /\ emitted + 1 \in Nat /\ emitted' \in 0..MaxEmits
  BY StreamEmitted DEF Stream!Message
<1>2. DOMAIN parts \subseteq MessageIds /\ parts \in [DOMAIN parts -> Seq(Nat)] /\ whole \subseteq MessageIds
  BY DEF StreamTypes
<1>3. \A j : Kept(j) \in Seq(Nat)
  BY <1>2 DEF Kept
<1>4. whole' \subseteq MessageIds
  BY <1>2 DEF Stream!Message
<1>5. CASE m = Stream!NoId
  BY <1>1, <1>2, <1>3, <1>4, <1>5 DEF Stream!Message
<1>6. CASE m # Stream!NoId
  <2> DEFINE k == emitted + 1
  <2>1. parts' = [j \in DOMAIN parts \cup {m} |-> IF j # m THEN parts[j] ELSE Append(Kept(m), k)]
    BY <1>1, <1>6 DEF Stream!Message, Kept
  <2>2. Append(Kept(m), k) \in Seq(Nat)
    BY <1>1, <1>3
  <2>3. m \in MessageIds
    BY <1>6
  <2> HIDE DEF k
  <2>4. /\ DOMAIN parts' = DOMAIN parts \cup {m} /\ parts' \in [DOMAIN parts' -> Seq(Nat)]
        /\ parts'[m] = Append(Kept(m), k) /\ \A j \in DOMAIN parts : j # m => parts'[j] = parts[j]
    BY <1>2, <2>1, <2>2
  <2>5. Kept(m)' = Append(Kept(m), k) /\ \A j : j # m => Kept(j)' = Kept(j)
    BY <2>4 DEF Kept
  <2> QED BY <1>1, <1>2, <1>3, <1>4, <1>6, <2>3, <2>4, <2>5 DEF k
<1> QED BY <1>5, <1>6

(* The rest of the invariant after a message. *)
LEMMA StreamSays ==
  ASSUME StreamInv, MaxEmits \in Nat, NEW m \in MessageIds \cup {Stream!NoId}, NEW ns, NEW form,
         Stream!Message(m, ns, form), NEW x \in Seq(StreamEvent), Yields(x), Stream!States(x) = {},
         messages' = IF "messages-tuple" \in modes THEN Stream!Empty ELSE parts', StreamTells'
  PROVE  StreamInv'
<1>1. StreamTypes /\ Stream!InterruptTold /\ Stream!OutputIsState
  BY DEF StreamInv
<1>2. UNCHANGED <<modes, rooted, at, state, asked>>
  BY DEF Stream!Message, Stream!request
<1>3. out' \in Seq(StreamEvent)
  BY <1>1, StreamOut
<1>4. Stream!InterruptTold' /\ interrupt' \in BOOLEAN
  <2>1. (asked' => asked) /\ UNCHANGED <<modes, rooted>>
    BY <1>2
  <2> QED BY <1>1, <2>1, StreamInterrupts
<1>5. Stream!OutputIsState' /\ output' \in 0..MaxEmits
  <2>1. UNCHANGED <<modes, rooted>> /\ state' = state
    BY <1>2
  <2> QED BY <1>1, <2>1, StreamOutput
<1>6. /\ DOMAIN parts' \subseteq MessageIds /\ parts' \in [DOMAIN parts' -> Seq(Nat)]
      /\ whole' \subseteq MessageIds /\ emitted' \in 0..MaxEmits
  BY <1>1, StreamParts
<1>7. StreamTypes'
  <2>1. /\ at' \in {"start", "run", "paused", "done"} /\ state' \in 0..MaxEmits /\ asked' \in BOOLEAN
        /\ modes' = modes /\ rooted' \in BOOLEAN
    BY <1>1, <1>2, Zenon DEF StreamTypes
  <2>2. Stream!Empty' = Stream!Empty
    BY DEF Stream!Empty
  <2> QED BY <1>3, <1>4, <1>5, <1>6, <2>1, <2>2, Zenon DEF StreamTypes
<1> QED BY <1>4, <1>5, <1>7 DEF StreamInv

(* messages-tuple: the part as it is, nothing accumulated. *)
LEMMA StreamTuples ==
  ASSUME StreamInv, MaxEmits \in Nat, NEW m \in MessageIds \cup {Stream!NoId},
         NEW ns \in Stream!Namespaces, NEW form, Stream!Message(m, ns, form), "messages-tuple" \in modes
  PROVE  StreamInv'
<1> DEFINE b == [id |-> m, text |-> <<emitted + 1>>]
           e == Stream!Event("messages", ns, b)
<1>1. StreamTypes /\ StreamTells
  BY DEF StreamInv
<1>2. emitted' = emitted + 1 /\ emitted + 1 \in Nat
  BY <1>1, StreamParts
<1>3. Stream!Yield(Stream!Wrapped(<<e>>)) /\ messages' = messages
  BY <1>2 DEF Stream!Message
<1>4. e \in StreamEvent /\ e.event = "messages"
  <2>1. <<emitted + 1>> \in Seq(Nat)
    BY <1>2
  <2>2. b \in MessageBody
    BY <2>1 DEF MessageBody
  <2>3. ns \in {Stream!Root, Stream!Sub} /\ "messages" \in EventNames
    BY DEF Stream!Namespaces, EventNames
  <2> HIDE DEF b
  <2> QED BY <2>2, <2>3 DEF Stream!Event, StreamEvent
<1> HIDE DEF e
<1>5. /\ <<e>> \in Seq(StreamEvent) /\ DOMAIN <<e>> = {1} /\ <<e>>[1] = e /\ Stream!States(<<e>>) = {}
  BY <1>4, OneEvent
<1>6. \A j : ~Text(e, j) /\ ~Meta(e, j)
  BY <1>4 DEF Text, Meta
<1>7. Yields(<<e>>)
  <2>1. \A i \in DOMAIN <<e>> : Stream!IsState(<<e>>[i]) => i = 1
    BY <1>5
  <2> QED BY <1>1, <1>3, <1>5, <2>1, YieldedWrapped
<1>8. messages = Stream!Empty /\ DOMAIN messages = {}
  BY <1>1 DEF StreamTypes, Stream!Empty
<1>9. StreamTells'
  <2> SUFFICES ASSUME NEW j, j # Stream!NoId
               PROVE  TellsOf(out', j, j \in DOMAIN messages', Kept(j)')
    BY Zenon DEF StreamTells
  <2>1. TellsOf(out, j, j \in DOMAIN messages, Kept(j))
    BY <1>1, Zenon DEF StreamTells
  <2>2. TellsOf(out', j, j \in DOMAIN messages, Kept(j))
    <3> DEFINE x == <<e>>
    <3>1. x \in Seq(StreamEvent) /\ Yields(x) /\ \A k \in DOMAIN x : ~Text(x[k], j) /\ ~Meta(x[k], j)
      BY <1>5, <1>6, <1>7
    <3> HIDE DEF x
    <3> QED BY <1>1, <2>1, <3>1, StreamQuietly
  <2>3. ~(j \in DOMAIN messages) /\ messages' = messages
    BY <1>3, <1>8
  <2> QED BY <2>2, <2>3, Zenon DEF TellsOf
<1>10. messages' = IF "messages-tuple" \in modes THEN Stream!Empty ELSE parts'
  BY <1>3, <1>8
<1> DEFINE x == <<e>>
<1>11. x \in Seq(StreamEvent) /\ Yields(x) /\ Stream!States(x) = {}
  BY <1>5, <1>7
<1> HIDE DEF x
<1> QED BY <1>9, <1>10, <1>11, StreamSays

(* The events of a part or a message: its metadata when it is new, and then all *)
(* of it that there is.                                                         *)
LEMMA StreamAccumulates ==
  ASSUME StreamInv, MaxEmits \in Nat, NEW m \in MessageIds \cup {Stream!NoId},
         NEW ns \in Stream!Namespaces, NEW form \in {"part", "complete"},
         Stream!Message(m, ns, form), "messages-tuple" \notin modes
  PROVE  StreamInv'
<1> DEFINE k == emitted + 1
           text == Stream!Tracked(m, k)
           name == IF form = "part" THEN "messages/partial" ELSE "messages/complete"
           t == Stream!Event(name, Stream!Root, [id |-> m, text |-> text])
           d == Stream!Event("messages/metadata", Stream!Root, [id |-> m, text |-> <<>>])
           x == IF Stream!Announced(m) THEN <<t>> ELSE <<d>> \o <<t>>
<1>1. StreamTypes /\ StreamTells
  BY DEF StreamInv
<1>2. /\ emitted' = k /\ k \in Nat /\ (\A j : Kept(j) \in Seq(Nat))
      /\ m = Stream!NoId => parts' = parts
      /\ m # Stream!NoId => /\ DOMAIN parts' = DOMAIN parts \cup {m} /\ Kept(m)' = Append(Kept(m), k)
                           /\ \A j : j # m => Kept(j)' = Kept(j)
  BY <1>1, StreamParts
<1>3. messages = parts
  BY <1>1 DEF StreamTypes
<1>4. /\ m = Stream!NoId => text = <<k>>
      /\ m # Stream!NoId => text = Append(Kept(m), k)
      /\ text \in Seq(Nat)
  <2>1. m = Stream!NoId => text = <<k>>
    BY DEF Stream!Tracked
  <2>2. m # Stream!NoId => text = Append(Kept(m), k)
    BY <1>3 DEF Stream!Tracked, Stream!Accumulated, Kept
  <2>3. <<k>> \in Seq(Nat) /\ Append(Kept(m), k) \in Seq(Nat)
    BY <1>2
  <2> HIDE DEF text, k
  <2> QED BY <2>1, <2>2, <2>3
<1>5. Stream!Yield(Stream!Wrapped(x))
  BY <1>2 DEF Stream!Message
<1>6. messages' = IF m = Stream!NoId THEN messages
                  ELSE [j \in DOMAIN messages \cup {m} |-> IF j = m THEN text ELSE messages[j]]
  BY <1>2 DEF Stream!Message
<1>7. /\ t \in StreamEvent /\ t.event \in {"messages/partial", "messages/complete"}
      /\ t.body.id = m /\ t.body.text = text
  <2> DEFINE b == [id |-> m, text |-> text]
  <2> HIDE DEF text
  <2>1. b \in MessageBody /\ b.id = m /\ b.text = text
    BY <1>4 DEF MessageBody
  <2>2. name \in EventNames /\ name \in {"messages/partial", "messages/complete"}
    BY DEF EventNames
  <2> HIDE DEF b, name
  <2>3. /\ Stream!Event(name, Stream!Root, b) \in StreamEvent
        /\ Stream!Event(name, Stream!Root, b).event = name /\ Stream!Event(name, Stream!Root, b).body = b
    BY <2>1, <2>2 DEF Stream!Event, StreamEvent
  <2> QED BY <2>1, <2>2, <2>3 DEF b
<1>8. /\ d \in StreamEvent /\ d.event = "messages/metadata" /\ d.body.id = m
  <2> DEFINE b == [id |-> m, text |-> <<>>]
  <2>1. b \in MessageBody /\ b.id = m
    BY DEF MessageBody
  <2>2. "messages/metadata" \in EventNames
    BY DEF EventNames
  <2> HIDE DEF b
  <2>3. /\ Stream!Event("messages/metadata", Stream!Root, b) \in StreamEvent
        /\ Stream!Event("messages/metadata", Stream!Root, b).event = "messages/metadata"
        /\ Stream!Event("messages/metadata", Stream!Root, b).body = b
    BY <2>1, <2>2 DEF Stream!Event, StreamEvent
  <2> QED BY <2>1, <2>3 DEF b
<1> HIDE DEF text, t, d, name, k
<1>9. messages' = parts'
  <2>1. CASE m = Stream!NoId
    BY <1>2, <1>3, <1>6, <2>1
  <2>2. CASE m # Stream!NoId
    <3>1. parts' = [j \in DOMAIN parts \cup {m} |-> IF j # m THEN parts[j] ELSE Append(Kept(m), k)]
      BY <1>2, <2>2 DEF Stream!Message, Kept
    <3>2. messages' = [j \in DOMAIN parts \cup {m} |-> IF j = m THEN Append(Kept(m), k) ELSE parts[j]]
      BY <1>3, <1>4, <1>6, <2>2
    <3> QED BY <3>1, <3>2
  <2> QED BY <2>1, <2>2
<1>10. Text(t, m) /\ Meta(d, m) /\ \A j : j # m => /\ ~Text(t, j) /\ ~Meta(t, j)
                                                 /\ ~Text(d, j) /\ ~Meta(d, j)
  BY <1>7, <1>8 DEF Text, Meta
<1>11. /\ x \in Seq(StreamEvent) /\ \A i \in DOMAIN x : x[i] \in {t, d}
  <2>1. <<t>> \in Seq(StreamEvent) /\ \A i \in DOMAIN <<t>> : <<t>>[i] = t
    BY <1>7
  <2>2. /\ <<d>> \o <<t>> = <<d, t>> /\ <<d, t>> \in Seq(StreamEvent)
        /\ \A i \in DOMAIN <<d, t>> : <<d, t>>[i] \in {t, d}
    BY <1>7, <1>8, TwoEvents
  <2> QED BY <2>1, <2>2
<1>12. \A i \in DOMAIN x : x[i].event # "values"
  <2> HIDE DEF x
  <2> QED BY <1>7, <1>8, <1>11
<1>13. Stream!States(x) = {} /\ Yields(x)
  <2> HIDE DEF x
  <2>1. Stream!States(x) = {} /\ \A i \in DOMAIN x : Stream!IsState(x[i]) => i = 1
    BY <1>12 DEF Stream!States, Stream!IsState
  <2> QED BY <1>1, <1>5, <1>11, <2>1, YieldedWrapped
<1>14. ASSUME NEW j, j # Stream!NoId, j # m
       PROVE  TellsOf(out', j, j \in DOMAIN messages', Kept(j)')
  <2>1. TellsOf(out, j, j \in DOMAIN messages, Kept(j))
    BY <1>1, <1>14, Zenon DEF StreamTells
  <2>2. \A i \in DOMAIN x : ~Text(x[i], j) /\ ~Meta(x[i], j)
    <3> HIDE DEF x
    <3>1. \A i \in DOMAIN x : x[i] = t \/ x[i] = d
      BY <1>11
    <3> QED BY <1>10, <1>14, <3>1, Zenon
  <2>3. TellsOf(out', j, j \in DOMAIN messages, Kept(j))
    <3> HIDE DEF x
    <3> QED BY <1>1, <1>11, <1>13, <2>1, <2>2, StreamQuietly
  <2>4. Kept(j)' = Kept(j)
    BY <1>2, <1>14 DEF Kept
  <2>5. (j \in DOMAIN messages') <=> (j \in DOMAIN messages)
    BY <1>2, <1>3, <1>9, <1>14
  <2>6. (j \in DOMAIN messages') = (j \in DOMAIN messages)
    BY <2>5
  <2> QED BY <2>3, <2>4, <2>6
<1>15. ASSUME m # Stream!NoId
       PROVE  TellsOf(out', m, m \in DOMAIN messages', Kept(m)')
  <2> DEFINE o == IF Stream!Announced(m) THEN out ELSE Append(out, d)
  <2>0. out \in Seq(StreamEvent)
    BY <1>1 DEF StreamTypes
  <2>1. TellsOf(out, m, m \in DOMAIN messages, Kept(m))
    BY <1>1, <1>15, Zenon DEF StreamTells
  <2>2. o \in Seq(StreamEvent) /\ TellsOf(o, m, TRUE, Kept(m))
    <3>1. CASE Stream!Announced(m)
      <4>1. (m \in DOMAIN messages) = TRUE
        BY <3>1 DEF Stream!Announced
      <4> QED BY <2>0, <2>1, <3>1, <4>1
    <3>2. CASE ~Stream!Announced(m)
      <4>1. (m \in DOMAIN messages) = FALSE
        BY <3>2 DEF Stream!Announced
      <4>2. TellsOf(out, m, FALSE, Kept(m))
        BY <2>1, <4>1
      <4>3. TellsOf(Append(out, d), m, TRUE, Kept(m)) /\ Append(out, d) \in Seq(StreamEvent)
        <5>1. TellsOf(Append(out, d), m, TRUE, Kept(m))
          BY <1>10, <2>0, <4>2, TellsFirst, Zenon
        <5>2. Append(out, d) \in Seq(StreamEvent)
          BY <1>8, <2>0
        <5> QED BY <5>1, <5>2
      <4> QED BY <3>2, <4>3
    <3> QED BY <3>1, <3>2
  <2>3. out \o x = Append(o, t)
    <3>1. CASE Stream!Announced(m)
      <4>1. out \o <<t>> = Append(out, t)
        BY <1>7, <2>0
      <4> QED BY <3>1, <4>1
    <3>2. CASE ~Stream!Announced(m)
      <4>1. /\ out \o (<<d>> \o <<t>>) = (out \o <<d>>) \o <<t>>
            /\ out \o <<d>> = Append(out, d)
        <5>1. <<d>> \in Seq(StreamEvent) /\ <<t>> \in Seq(StreamEvent)
          BY <1>7, <1>8
        <5>2. out \o (<<d>> \o <<t>>) = (out \o <<d>>) \o <<t>>
          BY <2>0, <5>1, ConcatAssociative
        <5>3. out \o <<d>> = Append(out, d)
          BY <1>8, <2>0
        <5> QED BY <5>2, <5>3
      <4>2. Append(out, d) \in Seq(StreamEvent)
        BY <1>8, <2>0
      <4>3. Append(out, d) \o <<t>> = Append(Append(out, d), t)
        <5> DEFINE q == Append(out, d)
        <5> HIDE DEF q
        <5>1. q \in Seq(StreamEvent)
          BY <4>2 DEF q
        <5>2. q \o <<t>> = Append(q, t)
          BY <1>7, <5>1
        <5> QED BY <5>2 DEF q
      <4> QED BY <3>2, <4>1, <4>3
    <3> QED BY <3>1, <3>2
  <2> HIDE DEF o, x
  <2>4. TellsOf(Append(o, t), m, TRUE, Append(Kept(m), k))
    BY <1>2, <1>4, <1>7, <1>10, <1>15, <2>2, TellsNext
  <2>5. Append(o, t) \in Seq(StreamEvent)
    BY <1>7, <2>2
  <2>6. TellsOf(Append(o, t) \o <<Wrapper>>, m, TRUE, Append(Kept(m), k))
    BY <1>1, <2>4, <2>5, TellsMore, WrapperQuiet
  <2>7. out' \in {Append(o, t), Append(o, t) \o <<Wrapper>>}
    BY <1>13, <2>3 DEF Yields
  <2>8. TellsOf(out', m, TRUE, Append(Kept(m), k))
    BY <2>4, <2>6, <2>7
  <2>9. (m \in DOMAIN messages') = TRUE /\ Kept(m)' = Append(Kept(m), k)
    BY <1>2, <1>9, <1>15
  <2> QED BY <2>8, <2>9
<1>16. StreamTells'
  BY <1>14, <1>15, Zenon DEF StreamTells
<1>17. messages' = IF "messages-tuple" \in modes THEN Stream!Empty ELSE parts'
  BY <1>9
<1> HIDE DEF x
<1> QED BY <1>11, <1>13, <1>16, <1>17, StreamSays

LEMMA StreamStep == ASSUME StreamInv, MaxEmits \in Nat, [Stream!Next]_(Stream!vars) PROVE StreamInv'
<1>1. CASE UNCHANGED Stream!vars
  BY <1>1 DEF StreamInv, StreamTypes, StreamTells, Kept, Stream!vars, Stream!InterruptTold,
              Stream!OutputIsState, Stream!Empty, Stream!Followed
<1>2. ASSUME NEW m \in MessageIds \cup {Stream!NoId}, NEW ns \in Stream!Namespaces,
             NEW form \in {"part", "complete"}, Stream!Message(m, ns, form)
      PROVE  StreamInv'
  <2>1. CASE "messages-tuple" \in modes
    BY <1>2, <2>1, StreamTuples
  <2>2. CASE "messages-tuple" \notin modes
    BY <1>2, <2>2, StreamAccumulates
  <2> QED BY <2>1, <2>2
<1>3. ASSUME NEW ns \in Stream!Namespaces, NEW empty \in BOOLEAN, Stream!Interrupt(ns, empty)
      PROVE  StreamInv'
  <2>1. CASE "updates" \in modes \/ ~empty
    BY <1>3, <2>1, StreamPauses
  <2>2. CASE "updates" \notin modes /\ empty
    BY <1>3, <2>2, StreamBreaks
  <2> QED BY <2>1, <2>2
<1> QED
  BY <1>1, <1>2, <1>3, StreamStarts, StreamEmits, StreamRaws, StreamStrays DEF Stream!Next

(* What the events say of messages is what MessagesWhole asks of them. *)
LEMMA StreamWhole == ASSUME StreamInv PROVE Stream!MessagesWhole
<1>1. out \in Seq(StreamEvent) /\ DOMAIN out = 1..Len(out) /\ Len(out) \in Nat
  BY DEF StreamInv, StreamTypes
<1> SUFFICES ASSUME NEW i \in DOMAIN out,
                    out[i].event \in {"messages/partial", "messages/complete"},
                    out[i].body.id # Stream!NoId
             PROVE  LET m == out[i].body.id
                        Says(name, j) == out[j].event = name /\ out[j].body.id = m
                        before == {j \in 1 .. i : Says("messages/partial", j) \/ Says("messages/complete", j)} IN
                    /\ out[i].body.text = SubSeq(parts[m], 1, Len(out[i].body.text))
                    /\ \A j \in before \ {i} : Len(out[j].body.text) < Len(out[i].body.text)
                    /\ \E j \in 1 .. i : /\ Says("messages/metadata", j)
                                         /\ \A k \in DOMAIN out \ {j} : ~Says("messages/metadata", k)
  BY DEF Stream!MessagesWhole
<1> DEFINE m == out[i].body.id
           s == out[i].body.text
<1>2. TellsOf(out, m, m \in DOMAIN messages, Kept(m))
  BY Zenon DEF StreamInv, StreamTells
<1>3. Text(out[i], m)
  BY DEF Text
<1> HIDE DEF m
<1>4. /\ m \in DOMAIN messages /\ Begins(s, Kept(m))
      /\ \E j \in 1..i : Meta(out[j], m)
      /\ \A j \in DOMAIN out : j < i /\ Text(out[j], m) => Len(out[j].body.text) < Len(s)
      /\ \A j, k \in DOMAIN out : Meta(out[j], m) /\ Meta(out[k], m) => k = j
  BY <1>2, <1>3, Zenon DEF TellsOf
<1>5. m \in DOMAIN parts /\ Kept(m) = parts[m] /\ parts[m] \in Seq(Nat)
  BY <1>4 DEF StreamInv, StreamTypes, Stream!Empty, Kept
<1>6. s = SubSeq(parts[m], 1, Len(s))
  <2> DEFINE a == parts[m]
             u == SubSeq(a, 1, Len(s))
  <2>1. s \in Seq(Nat) /\ a \in Seq(Nat) /\ Len(s) <= Len(a) /\ \A k \in 1..Len(s) : s[k] = a[k]
    BY <1>4, <1>5 DEF Begins
  <2> HIDE DEF a, s
  <2>2. u \in Seq(Nat) /\ Len(u) = Len(s) /\ \A k \in 1..Len(s) : u[k] = a[k]
    BY <2>1
  <2> HIDE DEF u
  <2>3. s = u
    BY <2>1, <2>2, SeqEqual
  <2> QED BY <2>3 DEF u, a
<1>7. \A j \in 1..i : j # i => j < i /\ j \in DOMAIN out
  BY <1>1
<1>8. PICK j \in 1..i : Meta(out[j], m)
  BY <1>4
<1>9. j \in DOMAIN out /\ \A k \in DOMAIN out \ {j} : ~Meta(out[k], m)
  BY <1>1, <1>4, <1>8
<1>10. \A k \in 1..i : k # i /\ Text(out[k], m) => Len(out[k].body.text) < Len(s)
  BY <1>4, <1>7, Zenon
<1> QED BY <1>6, <1>8, <1>9, <1>10 DEF Text, Meta, m

(* GraphStreaming, for any modes, messages and number of emissions: a non-empty  *)
(* interrupt of a followed graph is told to the client and noted in the run, an  *)
(* event of a message holds all that was emitted of it and follows its only      *)
(* metadata, and the output of a followed graph is the state it reached.         *)
THEOREM StreamsTellAll ==
  ASSUME MaxEmits \in Nat
  PROVE  Stream!Spec => [](Stream!TypeOK /\ Stream!InterruptTold /\ Stream!MessagesWhole
                            /\ Stream!OutputIsState)
<1>1. Stream!Init => StreamInv
  <2> SUFFICES ASSUME Stream!Init PROVE StreamInv
    OBVIOUS
  <2>1. StreamTypes
    <3>1. /\ out = <<>> /\ <<>> \in Seq(StreamEvent) /\ parts = Stream!Empty /\ messages = Stream!Empty
          /\ DOMAIN Stream!Empty = {} /\ Stream!Empty \in [{} -> Seq(Nat)]
      BY DEF Stream!Init, Stream!Empty
    <3>2. emitted \in 0..MaxEmits /\ state \in 0..MaxEmits /\ output \in 0..MaxEmits
      BY DEF Stream!Init
    <3>3. at = "start" /\ whole = {} /\ asked = FALSE /\ interrupt = FALSE /\ rooted \in BOOLEAN
      BY Zenon DEF Stream!Init
    <3> QED BY <3>1, <3>2, <3>3 DEF StreamTypes
  <2>2. DOMAIN out = {} /\ DOMAIN messages = {}
    BY DEF Stream!Init, Stream!Empty
  <2>3. StreamTells
    BY <2>2, Zenon DEF StreamTells, TellsOf
  <2>4. Stream!InterruptTold
    BY Zenon DEF Stream!Init, Stream!InterruptTold
  <2>5. Stream!OutputIsState
    BY DEF Stream!Init, Stream!OutputIsState
  <2> QED BY <2>1, <2>3, <2>4, <2>5 DEF StreamInv
<1>2. StreamInv => Stream!TypeOK
  <2> SUFFICES ASSUME StreamInv PROVE Stream!TypeOK
    OBVIOUS
  <2>1. DOMAIN messages \subseteq MessageIds
    BY DEF StreamInv, StreamTypes, Stream!Empty
  <2>2. {rooted, asked, interrupt} \subseteq BOOLEAN
    BY Zenon DEF StreamInv, StreamTypes
  <2> QED BY <2>1, <2>2 DEF StreamInv, StreamTypes, Stream!TypeOK
<1>3. StreamInv => Stream!InterruptTold /\ Stream!MessagesWhole /\ Stream!OutputIsState
  BY StreamWhole DEF StreamInv
<1>4. StreamInv /\ [Stream!Next]_(Stream!vars) => StreamInv'
  BY StreamStep
<1> QED
  BY <1>1, <1>2, <1>3, <1>4, PTL DEF Stream!Spec
=============================================================================
