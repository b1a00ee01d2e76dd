------------------------------ MODULE HubSkills -----------------------------
(* One user's skill of one name in the hub tables (hub/services.py,            *)
(* hub/repositories.py, hub/db.py, hub/models.py). A request is one            *)
(* READ COMMITTED transaction: what it writes is seen by others at its commit, *)
(* a statement that meets a row another transaction holds waits for it, and    *)
(* every statement is a step.                                                  *)
EXTENDS Naturals, FiniteSets

CONSTANTS
  Requests,
  Payloads,      \* the sets of paths of the payloads; the file SKILL.md is "SKILL.md"
  Descriptions   \* of the frontmatter: description, license or metadata

VARIABLES
  skill,   \* the skill row, or None: the request that inserted it (its id), its
           \* description and, as history, the install that was saved last
  files,   \* its files: [path, from]
  req      \* req[r]: the transaction of request r

vars == <<skill, files, req>>

NoInstall == [from |-> "none", paths |-> {}, desc |-> "none", late |-> FALSE]
None == [row |-> "none", desc |-> "none", by |-> NoInstall]
Idle == [at |-> "idle", paths |-> {}, desc |-> "none", read |-> None, sees |-> {}, drops |-> {}]

Init == skill = None /\ files = {} /\ req = [r \in Requests |-> Idle]

Goto(r, place) == req' = [req EXCEPT ![r].at = place]
Done(r) == req' = [req EXCEPT ![r] = [Idle EXCEPT !.at = "done"]]

---------------------------------------------------------------------------
(* Skills: install (POST, import) and replace (PUT) *)

(* validate_skill_files: SKILL.md is required at the root. *)
Valid(paths) == "SKILL.md" \in paths

(* install ends with a SELECT of the row, whose object it holds on to. *)
Install(r, paths, desc) ==
  /\ req[r].at = "idle" /\ Valid(paths)
  /\ req' = [req EXCEPT ![r] = [Idle EXCEPT !.at = "save", !.paths = paths, !.desc = desc,
                                            !.read = skill]]
  /\ UNCHANGED <<skill, files>>

(* replace answers 404 without a row and goes on as an install. *)
Replace(r, paths, desc) == skill # None /\ Install(r, paths, desc)

(* save, first statement: the row decides between INSERT and DELETE of files.  *)
(* A second SELECT of the row returns the session's object as it was loaded.   *)
ReadRow(r) ==
  /\ req[r].at = "save"
  /\ req' = [req EXCEPT ![r].at = IF skill = None THEN "insert" ELSE "snapshot",
                        ![r].read = IF req[r].read.row = skill.row THEN req[r].read ELSE skill]
  /\ UNCHANGED <<skill, files>>

(* The unique index on (user_id, name): the INSERT waits for an uncommitted one *)
(* and fails on a committed one.                                               *)
Inserting(q) == req[q].at = "flush" /\ req[q].read = None

InsertSkill(r) ==
  /\ req[r].at = "insert" /\ ~\E q \in Requests : Inserting(q)
  /\ IF skill = None THEN Goto(r, "flush") ELSE Done(r)
  /\ UNCHANGED <<skill, files>>

(* DELETE of the old files: the rows its snapshot sees, once no other          *)
(* transaction holds them, and of these the ones that are still there.         *)
SnapshotFiles(r) ==
  /\ req[r].at = "snapshot"
  /\ req' = [req EXCEPT ![r].at = "delete", ![r].sees = IF req[r].read.row = skill.row THEN files ELSE {}]
  /\ UNCHANGED <<skill, files>>

Held == UNION {req[q].drops : q \in Requests}

DeleteFiles(r) ==
  /\ req[r].at = "delete" /\ req[r].sees \cap Held = {}
  /\ req' = [req EXCEPT ![r].at = "flush", ![r].drops = req[r].sees \cap files]
  /\ UNCHANGED <<skill, files>>

(* The flush and the commit: UPDATE of the skill, of updated_at and the        *)
(* columns that differ from the row as it was loaded, which waits for a DELETE *)
(* of it and fails when it is gone, INSERT of the files, which fails on the    *)
(* unique (skill_id, path), COMMIT.                                            *)
RowLocked == \E q \in Requests : req[q].at = "cascade"
ClashUnchecked(left, paths) == FALSE
Clash(left, paths) == \E f \in left : f.path \in paths
Written(read, new) == IF new = read THEN skill.desc ELSE new

Save(r) ==
  /\ req[r].at = "flush" /\ (req[r].read # None => ~RowLocked)
  /\ LET left == files \ req[r].drops IN
     IF \/ req[r].read # None /\ req[r].read.row # skill.row
        \/ Clash(left, req[r].paths)
     THEN UNCHANGED <<skill, files>>
     ELSE /\ skill' = [row |-> IF req[r].read = None THEN r ELSE skill.row,
                       desc |-> Written(req[r].read.desc, req[r].desc),
                       by |-> [from |-> r, paths |-> req[r].paths, desc |-> req[r].desc,
                               late |-> req[r].read # skill]]
          /\ files' = left \cup {[path |-> p, from |-> r] : p \in req[r].paths}
  /\ Done(r)

(* uninstall: 404 without a row; DELETE of the row, then the cascade to the    *)
(* files, which waits for the transaction that holds them.                     *)
Uninstall(r) ==
  /\ req[r].at = "idle" /\ skill # None
  /\ req' = [req EXCEPT ![r] = [Idle EXCEPT !.at = "drop", !.read = skill]]
  /\ UNCHANGED <<skill, files>>

DropSkill(r) ==
  /\ req[r].at = "drop" /\ ~RowLocked
  /\ IF req[r].read.row # skill.row THEN Done(r) ELSE Goto(r, "cascade")
  /\ UNCHANGED <<skill, files>>

Cascade(r) ==
  /\ req[r].at = "cascade" /\ files \cap Held = {}
  /\ skill' = None /\ files' = {}
  /\ Done(r)

(* An uninstall that waits for the files of a save that waits for the row:     *)
(* PostgreSQL aborts one of the two.                                           *)
Deadlocked(r) ==
  \E q \in Requests :
    \/ req[r].at = "cascade" /\ req[q].at = "flush" /\ files \cap req[q].drops # {}
    \/ req[q].at = "cascade" /\ req[r].at = "flush" /\ files \cap req[r].drops # {}

AbortVictim(r) ==
  /\ Deadlocked(r) /\ Done(r)
  /\ UNCHANGED <<skill, files>>

Next ==
  \E r \in Requests :
    \/ \E paths \in Payloads, desc \in Descriptions :
         Install(r, paths, desc) \/ Replace(r, paths, desc)
    \/ ReadRow(r) \/ InsertSkill(r) \/ SnapshotFiles(r) \/ DeleteFiles(r) \/ Save(r)
    \/ Uninstall(r) \/ DropSkill(r) \/ Cascade(r) \/ AbortVictim(r)

Spec == Init /\ [][Next]_vars

---------------------------------------------------------------------------
(* Types. *)
TypeOK ==
  /\ skill # None => skill.row \in Requests /\ skill.desc \in Descriptions
  /\ files \subseteq [path : UNION Payloads, from : Requests]
  /\ \A r \in Requests :
       /\ req[r].at \in {"idle", "save", "insert", "snapshot", "delete", "flush",
                         "drop", "cascade", "done"}
       /\ req[r].sees \cup req[r].drops \subseteq [path : UNION Payloads, from : Requests]

(* "Insert or fully replace the (owner, name) skill" (hub/repositories.py:43): *)
(* the files of a stored skill are exactly those of one install, the last that *)
(* was saved, whatever installs, replaces and uninstalls of the name overlap,  *)
(* and without a row there is no file. It rests on each payload having a       *)
(* SKILL.md, whose unique key makes the save fail whose DELETE did not see the *)
(* other's files. The description is that install's too unless another one was *)
(* saved after it had read the row: the UPDATE leaves out what did not change. *)
SkillIsOneInstall ==
  /\ files = {[path |-> p, from |-> skill.by.from] : p \in skill.by.paths}
  /\ skill # None => "SKILL.md" \in skill.by.paths
  /\ ~skill.by.late => skill.desc = skill.by.desc
=============================================================================
