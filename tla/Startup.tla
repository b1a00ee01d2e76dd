------------------------------ MODULE Startup ------------------------------
(* The lifespan of the server (app/main.py) wrapped around that of the domain  *)
(* app (http_app.py): instances that boot over one database, migrate it, seed  *)
(* it, start their services in order and stop them in the reverse one. A step  *)
(* that raises ends the boot: nothing that was started is stopped.             *)
EXTENDS Naturals, Sequences

CONSTANTS
  Instances,     \* servers that share the database
  Options,       \* possible sets of optional stages: REDIS_BROKER_ENABLED ("redis",
                 \* "reaper"), CRON_ENABLED ("cron"), a TTL policy ("ttl"),
                 \* RUN_MIGRATIONS_ON_STARTUP ("framework", "hub")
  Revisions,     \* possible revisions of each chain when the first server boots
  MaxBoots, MaxFaults    \* bounds of the instance

Chains == {"framework", "hub"}

VARIABLES
  options,     \* the optional stages of this deployment
  revision,    \* revision[c]: what the version table of chain c holds
  seeded,      \* the default assistants are committed
  proc,        \* proc[i]: stage of i, what it started, what it read, why it failed
  boots, faults

vars == <<options, revision, seeded, proc, boots, faults>>

(* lifespan: the stages of a boot, and the order in which services stop; the  *)
(* domain app's lifespan is nested inside the server's.                       *)
BootOrder == <<"framework", "engine", "components", "graphs", "redis", "broker",
               "executor", "reaper", "cron", "ttl", "hub", "model", "serving">>
StopSwapped == <<"model", "ttl", "reaper", "executor", "cron", "broker", "redis",
                 "engine", "components", "down">>
StopOrder == <<"model", "ttl", "cron", "reaper", "executor", "broker", "redis",
               "engine", "components", "down">>

Optional == {"framework", "hub", "redis", "reaper", "cron", "ttl"}
On(s) == s \notin Optional \/ s \in options
After(order, s) ==
  LET at == CHOOSE n \in DOMAIN order : order[n] = s
      next == CHOOSE n \in at + 1 .. Len(order) :
                 On(order[n]) /\ \A m \in at + 1 .. n - 1 : ~On(order[m])
  IN  order[next]

(* A process: booting or stopping at a stage, with what it has started, what   *)
(* its transaction has read, and why its boot failed.                          *)
Process(phase, stage, up) ==
  [phase |-> phase, at |-> stage, up |-> up, read |-> "", why |-> ""]
First == IF On("framework") THEN "framework" ELSE "engine"

Init ==
  /\ options \in Options
  /\ revision \in [Chains -> Revisions]
  /\ seeded \in {FALSE, revision["framework"] = "head"}
  /\ proc = [i \in Instances |-> Process("off", "", {})]
  /\ boots = 0 /\ faults = 0

Goes(i, phase, stage, up) == proc' = [proc EXCEPT ![i] = Process(phase, stage, up)]
At(i, stage) == proc[i].phase = "boot" /\ proc[i].at = stage
Continues(i, up) == Goes(i, "boot", After(BootOrder, proc[i].at), up)
Fails(i, why) == proc' = [proc EXCEPT ![i].phase = "failed", ![i].why = why]

Boot(i) ==
  /\ proc[i].phase = "off" /\ boots < MaxBoots
  /\ boots' = boots + 1
  /\ Goes(i, "boot", First, {})
  /\ UNCHANGED <<options, revision, seeded, faults>>

(* run_migrations_if_needed: the version table is read without a lock; a read *)
(* that raises falls through to the upgrade.                                  *)
UpToDateOrUnknown(c, raised) == revision[c] = "head" \/ raised
UpToDate(c, raised) == revision[c] = "head" /\ ~raised

Precheck(i, c, raised) ==
  /\ At(i, c) /\ proc[i].read = ""
  /\ raised => faults < MaxFaults
  /\ faults' = faults + IF raised THEN 1 ELSE 0
  /\ IF UpToDate(c, raised) THEN Continues(i, proc[i].up)
     ELSE proc' = [proc EXCEPT ![i].read = "upgrade"]
  /\ UNCHANGED <<options, revision, seeded, boots>>

(* command.upgrade: one transaction, which reads the revision and applies the *)
(* scripts from there. Creating what a concurrent upgrade has committed since *)
(* raises.                                                                    *)
UpgradeReads(i, c) ==
  /\ At(i, c) /\ proc[i].read = "upgrade"
  /\ IF revision[c] = "head" THEN Continues(i, proc[i].up)
     ELSE proc' = [proc EXCEPT ![i].read = revision[c]]
  /\ UNCHANGED <<options, revision, seeded, boots, faults>>

Upgrade(i, c) ==
  /\ At(i, c) /\ proc[i].read \in Revisions \ {"head"}
  /\ IF revision[c] = proc[i].read
     THEN /\ Continues(i, proc[i].up)
          /\ revision' = [revision EXCEPT ![c] = "head"]
     ELSE Fails(i, "race") /\ UNCHANGED revision
  /\ UNCHANGED <<options, seeded, boots, faults>>

(* LangGraphService.initialize: the graphs are loaded, then a default          *)
(* assistant is selected for each and inserted where there is none; two        *)
(* servers that find none insert the same primary key.                         *)
SeedReads(i) ==
  /\ At(i, "graphs") /\ proc[i].read = ""
  /\ IF seeded THEN Continues(i, proc[i].up \cup {"graphs"})
     ELSE proc' = [proc EXCEPT ![i].read = "seed"]
  /\ UNCHANGED <<options, revision, seeded, boots, faults>>

SeedCommits(i) ==
  /\ At(i, "graphs") /\ proc[i].read = "seed"
  /\ IF seeded THEN Fails(i, "race")
     ELSE Continues(i, proc[i].up \cup {"graphs"})
  /\ seeded' = TRUE
  /\ UNCHANGED <<options, revision, boots, faults>>

(* db_manager.initialize in its two parts, redis_manager.initialize, and the   *)
(* start of each service.                                                      *)
Services == {"engine", "components", "redis", "broker", "executor", "reaper",
             "cron", "ttl", "model"}
Start(i) ==
  /\ proc[i].phase = "boot" /\ proc[i].at \in Services
  /\ Continues(i, proc[i].up \cup {proc[i].at})
  /\ UNCHANGED <<options, revision, seeded, boots, faults>>

(* A stage raises: the database or Redis is away, a graph does not load, the   *)
(* TTL policy is invalid, the model artifact is missing. The generators are    *)
(* abandoned at that point.                                                    *)
Raise(i) ==
  /\ proc[i].phase = "boot" /\ proc[i].at # "serving" /\ faults < MaxFaults
  /\ faults' = faults + 1
  /\ Fails(i, "fault")
  /\ UNCHANGED <<options, revision, seeded, boots>>

(* The process of a failed boot ends, with whatever runs in it. *)
Exit(i) ==
  /\ proc[i].phase = "failed" \/ (proc[i].phase = "stop" /\ proc[i].at = "down")
  /\ Goes(i, "off", "", {})
  /\ UNCHANGED <<options, revision, seeded, boots, faults>>

(* The lifespans are left after serving; then each service is stopped. *)
Stop(i) ==
  /\ At(i, "serving")
  /\ Goes(i, "stop", "model", proc[i].up)
  /\ UNCHANGED <<options, revision, seeded, boots, faults>>

StopService(i) ==
  /\ proc[i].phase = "stop" /\ proc[i].at # "down"
  /\ Goes(i, "stop", After(StopOrder, proc[i].at), proc[i].up \ {proc[i].at})
  /\ UNCHANGED <<options, revision, seeded, boots, faults>>

Next == \E i \in Instances :
  \/ Boot(i) \/ Start(i) \/ SeedReads(i) \/ SeedCommits(i) \/ Raise(i) \/ Exit(i) \/ Stop(i)
  \/ \E c \in Chains : UpgradeReads(i, c) \/ Upgrade(i, c)
                       \/ \E raised \in BOOLEAN : Precheck(i, c, raised)
  \/ StopService(i)

Spec == Init /\ [][Next]_vars

-----------------------------------------------------------------------------
(* Types. *)
TypeOK ==
  /\ options \subseteq Optional
  /\ revision \in [Chains -> Revisions \cup {"head"}]
  /\ seeded \in BOOLEAN
  /\ \A i \in Instances :
       /\ proc[i].up \subseteq Services \cup {"graphs"}
       /\ proc[i].why \in {"", "race", "fault"}
       /\ proc[i].why # "" <=> proc[i].phase = "failed"

(* What a service uses while it runs. *)
Uses == [broker |-> {"redis"},
         executor |-> {"engine", "components", "graphs", "broker", "redis"},
         reaper |-> {"engine", "redis"}, cron |-> {"engine", "executor", "graphs"},
         ttl |-> {"engine", "components"},
         model |-> {"engine", "components", "graphs", "broker", "executor"}]

(* No service ever runs without what it uses: not between two stages of a      *)
(* boot, not after a stage raised, not between two stages of a shutdown, in    *)
(* which the executor still drains its jobs.                                   *)
DependenciesUp == \A i \in Instances : \A s \in DOMAIN Uses \cap proc[i].up :
  \A d \in Uses[s] : On(d) => d \in proc[i].up

(* A service runs only over a schema at its head and seeded, and requests are  *)
(* served only once the hub's chain is too, whatever another server that boots *)
(* or fails at the same time does, when this deployment migrates at startup.   *)
SchemaBeforeUse == \A i \in Instances :
  /\ "framework" \in options /\ proc[i].up \cap {"executor", "reaper", "cron", "ttl"} # {}
       => revision["framework"] = "head" /\ seeded
  /\ "hub" \in options /\ At(i, "serving") => revision["hub"] = "head"
=============================================================================
