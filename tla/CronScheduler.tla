---------------------------- MODULE CronScheduler ----------------------------
(* The cron table, the HTTP handlers that write it (routers/crons.py,          *)
(* usecase/cron/service.py) and the scheduler of every server instance, which  *)
(* claims due crons, fires a run for each and moves next_run_date on           *)
(* (usecase/cron/scheduler.py).                                                *)
(*                                                                             *)
(* A schedule is a period and a time zone (an offset); what croniter computes  *)
(* from an expression is the next instant that fits both.  Requests that are   *)
(* refused change nothing and are left out, and so are the run that a firing   *)
(* creates and the deletion of its ephemeral thread (StatelessRuns).           *)
EXTENDS Naturals, FiniteSets

CONSTANTS
  Crons,          \* cron identifiers; one is never used for two crons
  Pollers,        \* server instances, each with one CronScheduler
  Clients,        \* requests of one user that may be under way together
  Periods, Zones, Ends,  \* the schedules and the end_times a request may name
  ClaimDuration,  \* CRON_CLAIM_DURATION_SECONDS
  MaxPerUser,     \* CRON_MAX_PER_USER, greater than 0 here
  BatchSize,      \* CRON_TICK_BATCH_SIZE
  MaxFire,        \* longest time one _fire_cron takes
  MaxTime, MaxUpdates, MaxFaults     \* bounds of the instance

None == 0         \* SQL NULL, and an optional field that is not given
NoJob == [id |-> "none"]

VARIABLES
  now,        \* the clock
  row,        \* the crons table
  held,       \* held[p]: rows p has claimed, as RETURNING gave them, and not fired yet
  job,        \* job[p]: the row p is firing, where it is and since when
  client,     \* client[k]: a create request between two of its awaits
  spent,      \* how often each bounded event has happened
  \* History, read by the properties only:
  fired,      \* fired[c]: occurrences of c that a run was created for
  twice,      \* crons an occurrence of which was fired a second time
  lapsed,     \* crons claimed over an expired claim, or whose claim was released
              \* although the run was committed
  raced,      \* crons updated while they were being created or fired
  late        \* late[c]: runs created after end_time since it was set or c enabled

vars == <<now, row, held, job, client, spent, fired, twice, lapsed, raced, late>>
history == <<fired, twice, lapsed, raced, late>>

(* _compute_next_run: the first instant after t at which the schedule fires    *)
(* on the clock of its zone.                                                   *)
Occurs(period, zone, t) == (t + zone) % period = 0
NextRun(period, zone, t) ==
  CHOOSE u \in t + 1 .. t + period : Occurs(period, zone, u)

Live(c) == row[c].state = "live"
Owned == {c \in Crons : Live(c)}
Holds(p, c) == (\E s \in held[p] : s.id = c) \/ job[p].id = c

Init ==
  /\ now = 1
  /\ row = [c \in Crons |-> [state |-> "new"]]
  /\ held = [p \in Pollers |-> {}]
  /\ job = [p \in Pollers |-> NoJob]
  /\ client = [k \in Clients |-> [at |-> "idle"]]
  /\ spent = [updates |-> 0, faults |-> 0]
  /\ fired = [c \in Crons |-> {}]
  /\ twice = {} /\ lapsed = {} /\ raced = {}
  /\ late = [c \in Crons |-> 0]

---------------------------------------------------------------------------
(* The API *)

(* create_cron up to the per-user cap, which a COUNT of its own decides.       *)
CapUnchecked(n) == n <= MaxPerUser
BelowCap(n) == n < MaxPerUser
CountCrons(k) ==
  /\ client[k].at = "idle"
  /\ BelowCap(Cardinality(Owned))
  /\ client' = [client EXCEPT ![k] = [at |-> "counted"]]
  /\ UNCHANGED <<now, row, held, job, spent, history>>

(* The rest of create_cron: an enabled cron gets its first run at once and is  *)
(* next due at the second occurrence.  With enabled=False the request ends.    *)
InsertCron(k) ==
  /\ client[k].at = "counted"
  /\ \E c \in Crons, period \in Periods, zone \in Zones, enabled \in BOOLEAN,
        end \in {None} \cup {e \in Ends : e > now} :
       LET first == NextRun(period, zone, now) IN
       /\ row[c].state = "new"
       /\ row' = [row EXCEPT ![c] =
            [state |-> "live", period |-> period, zone |-> zone,
             enabled |-> enabled, end |-> end, claimed |-> None,
             next |-> IF enabled THEN NextRun(period, zone, first) ELSE first]]
       /\ client' = [client EXCEPT ![k] =
            IF enabled THEN [at |-> "first", cron |-> c, slot |-> first]
            ELSE [at |-> "idle"]]
  /\ UNCHANGED <<now, held, job, spent, history>>

(* _trigger_first_run: _prepare_run commits the first run. *)
FirstRun(k) ==
  /\ client[k].at = "first"
  /\ fired' = [fired EXCEPT ![client[k].cron] = @ \cup {client[k].slot}]
  /\ client' = [client EXCEPT ![k] = [at |-> "idle"]]
  /\ UNCHANGED <<now, row, held, job, spent, twice, lapsed, raced, late>>

(* _create_cron_atomic: _prepare_run raises, before its commit or after it     *)
(* (executor.submit); the cron is deleted again, unless that fails too and the *)
(* error is only logged.                                                       *)
FirstRunFails(k) ==
  /\ client[k].at = "first"
  /\ spent.faults < MaxFaults
  /\ spent' = [spent EXCEPT !.faults = @ + 1]
  /\ \/ row' = [row EXCEPT ![client[k].cron].state = "gone"]
     \/ UNCHANGED row
  /\ \/ fired' = [fired EXCEPT ![client[k].cron] = @ \cup {client[k].slot}]
     \/ UNCHANGED fired
  /\ client' = [client EXCEPT ![k] = [at |-> "idle"]]
  /\ UNCHANGED <<now, held, job, twice, lapsed, raced, late>>

(* update_cron: one transaction under the row's lock.  Fields that are not     *)
(* given keep their value; next_run_date is computed again for a new schedule  *)
(* or zone and for a cron enabled again after its date has passed.             *)
Given(new, old) == IF new = None THEN old ELSE new
RecomputedForSchedule(r, period, zone, enable) == period # None
Recomputed(r, period, zone, enable) ==
  \/ period # None
  \/ zone # None
  \/ enable = "yes" /\ r.next <= now

UpdatedRow(r, period, zone, enable, end) ==
  [r EXCEPT !.period = Given(period, @),
            !.zone = IF zone = None THEN @ ELSE zone - 1,
            !.end = Given(end, @),
            !.enabled = IF enable = "keep" THEN @ ELSE enable = "yes",
            !.next = IF Recomputed(r, period, zone, enable)
                     THEN NextRun(Given(period, r.period),
                                  IF zone = None THEN r.zone ELSE zone - 1, now)
                     ELSE @]

UpdateCron(c) ==
  /\ Live(c)
  /\ spent.updates < MaxUpdates
  /\ spent' = [spent EXCEPT !.updates = @ + 1]
  /\ \E period \in {None} \cup Periods, zone \in {None} \cup {z + 1 : z \in Zones},
        enable \in {"keep", "yes", "no"}, end \in {None} \cup {e \in Ends : e > now} :
       /\ row' = [row EXCEPT ![c] = UpdatedRow(@, period, zone, enable, end)]
       /\ fired' = [fired EXCEPT ![c] =
                      IF Recomputed(row[c], period, zone, enable) THEN {} ELSE @]
       /\ late' = [late EXCEPT ![c] = IF end # None \/ enable = "yes" THEN 0 ELSE @]
  /\ raced' = IF \/ \E p \in Pollers : Holds(p, c)
                 \/ \E k \in Clients : client[k].at = "first" /\ client[k].cron = c
              THEN raced \cup {c} ELSE raced
  /\ UNCHANGED <<now, held, job, client, twice, lapsed>>

(* delete_cron, and the ON DELETE CASCADE of the cron's thread or assistant. *)
DeleteCron(c) ==
  /\ Live(c)
  /\ row' = [row EXCEPT ![c].state = "gone"]
  /\ UNCHANGED <<now, held, job, client, spent, history>>

---------------------------------------------------------------------------
(* The scheduler *)

Due(c) ==
  /\ Live(c)
  /\ row[c].enabled
  /\ row[c].next <= now
  /\ row[c].claimed = None \/ row[c].claimed <= now

(* The row as RETURNING gives it to the poller, and as _fire_cron uses it. *)
Claimed(c) ==
  [id |-> c, period |-> row[c].period, zone |-> row[c].zone,
   end |-> row[c].end, slot |-> row[c].next]

(* get_due_crons: SELECT ... FOR UPDATE SKIP LOCKED and the UPDATE that claims *)
(* are one transaction; the earliest BatchSize rows are taken.                 *)
Claim(p) ==
  /\ held[p] = {} /\ job[p] = NoJob
  /\ \E batch \in SUBSET {c \in Crons : Due(c)} :
       /\ batch # {}
       /\ \/ Cardinality(batch) = BatchSize
          \/ Cardinality(batch) < BatchSize /\ batch = {c \in Crons : Due(c)}
       /\ \A c \in batch, d \in Crons \ batch : Due(d) => row[c].next <= row[d].next
       /\ row' = [c \in Crons |-> IF c \in batch
                                  THEN [row[c] EXCEPT !.claimed = now + ClaimDuration]
                                  ELSE row[c]]
       /\ held' = [held EXCEPT ![p] = {Claimed(c) : c \in batch}]
       /\ lapsed' = lapsed \cup {c \in batch : row[c].claimed # None}
  /\ UNCHANGED <<now, job, client, spent, fired, twice, raced, late>>

(* _tick takes the next row of its batch and enters _fire_cron. *)
StartFire(p) ==
  /\ job[p] = NoJob
  /\ \E s \in held[p] :
       /\ held' = [held EXCEPT ![p] = @ \ {s}]
       /\ job' = [job EXCEPT ![p] = [id |-> s.id, of |-> s, at |-> "check", since |-> now]]
  /\ UNCHANGED <<now, row, client, spent, history>>

SetRow(c, r) == row' = IF Live(c) THEN [row EXCEPT ![c] = r] ELSE row
Done(p) == job' = [job EXCEPT ![p] = NoJob]

(* The owner is no longer valid: the cron is disabled. *)
DisableCron(p) ==
  /\ job[p].id # "none" /\ job[p].at = "check"
  /\ spent.faults < MaxFaults
  /\ spent' = [spent EXCEPT !.faults = @ + 1]
  /\ LET c == job[p].id IN SetRow(c, [row[c] EXCEPT !.enabled = FALSE, !.claimed = None])
  /\ Done(p)
  /\ UNCHANGED <<now, held, client, history>>

(* _prepare_run commits the run of the occurrence that the copy s was claimed for. *)
CommitRun(c, s) ==
  /\ fired' = [fired EXCEPT ![c] = @ \cup {s.slot}]
  /\ twice' = IF s.slot \in fired[c] THEN twice \cup {c} ELSE twice
  /\ late' = [late EXCEPT ![c] =
                IF Live(c) /\ row[c].end # None /\ now >= row[c].end
                THEN (IF @ < 2 THEN @ + 1 ELSE @) ELSE @]

(* _prepare_run commits the run and queues it. *)
CreateRun(p) ==
  /\ job[p].id # "none" /\ job[p].at = "check"
  /\ CommitRun(job[p].id, job[p].of)
  /\ job' = [job EXCEPT ![p].at = "advance"]
  /\ UNCHANGED <<now, row, held, client, spent, lapsed, raced>>

(* advance_next_run, which computes from the claimed copy s of the row r. *)
AdvancedForEver(r, s) ==
  [r EXCEPT !.next = NextRun(s.period, s.zone, now), !.claimed = None]
AdvancedWhole(r, s) ==
  [r EXCEPT !.next = NextRun(s.period, s.zone, now), !.claimed = None,
            !.enabled = s.end = None \/ now < s.end]
Advanced(r, s) ==
  IF s.end # None /\ now >= s.end
  THEN [r EXCEPT !.enabled = FALSE, !.claimed = None]
  ELSE [r EXCEPT !.next = NextRun(s.period, s.zone, now), !.claimed = None]

Advance(p) ==
  /\ job[p].id # "none" /\ job[p].at = "advance"
  /\ LET c == job[p].id IN SetRow(c, Advanced(row[c], job[p].of))
  /\ Done(p)
  /\ UNCHANGED <<now, held, client, spent, history>>

(* _prepare_run raises before its commit: the claim is released and            *)
(* next_run_date kept, so that the next tick tries again.                      *)
RunFails(p) ==
  /\ job[p].id # "none" /\ job[p].at = "check"
  /\ spent.faults < MaxFaults
  /\ spent' = [spent EXCEPT !.faults = @ + 1]
  /\ job' = [job EXCEPT ![p].at = "release"]
  /\ UNCHANGED <<now, row, held, client, history>>

(* _prepare_run raises after its commit: executor.submit could not push the    *)
(* run to the queue.  _fire_cron takes that for a failed setup all the same.   *)
SubmitFails(p) ==
  /\ job[p].id # "none" /\ job[p].at = "check"
  /\ spent.faults < MaxFaults
  /\ spent' = [spent EXCEPT !.faults = @ + 1]
  /\ CommitRun(job[p].id, job[p].of)
  /\ lapsed' = lapsed \cup {job[p].id}
  /\ job' = [job EXCEPT ![p].at = "release"]
  /\ UNCHANGED <<now, row, held, client, raced>>

Release(p) ==
  /\ job[p].id # "none" /\ job[p].at = "release"
  /\ LET c == job[p].id IN SetRow(c, [row[c] EXCEPT !.claimed = None])
  /\ Done(p)
  /\ UNCHANGED <<now, held, client, spent, history>>

(* An exception leaves _fire_cron (building the request, or its last UPDATE):  *)
(* _tick logs it, rolls back and goes on; the claim stays.                     *)
FireRaises(p) ==
  /\ job[p].id # "none"
  /\ spent.faults < MaxFaults
  /\ spent' = [spent EXCEPT !.faults = @ + 1]
  /\ Done(p)
  /\ UNCHANGED <<now, row, held, client, history>>

(* stop() cancels the loop wherever it is, and so does a crash; the instance   *)
(* starts again with a tick.                                                   *)
Stop(p) ==
  /\ held[p] # {} \/ job[p] # NoJob
  /\ spent.faults < MaxFaults
  /\ spent' = [spent EXCEPT !.faults = @ + 1]
  /\ held' = [held EXCEPT ![p] = {}]
  /\ Done(p)
  /\ UNCHANGED <<now, row, client, history>>

(* The server dies between the commit of create_cron and the first run. *)
DropRequest(k) ==
  /\ client[k].at # "idle"
  /\ spent.faults < MaxFaults
  /\ spent' = [spent EXCEPT !.faults = @ + 1]
  /\ client' = [client EXCEPT ![k] = [at |-> "idle"]]
  /\ UNCHANGED <<now, row, held, job, history>>

(* Time passes while crons are fired and while pollers sleep; no firing takes  *)
(* longer than MaxFire.                                                        *)
Tick ==
  /\ now < MaxTime
  /\ \A p \in Pollers : job[p] = NoJob => held[p] = {}
  /\ \A p \in Pollers : job[p] # NoJob => now < job[p].since + MaxFire
  /\ now' = now + 1
  /\ UNCHANGED <<row, held, job, client, spent, history>>

Next ==
  \/ Tick
  \/ \E k \in Clients : CountCrons(k) \/ InsertCron(k) \/ FirstRun(k)
                          \/ FirstRunFails(k) \/ DropRequest(k)
  \/ \E c \in Crons : UpdateCron(c) \/ DeleteCron(c)
  \/ \E p \in Pollers : Claim(p) \/ StartFire(p) \/ DisableCron(p) \/ CreateRun(p)
                          \/ Advance(p) \/ RunFails(p) \/ SubmitFails(p)
                          \/ Release(p) \/ FireRaises(p) \/ Stop(p)

Spec == Init /\ [][Next]_vars

---------------------------------------------------------------------------
Instant == 0 .. MaxTime + ClaimDuration + 8
Cron == [state : {"live", "gone"}, period : Periods, zone : Zones, enabled : BOOLEAN,
         end : Instant, claimed : Instant, next : Instant]
Copy == [id : Crons, period : Periods, zone : Zones, end : Instant, slot : Instant]

(* The table, the claimed copies and the requests have their types. *)
TypeOK ==
  /\ now \in 1 .. MaxTime
  /\ \A c \in Crons : row[c] \in Cron \cup {[state |-> "new"]}
  /\ \A p \in Pollers :
       /\ held[p] \subseteq Copy
       /\ job[p] = NoJob \/ (job[p].id \in Crons /\ job[p].of \in Copy
                              /\ job[p].at \in {"check", "advance", "release"})
  /\ \A k \in Clients : client[k].at \in {"idle", "counted", "first"}
  /\ twice \cup lapsed \cup raced \subseteq Crons

(* get_due_crons, advance_next_run and the second occurrence that create_cron  *)
(* starts from: an occurrence of a cron is fired once, unless a claim on the   *)
(* cron ran out (a crash, a failed write, a batch slower than the claim) and   *)
(* the row was claimed again, a run was committed and could not be queued, for *)
(* which _fire_cron releases the claim as if there were no run, or an update   *)
(* set the schedule before the first run was created.                          *)
FiresOncePerSlot == twice \subseteq lapsed \cup raced

(* advance_next_run disables a cron whose end_time has passed: at most one run *)
(* is created after end_time, unless a claim ran out, a committed run could    *)
(* not be queued or the cron was updated while it was being fired.             *)
OneRunAfterEnd == \A c \in Crons : late[c] > 1 => c \in lapsed \cup raced

(* advance_next_run writes from the copy the claim returned: next_run_date is  *)
(* an occurrence of the stored schedule, unless the cron was updated while a   *)
(* poller held a copy of it.                                                   *)
FollowsSchedule ==
  \A c \in Crons :
    Live(c) => c \in raced \/ Occurs(row[c].period, row[c].zone, row[c].next)

(* create_cron counts and inserts in different statements: the per-user cap is *)
(* exceeded at most by the requests that counted before another one inserted.  *)
CapOvershoot ==
  Cardinality(Owned) + Cardinality({k \in Clients : client[k].at = "counted"})
    <= MaxPerUser + Cardinality(Clients) - 1

(* advance_next_run and the release write single columns: a cron that its      *)
(* owner or the liveness check disabled is enabled by update_cron alone, never *)
(* by a poller that writes back what it claimed.                               *)
KeepsDisabled ==
  \A c \in Crons :
    Live(c) /\ ~row[c].enabled /\ row'[c].enabled => spent'.updates > spent.updates
=============================================================================
