--------------------------- MODULE ThreadRequests ---------------------------
(***************************************************************************)
(* The requests of one user on one thread: POST and PATCH /threads, runs   *)
(* created through protocol v1 (create, stream, wait), the v2 commands     *)
(* run.start and input.respond, and the background naming of the thread.   *)
(*                                                                         *)
(* A request is a sequence of statements.  An UPDATE holds the row lock    *)
(* until the transaction commits and evaluates its expressions on the row  *)
(* it locked, so an UPDATE and what follows it up to the commit is one     *)
(* step here; the reads before it are steps of their own.                  *)
(* ThreadTransactions takes the statements apart further, for the status.  *)
(***************************************************************************)
EXTENDS Naturals, FiniteSets

CONSTANTS Requests,        \* requests the clients send
          Kinds,           \* kinds of request that are sent
          SettleAttempts   \* _RESUME_SETTLE_ATTEMPTS

VARIABLES row,     \* the thread row, or NoThread
          run,     \* run[r]: the run that request r created
          req,     \* req[r]: kind, program counter, what it read, its reply
          naming,  \* requests whose background naming task runs
          calls,   \* naming tasks ever started
          stale    \* resumes committed on a thread that was not interrupted

vars == <<row, run, req, naming, calls, stale>>

None == "none"
Metadata == {"graph", "name", "title", "tag"}

\* A value in the metadata is the request that wrote it.
Fresh(status, ttl) ==
    [status |-> status, ttl |-> ttl, claimed |-> FALSE,
     meta |-> [k \in Metadata |-> None]]

NoThread == Fresh("absent", None)

Init ==
    /\ row = NoThread
    /\ run = [r \in Requests |-> None]
    /\ req = [r \in Requests |->
                [kind |-> None, pc |-> "unsent", saw |-> NoThread,
                 polls |-> 0, reply |-> None]]
    /\ naming = {} /\ calls = 0 /\ stale = {}

At(r, pc, kinds) == req[r].pc = pc /\ req[r].kind \in kinds
Goto(r, pc) == req' = [req EXCEPT ![r].pc = pc]
Read(r, pc) == req' = [req EXCEPT ![r].pc = pc, ![r].saw = row]
Reply(r, answer) == req' = [req EXCEPT ![r].pc = "done", ![r].reply = answer]

Send(r, k) ==
    /\ req[r].pc = "unsent"
    /\ req' = [req EXCEPT ![r].pc = "sent", ![r].kind = k]
    /\ UNCHANGED <<row, run, naming, calls, stale>>

-----------------------------------------------------------------------------
(* Threads *)

\* Mutant: an idempotent re-create renews the incumbent's ttl.
InsertedWithTtl(r) ==
    IF row = NoThread THEN Fresh("idle", r) ELSE [row EXCEPT !.ttl = r]

\* The insert arbitrates: ON CONFLICT DO NOTHING, and the ttl row only with
\* the row it inserted.
Inserted(r) ==
    IF row = NoThread THEN Fresh("idle", r) ELSE row

CreateThread(r) ==
    /\ At(r, "sent", {"create", "createOrGet"})
    /\ row' = Inserted(r)
    /\ Reply(r, IF row = NoThread THEN "created"
                ELSE IF req[r].kind = "createOrGet" THEN "existing" ELSE "409")
    /\ UNCHANGED <<run, naming, calls, stale>>

ProbeThread(r) ==
    /\ At(r, "sent", {"patchTag", "patchTitle"})
    /\ IF row = NoThread THEN Reply(r, "404") ELSE Read(r, "write")
    /\ UNCHANGED <<row, run, naming, calls, stale>>

\* Mutant: the patch is applied to what the request read.
MergedIntoRead(r, patch) ==
    [row EXCEPT !.meta = [k \in Metadata |->
        IF k \in DOMAIN patch THEN patch[k] ELSE req[r].saw.meta[k]]]

\* jsonb_shallow_merge: the patch is applied to the row as it is now.
Merged(r, patch) ==
    [row EXCEPT !.meta = [k \in Metadata |->
        IF k \in DOMAIN patch THEN patch[k] ELSE row.meta[k]]]

UpdateThread(r) ==
    /\ At(r, "write", {"patchTag", "patchTitle"})
    /\ row' = Merged(r, IF req[r].kind = "patchTag" THEN [tag |-> r]
                        ELSE [title |-> r])
    /\ Reply(r, "ok")
    /\ UNCHANGED <<run, naming, calls, stale>>

-----------------------------------------------------------------------------
(* Runs *)

Interrupted == row.status = "interrupted"

\* run.start with input on an interrupted thread answers the interrupt.
RunStart(r) ==
    /\ At(r, "sent", {"start"})
    /\ IF Interrupted
       THEN req' = [req EXCEPT ![r].kind = "resume"]
       ELSE Goto(r, "prepare")
    /\ UNCHANGED <<row, run, naming, calls, stale>>

\* input.respond finds its assistant in the thread's runs.
InputRespond(r) ==
    /\ At(r, "sent", {"resume"})
    /\ \A q \in Requests : run[q] = None
    /\ Reply(r, "no_such_run")
    /\ UNCHANGED <<row, run, naming, calls, stale>>

\* _validate_resume_command: the first read, on the request's session.
ValidateResume(r) ==
    /\ At(r, "sent", {"resume"})
    /\ IF row = NoThread THEN Reply(r, "404")
       ELSE Goto(r, IF Interrupted THEN "prepare" ELSE "poll")
    /\ UNCHANGED <<row, run, naming, calls, stale>>

\* Mutant: one poll too many.
GivesUpLate(r) == req[r].polls > SettleAttempts

\* ... and then a few more, on fresh sessions, before it gives up.
GivesUp(r) == req[r].polls = SettleAttempts

PollResume(r) ==
    /\ At(r, "poll", {"resume"})
    /\ IF GivesUp(r) THEN Reply(r, "400")
       ELSE IF Interrupted THEN Goto(r, "prepare")
       ELSE req' = [req EXCEPT ![r].polls = @ + 1]
    /\ UNCHANGED <<row, run, naming, calls, stale>>

SkipValidation(r) ==
    /\ At(r, "sent", {"run"})
    /\ Goto(r, "prepare")
    /\ UNCHANGED <<row, run, naming, calls, stale>>

\* update_thread_metadata reads the thread to decide whether to create it.
ReadThread(r) ==
    /\ req[r].pc = "prepare"
    /\ Read(r, "commit")
    /\ UNCHANGED <<row, run, naming, calls, stale>>

\* Mutant: the thread had no name when the request read it.
NamesAsRead(r) == req[r].saw.meta.name = None /\ req[r].kind # "resume"

\* A run with input names a thread that has no name when it is written.
Names(r) == row.meta.name = None /\ req[r].kind # "resume"

Prepared(r) ==
    IF req[r].saw = NoThread
    THEN [Fresh("busy", None) EXCEPT
             !.meta.graph = r,
             !.meta.name = IF req[r].kind = "resume" THEN None ELSE r]
    ELSE [Merged(r, IF Names(r) THEN [graph |-> r, name |-> r]
                    ELSE [graph |-> r]) EXCEPT !.status = "busy"]

\* _prepare_run from update_thread_metadata's write to the commit.
CommitRun(r) ==
    /\ req[r].pc = "commit"
    /\ ~(req[r].saw = NoThread /\ row # NoThread)
    /\ row' = Prepared(r)
    /\ run' = [run EXCEPT ![r] = "active"]
    /\ stale' = IF req[r].kind = "resume" /\ ~Interrupted
                THEN stale \cup {r} ELSE stale
    /\ IF req[r].kind = "run" THEN Goto(r, "name") ELSE Reply(r, "ok")
    /\ UNCHANGED <<naming, calls>>

\* The thread it wanted to create has appeared: a unique violation.
CreateCollides(r) ==
    /\ req[r].pc = "commit"
    /\ req[r].saw = NoThread /\ row # NoThread
    /\ Reply(r, "500")
    /\ UNCHANGED <<row, run, naming, calls, stale>>

\* Mutant: every first message claims the naming.
ClaimsAlways == TRUE

\* maybe_name_thread: one conditional UPDATE decides who names the thread.
Claims == ~row.claimed

ClaimNaming(r) ==
    /\ At(r, "name", {"run"})
    /\ IF Claims
       THEN /\ row' = [row EXCEPT !.claimed = TRUE, !.meta.title = r]
            /\ naming' = naming \cup {r}
            /\ calls' = calls + 1
       ELSE UNCHANGED <<row, naming, calls>>
    /\ Reply(r, "ok")
    /\ UNCHANGED <<run, stale>>

\* _generate_and_set_title: the model's title, or nothing if it fails.
SetTitle(r) ==
    /\ r \in naming
    /\ naming' = naming \ {r}
    /\ \/ row' = [row EXCEPT !.meta.title = "generated"]
       \/ UNCHANGED row
    /\ UNCHANGED <<run, req, calls, stale>>

-----------------------------------------------------------------------------
(* Execution, as far as a request can observe it.                          *)

\* The interrupt reaches the client before the executor commits it.
Announce(r) ==
    /\ run[r] = "active"
    /\ run' = [run EXCEPT ![r] = "announced"]
    /\ UNCHANGED <<row, req, naming, calls, stale>>

\* finalize_run: the run and, if no other run is active, the thread.
Finalize(r) ==
    /\ run[r] \in {"active", "announced"}
    /\ LET end == IF run[r] = "announced" THEN "interrupted" ELSE "success"
           others == {q \in Requests \ {r} : run[q] \in {"active", "announced"}}
       IN /\ run' = [run EXCEPT ![r] = end]
          /\ row' = IF others # {} THEN row
                    ELSE [row EXCEPT !.status = IF end = "interrupted"
                                                THEN end ELSE "idle"]
    /\ UNCHANGED <<req, naming, calls, stale>>

Next ==
    \/ \E r \in Requests, k \in Kinds : Send(r, k)
    \/ \E r \in Requests :
          \/ CreateThread(r) \/ ProbeThread(r) \/ UpdateThread(r)
          \/ RunStart(r) \/ InputRespond(r) \/ ValidateResume(r)
          \/ PollResume(r) \/ SkipValidation(r) \/ ReadThread(r)
          \/ CommitRun(r) \/ CreateCollides(r) \/ ClaimNaming(r)
          \/ SetTitle(r) \/ Announce(r) \/ Finalize(r)

Spec == Init /\ [][Next]_vars

-----------------------------------------------------------------------------
(* Properties *)

\* Type correctness.
TypeOK ==
    /\ row.status \in {"absent", "idle", "busy", "interrupted"}
    /\ row.meta \in [Metadata -> Requests \cup {None, "generated"}]
    /\ row.claimed \in BOOLEAN /\ row.ttl \in Requests \cup {None}
    /\ run \in [Requests -> {None, "active", "announced", "interrupted", "success"}]
    /\ \A r \in Requests : req[r].polls <= SettleAttempts
    /\ naming \subseteq Requests /\ calls \in Nat
    /\ stale \subseteq Requests

\* No acknowledged write of metadata is undone by a request that read the
\* row before it: the tag of a PATCH and the graph of an accepted run stay.
WritesKept ==
    /\ (\E r \in Requests : req[r].kind = "patchTag" /\ req[r].reply = "ok")
           => row.meta.tag # None
    /\ (\E r \in Requests : run[r] # None) => row.meta.graph # None

\* A thread that has a name keeps it, whichever runs are created meanwhile.
KeepsName == row.meta.name # None => row'.meta.name = row.meta.name

\* At most one naming call is ever made for a thread (thread_naming.py).
OneNamingCall == calls <= 1

\* Re-creating a thread leaves the incumbent and its time to live alone:
\* the ttl row is the one of the request that was told it had created it.
TtlOfCreator ==
    \A r \in Requests : req[r].reply = "created" => row.ttl = r

\* A resume is accepted on a thread that is no longer interrupted only when
\* it was overtaken after its validation: besides the run that asked, one
\* that answered (or ignored) the question had been accepted.
ResumesOvertaken ==
    \A r \in stale : Cardinality({q \in Requests \ {r} : run[q] # None}) >= 2
=============================================================================
