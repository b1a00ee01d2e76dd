----------------------------- MODULE EventStream -----------------------------
(***************************************************************************)
(* The event stream of one run: execute_run and whoever cancels the run    *)
(* put events into the run's broker, SSE clients replay what is stored,    *)
(* follow it live, disconnect and come back with Last-Event-ID.            *)
(*                                                                         *)
(* Two backends, by REDIS_BROKER_ENABLED.  "memory" is one process whose   *)
(* RunBroker stores and fans out an event without suspending.  "redis" is  *)
(* several processes: a put is an INCR, an RPUSH and a PUBLISH, each a     *)
(* step, and a client follows over pub/sub from its own process.           *)
(***************************************************************************)
EXTENDS Naturals, Sequences, FiniteSets, SequencesExt

CONSTANTS
  Backends,    \* the deployments to look at, a subset of {"memory", "redis"}
  Clients,
  Instances,   \* server processes
  Worker,      \* the one that executes the run (the only one with "memory")
  Api,         \* the one that serves cancel requests
  Faults,      \* what may go wrong, a subset of AllFaults
  MaxFaults,   \* how many different faults happen, each at most once
  MaxEvents,   \* how many events are allocated before the graph stops emitting
  MaxConnects, \* how often a client connects
  BufferMax,   \* _REPLAY_MAX_EVENTS
  Stamp        \* a time stamp in milliseconds, larger than any sequence number

(* "redis":  a write is applied and still reported as failed, a read of the  *)
(*           buffer fails, or a pub/sub connection breaks                    *)
(* "outage": a write fails in all its attempts, or the read that looks for   *)
(*           the end event fails                                             *)
(* "clock":  INCR fails and an event gets a time stamp for its number        *)
(* "quiet":  the graph emits nothing for the ten minutes of the TTL          *)
(* "expiry": ten minutes pass after the run                                  *)
(* "late":   a cancel command reaches a task that is already past its graph  *)
AllFaults == {"redis", "outage", "clock", "quiet", "expiry", "late"}

ASSUME BackendsAssumption == Backends \subseteq {"memory", "redis"}
ASSUME HostsAssumption == Worker \in Instances /\ Api \in Instances
ASSUME FaultsAssumption == Faults \subseteq AllFaults
ASSUME BoundsAssumption == /\ MaxFaults \in Nat /\ MaxEvents \in Nat /\ MaxConnects \in Nat
                           /\ BufferMax \in Nat \ {0} /\ Stamp \in Nat

VARIABLES
  backend,     \* chosen when the server starts
  run,         \* status of the run's row: "active" or "over"
  task,        \* where execute_run is
  cancel, api, \* where the cancel command and the request that reconciles are
  out,         \* the put each writer is in
  lock,        \* _write_lock of the broker on each process
  broker,      \* _brokers on each process: "none", "open" or "finished"
  counter,     \* the sequence counter
  buffer,      \* the replay buffer
  reader,      \* each client's connection
  chan,        \* what each connection's subscription has not read yet
  seen,        \* what each client received, over all connections
  log,         \* every event that was ever stored (history)
  made,        \* events allocated so far (history)
  used         \* faults that have happened

streams  == <<counter, buffer, log, made>>
clients  == <<reader, chan, seen>>
control  == <<run, task, cancel, api>>
vars     == <<backend, control, out, lock, broker, streams, clients, used>>

Writers == {"task", "cancel", "api"}
Kinds   == {"data", "error", "end"}
Event   == [id : Nat, kind : Kinds, no : Nat]
Fresh(kind) == [id |-> 0, kind |-> kind, no |-> 0]
IdleOut == [pc |-> "idle", ev |-> Fresh("data"), dead |-> FALSE]

At(w)   == IF w = "api" /\ backend = "redis" THEN Api ELSE Worker
Idle(w) == out[w].pc = "idle"
Quiet   == \A w \in Writers : Idle(w)

(* A client that is not connected, after some number of connections. *)
Away(tries) == [pc |-> "away", host |-> Worker, last |-> 0, sent |-> 0, prev |-> 0, pend |-> <<>>,
                over |-> FALSE, closed |-> FALSE, tries |-> tries]

(* Connections that live events reach. *)
Subscribed == {c \in Clients : reader[c].pc \in {"check", "listen"}}
(* Connections and puts that hold the broker object of process i.  A data    *)
(* event's broker is looked up after its id is allocated, a signal's before. *)
Readers(i) == {c \in Clients : reader[c].host = i /\ reader[c].pc \in {"sub", "check", "listen"}}
Putters(i) == {w \in Writers : /\ At(w) = i
                               /\ \/ out[w].pc \in {"wait", "publish"}
                                  \/ out[w].pc \in {"alloc", "put"} /\ out[w].ev.kind # "data"}

Use(f) == /\ f \in Faults \ used /\ Cardinality(used) < MaxFaults
          /\ used' = used \cup {f}

Init ==
  /\ backend \in Backends
  /\ run = "active"
  /\ task = "queued" /\ cancel = "idle" /\ api = "idle"
  /\ out = [w \in Writers |-> IdleOut]
  /\ lock = [i \in Instances |-> "none"]
  /\ broker = [i \in Instances |-> "none"]
  /\ counter = 0 /\ buffer = <<>> /\ log = <<>> /\ made = 0
  /\ reader = [c \in Clients |-> Away(0)]
  /\ chan = [c \in Clients |-> <<>>]
  /\ seen = [c \in Clients |-> <<>>]
  /\ used = {}

-----------------------------------------------------------------------------
(* The broker. *)

(* What the holders of an object that becomes finished will find. *)
CloseReaders(rs) == [c \in Clients |-> [reader[c] EXCEPT !.closed = @ \/ c \in rs]]
CloseOut(o, ws)  == [w \in Writers |-> [o[w] EXCEPT !.dead = @ \/ w \in ws]]

Created(i) == [broker EXCEPT ![i] = IF @ = "none" THEN "open" ELSE @]
GetOrCreate(i) == broker' = Created(i)

(* cleanup_broker: Redis forgets the object, memory keeps it for replay. *)
CleanupBroker(i) ==
  /\ reader' = CloseReaders(Readers(i))
  /\ out' = CloseOut(out, Putters(i))
  /\ broker' = [broker EXCEPT ![i] = IF backend = "redis" \/ @ = "none" THEN "none"
                                                                       ELSE "finished"]

(* A reader that finds the end marks the object it holds as finished. *)
FinishedByReader(c, found) ==
  LET now == found /\ backend = "redis" /\ ~reader[c].closed IN
  /\ broker' = IF now THEN [broker EXCEPT ![reader[c].host] = "finished"] ELSE broker
  /\ out' = CloseOut(out, IF now THEN Putters(reader[c].host) ELSE {})

StoreUntrimmed(evs) == buffer' = buffer \o evs
Store(evs) ==
  buffer' = LET b == buffer \o evs IN
    IF backend = "redis" /\ Len(b) > BufferMax
    THEN SubSeq(b, Len(b) - BufferMax + 1, Len(b)) ELSE b
Deliver(evs) == chan' = [c \in Clients |-> IF c \in Subscribed THEN chan[c] \o evs ELSE chan[c]]

(* RunBroker.put with its allocate_event_id before it: no await suspends. *)
MemoryPut(kind) ==
  LET ev == [id |-> counter + 1, kind |-> kind, no |-> made + 1] IN
  /\ counter' = counter + 1
  /\ made' = made + 1
  /\ IF broker[Worker] = "finished"
     THEN UNCHANGED <<buffer, log, chan, broker, reader>>
     ELSE /\ Store(<<ev>>) /\ log' = Append(log, ev)
          /\ Deliver(<<ev>>)
          /\ IF kind = "end"
             THEN broker' = [broker EXCEPT ![Worker] = "finished"] /\ reader' = CloseReaders(Readers(Worker))
             ELSE GetOrCreate(Worker) /\ UNCHANGED reader
  /\ UNCHANGED <<out, seen>>

(* A put begins; a signal already has its broker in hand. *)
BeginPut(w, kind) ==
  /\ out' = [out EXCEPT ![w] = [pc |-> "alloc", ev |-> Fresh(kind),
                                dead |-> kind # "data" /\ broker[At(w)] = "finished"]]
  /\ broker' = IF kind = "data" THEN broker ELSE Created(At(w))
  /\ UNCHANGED <<streams, clients, used>>

Write(w, kind) == IF backend = "memory" THEN MemoryPut(kind) /\ UNCHANGED used
                                         ELSE BeginPut(w, kind)

(* RedisBrokerManager.allocate_event_id: INCR, or a time stamp if it fails. *)
Allocate(w) ==
  LET numbered(id) == [out[w] EXCEPT !.pc = "put", !.ev = [@ EXCEPT !.id = id, !.no = made + 1]]
  IN
  /\ out[w].pc = "alloc"
  /\ \/ /\ counter' = counter + 1
        /\ out' = [out EXCEPT ![w] = numbered(counter + 1)]
        /\ UNCHANGED used
     \/ /\ Use("clock")
        /\ out' = [out EXCEPT ![w] = numbered(Stamp)]
        /\ UNCHANGED counter
  /\ made' = made + 1
  /\ UNCHANGED <<backend, control, lock, broker, buffer, log, clients>>

(* RedisRunBroker.put: a finished broker drops the event; the check comes    *)
(* before the wait for the write lock.                                       *)
Dropped(w) == IF out[w].ev.kind = "data" THEN broker[Worker] = "finished" ELSE out[w].dead
Offer(w) ==
  /\ out[w].pc = "put"
  /\ broker' = IF out[w].ev.kind = "data" THEN Created(Worker) ELSE broker
  /\ out' = [out EXCEPT ![w] = IF Dropped(w) THEN IdleOut ELSE [@ EXCEPT !.pc = "wait"]]
  /\ UNCHANGED <<backend, control, lock, streams, clients, used>>

(* _cache_event: one pipeline of RPUSH, LTRIM and a second INCR.  A pipeline *)
(* that timed out after Redis applied it is sent again: two adjacent copies. *)
Locks(w) == /\ out[w].pc = "wait" /\ lock[At(w)] = "none"
            /\ lock' = [lock EXCEPT ![At(w)] = w]
CacheEvent(w) ==
  /\ Locks(w)
  /\ \/ Store(<<out[w].ev>>) /\ counter' = counter + 1 /\ UNCHANGED used
     \/ Store(<<out[w].ev, out[w].ev>>) /\ counter' = counter + 2 /\ Use("redis")
  /\ log' = Append(log, out[w].ev)
  /\ out' = [out EXCEPT ![w].pc = "publish"]
  /\ UNCHANGED <<backend, control, broker, made, clients>>

(* The end of put: the lock is free again, an end event finishes the broker. *)
FinishPut(w) ==
  LET finish == out[w].ev.kind = "end" /\ ~out[w].dead IN
  /\ lock' = [lock EXCEPT ![At(w)] = "none"]
  /\ out' = CloseOut([out EXCEPT ![w] = IdleOut], IF finish THEN Putters(At(w)) \ {w} ELSE {})
  /\ broker' = IF finish THEN [broker EXCEPT ![At(w)] = "finished"] ELSE broker
  /\ reader' = CloseReaders(IF finish THEN Readers(At(w)) ELSE {})

PublishEvent(w) ==
  /\ out[w].pc = "publish"
  /\ \/ Deliver(<<out[w].ev>>) /\ UNCHANGED used
     \/ Deliver(<<out[w].ev, out[w].ev>>) /\ Use("redis")
  /\ FinishPut(w)
  /\ UNCHANGED <<backend, control, streams, seen>>

(* All _PUT_MAX_ATTEMPTS fail: the event is dropped, or stored and not       *)
(* published; put returns as if nothing had happened.                        *)
WriteFails(w) ==
  /\ \/ out[w].pc = "wait" /\ lock[At(w)] = "none"
     \/ out[w].pc = "publish"
  /\ Use("outage")
  /\ FinishPut(w)
  /\ UNCHANGED <<backend, control, streams, chan, seen>>

-----------------------------------------------------------------------------
(* execute_run.  Its stages: queued, graph, success, failed, interrupted     *)
(* (finalized, to be signalled), ending (signalled), finally, done.          *)

Begin ==
  /\ task = "queued"
  /\ task' = IF run = "active" THEN "graph" ELSE "finally"
  /\ UNCHANGED <<backend, run, cancel, api, out, lock, broker, streams, clients, used>>

(* The graph yields an event; the first one is the metadata event. *)
Emit ==
  /\ task = "graph" /\ Idle("task") /\ made < MaxEvents
  /\ Write("task", "data")
  /\ UNCHANGED <<backend, control, lock>>

(* The graph is over and finalize_run commits, unless the run already is. *)
Finalize(stage) ==
  /\ task' = IF run = "active" THEN stage ELSE "finally"
  /\ run' = "over"
  /\ UNCHANGED <<backend, cancel, api, out, lock, broker, streams, clients, used>>

GraphEnds == /\ task = "graph" /\ Idle("task")
             /\ \/ made > 0 /\ Finalize("success")
                \/ Finalize("failed")

CancelHandled == \/ task = "cancelled" /\ Finalize("interrupted")
                 \/ task = "timed out" /\ Finalize("failed")

(* _signal_end_event, signal_run_error, signal_run_cancelled: nothing to do  *)
(* for a finished broker.                                                    *)
Signalled == \/ broker[Worker] = "finished"
             \/ task = "success" /\ broker[Worker] = "none"

SignalSkipped ==
  /\ task \in {"success", "failed", "interrupted"} /\ Signalled
  /\ task' = "finally"
  /\ UNCHANGED <<backend, run, cancel, api, out, lock, broker, streams, clients, used>>

Signal ==
  /\ task \in {"success", "failed", "interrupted"} /\ ~Signalled
  /\ IF task = "failed" THEN task' = "error" /\ Write("task", "error")
                        ELSE task' = "ending" /\ Write("task", "end")
  /\ UNCHANGED <<backend, run, cancel, api, lock>>

SignalErrorEnd ==
  /\ task = "error" /\ Idle("task")
  /\ task' = "ending"
  /\ Write("task", "end")
  /\ UNCHANGED <<backend, run, cancel, api, lock>>

(* cleanup_run in the finally clause. *)
Finally ==
  /\ task \in {"ending", "finally"} /\ Idle("task")
  /\ task' = "done"
  /\ CleanupBroker(Worker)
  /\ UNCHANGED <<backend, run, cancel, api, lock, streams, chan, seen, used>>

(* task.cancel(): the write under way is abandoned, and may have reached     *)
(* Redis.                                                                    *)
Running == task \notin {"queued", "cancelled", "timed out", "finally", "done"}
AbandonPutOnly(handler) ==
  /\ lock' = [i \in Instances |-> IF lock[i] = "task" THEN "none" ELSE lock[i]]
  /\ UNCHANGED <<task, buffer, log, counter, chan>>
Abandon(handler) ==
  LET pc == out["task"].pc ev == out["task"].ev IN
  /\ task' = IF task = "graph" THEN handler ELSE "finally"
  /\ lock' = [i \in Instances |-> IF lock[i] = "task" THEN "none" ELSE lock[i]]
  /\ \/ /\ pc = "alloc" /\ counter' = counter + 1
        /\ UNCHANGED <<buffer, log, chan>>
     \/ /\ pc = "wait" /\ lock[Worker] = "none"
        /\ Store(<<ev>>) /\ log' = Append(log, ev) /\ counter' = counter + 1
        /\ UNCHANGED chan
     \/ /\ pc = "publish" /\ Deliver(<<ev>>)
        /\ UNCHANGED <<buffer, log, counter>>
     \/ UNCHANGED <<buffer, log, counter, chan>>

(* WorkerExecutor cancels a task that exceeds its time limit. *)
TimesOut ==
  /\ backend = "redis" /\ task = "graph"
  /\ Abandon("timed out")
  /\ out' = [out EXCEPT !["task"] = IdleOut]
  /\ UNCHANGED <<backend, run, cancel, api, broker, made, reader, seen, used>>

(* The run is cancelled where it executes (a command for a live-owned run,   *)
(* or the client of create_and_stream_run is gone), and its end is signalled.*)
ExecuteCancel ==
  /\ Running /\ cancel = "idle"
  /\ IF task = "graph" THEN UNCHANGED used ELSE Use("late")
  /\ cancel' = "done"
  /\ IF backend = "memory"
     THEN /\ task' = IF task = "graph" THEN "cancelled" ELSE "finally"
          /\ IF broker[Worker] = "finished" THEN UNCHANGED <<out, broker, streams, clients>>
                                            ELSE MemoryPut("end")
          /\ UNCHANGED lock
     ELSE /\ Abandon("cancelled")
          /\ GetOrCreate(Worker)
          /\ out' = [out EXCEPT !["task"] = IdleOut, !["cancel"] =
               IF broker[Worker] = "finished" THEN IdleOut
               ELSE [pc |-> "alloc", ev |-> Fresh("end"), dead |-> FALSE]]
          /\ UNCHANGED <<made, reader, seen>>
  /\ UNCHANGED <<backend, run, api>>

(* _request_run_interruption for a run without a live owner: a queued run,   *)
(* every run of the local executor.                                          *)
Interrupt ==
  /\ run = "active" /\ api = "idle"
  /\ task = "queued" \/ backend = "memory"
  /\ run' = "over"
  /\ api' = "stop"
  /\ UNCHANGED <<backend, task, cancel, out, lock, broker, streams, clients, used>>

(* request_cancel with emit_end_event=False.  Over Redis it finds no task: a *)
(* queued run whose row is over is not started.                              *)
InterruptStops ==
  /\ api = "stop" /\ api' = "signal"
  /\ IF Running
     THEN /\ task' = IF task = "graph" THEN "cancelled" ELSE "finally"
          /\ GetOrCreate(Worker)
     ELSE UNCHANGED <<task, broker>>
  /\ UNCHANGED <<backend, run, cancel, out, lock, streams, clients, used>>

(* signal_run_cancelled from the request. *)
InterruptSignals ==
  /\ api = "signal"
  /\ IF broker[At("api")] = "finished"
     THEN api' = "done" /\ UNCHANGED <<out, broker, streams, clients, used>>
     ELSE api' = "cleanup" /\ Write("api", "end")
  /\ UNCHANGED <<backend, run, task, cancel, lock>>

InterruptCleans ==
  /\ api = "cleanup" /\ Idle("api")
  /\ api' = "done"
  /\ CleanupBroker(At("api"))
  /\ UNCHANGED <<backend, run, task, cancel, lock, streams, chan, seen, used>>

(* Ten minutes without a write: Redis drops buffer and counter; the sweep    *)
(* removes a finished broker of which every queue is empty.  A connection is *)
(* set up in far less than that.                                             *)
Settled == /\ run = "over" /\ task \in {"queued", "done"}
           /\ api \in {"idle", "done"}
Expire ==
  /\ Quiet /\ buffer # <<>>
  /\ \A c \in Clients : reader[c].pc \in {"away", "listen"}
  /\ \/ Settled /\ Use("expiry")
     \/ backend = "redis" /\ task = "graph" /\ Use("quiet")
  /\ backend = "memory" => /\ broker[Worker] = "finished"
                           /\ \A c \in Subscribed : chan[c] = <<>>
  /\ buffer' = <<>> /\ counter' = 0
  /\ broker' = IF backend = "memory" THEN [broker EXCEPT ![Worker] = "none"] ELSE broker
  /\ UNCHANGED <<backend, control, out, lock, log, made, clients>>

-----------------------------------------------------------------------------
(* A client: stream_run, stream_run_execution and the broker's aiter.        *)

Set(c, r) == reader' = [reader EXCEPT ![c] = r]
Gone(c)   == Away(reader[c].tries)

(* An event reaches the client. *)
Show(c, ev) == seen' = [seen EXCEPT ![c] = Append(@, ev)]

(* Any process may serve the request.  A run that is over is not streamed to *)
(* a client without Last-Event-ID.                                           *)
Connect(c) ==
  /\ reader[c].pc = "away" /\ reader[c].tries < MaxConnects
  /\ run = "active" \/ seen[c] # <<>>
  /\ \E i \in IF backend = "redis" THEN Instances ELSE {Worker} :
       LET last == IF seen[c] = <<>> THEN 0 ELSE Last(seen[c]).id IN
       Set(c, [Away(reader[c].tries + 1) EXCEPT !.pc = "replay", !.host = i, !.last = last,
                                                !.sent = last, !.over = run = "over"])
  /\ UNCHANGED <<backend, control, out, lock, broker, streams, chan, seen, used>>

(* replay: what follows last_event_id in the buffer, everything if it is not *)
(* there; RedisRunBroker skips adjacent duplicates of its list.              *)
Deduplicated ==
  LET first == {n \in DOMAIN buffer : n = 1 \/ buffer[n].id # buffer[n - 1].id}
      kept  == CHOOSE f \in [1 .. Cardinality(first) -> first] :
                 \A m, n \in DOMAIN f : m < n => f[m] < f[n]
  IN  [n \in DOMAIN kept |-> buffer[kept[n]]]
Stored == IF backend = "redis" THEN Deduplicated ELSE buffer
After(last) ==
  LET found == {n \in DOMAIN Stored : Stored[n].id = last} IN
  IF found = {} THEN Stored
  ELSE SubSeq(Stored, (CHOOSE n \in found : \A m \in found : n <= m) + 1, Len(Stored))

(* A failed LRANGE counts as an empty buffer. *)
Replay(c) ==
  /\ reader[c].pc = "replay"
  /\ \/ /\ Set(c, [reader[c] EXCEPT !.pc = "replaying", !.pend = After(reader[c].last)])
        /\ UNCHANGED used
     \/ /\ Set(c, [reader[c] EXCEPT !.pc = "replaying"])
        /\ backend = "redis" /\ Use("redis")
  /\ GetOrCreate(reader[c].host)
  /\ UNCHANGED <<backend, control, out, lock, streams, chan, seen>>

YieldReplayed(c) ==
  /\ reader[c].pc = "replaying" /\ reader[c].pend # <<>>
  /\ LET ev == Head(reader[c].pend) IN
       /\ Show(c, ev)
       /\ Set(c, [reader[c] EXCEPT !.pend = Tail(@),
                                   !.sent = IF ev.id > @ THEN ev.id ELSE @])
  /\ UNCHANGED <<backend, control, out, lock, broker, streams, chan, used>>

(* aiter: what is stored when the queue is registered comes first. *)
BacklogForgotten == <<>>
Backlog == buffer

(* _stream_live_events: nothing to follow, or aiter.  RunBroker registers a  *)
(* queue and takes the backlog at once, RedisRunBroker is going to SUBSCRIBE.*)
GoLive(c) ==
  LET b == broker[reader[c].host] IN
  /\ reader[c].pc = "replaying" /\ reader[c].pend = <<>>
  /\ IF (reader[c].over /\ b # "open") \/ (backend = "redis" /\ b = "finished")
     THEN Set(c, Gone(c)) /\ UNCHANGED broker
     ELSE /\ GetOrCreate(reader[c].host)
          /\ Set(c, IF backend = "memory"
                    THEN [reader[c] EXCEPT !.pc = "listen", !.pend = Backlog,
                                           !.closed = b = "finished"]
                    ELSE [reader[c] EXCEPT !.pc = "sub"])
  /\ UNCHANGED <<backend, control, out, lock, streams, chan, seen, used>>

Subscribe(c) ==
  /\ reader[c].pc = "sub"
  /\ Set(c, [reader[c] EXCEPT !.pc = "check"])
  /\ UNCHANGED <<backend, control, out, lock, broker, streams, chan, seen, used>>

(* _check_end_in_buffer looks at the last event only; a failed read finds    *)
(* nothing.                                                                  *)
EndUnchecked == FALSE
EndInBuffer == buffer # <<>> /\ Last(buffer).kind = "end"
CheckEnd(c) ==
  /\ reader[c].pc = "check"
  /\ \E found \in BOOLEAN :
       /\ \/ found = EndInBuffer /\ UNCHANGED used
          \/ ~found /\ Use("outage")
       /\ FinishedByReader(c, found)
       /\ reader' = [CloseReaders(IF found THEN Readers(reader[c].host) ELSE {})
                       EXCEPT ![c].pc = "listen"]
  /\ UNCHANGED <<backend, control, lock, streams, chan, seen>>

(* The next event of the backlog or the subscription.  A repeated publish is *)
(* dropped, an event that was already sent is skipped, an end event closes   *)
(* the stream (and finishes the broker).                                     *)
NewUnchecked(c, ev) == TRUE
New(c, ev) == ev.id > reader[c].sent
Listen(c) ==
  LET backlog == reader[c].pend # <<>>
      ev == IF backlog THEN Head(reader[c].pend) ELSE Head(chan[c])
      repeat == backend = "redis" /\ ev.id = reader[c].prev
      end == ev.kind = "end" /\ ~repeat IN
  /\ reader[c].pc = "listen"
  /\ backlog \/ chan[c] # <<>>
  /\ IF New(c, ev) /\ ~repeat THEN Show(c, ev) ELSE UNCHANGED seen
  /\ chan' = [chan EXCEPT ![c] = IF end THEN <<>> ELSE IF backlog THEN @ ELSE Tail(@)]
  /\ FinishedByReader(c, end)
  /\ reader' = [CloseReaders(IF end /\ backend = "redis" THEN Readers(reader[c].host) ELSE {})
                  EXCEPT ![c] = IF end THEN Gone(c)
                    ELSE [reader[c] EXCEPT !.pend = IF backlog THEN Tail(@) ELSE @,
                                           !.prev = IF backend = "redis" THEN ev.id ELSE 0,
                                           !.sent = IF New(c, ev) THEN ev.id ELSE @]]
  /\ UNCHANGED <<backend, control, lock, streams, used>>

(* Nothing arrives and the broker is finished. *)
StopListening(c) ==
  /\ reader[c].pc = "listen" /\ reader[c].pend = <<>> /\ chan[c] = <<>>
  /\ reader[c].closed
  /\ Set(c, Gone(c))
  /\ UNCHANGED <<backend, control, out, lock, broker, streams, chan, seen, used>>

(* The pub/sub connection breaks: aiter subscribes again, without replay.    *)
PubSubError(c) ==
  /\ reader[c].pc \in {"check", "listen"} /\ backend = "redis"
  /\ Use("redis")
  /\ Set(c, IF reader[c].closed THEN Gone(c) ELSE [reader[c] EXCEPT !.pc = "sub", !.prev = 0])
  /\ chan' = [chan EXCEPT ![c] = <<>>]
  /\ UNCHANGED <<backend, control, out, lock, broker, streams, seen>>

(* The client goes away.  Before anything is replayed, and between SUBSCRIBE *)
(* and the first event, that is as good as one step earlier or later.        *)
Disconnect(c) ==
  /\ reader[c].pc \in {"replaying", "listen"}
  /\ Set(c, Gone(c))
  /\ chan' = [chan EXCEPT ![c] = <<>>]
  /\ UNCHANGED <<backend, control, out, lock, broker, streams, seen, used>>
-----------------------------------------------------------------------------
PutStep(w)  == Allocate(w) \/ Offer(w) \/ CacheEvent(w) \/ PublishEvent(w)
TaskStep    == \/ Begin \/ CancelHandled \/ SignalSkipped \/ Signal
               \/ SignalErrorEnd \/ Finally
ApiStep     == InterruptStops \/ InterruptSignals \/ InterruptCleans
ClientStep(c) == \/ Replay(c) \/ YieldReplayed(c) \/ GoLive(c) \/ Subscribe(c)
                 \/ CheckEnd(c) \/ Listen(c) \/ StopListening(c)

Next ==
  \/ TaskStep \/ Emit \/ GraphEnds \/ TimesOut \/ ExecuteCancel \/ Interrupt \/ ApiStep
  \/ Expire
  \/ \E w \in Writers : PutStep(w) \/ WriteFails(w)
  \/ \E c \in Clients : ClientStep(c) \/ Connect(c) \/ Disconnect(c) \/ PubSubError(c)

(* Every task that is ready is resumed; a graph need not end. *)
Fairness ==
  /\ WF_vars(TaskStep) /\ WF_vars(ApiStep)
  /\ \A w \in Writers : WF_vars(PutStep(w))
  /\ \A c \in Clients : WF_vars(ClientStep(c))

Spec     == Init /\ [][Next]_vars
FairSpec == Spec /\ Fairness
-----------------------------------------------------------------------------
(* Types; the holder of a write lock is in the middle of its put; the Redis  *)
(* buffer is trimmed.                                                        *)
TypeOK ==
  /\ backend \in Backends /\ run \in {"active", "over"}
  /\ task \in {"queued", "graph", "cancelled", "timed out", "success", "failed", "interrupted",
               "error", "ending", "finally", "done"}
  /\ cancel \in {"idle", "done"}
  /\ api \in {"idle", "stop", "signal", "cleanup", "done"}
  /\ out \in [Writers -> [pc : {"idle", "alloc", "put", "wait", "publish"}, ev : Event,
                          dead : BOOLEAN]]
  /\ lock \in [Instances -> Writers \cup {"none"}]
  /\ \A i \in Instances : lock[i] # "none" => At(lock[i]) = i /\ out[lock[i]].pc = "publish"
  /\ broker \in [Instances -> {"none", "open", "finished"}]
  /\ counter \in Nat /\ made \in Nat /\ used \subseteq Faults
  /\ buffer \in Seq(Event) /\ log \in Seq(Event)
  /\ backend = "redis" => Len(buffer) <= BufferMax
  /\ chan \in [Clients -> Seq(Event)] /\ seen \in [Clients -> Seq(Event)]
  /\ reader \in [Clients -> [pc : {"away", "replay", "replaying", "sub", "check", "listen"},
                             host : Instances, last : Nat, sent : Nat, prev : Nat, pend : Seq(Event),
                             over : BOOLEAN, closed : BOOLEAN, tries : Nat]]

Position(ev) == CHOOSE n \in DOMAIN log : log[n] = ev

(* A client sees the events in the order in which they were stored and none  *)
(* of them twice, over all its connections, although replay and the live     *)
(* stream overlap and Redis writes are repeated.                             *)
InOrder ==
  \A c \in Clients : \A m, n \in DOMAIN seen[c] :
    m < n => Position(seen[c][m]) < Position(seen[c][n])

(* A client misses nothing: what it has seen is a prefix of what was stored. *)
Gapless == \A c \in Clients : IsPrefix(seen[c], log)

(* The in-memory broker loses nothing between replay and live events. *)
MemoryGapless == backend = "memory" => Gapless

(* Nothing but another end event is stored after an end event: that is what  *)
(* _check_end_in_buffer relies on when it looks at the last event only.      *)
EndIsLast ==
  \A m, n \in DOMAIN log : m < n /\ log[m].kind = "end" => log[n].kind = "end"

(* No stream stays open after its run: _signal_end_event publishes an end    *)
(* event "so SSE consumers close cleanly".                                   *)
AlwaysClose ==
  \A c \in Clients : (run = "over" /\ reader[c].pc # "away") ~> reader[c].pc = "away"

(* A stream does not stay open after its run, as long as what goes wrong is  *)
(* something the code absorbs: the end event reaches it, or is found in the  *)
(* buffer after SUBSCRIBE.                                                   *)
StreamsClose ==
  \A c \in Clients : (run = "over" /\ reader[c].pc # "away") ~>
                       (reader[c].pc = "away" \/ ~(used \subseteq {"redis", "clock"}))

(* A client that connects to a run that is over does not hang: "Using        *)
(* get_broker avoids creating a blank broker that would hang forever in      *)
(* aiter()".                                                                 *)
ReconnectsClose ==
  \A c \in Clients : (reader[c].pc # "away" /\ reader[c].over) ~> reader[c].pc = "away"
=============================================================================
