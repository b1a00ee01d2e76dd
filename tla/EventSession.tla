---------------------------- MODULE EventSession ----------------------------
(***************************************************************************)
(* The thread-scoped event stream of protocol v2 (ThreadEventSession): one *)
(* client follows all runs of a thread, drops the connection whenever it   *)
(* likes and comes back with the last seq it saw.  A session replays each  *)
(* run's broker, then tails it, projects every raw event onto channel      *)
(* events and numbers them with one counter per session.                   *)
(*                                                                         *)
(* A raw event is its kind; the payload is left out.  The graph of a run   *)
(* opens the subgraph "a" and inside it "b", and may interrupt once.       *)
(***************************************************************************)
EXTENDS Naturals, Sequences, FiniteSets, SequencesExt

CONSTANTS NRuns,        \* runs of the thread, numbered by created_at
          Scripts,      \* the raw events a graph would publish, to the end
          MaxSessions,  \* connections the client opens
          Capacity,     \* _REPLAY_MAX_EVENTS, the length of a replay buffer
          Faults,       \* subset of {"expire", "trim", "replay", "gap", "overtake"}
          ChannelSets   \* the channel lists the client asks for

VARIABLES script,   \* script[r]: what run r publishes if nothing cuts it short
          log,      \* log[r]: raw events published for run r
          status,   \* status[r]: "absent" (not committed), "live", "done"
          gone,     \* gone[r]: events of r that the replay buffer no longer holds
          ses,      \* the session of the open connection
          client,   \* what the client has: its cursor, open subgraphs, ...
          faults    \* faults that have happened

vars == <<script, log, status, gone, ses, client, faults>>

Runs == 1..NRuns
Raw == {"values", "interrupt", "interruptValues", "root",
        "start.a", "start.b", "done.a", "done.b"}
Outer == <<"a">>
Inner == <<"a", "b">>
Namespaces == {Outer, Inner}
NsOf(kind) == IF kind \in {"start.a", "done.a"} THEN Outer ELSE Inner

-----------------------------------------------------------------------------
(* Projection of one raw event: ThreadEventSession._channel_events.        *)

Event(channel, what, ns) == [channel |-> channel, what |-> what, ns |-> ns]

\* Mutant: the same interrupt is announced by updates and by values.
InputRequestsAlways(s) == <<Event("input", "requested", <<>>)>>

\* _input_request_events: at most once per interrupt id of the run.
InputRequests(s) ==
    IF s.sent THEN <<>> ELSE <<Event("input", "requested", <<>>)>>

\* Mutant: only the root status is sent at the end.
ClosingRoot(s) == <<Event("lifecycle", "terminal", <<>>)>>

\* _lifecycle: close what is open, the deepest first, then the root.
Closing(s) ==
    LET closed(n) == IF n \in s.open
                     THEN <<Event("lifecycle", "completed", n)>> ELSE <<>>
    IN closed(Inner) \o closed(Outer)
       \o <<Event("lifecycle", "terminal", <<>>)>>

ChannelEvents(s, kind) ==
    CASE kind = "seed"      -> <<Event("lifecycle", "running", <<>>)>>
      [] kind = "values"    -> <<Event("values", "state", <<>>)>>
      [] kind = "interrupt" -> InputRequests(s)
      [] kind = "interruptValues" ->
             InputRequests(s) \o <<Event("values", "state", <<>>)>>
      [] kind = "root"      -> <<>>
      [] kind \in {"start.a", "start.b"} ->
             <<Event("lifecycle", "started", NsOf(kind))>>
      [] kind \in {"done.a", "done.b"} ->
             <<Event("lifecycle", "completed", NsOf(kind))>>
      [] kind = "end"       -> Closing(s)

\* The bookkeeping of a session after it projected a raw event.
Noted(s, kind) ==
    [s EXCEPT
        !.sent = @ \/ kind \in {"interrupt", "interruptValues"},
        !.open = CASE kind \in {"start.a", "start.b"} -> @ \cup {NsOf(kind)}
                   [] kind \in {"done.a", "done.b"}   -> @ \ {NsOf(kind)}
                   [] kind = "end"                    -> {}
                   [] OTHER                           -> @]

-----------------------------------------------------------------------------
(* Delivery.  The position <<run, raw position, index>> of a channel event *)
(* is its identity: it does not depend on the session that sends it.       *)

Before(p, q) == \/ p[1] < q[1]
                \/ p[1] = q[1] /\ p[2] < q[2]
                \/ p[1] = q[1] /\ p[2] = q[2] /\ p[3] < q[3]

\* Mutant: seq counts only the events of the subscribed channels.
NumberedWanted(s, events) ==
    [i \in DOMAIN events |->
        s.seq + Cardinality({j \in 1..i : events[j].channel \in s.wants})]

\* _emit: seq counts every event, filtered or not; since cuts the front.
Numbered(s, events) == [i \in DOMAIN events |-> s.seq + i]

\* Mutant: the event with the client's own cursor is sent again.
AlreadySeenBelow(s, seq) == seq < s.since

\* What the client said it has seen.
AlreadySeen(s, seq) == seq <= s.since

\* What the client makes of an event of run r: asked counts the interrupts of
\* the run it is at.
Seen(c, e, r) ==
    [c EXCEPT !.open = CASE e.what = "started"   -> @ \cup {e.ns}
                         [] e.what = "completed" -> @ \ {e.ns}
                         [] OTHER                -> @,
              !.stuck = @ \/ (e.what = "terminal" /\ c.open # {} /\ ~c.blind),
              !.inverted = @ \/ (e.what = "completed" /\ ~c.blind
                                 /\ \E n \in c.open : Len(n) > Len(e.ns)),
              !.asked = (IF r = c.at[1] THEN @ ELSE 0)
                        + (IF e.what = "requested" THEN 1 ELSE 0)]

\* The client receives, or misses, one numbered event of the session.
Receive(c, s, e, seq, pos) ==
    IF e.channel \notin s.wants
    THEN [c EXCEPT !.blind = @ \/ (e.channel = "lifecycle")]
    ELSE IF AlreadySeen(s, seq)
    THEN [c EXCEPT !.lost = @ \/ Before(c.at, pos)]
    ELSE [Seen(c, e, pos[1]) EXCEPT !.last = seq, !.at = pos,
                            !.twice = @ \/ ~Before(c.at, pos)]

\* _project and _emit for one raw event at position p of the run's log.
Projected(kind, p) ==
    LET events == ChannelEvents(ses, kind)
        seqs   == Numbered(ses, events)
        after[i \in 0..Len(events)] ==
            IF i = 0 THEN client
            ELSE Receive(after[i - 1], ses, events[i], seqs[i],
                         <<ses.run, p, i>>)
    IN /\ client' = after[Len(events)]
       /\ ses' = [Noted(ses, kind) EXCEPT
                     !.pos = p,
                     !.seq = IF events = <<>> THEN @ ELSE Last(seqs),
                     !.phase = IF kind = "end" THEN "next" ELSE @]

-----------------------------------------------------------------------------
Closed == [phase |-> "closed", wants |-> {}, since |-> 0, seq |-> 0,
           queue |-> <<>>, listed |-> "live", drained |-> {}, run |-> 0,
           pos |-> 0, have |-> 0, sent |-> FALSE, open |-> {}]

Init ==
    /\ script \in [Runs -> Scripts]
    /\ log = [r \in Runs |-> <<>>]
    /\ status = [r \in Runs |-> "absent"]
    /\ gone = [r \in Runs |-> 0]
    /\ ses = Closed
    /\ client = [sessions |-> 0, last |-> 0, at |-> <<0, 0, 0>>, open |-> {},
                 asked |-> 0, lost |-> FALSE, twice |-> FALSE,
                 stuck |-> FALSE, inverted |-> FALSE, blind |-> FALSE]
    /\ faults = {}

Fault(f) == f \in Faults /\ faults' = faults \cup {f}

(* The runs.  A run becomes visible when its transaction commits; one with *)
(* an earlier created_at may commit after a later one.                     *)
CommitRun(r) ==
    /\ status[r] = "absent"
    /\ status' = [status EXCEPT ![r] = "live"]
    /\ IF \E q \in r + 1..NRuns : status[q] # "absent"
       THEN Fault("overtake")
       ELSE UNCHANGED faults
    /\ UNCHANGED <<script, log, gone, ses, client>>

\* broker.put: the buffer is cut to its length at the front.
Put(r, kind) ==
    LET length == Len(log[r]) + 1 - gone[r]
    IN /\ log' = [log EXCEPT ![r] = Append(@, kind)]
       /\ IF length > Capacity
          THEN gone' = [gone EXCEPT ![r] = @ + 1] /\ Fault("trim")
          ELSE UNCHANGED <<gone, faults>>

Publish(r) ==
    /\ status[r] = "live" /\ Len(log[r]) < Len(script[r])
    /\ Put(r, script[r][Len(log[r]) + 1])
    /\ UNCHANGED <<script, status, ses, client>>

Finish(r) ==
    /\ status[r] = "live"
    /\ status' = [status EXCEPT ![r] = "done"]
    /\ UNCHANGED <<script, log, gone, ses, client, faults>>

\* The end event follows the status; it may also never be published.
PublishEnd(r) ==
    /\ status[r] = "done" /\ ~Contains(log[r], "end")
    /\ Put(r, "end")
    /\ UNCHANGED <<script, status, ses, client>>

\* The replay buffer is deleted a retention time after its last event, under
\* a run that is over and under one that is silent for so long.
Expire(r) ==
    /\ gone[r] < Len(log[r])
    /\ gone' = [gone EXCEPT ![r] = Len(log[r])]
    /\ Fault("expire")
    /\ UNCHANGED <<script, log, status, ses, client>>

-----------------------------------------------------------------------------
(* The session: stream() and _drain_run.                                   *)

Connect(wants) ==
    /\ ses.phase = "closed" /\ client.sessions < MaxSessions
    /\ ses' = [Closed EXCEPT !.phase = "list", !.wants = wants,
                             !.since = client.last]
    /\ client' = [client EXCEPT !.sessions = @ + 1]
    /\ UNCHANGED <<script, log, status, gone, faults>>

\* _fresh_runs: the visible runs, in created_at order, with their status.
FreshRuns ==
    /\ ses.phase = "list"
    /\ LET fresh == {r \in Runs : status[r] # "absent"} \ ses.drained
       IN /\ fresh # {}
          /\ ses' = [ses EXCEPT
                !.phase = "next",
                !.queue = [r \in fresh |-> status[r]]]
    /\ UNCHANGED <<script, log, status, gone, client, faults>>

\* The run before is drained; the next one of the listing is opened.
NextRun ==
    /\ ses.phase = "next"
    /\ LET done == IF ses.run = 0 THEN ses.drained
                   ELSE ses.drained \cup {ses.run}
           first == Min(DOMAIN ses.queue)
       IN ses' = IF DOMAIN ses.queue = {}
                 THEN [ses EXCEPT !.phase = "list", !.run = 0,
                                  !.drained = done]
                 ELSE [ses EXCEPT !.phase = "open",
                                  !.queue = [r \in DOMAIN ses.queue \ {first} |->
                                               ses.queue[r]],
                                  !.drained = done, !.sent = FALSE,
                                  !.open = {}, !.pos = 0,
                                  !.run = first,
                                  !.listed = ses.queue[first]]
    /\ UNCHANGED <<script, log, status, gone, client, faults>>

\* broker.replay(None): the position after which the events are answered, up
\* to the newest; a RedisError answers none.
ReplaysFrom(r, fails) == IF fails THEN Len(log[r]) ELSE gone[r]

\* A finished run without events is passed over.
OpenRun(fails) ==
    /\ ses.phase = "open"
    /\ LET from    == ReplaysFrom(ses.run, fails)
           events  == Len(log[ses.run]) - from
           skipped == ses.listed = "done" /\ events = 0
       IN /\ IF skipped
             THEN ses' = [ses EXCEPT !.phase = "next"] /\ UNCHANGED client
             ELSE /\ client' = Receive(client, ses,
                                       Event("lifecycle", "running", <<>>),
                                       ses.seq + 1, <<ses.run, 0, 1>>)
                  /\ ses' = [ses EXCEPT !.phase = "replay", !.seq = @ + 1,
                                        !.pos = from, !.have = from + events]
          /\ IF fails THEN Fault("replay")
             ELSE faults' = IF skipped /\ log[ses.run] = <<>>
                            THEN faults \cup {"silent"} ELSE faults
    /\ UNCHANGED <<script, log, status, gone>>

Replay ==
    /\ ses.phase = "replay" /\ ses.pos < ses.have
    /\ Projected(log[ses.run][ses.pos + 1], ses.pos + 1)
    /\ UNCHANGED <<script, log, status, gone, faults>>

\* The listed status says the run is over but the end frame was lost.
StatusEnd ==
    /\ ses.phase = "replay" /\ ses.pos = ses.have
    /\ ses.listed = "done"
    /\ Projected("end", ses.pos + 1)
    /\ UNCHANGED <<script, log, status, gone, faults>>

\* broker.aiter(): the events that follow the ones replayed.
Follow ==
    /\ ses.phase = "replay" /\ ses.pos = ses.have
    /\ ses.listed = "live"
    /\ ses' = [ses EXCEPT !.phase = "tail"]
    /\ UNCHANGED <<script, log, status, gone, client, faults>>

TailEvent ==
    /\ ses.phase = "tail" /\ ses.pos < Len(log[ses.run])
    /\ Projected(log[ses.run][ses.pos + 1], ses.pos + 1)
    /\ UNCHANGED <<script, log, status, gone, faults>>

\* The live stream passes over an event (see EventStream's Gapless).
TailGap ==
    /\ ses.phase = "tail" /\ ses.pos + 1 < Len(log[ses.run])
    /\ ses' = [ses EXCEPT !.pos = @ + 1]
    /\ Fault("gap")
    /\ UNCHANGED <<script, log, status, gone, client>>

\* The client leaves, or the idle grace of the stream is over.
Disconnect ==
    /\ ses.phase # "closed"
    /\ ses' = Closed
    /\ UNCHANGED <<script, log, status, gone, client, faults>>

Next ==
    \/ \E r \in Runs : CommitRun(r) \/ Publish(r) \/ Finish(r) 
                        \/ PublishEnd(r) \/ Expire(r)
    \/ \E w \in ChannelSets : Connect(w)
    \/ \E fails \in BOOLEAN : OpenRun(fails)
    \/ FreshRuns \/ NextRun \/ Replay \/ StatusEnd \/ Follow
    \/ TailEvent \/ TailGap \/ Disconnect

Spec == Init /\ [][Next]_vars

-----------------------------------------------------------------------------
(* Properties *)

\* Type correctness of the thread, the session and the client.
TypeOK ==
    /\ log \in [Runs -> Seq(Raw \cup {"end"})]
    /\ status \in [Runs -> {"absent", "live", "done"}]
    /\ \A r \in Runs : gone[r] \in 0..Len(log[r]) /\ Len(log[r]) - gone[r] <= Capacity
    /\ ses.phase \in {"closed", "list", "next", "open", "replay", "tail"}
    /\ ses.run \in 0..NRuns /\ ses.drained \subseteq Runs
    /\ ses.open \subseteq Namespaces /\ ses.since \in Nat /\ ses.seq \in Nat
    /\ client.open \subseteq Namespaces /\ client.last \in Nat
    /\ faults \subseteq Faults \cup {"silent"}

\* A client that reconnects with its cursor, with whatever channels, misses
\* no event after the last one it saw, unless the replay buffer lost events
\* (expired, or cut at its capacity, also under a run that goes on) or could
\* not be read, the live stream had a gap, a run committed behind a later one,
\* or a run that was over without an event was passed over after its "running"
\* had been sent: each of them renumbers what follows.
ResumesUnlessFaulted == client.lost => faults # {}

\* ... and is sent no event a second time: a buffer that is cut makes numbers
\* smaller and never larger, so that it can hide events but not repeat them.
NoRepeatUnlessFaulted == client.twice => faults \ {"trim"} # {}

\* A client that has followed the lifecycle channel sees every subgraph
\* closed, inner before outer, when it sees the run's terminal status, also
\* when the run was cancelled inside a subgraph or its end frame was lost.
SubgraphsClosed == faults = {} => ~client.stuck /\ ~client.inverted

\* An interrupt is put to the user once per run although it arrives both as
\* an update and in the next values snapshot, and on every reconnection, also
\* when the buffer was cut between the two.
InterruptAskedOnce == faults \subseteq {"trim"} => client.asked <= 1
=============================================================================
