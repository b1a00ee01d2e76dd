--------------------------- MODULE GraphStreaming ---------------------------
(* What becomes of the events of one graph execution                           *)
(* (usecase/streaming/graph_streaming.py, run_executor._stream_legacy): the    *)
(* stream modes LangGraph is asked for, the events the client is sent for the  *)
(* modes it asked for, and the output and interrupt the run is finalized with. *)
(* The graph is LangGraph's: it emits in the modes it was asked for, streams a *)
(* message under one id either in parts or whole, and stops at an interrupt.   *)
EXTENDS Naturals, Sequences

CONSTANTS
  ModeSets,    \* sets of stream modes a client asks for
  Ids,         \* message ids; NoId is a message without one
  MaxEmits     \* bound on what the graph emits

VARIABLES
  modes, subgraphs,    \* the request
  rooted,              \* the root run goes by the run's id
  at,                  \* "start", "run", "paused" (interrupted), "done"
  emitted,             \* number of emissions, used as their content
  parts,               \* history: parts[m], the parts the graph emitted of m
  whole,               \* ids the graph emitted as complete messages
  state, asked,        \* history: the last root state; a non-empty interrupt was raised
  messages,            \* messages[m]: accumulated so far, of the ids seen
  out,                 \* the events put to the broker
  output, interrupt    \* _GraphResult: data, has_interrupt

vars == <<modes, subgraphs, rooted, at, emitted, parts, whole, state, asked, messages, out,
          output, interrupt>>
request == <<modes, subgraphs, rooted>>
graph == <<parts, whole, state, asked>>

NoId == "noid"
Root == "root"
Sub == "sub"
Empty == [m \in {} |-> <<>>]

(* create_run_config forces configurable.run_id and keeps a run_id the client's *)
(* config gives, which is then the root run's.                                 *)
Init ==
  /\ modes \in ModeSets /\ subgraphs \in BOOLEAN /\ rooted \in BOOLEAN
  /\ at = "start" /\ emitted = 0 /\ parts = Empty /\ whole = {} /\ state = 0
  /\ asked = FALSE /\ messages = Empty /\ out = <<>> /\ output = 0 /\ interrupt = FALSE

(* The modes LangGraph is asked for: debug always, updates always (they carry  *)
(* the interrupts), messages for messages-tuple, events not at all.            *)
Asked ==
  (modes \ {"events", "messages-tuple"}) \cup {"debug", "updates"}
    \cup (IF "messages-tuple" \in modes THEN {"messages"} ELSE {})

(* Events of a namespace come only when subgraphs were asked for. *)
Namespaces == IF subgraphs THEN {Root, Sub} ELSE {Root}

(* An event of the stream: its name, its namespace, what it holds, and whether *)
(* that is an interrupt.                                                       *)
Event(name, ns, body) == [event |-> name, ns |-> ns, body |-> body, interrupt |-> FALSE]

(* _stream_legacy: every event goes to the broker; one that holds an interrupt *)
(* is noted, and values, of whatever namespace, are the output so far.         *)
IsState(e) == e.event = "values"

States(events) == {i \in DOMAIN events : IsState(events[i])}
LastState(events) == CHOOSE i \in States(events) : \A j \in States(events) : j <= i

Yield(events) ==
  /\ out' = out \o events
  /\ interrupt' = (interrupt \/ \E i \in DOMAIN events : events[i].interrupt)
  /\ output' = IF States(events) = {} THEN output ELSE events[LastState(events)].body

(* The execution begins with the metadata event. *)
Start ==
  /\ at = "start" /\ at' = "run"
  /\ Yield(<<Event("metadata", Root, 0)>>)
  /\ UNCHANGED <<request, emitted, graph, messages>>

Running == at = "run" /\ emitted < MaxEmits

(* astream_events wraps every chunk in an event of its own, sent when asked for. *)
Wrapped(events) ==
  IF "events" \in modes THEN Append(events, Event("events", Root, emitted + 1)) ELSE events

(* astream_events' chunks are processed when they are the root run's by its id; *)
(* astream's are all processed.                                                *)
Followed == "events" \in modes => rooted

(* values, custom, and updates and debug without an interrupt: passed on when  *)
(* the client asked for the mode.                                              *)
Emit(mode, ns) ==
  /\ Running /\ Followed /\ mode \in Asked
  /\ emitted' = emitted + 1
  /\ state' = IF mode = "values" /\ ns = Root THEN emitted' ELSE state
  /\ Yield(Wrapped(IF mode \in modes THEN <<Event(mode, ns, emitted')>> ELSE <<>>))
  /\ UNCHANGED <<request, at, parts, whole, asked, messages>>

(* updates with __interrupt__, which is empty for a static breakpoint: as      *)
(* updates when they were asked for, where the key alone counts; else remapped *)
(* to values, unless it is empty.                                              *)
RemapsAfterAdding == "updates" \notin Asked
Remaps == "updates" \notin modes

Interrupt(ns, empty) ==
  /\ Running /\ Followed
  /\ emitted' = emitted + 1
  /\ LET told(name) == <<[Event(name, ns, emitted') EXCEPT !.interrupt = TRUE]>> IN
     Yield(Wrapped(CASE "updates" \in modes -> told("updates")
                     [] "updates" \notin modes /\ Remaps /\ ~empty -> told("values")
                     [] OTHER -> <<>>))
  /\ asked' = (asked \/ ~empty)
  /\ at' = IF ns = Root THEN "paused" ELSE at
  /\ UNCHANGED <<request, parts, whole, state, messages>>

(* The messages mode without messages-tuple: what was seen of the id so far and *)
(* this; the metadata when the id is new or there is none.                     *)
Accumulated(old, part) == Append(old, part)

Tracked(m, part) ==
  IF m = NoId THEN <<part>>
  ELSE Accumulated(IF m \in DOMAIN messages THEN messages[m] ELSE <<>>, part)

Announced(m) == m \in DOMAIN messages

Message(m, ns, kind) ==
  /\ Running /\ Followed /\ "messages" \in Asked
  /\ m \notin whole
  /\ kind = "complete" => m \notin DOMAIN parts
  /\ emitted' = emitted + 1
  /\ whole' = IF kind = "complete" /\ m # NoId THEN whole \cup {m} ELSE whole
  /\ parts' = IF m = NoId THEN parts
              ELSE [k \in DOMAIN parts \cup {m} |->
                     IF k # m THEN parts[k]
                     ELSE Append(IF m \in DOMAIN parts THEN parts[m] ELSE <<>>, emitted')]
  /\ IF "messages-tuple" \in modes
     THEN /\ Yield(Wrapped(<<Event("messages", ns, [id |-> m, text |-> <<emitted'>>])>>))
          /\ UNCHANGED messages
     ELSE LET text == Tracked(m, emitted')
              event == IF kind = "part" THEN "messages/partial" ELSE "messages/complete"
              told == <<Event(event, Root, [id |-> m, text |-> text])>> IN
          /\ messages' = IF m = NoId THEN messages
                         ELSE [k \in DOMAIN messages \cup {m} |->
                                IF k = m THEN text ELSE messages[k]]
          /\ Yield(Wrapped(IF Announced(m) THEN told
                           ELSE <<Event("messages/metadata", Root, [id |-> m, text |-> <<>>])>>
                                  \o told))
  /\ UNCHANGED <<request, at, state, asked>>

(* The other events of astream_events; the hidden ones are dropped. *)
Raw(hidden) ==
  /\ Running /\ "events" \in modes
  /\ emitted' = emitted + 1
  /\ Yield(IF hidden THEN <<>> ELSE <<Event("events", Root, emitted')>>)
  /\ UNCHANGED <<request, at, graph, messages>>

(* A chunk of a root run by another id is an event like the others, whatever it *)
(* holds: the state of the graph, or an interrupt.                             *)
Unfollowed ==
  /\ Running /\ ~Followed
  /\ emitted' = emitted + 1
  /\ state' \in {state, emitted'} /\ asked' \in {asked, TRUE}
  /\ Yield(<<Event("events", Root, emitted')>>)
  /\ UNCHANGED <<request, at, parts, whole, messages>>

(* The graph is done, or fails: the end event, or error and end. *)
Finish(ok) ==
  /\ at = "run" \/ (at = "paused" /\ ok)
  /\ at' = "done"
  /\ Yield((IF ok THEN <<>> ELSE <<Event("error", Root, 0)>>) \o <<Event("end", Root, 0)>>)
  /\ UNCHANGED <<request, emitted, graph, messages>>

Next ==
  \/ Start
  \/ \E mode \in {"values", "updates", "debug", "custom"}, ns \in Namespaces : Emit(mode, ns)
  \/ \E ns \in Namespaces, empty \in BOOLEAN : Interrupt(ns, empty)
  \/ \E m \in Ids \cup {NoId}, ns \in Namespaces, kind \in {"part", "complete"} :
       Message(m, ns, kind)
  \/ \E hidden \in BOOLEAN : Raw(hidden)
  \/ Unfollowed
  \/ \E ok \in BOOLEAN : Finish(ok)

Spec == Init /\ [][Next]_vars

---------------------------------------------------------------------------
(* Types. *)
TypeOK ==
  /\ at \in {"start", "run", "paused", "done"} /\ emitted \in 0 .. MaxEmits
  /\ whole \subseteq Ids /\ DOMAIN messages \subseteq Ids
  /\ state \in 0 .. MaxEmits /\ output \in 0 .. MaxEmits
  /\ {rooted, asked, interrupt} \subseteq BOOLEAN

(* An interrupt of the graph, or of a subgraph whose events were asked for, is *)
(* never lost unless it is empty or the graph's chunks are not followed: the   *)
(* run will be finalized as interrupted (run_executor.py:222), and the client  *)
(* is told, whatever set of stream modes it asked for.                         *)
InterruptTold == Followed /\ asked => interrupt /\ \E i \in DOMAIN out : out[i].interrupt

(* A messages/partial or messages/complete event holds all that the graph has  *)
(* emitted of the message so far, parts of several messages and other events   *)
(* interleaved as they may be, and the message's metadata came once, before.   *)
MessagesWhole ==
  \A i \in DOMAIN out :
    out[i].event \in {"messages/partial", "messages/complete"} /\ out[i].body.id # NoId =>
      LET m == out[i].body.id
          Of(name, j) == out[j].event = name /\ out[j].body.id = m
          before == {j \in 1 .. i : Of("messages/partial", j) \/ Of("messages/complete", j)} IN
      /\ out[i].body.text = SubSeq(parts[m], 1, Len(out[i].body.text))
      /\ \A j \in before \ {i} : Len(out[j].body.text) < Len(out[i].body.text)
      /\ \E j \in 1 .. i : /\ Of("messages/metadata", j)
                           /\ \A k \in DOMAIN out \ {j} : ~Of("messages/metadata", k)

(* The output a run is finalized with is the last state of the root graph, when *)
(* the client asked for values, the graph's chunks are followed, and neither an *)
(* interrupt nor a subgraph's values came after it (run_executor.py:224).      *)
OutputIsState ==
  Followed /\ "values" \in modes =>
    \/ output = state
    \/ \E i \in DOMAIN out :
         /\ out[i].event = "values" /\ (out[i].interrupt \/ out[i].ns = Sub)
         /\ \A j \in DOMAIN out : out[j].event = "values" => j <= i
=============================================================================
