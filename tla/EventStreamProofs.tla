-------------------------- MODULE EventStreamProofs --------------------------
(***************************************************************************)
(* What EventStream guarantees for any number of clients and processes and *)
(* with every fault: its type invariant, with the discipline of the write  *)
(* locks and the trimmed buffer, that an end event ends the stream, that   *)
(* over the in-memory broker nothing is lost or seen out of order, and     *)
(* that over Redis nothing is seen out of order or twice.                  *)
(***************************************************************************)
EXTENDS EventStream, TLAPS, SequenceTheorems, WellFoundedInduction, FiniteSetTheorems

(***************************************************************************)
(* Numbers.  The library proves induction with an operator as a parameter, *)
(* but it also has the well-foundedness of the naturals as a fact about    *)
(* sets: a set of counterexamples has a least element.                     *)
(***************************************************************************)

(* Every set of naturals that is not empty has a least element. *)
LEMMA LeastNumber ==
  ASSUME NEW T \in SUBSET Nat, T # {}
  PROVE  \E n \in T : \A m \in T : n <= m
<1> DEFINE R == OpToRel(<, Nat)
<1>1. IsWellFoundedOn(R, Nat)
  BY NatLessThanWellFounded
<1>2. \A x, y \in Nat : x < y => <<x, y>> \in R
  BY DEF OpToRel
<1> HIDE DEF R
<1>3. PICK n \in T : \A y \in T : <<y, n>> \notin R
  BY <1>1, WFMin
<1>4. ASSUME NEW m \in T PROVE n <= m
  <2>1. m \in Nat /\ n \in Nat
    OBVIOUS
  <2>2. ~ (m < n)
    BY <1>2, <1>3, <2>1, Zenon
  <2> QED BY <2>1, <2>2, SMT
<1> QED BY <1>4

(* The set of the numbers of a range can be listed in increasing order. *)
Increasing(f) == \A m, n \in DOMAIN f : m < n => f[m] < f[n]
Listed(S) == \E k \in Nat : \E f \in Bijection(1 .. k, S) : Increasing(f)

LEMMA RangesListed ==
  ASSUME NEW k \in Nat, NEW S \in SUBSET (1 .. k)
  PROVE  Listed(S)
<1> DEFINE Bad == {n \in Nat : \E T \in SUBSET (1 .. n) : ~ Listed(T)}
<1>1. SUFFICES Bad = {}
  OBVIOUS
<1>2. SUFFICES ASSUME Bad # {} PROVE FALSE
  OBVIOUS
<1>3. PICK n \in Bad : \A m \in Bad : n <= m
  BY <1>2, LeastNumber
<1>4. PICK T \in SUBSET (1 .. n) : ~ Listed(T)
  OBVIOUS
<1>5. n # 0
  <2> SUFFICES ASSUME n = 0 PROVE FALSE
    OBVIOUS
  <2>1. T = {} /\ 1 .. 0 = {}
    OBVIOUS
  <2>2. [x \in 1 .. 0 |-> x] \in Bijection(1 .. 0, T)
    BY <2>1 DEF Bijection, Injection, Surjection, IsInjective
  <2>3. Increasing([x \in 1 .. 0 |-> x])
    BY <2>1 DEF Increasing
  <2> QED BY <1>4, <2>2, <2>3 DEF Listed
<1>6. n - 1 \in Nat /\ n - 1 \notin Bad
  BY <1>3, <1>5
<1>7. T \ {n} \in SUBSET (1 .. n - 1)
  OBVIOUS
<1>8. Listed(T \ {n})
  BY <1>6, <1>7
<1>9. n \in T
  <2> SUFFICES ASSUME n \notin T PROVE FALSE
    OBVIOUS
  <2>1. T \ {n} = T
    OBVIOUS
  <2> QED BY <1>4, <1>8, <2>1
<1>10a. PICK j \in Nat : \E f \in Bijection(1 .. j, T \ {n}) : Increasing(f)
  BY <1>8 DEF Listed
<1>10. PICK f \in Bijection(1 .. j, T \ {n}) : Increasing(f)
  BY <1>10a
<1> DEFINE g == [x \in 1 .. j + 1 |-> IF x = j + 1 THEN n ELSE f[x]]
<1>11. f \in [1 .. j -> T \ {n}] /\ \A x, y \in 1 .. j : f[x] = f[y] => x = y
  BY DEF Bijection, Injection, IsInjective
<1>12. \A t \in T \ {n} : \E x \in 1 .. j : f[x] = t
  BY DEF Bijection, Surjection
<1>13. ASSUME NEW x \in 1 .. j PROVE f[x] \in T /\ f[x] < n /\ f[x] \in Int
  <2>1. f[x] \in T \ {n}
    BY <1>11
  <2>2. f[x] \in 1 .. n - 1
    BY <2>1, <1>7
  <2> QED BY <2>1, <2>2
<1>14. \A x \in 1 .. j : x \in 1 .. j + 1 /\ x # j + 1 /\ g[x] = f[x]
  OBVIOUS
<1>15. j + 1 \in 1 .. j + 1 /\ g[j + 1] = n /\ \A x \in 1 .. j + 1 : x = j + 1 \/ x \in 1 .. j
  OBVIOUS
<1>16. g \in [1 .. j + 1 -> T] /\ DOMAIN g = 1 .. j + 1
  BY <1>9, <1>13, <1>15
<1> HIDE DEF g
<1>17. \A x, y \in 1 .. j + 1 : g[x] = g[y] => x = y
  BY <1>11, <1>13, <1>14, <1>15
<1>18. \A t \in T : \E x \in 1 .. j + 1 : g[x] = t
  BY <1>12, <1>14, <1>15
<1>19. g \in Bijection(1 .. j + 1, T)
  BY <1>16, <1>17, <1>18 DEF Bijection, Injection, Surjection, IsInjective
<1>20. \A x, y \in 1 .. j + 1 : x < y => g[x] < g[y]
  <2> SUFFICES ASSUME NEW x \in 1 .. j + 1, NEW y \in 1 .. j + 1, x < y PROVE g[x] < g[y]
    OBVIOUS
  <2>1. x \in 1 .. j
    OBVIOUS
  <2>2. CASE y = j + 1
    BY <2>1, <2>2, <1>13, <1>14, <1>15
  <2>3. CASE y \in 1 .. j
    BY <2>1, <2>3, <1>10, <1>11, <1>14 DEF Increasing
  <2> QED BY <1>15, <2>2, <2>3
<1>21. Increasing(g)
  BY <1>16, <1>20 DEF Increasing
<1> QED BY <1>4, <1>19, <1>21 DEF Listed

(* What replay takes from the Redis list is a list of events. *)
LEMMA DeduplicatedType ==
  ASSUME buffer \in Seq(Event)
  PROVE  Deduplicated \in Seq(Event)
<1> DEFINE first == {n \in DOMAIN buffer : n = 1 \/ buffer[n].id # buffer[n - 1].id}
           F == [1 .. Cardinality(first) -> first]
           kept == CHOOSE f \in F : \A m, n \in DOMAIN f : m < n => f[m] < f[n]
<1>1. Len(buffer) \in Nat /\ DOMAIN buffer = 1 .. Len(buffer)
  OBVIOUS
<1>2. first \in SUBSET (1 .. Len(buffer))
  BY <1>1
<1>3. Listed(first)
  BY <1>1, <1>2, RangesListed
<1>4. PICK k \in Nat : \E f \in Bijection(1 .. k, first) : Increasing(f)
  BY <1>3 DEF Listed
<1>5. PICK f \in Bijection(1 .. k, first) : Increasing(f)
  BY <1>4
<1>6. Cardinality(first) = k
  <2> HIDE DEF first
  <2>1. ExistsBijection(1 .. k, first)
    BY <1>5 DEF ExistsBijection
  <2> QED BY <2>1, FS_CountingElements
<1>7. f \in F
  BY <1>5, <1>6 DEF Bijection, Injection
<1>8. kept \in F
  BY <1>5, <1>7 DEF Increasing
<1>9. Deduplicated = [n \in 1 .. k |-> buffer[kept[n]]]
  BY <1>6, <1>8 DEF Deduplicated
<1>10. ASSUME NEW n \in 1 .. k PROVE buffer[kept[n]] \in Event
  <2> HIDE DEF kept, first
  <2>1. kept[n] \in first
    BY <1>6, <1>8
  <2>2. kept[n] \in 1 .. Len(buffer)
    BY <1>2, <2>1
  <2> QED BY <2>2
<1> HIDE DEF kept
<1> QED BY <1>9, <1>10

(***************************************************************************)
(* The types, part by part.                                                *)
(***************************************************************************)
Put  == [pc : {"idle", "alloc", "put", "wait", "publish"}, ev : Event, dead : BOOLEAN]
Conn == [pc : {"away", "replay", "replaying", "sub", "check", "listen"}, host : Instances,
         last : Nat, sent : Nat, prev : Nat, pend : Seq(Event), over : BOOLEAN,
         closed : BOOLEAN, tries : Nat]
Stages == {"queued", "graph", "cancelled", "timed out", "success", "failed", "interrupted",
           "error", "ending", "finally", "done"}

ControlOK == /\ backend \in Backends /\ run \in {"active", "over"} /\ task \in Stages
             /\ cancel \in {"idle", "done"}
             /\ api \in {"idle", "stop", "signal", "cleanup", "done"}
OutOK     == out \in [Writers -> Put]
LockOK    == /\ lock \in [Instances -> Writers \cup {"none"}]
             /\ \A i \in Instances :
                  lock[i] # "none" => At(lock[i]) = i /\ out[lock[i]].pc = "publish"
BrokerOK  == broker \in [Instances -> {"none", "open", "finished"}]
CountsOK  == counter \in Nat /\ made \in Nat /\ used \subseteq Faults
BufferOK  == buffer \in Seq(Event) /\ (backend = "redis" => Len(buffer) <= BufferMax)
LogOK     == log \in Seq(Event)
ChanOK    == chan \in [Clients -> Seq(Event)]
SeenOK    == seen \in [Clients -> Seq(Event)]
ReaderOK  == reader \in [Clients -> Conn]

(* The parts are the type invariant. *)
LEMMA TypeParts ==
  TypeOK <=> /\ ControlOK /\ OutOK /\ LockOK /\ BrokerOK /\ CountsOK
             /\ BufferOK /\ LogOK /\ ChanOK /\ SeenOK /\ ReaderOK
BY DEF TypeOK, ControlOK, OutOK, LockOK, BrokerOK, CountsOK, BufferOK, LogOK, ChanOK, SeenOK,
       ReaderOK, Put, Conn, Stages

(* A writer starts a put only when its last one is over. *)
Idleness ==
  /\ cancel = "idle" => Idle("cancel")
  /\ api \in {"idle", "stop", "signal"} => Idle("api")
  /\ task \notin {"graph", "error", "ending"} => Idle("task")
  /\ backend = "memory" => Quiet

(* A request that reconciles finds no live owner. *)
Reconciled ==
  /\ api # "idle" => run = "over"
  /\ api # "idle" /\ backend = "redis" => task \in {"queued", "finally", "done"}
  /\ backend = "memory" => task # "timed out"

(***************************************************************************)
(* The broker's operations.                                                *)
(***************************************************************************)
(* The values that operations begin with. *)
LEMMA EventTypes ==
  /\ \A k \in Kinds : Fresh(k) \in Event
  /\ IdleOut \in Put /\ IdleOut.pc = "idle"
  /\ \A n \in Nat : Away(n) \in Conn
BY HostsAssumption DEF Fresh, Event, Kinds, IdleOut, Put, Away, Conn

LEMMA EventFields == \A e \in Event : e.id \in Nat /\ e.kind \in Kinds
BY DEF Event

LEMMA Hosts == Worker \in Instances /\ \A w : At(w) \in Instances
BY HostsAssumption DEF At

(* Finishing a broker object leaves its holders where they are. *)
LEMMA CloseOutType ==
  ASSUME NEW o \in [Writers -> Put], NEW ws
  PROVE  /\ CloseOut(o, ws) \in [Writers -> Put]
         /\ \A w \in Writers : /\ CloseOut(o, ws)[w].pc = o[w].pc
                               /\ CloseOut(o, ws)[w].ev = o[w].ev
BY DEF CloseOut, Put

LEMMA CloseReadersType ==
  ASSUME ReaderOK, NEW rs
  PROVE  /\ CloseReaders(rs) \in [Clients -> Conn]
         /\ \A c \in Clients : /\ CloseReaders(rs)[c].pc = reader[c].pc
                               /\ CloseReaders(rs)[c].sent = reader[c].sent
                               /\ CloseReaders(rs)[c].last = reader[c].last
                               /\ CloseReaders(rs)[c].pend = reader[c].pend
BY DEF CloseReaders, ReaderOK, Conn

(* Getting or creating a broker, storing and delivering. *)
LEMMA CreatedType ==
  ASSUME BrokerOK, NEW i \in Instances
  PROVE  Created(i) \in [Instances -> {"none", "open", "finished"}]
BY DEF Created, BrokerOK

LEMMA StoreType ==
  ASSUME BufferOK, NEW evs \in Seq(Event), Store(evs), backend' = backend
  PROVE  BufferOK'
<1> DEFINE b == buffer \o evs
<1>1. b \in Seq(Event) /\ Len(b) \in Nat
  BY DEF BufferOK
<1>2. CASE backend = "redis" /\ Len(b) > BufferMax
  <2> DEFINE m == Len(b) - BufferMax + 1
  <2>1. m \in Int /\ m >= 1 /\ BufferMax \in Nat
    BY <1>1, <1>2, BoundsAssumption
  <2>2. \A n \in m .. Len(b) : b[n] \in Event
    BY <1>1, <2>1
  <2>3. SubSeq(b, m, Len(b)) \in Seq(Event) /\ Len(SubSeq(b, m, Len(b))) <= BufferMax
    <3> HIDE DEF b, m
    <3>1. /\ SubSeq(b, m, Len(b)) \in Seq(Event)
          /\ Len(SubSeq(b, m, Len(b))) = IF m <= Len(b) THEN Len(b) - m + 1 ELSE 0
      BY <1>1, <2>1, <2>2, SubSeqProperties
    <3> QED BY <3>1, <1>1, <2>1 DEF m
  <2> QED BY <1>2, <2>3 DEF Store, BufferOK
<1>3. CASE ~(backend = "redis" /\ Len(b) > BufferMax)
  BY <1>1, <1>3, BoundsAssumption DEF Store, BufferOK
<1> QED BY <1>2, <1>3

LEMMA DeliverType ==
  ASSUME ChanOK, NEW evs \in Seq(Event), Deliver(evs)
  PROVE  ChanOK'
<1>1. \A c \in Clients : chan[c] \in Seq(Event) /\ chan[c] \o evs \in Seq(Event)
  BY DEF ChanOK
<1> QED BY <1>1 DEF Deliver, ChanOK

(* Everything but the control state and the locks. *)
DataOK == /\ OutOK /\ BrokerOK /\ CountsOK /\ BufferOK /\ LogOK
          /\ ChanOK /\ SeenOK /\ ReaderOK

(* A lock is held as long as its holder's put goes on. *)
LEMMA LockStays ==
  ASSUME LockOK, UNCHANGED <<lock, backend>>,
         \A w \in Writers : out[w].pc = "publish" => out'[w].pc = "publish"
  PROVE  LockOK'
<1>1. \A w : At(w)' = At(w)
  BY DEF At
<1> QED BY <1>1 DEF LockOK

(* A put of either backend. *)
LEMMA MemoryPutType ==
  ASSUME DataOK, NEW kind \in Kinds, MemoryPut(kind), backend' = backend, used' \subseteq Faults
  PROVE  DataOK'
<1> DEFINE ev == [id |-> counter + 1, kind |-> kind, no |-> made + 1]
<1>1. ev \in Event /\ counter' \in Nat /\ made' \in Nat
  BY DEF DataOK, CountsOK, Event, MemoryPut
<1>2. OutOK' /\ SeenOK' /\ CountsOK'
  BY <1>1 DEF DataOK, OutOK, SeenOK, CountsOK, MemoryPut
<1>3. CASE broker[Worker] = "finished"
  BY <1>2, <1>3 DEF MemoryPut, DataOK, BrokerOK, BufferOK, LogOK, ChanOK, ReaderOK
<1>4. CASE broker[Worker] # "finished"
  <2>1. /\ Store(<<ev>>) /\ log' = Append(log, ev) /\ Deliver(<<ev>>)
        /\ IF kind = "end"
           THEN broker' = [broker EXCEPT ![Worker] = "finished"] /\ reader' = CloseReaders(Readers(Worker))
           ELSE GetOrCreate(Worker) /\ UNCHANGED reader
    BY <1>4 DEF MemoryPut
  <2>2. <<ev>> \in Seq(Event)
    BY <1>1
  <2> HIDE DEF ev
  <2>3. BufferOK' /\ ChanOK'
    BY <2>1, <2>2, StoreType, DeliverType DEF DataOK
  <2>4. LogOK'
    BY <1>1, <2>1 DEF DataOK, LogOK
  <2>5. BrokerOK'
    BY <2>1, Hosts, CreatedType DEF DataOK, BrokerOK, GetOrCreate
  <2>6. ReaderOK'
    BY <2>1, CloseReadersType DEF DataOK, ReaderOK
  <2> QED BY <1>2, <2>3, <2>4, <2>5, <2>6 DEF DataOK
<1> QED BY <1>3, <1>4

LEMMA WriteType ==
  ASSUME DataOK, LockOK, NEW w \in Writers, Idle(w), NEW kind \in Kinds, Write(w, kind),
         UNCHANGED <<backend, lock>>
  PROVE  DataOK' /\ LockOK'
<1>1. CASE backend = "memory"
  <2>1. MemoryPut(kind) /\ used' = used
    BY <1>1 DEF Write
  <2>2. DataOK' /\ out' = out
    BY <2>1, MemoryPutType DEF MemoryPut, DataOK, CountsOK
  <2> QED BY <2>2, LockStays
<1>2. CASE backend # "memory"
  <2>1. BeginPut(w, kind)
    BY <1>2 DEF Write
  <2> DEFINE p == [pc |-> "alloc", ev |-> Fresh(kind),
                   dead |-> kind # "data" /\ broker[At(w)] = "finished"]
  <2>2. p \in Put
    BY EventTypes DEF Put
  <2>3. out' = [out EXCEPT ![w] = p] /\ UNCHANGED <<streams, clients, used>>
    BY <2>1 DEF BeginPut
  <2> HIDE DEF p
  <2>4. OutOK' /\ \A v \in Writers \ {w} : out'[v] = out[v]
    BY <2>2, <2>3 DEF DataOK, OutOK
  <2>5. BrokerOK'
    BY <2>1, Hosts, CreatedType DEF DataOK, BrokerOK, BeginPut
  <2>6. DataOK'
    BY <2>3, <2>4, <2>5
       DEF DataOK, CountsOK, BufferOK, LogOK, ChanOK, SeenOK, ReaderOK, streams, clients
  <2>7. LockOK'
    BY <2>4, LockStays DEF Idle
  <2> QED BY <2>6, <2>7
<1> QED BY <1>1, <1>2

(* The steps of a put over Redis. *)
LEMMA AllocateType ==
  ASSUME DataOK, LockOK, NEW w \in Writers, Allocate(w)
  PROVE  DataOK' /\ LockOK'
<1> DEFINE numbered(id) ==
             [out[w] EXCEPT !.pc = "put", !.ev = [@ EXCEPT !.id = id, !.no = made + 1]]
<1>1. counter \in Nat /\ made \in Nat /\ Stamp \in Nat /\ made' = made + 1
  BY BoundsAssumption DEF DataOK, CountsOK, Allocate
<1>2. CountsOK'
  BY <1>1 DEF DataOK, CountsOK, Allocate, Use
<1>3. ASSUME NEW id \in Nat PROVE numbered(id) \in Put
  <2> DEFINE e == [out[w].ev EXCEPT !.id = id, !.no = made + 1]
  <2>1. out[w] \in Put /\ out[w].ev \in Event
    BY DEF DataOK, OutOK, Put
  <2>2. e \in Event
    <3> DEFINE n == made + 1
    <3>1. n \in Nat
      BY <1>1
    <3> HIDE DEF n
    <3>2. [out[w].ev EXCEPT !.id = id, !.no = n] \in Event
      BY <2>1, <3>1 DEF Event
    <3> QED BY <3>2 DEF n
  <2>3. numbered(id) = [out[w] EXCEPT !.pc = "put", !.ev = e]
    OBVIOUS
  <2> HIDE DEF e
  <2>4. [out[w] EXCEPT !.pc = "put", !.ev = e] \in Put
    BY <2>1, <2>2 DEF Put
  <2> QED BY <2>3, <2>4
<1>4. PICK p \in Put : out' = [out EXCEPT ![w] = p]
  <2>1. counter + 1 \in Nat
    BY <1>1
  <2>2. \/ out' = [out EXCEPT ![w] = numbered(counter + 1)]
        \/ out' = [out EXCEPT ![w] = numbered(Stamp)]
    BY DEF Allocate
  <2> HIDE DEF numbered
  <2> QED BY <1>1, <1>3, <2>1, <2>2
<1>5. OutOK' /\ \A v \in Writers \ {w} : out'[v] = out[v]
  BY <1>4 DEF DataOK, OutOK
<1>6. LockOK'
  BY <1>5, LockStays DEF Allocate
<1> QED BY <1>2, <1>5, <1>6
       DEF Allocate, DataOK, BrokerOK, BufferOK, LogOK, ChanOK, SeenOK, ReaderOK, clients

LEMMA OfferType ==
  ASSUME DataOK, LockOK, NEW w \in Writers, Offer(w)
  PROVE  DataOK' /\ LockOK'
<1>1. PICK p \in Put : out' = [out EXCEPT ![w] = p]
  <2>1. [out[w] EXCEPT !.pc = "wait"] \in Put
    BY DEF DataOK, OutOK, Put
  <2> QED BY <2>1, EventTypes DEF Offer, DataOK, OutOK
<1>2. OutOK' /\ \A v \in Writers \ {w} : out'[v] = out[v]
  BY <1>1 DEF DataOK, OutOK
<1>3. LockOK'
  BY <1>2, LockStays DEF Offer
<1>4. BrokerOK'
  BY Hosts, CreatedType DEF DataOK, BrokerOK, Offer
<1> QED BY <1>2, <1>3, <1>4
       DEF Offer, DataOK, CountsOK, BufferOK, LogOK, ChanOK, SeenOK, ReaderOK, clients, streams

LEMMA CacheEventType ==
  ASSUME DataOK, LockOK, NEW w \in Writers, CacheEvent(w)
  PROVE  DataOK' /\ LockOK'
<1> DEFINE ev == out[w].ev
<1>1. ev \in Event
  BY DEF DataOK, OutOK, Put
<1>2. CountsOK'
  BY DEF DataOK, CountsOK, CacheEvent, Use
<1>3. OutOK' /\ out'[w].pc = "publish" /\ \A v \in Writers \ {w} : out'[v] = out[v]
  BY DEF DataOK, OutOK, Put, CacheEvent
<1>4. BufferOK' /\ LogOK'
  <2>1. (Store(<<ev>>) \/ Store(<<ev, ev>>)) /\ log' = Append(log, ev) /\ backend' = backend
    BY DEF CacheEvent
  <2> HIDE DEF ev
  <2>2. <<ev>> \in Seq(Event) /\ <<ev, ev>> \in Seq(Event)
    BY <1>1
  <2>3. BufferOK' /\ LogOK
    BY <2>1, <2>2, StoreType DEF DataOK
  <2> QED BY <1>1, <2>1, <2>3 DEF LogOK
<1>5. LockOK'
  <2>1. \A v : At(v)' = At(v)
    BY DEF At, CacheEvent
  <2> QED BY <1>3, <2>1, Hosts DEF CacheEvent, Locks, LockOK
<1> QED BY <1>2, <1>3, <1>4, <1>5
       DEF CacheEvent, DataOK, BrokerOK, ChanOK, SeenOK, ReaderOK, clients

LEMMA FinishPutType ==
  ASSUME DataOK, LockOK, NEW w \in Writers, FinishPut(w), backend' = backend,
         out[w].pc = "publish" \/ lock[At(w)] = "none"
  PROVE  /\ OutOK' /\ BrokerOK' /\ ReaderOK' /\ LockOK'
         /\ Idle(w)' /\ \A v \in Writers \ {w} : out'[v].pc = out[v].pc /\ out'[v].ev = out[v].ev
<1> DEFINE o == [out EXCEPT ![w] = IdleOut]
<1>1. o \in [Writers -> Put]
  BY EventTypes DEF DataOK, OutOK
<1>2. o[w] = IdleOut /\ \A v \in Writers \ {w} : o[v] = out[v]
  BY DEF DataOK, OutOK
<1>3. PICK ws : out' = CloseOut(o, ws)
  BY DEF FinishPut
<1>4. PICK rs : reader' = CloseReaders(rs)
  BY DEF FinishPut
<1> HIDE DEF o
<1>5. OutOK' /\ out'[w].pc = "idle" /\ \A v \in Writers \ {w} : out'[v].pc = out[v].pc /\ out'[v].ev = out[v].ev
  BY <1>1, <1>2, <1>3, CloseOutType DEF OutOK, IdleOut
<1>6. ReaderOK'
  BY <1>4, CloseReadersType DEF DataOK, ReaderOK
<1>7. BrokerOK'
  BY Hosts DEF DataOK, BrokerOK, FinishPut
<1>8. LockOK'
  <2>1. \A v : At(v)' = At(v)
    BY DEF At
  <2> QED BY <1>5, <2>1, Hosts, ZenonT(60) DEF FinishPut, LockOK
<1> QED BY <1>5, <1>6, <1>7, <1>8 DEF Idle

LEMMA PublishEventType ==
  ASSUME DataOK, LockOK, NEW w \in Writers, PublishEvent(w)
  PROVE  DataOK' /\ LockOK'
<1> DEFINE ev == out[w].ev
<1>1. ev \in Event
  BY DEF DataOK, OutOK, Put
<1>2. OutOK' /\ BrokerOK' /\ ReaderOK' /\ LockOK'
  BY FinishPutType DEF PublishEvent
<1>3. ChanOK'
  <2>1. Deliver(<<ev>>) \/ Deliver(<<ev, ev>>)
    BY DEF PublishEvent
  <2> HIDE DEF ev
  <2>2. <<ev>> \in Seq(Event) /\ <<ev, ev>> \in Seq(Event)
    BY <1>1
  <2> QED BY <2>1, <2>2, DeliverType DEF DataOK
<1> QED BY <1>2, <1>3
       DEF PublishEvent, DataOK, CountsOK, BufferOK, LogOK, SeenOK, streams, Use

LEMMA WriteFailsType ==
  ASSUME DataOK, LockOK, NEW w \in Writers, WriteFails(w)
  PROVE  DataOK' /\ LockOK'
<1>1. OutOK' /\ BrokerOK' /\ ReaderOK' /\ LockOK'
  BY FinishPutType DEF WriteFails
<1> QED BY <1>1
       DEF WriteFails, DataOK, CountsOK, BufferOK, LogOK, SeenOK, ChanOK, streams, Use

(***************************************************************************)
(* Steps of execute_run and of cancel requests.                            *)
(***************************************************************************)
(* cleanup_run, and a task that is cancelled in the middle of a put. *)
LEMMA CleanupType ==
  ASSUME DataOK, LockOK, NEW i \in Instances, CleanupBroker(i),
         UNCHANGED <<backend, lock, streams, chan, seen, used>>
  PROVE  /\ DataOK' /\ LockOK'
         /\ \A w \in Writers : out'[w].pc = out[w].pc /\ out'[w].ev = out[w].ev
<1>1. OutOK' /\ \A w \in Writers : out'[w].pc = out[w].pc /\ out'[w].ev = out[w].ev
  BY CloseOutType DEF DataOK, OutOK, CleanupBroker
<1>2. ReaderOK'
  BY CloseReadersType DEF DataOK, ReaderOK, CleanupBroker
<1>3. BrokerOK'
  BY DEF DataOK, BrokerOK, CleanupBroker
<1>4. LockOK'
  BY <1>1, LockStays
<1> QED BY <1>1, <1>2, <1>3, <1>4
       DEF DataOK, CountsOK, BufferOK, LogOK, ChanOK, SeenOK, streams

LEMMA AbandonType ==
  ASSUME DataOK, LockOK, NEW handler, Abandon(handler), NEW p \in Put,
         backend' = backend, UNCHANGED <<made, reader, seen>>, used' \subseteq Faults, BrokerOK',
         \/ out' = [out EXCEPT !["task"] = IdleOut]
         \/ /\ out' = [out EXCEPT !["task"] = IdleOut, !["cancel"] = p]
            /\ Idle("cancel")
  PROVE  DataOK' /\ LockOK'
<1> DEFINE ev == out["task"].ev
<1>1. ev \in Event
  BY DEF DataOK, OutOK, Put, Writers
<1>2. OutOK' /\ out'["api"] = out["api"]
  BY EventTypes DEF DataOK, OutOK, Writers
<1>3. counter' \in Nat
  BY DEF DataOK, CountsOK, Abandon
<1>4. <<ev>> \in Seq(Event)
  BY <1>1
<1>5. BufferOK' /\ LogOK' /\ ChanOK'
  <2>1. /\ Store(<<ev>>) \/ buffer' = buffer
        /\ log' = Append(log, ev) \/ log' = log
        /\ Deliver(<<ev>>) \/ chan' = chan
    BY DEF Abandon
  <2> HIDE DEF ev
  <2>2. BufferOK'
    BY <1>4, <2>1, StoreType DEF DataOK, BufferOK
  <2>3. ChanOK'
    BY <1>4, <2>1, DeliverType DEF DataOK, ChanOK
  <2>4. LogOK'
    BY <1>1, <2>1 DEF DataOK, LogOK
  <2> QED BY <2>2, <2>3, <2>4
<1>6. LockOK'
  <2>1. \A v : At(v)' = At(v)
    BY DEF At
  <2>2. lock' = [i \in Instances |-> IF lock[i] = "task" THEN "none" ELSE lock[i]]
    BY DEF Abandon
  <2>3. \A v \in {"cancel", "api"} : out[v].pc = "publish" => out'[v] = out[v]
    BY <1>2 DEF Idle, DataOK, OutOK, Writers
  <2> QED BY <2>1, <2>2, <2>3 DEF LockOK, Writers
<1> QED BY <1>2, <1>3, <1>5, <1>6 DEF DataOK, CountsOK, SeenOK, ReaderOK

(* The inductive invariant of the types. *)
Base == DataOK /\ LockOK /\ ControlOK /\ Idleness /\ Reconciled

LEMMA BaseType == Base => TypeOK
BY TypeParts DEF Base, DataOK

LEMMA BaseInit == Init => Base
<1> SUFFICES ASSUME Init PROVE Base
  OBVIOUS
<1>1. DataOK
  BY EventTypes, BoundsAssumption
     DEF Init, DataOK, OutOK, BrokerOK, CountsOK, BufferOK, LogOK, ChanOK, SeenOK, ReaderOK
<1>2. LockOK /\ ControlOK
  BY DEF Init, LockOK, ControlOK, Stages
<1>3. Idleness /\ Reconciled
  BY DEF Init, Idleness, Reconciled, Idle, Quiet, Writers, IdleOut
<1> QED BY <1>1, <1>2, <1>3 DEF Base

(* What a step that leaves data and locks alone, or a put, has to show. *)
LEMMA DataStays ==
  ASSUME DataOK, LockOK, UNCHANGED <<backend, out, lock, broker, streams, clients, used>>
  PROVE  DataOK' /\ LockOK'
BY LockStays
   DEF DataOK, OutOK, BrokerOK, CountsOK, BufferOK, LogOK, ChanOK, SeenOK, ReaderOK, streams, clients

(* Writers do not disturb each other. *)
LEMMA WriteOthers ==
  ASSUME DataOK, NEW w \in Writers, NEW kind, Write(w, kind)
  PROVE  /\ backend = "memory" => out' = out
         /\ \A v \in Writers \ {w} : out'[v] = out[v]
BY DEF Write, MemoryPut, BeginPut, DataOK, OutOK

LEMMA PutIdleness ==
  ASSUME Base, NEW w \in Writers, ~ Idle(w), UNCHANGED <<backend, control>>,
         \A v \in Writers \ {w} : out'[v].pc = out[v].pc
  PROVE  ControlOK' /\ Idleness' /\ Reconciled'
BY DEF Base, ControlOK, Idleness, Reconciled, Idle, Quiet, control, Writers

LEMMA IdlenessStays ==
  ASSUME Base, UNCHANGED <<backend, control>>,
         \A v \in Writers : out'[v].pc = out[v].pc
  PROVE  ControlOK' /\ Idleness' /\ Reconciled'
BY DEF Base, ControlOK, Idleness, Reconciled, Idle, Quiet, control, Writers

(* The invariant is preserved: execute_run. *)
LEMMA BaseTask ==
  ASSUME Base, TaskStep \/ Emit \/ GraphEnds
  PROVE  Base'
<1> USE DEF Base, ControlOK, Stages
<1>1. CASE Begin
  BY <1>1, DataStays DEF Begin, Idleness, Reconciled, Idle, Quiet
<1>2. CASE CancelHandled
  BY <1>2, DataStays DEF CancelHandled, Finalize, Idleness, Reconciled, Idle, Quiet
<1>3. CASE SignalSkipped
  BY <1>3, DataStays DEF SignalSkipped, Idleness, Reconciled, Idle, Quiet
<1>4. CASE GraphEnds
  BY <1>4, DataStays DEF GraphEnds, Finalize, Idleness, Reconciled, Idle, Quiet
<1>5. CASE Signal
  <2>1. PICK kind \in Kinds : Write("task", kind)
    BY <1>5 DEF Signal, Kinds
  <2>2. Idle("task") /\ UNCHANGED <<backend, lock>>
    BY <1>5 DEF Signal, Idleness
  <2>3. DataOK' /\ LockOK'
    BY <2>1, <2>2, WriteType DEF Writers
  <2>4. ControlOK' /\ Idleness' /\ Reconciled'
    BY <1>5, <2>1, WriteOthers DEF Signal, Idleness, Reconciled, Idle, Quiet, Writers
  <2> QED BY <2>3, <2>4
<1>6. CASE SignalErrorEnd
  <2>1. Idle("task") /\ UNCHANGED <<backend, lock>> /\ Write("task", "end")
    BY <1>6 DEF SignalErrorEnd
  <2>2. DataOK' /\ LockOK'
    BY <2>1, WriteType DEF Writers, Kinds
  <2>3. ControlOK' /\ Idleness' /\ Reconciled'
    BY <1>6, <2>1, WriteOthers DEF SignalErrorEnd, Idleness, Reconciled, Idle, Quiet, Writers
  <2> QED BY <2>2, <2>3
<1>7. CASE Emit
  <2>1. Idle("task") /\ UNCHANGED <<backend, lock>> /\ Write("task", "data")
    BY <1>7 DEF Emit
  <2>2. DataOK' /\ LockOK'
    BY <2>1, WriteType DEF Writers, Kinds
  <2>3. ControlOK' /\ Idleness' /\ Reconciled'
    BY <1>7, <2>1, WriteOthers DEF Emit, Idleness, Reconciled, Idle, Quiet, Writers, control
  <2> QED BY <2>2, <2>3
<1>8. CASE Finally
  <2>1. /\ DataOK' /\ LockOK'
        /\ \A w \in Writers : out'[w].pc = out[w].pc
    BY <1>8, CleanupType, Hosts DEF Finally
  <2>2. ControlOK' /\ Idleness' /\ Reconciled'
    BY <1>8, <2>1 DEF Finally, Idleness, Reconciled, Idle, Quiet, Writers
  <2> QED BY <2>1, <2>2
<1> QED BY <1>1, <1>2, <1>3, <1>4, <1>5, <1>6, <1>7, <1>8 DEF TaskStep

(* Cancellation where the run executes. *)
LEMMA BaseCancel ==
  ASSUME Base, TimesOut \/ ExecuteCancel
  PROVE  Base'
<1> USE DEF Base
<1>1. CASE TimesOut
  <2>1. /\ Abandon("timed out") /\ out' = [out EXCEPT !["task"] = IdleOut]
        /\ task = "graph" /\ task' = "timed out" /\ backend = "redis"
        /\ UNCHANGED <<backend, run, cancel, api, broker, made, reader, seen, used>>
    BY <1>1 DEF TimesOut, Abandon
  <2>2. DataOK' /\ LockOK'
    BY <2>1, AbandonType, EventTypes DEF DataOK, BrokerOK, CountsOK
  <2>3. out'["task"] = IdleOut /\ \A w \in {"cancel", "api"} : out'[w] = out[w]
    BY <2>1 DEF DataOK, OutOK, Writers
  <2>4. ControlOK' /\ Idleness' /\ Reconciled'
    <3>1. ControlOK'
      BY <2>1, <2>3 DEF ControlOK, Stages
    <3>2. Idleness'
      BY <2>1, <2>3, EventTypes DEF ControlOK, Stages, Idleness, Reconciled, Idle, Quiet, Writers
    <3>3. Reconciled'
      BY <2>1, <2>3 DEF ControlOK, Stages, Reconciled, Running
    <3> QED BY <3>1, <3>2, <3>3
  <2> QED BY <2>2, <2>4
<1>2. CASE ExecuteCancel
  <2>1. /\ Running /\ cancel = "idle" /\ cancel' = "done"
        /\ UNCHANGED <<backend, run, api>> /\ used' \subseteq Faults
    BY <1>2 DEF ExecuteCancel, Use, DataOK, CountsOK
  <2>2. CASE backend = "memory"
    <3>1. /\ task' = IF task = "graph" THEN "cancelled" ELSE "finally"
          /\ IF broker[Worker] = "finished" THEN UNCHANGED <<out, broker, streams, clients>>
                                            ELSE MemoryPut("end")
          /\ UNCHANGED lock
      BY <1>2, <2>2 DEF ExecuteCancel
    <3>2. DataOK' /\ out' = out
      <4>1. CASE broker[Worker] = "finished"
        BY <4>1, <2>1, <3>1 DEF DataOK, OutOK, BrokerOK, CountsOK, BufferOK, LogOK, ChanOK, SeenOK,
                                ReaderOK, streams, clients
      <4>2. CASE broker[Worker] # "finished"
        BY <4>2, <2>1, <3>1, MemoryPutType DEF MemoryPut, Kinds
      <4> QED BY <4>1, <4>2
    <3>3. LockOK'
      BY <2>1, <3>1, <3>2, LockStays
    <3>4. ControlOK' /\ Idleness' /\ Reconciled'
      <4>1. ControlOK'
        BY <2>1, <2>2, <3>1, <3>2 DEF ControlOK, Stages
      <4>2. Idleness'
        BY <2>1, <2>2, <3>1, <3>2 DEF ControlOK, Stages, Idleness, Reconciled, Idle, Quiet, Writers
      <4>3. Reconciled'
        BY <2>1, <2>2, <3>1, <3>2 DEF ControlOK, Stages, Reconciled, Running
      <4> QED BY <4>1, <4>2, <4>3
    <3> QED BY <3>2, <3>3, <3>4
  <2>3. CASE backend # "memory"
    <3> DEFINE p == IF broker[Worker] = "finished" THEN IdleOut
                    ELSE [pc |-> "alloc", ev |-> Fresh("end"), dead |-> FALSE]
    <3>1. /\ Abandon("cancelled") /\ GetOrCreate(Worker)
          /\ out' = [out EXCEPT !["task"] = IdleOut, !["cancel"] = p]
          /\ UNCHANGED <<made, reader, seen>>
      BY <1>2, <2>3 DEF ExecuteCancel
    <3>2. p \in Put
      BY EventTypes DEF Put, Kinds
    <3> HIDE DEF p
    <3>3. BrokerOK' /\ Idle("cancel")
      BY <2>1, <3>1, CreatedType, Hosts DEF BrokerOK, DataOK, GetOrCreate, Idleness
    <3>4. DataOK' /\ LockOK'
      BY <2>1, <3>1, <3>2, <3>3, AbandonType
    <3>5. out'["task"] = IdleOut /\ out'["api"] = out["api"]
      BY <3>1 DEF DataOK, OutOK, Writers
    <3>6. task' \in {"cancelled", "finally"} /\ api' = "idle" /\ backend = "redis"
      BY <2>1, <2>3, <3>1, BackendsAssumption DEF Abandon, Reconciled, Running, ControlOK
    <3>7. ControlOK' /\ Idleness' /\ Reconciled'
      <4>1. ControlOK'
        BY <2>1, <3>5, <3>6 DEF ControlOK, Stages
      <4>2. Idleness'
        BY <2>1, <3>5, <3>6, EventTypes
           DEF ControlOK, Stages, Idleness, Reconciled, Idle, Quiet, Writers
      <4>3. Reconciled'
        BY <2>1, <3>5, <3>6 DEF ControlOK, Stages, Reconciled, Running
      <4> QED BY <4>1, <4>2, <4>3
    <3> QED BY <3>4, <3>7
  <2> QED BY <2>2, <2>3
<1> QED BY <1>1, <1>2

(* A request that reconciles. *)
LEMMA BaseApi ==
  ASSUME Base, Interrupt \/ ApiStep
  PROVE  Base'
<1> USE DEF Base, ControlOK, Stages
<1>1. CASE Interrupt
  BY <1>1, DataStays DEF Interrupt, Idleness, Reconciled, Idle, Quiet
<1>2. CASE InterruptStops
  <2>1. OutOK' /\ CountsOK' /\ BufferOK' /\ LogOK' /\ ChanOK' /\ SeenOK' /\ ReaderOK'
    BY <1>2 DEF InterruptStops, DataOK, OutOK, CountsOK, BufferOK, LogOK, ChanOK, SeenOK,
                ReaderOK, streams, clients
  <2>2. BrokerOK'
    BY <1>2, Hosts, CreatedType DEF InterruptStops, DataOK, BrokerOK, GetOrCreate
  <2>3. LockOK'
    BY <1>2, LockStays DEF InterruptStops
  <2>4. ControlOK' /\ Idleness' /\ Reconciled'
    <3>1. Running => backend = "memory"
      BY <1>2, BackendsAssumption DEF InterruptStops, Running, Reconciled
    <3> QED BY <1>2, <3>1
           DEF InterruptStops, Idleness, Reconciled, Idle, Quiet, Running, Writers
  <2> QED BY <2>1, <2>2, <2>3, <2>4 DEF DataOK
<1>3. CASE InterruptSignals
  <2>1. CASE broker[At("api")] = "finished"
    BY <1>3, <2>1, DataStays DEF InterruptSignals, Idleness, Reconciled, Idle, Quiet
  <2>2. CASE broker[At("api")] # "finished"
    <3>1. Idle("api") /\ UNCHANGED <<backend, lock>> /\ Write("api", "end")
      BY <1>3, <2>2 DEF InterruptSignals, Idleness
    <3>2. DataOK' /\ LockOK'
      BY <3>1, WriteType DEF Writers, Kinds
    <3>3. ControlOK' /\ Idleness' /\ Reconciled'
      BY <1>3, <2>2, <3>1, WriteOthers
         DEF InterruptSignals, Idleness, Reconciled, Idle, Quiet, Writers
    <3> QED BY <3>2, <3>3
  <2> QED BY <2>1, <2>2
<1>4. CASE InterruptCleans
  <2>1. /\ DataOK' /\ LockOK'
        /\ \A w \in Writers : out'[w].pc = out[w].pc
    BY <1>4, CleanupType, Hosts DEF InterruptCleans
  <2>2. ControlOK' /\ Idleness' /\ Reconciled'
    BY <1>4, <2>1 DEF InterruptCleans, Idleness, Reconciled, Idle, Quiet, Writers
  <2> QED BY <2>1, <2>2
<1> QED BY <1>1, <1>2, <1>3, <1>4 DEF ApiStep

(* A put over Redis goes on. *)
LEMMA BasePuts ==
  ASSUME Base, NEW w \in Writers, PutStep(w) \/ WriteFails(w)
  PROVE  Base'
<1>1. DataOK' /\ LockOK'
  BY AllocateType, OfferType, CacheEventType, PublishEventType, WriteFailsType DEF Base, PutStep
<1>2. ~ Idle(w) /\ UNCHANGED <<backend, control>>
  BY DEF PutStep, WriteFails, Allocate, Offer, CacheEvent, Locks, PublishEvent, Idle
<1>3. \A v \in Writers \ {w} : out'[v].pc = out[v].pc
  <2>1. CASE Allocate(w)
    BY <2>1 DEF Base, DataOK, OutOK, Allocate
  <2>2. CASE Offer(w)
    BY <2>2 DEF Base, DataOK, OutOK, Offer
  <2>3. CASE CacheEvent(w)
    BY <2>3 DEF Base, DataOK, OutOK, CacheEvent
  <2>4. CASE PublishEvent(w)
    BY <2>4, FinishPutType DEF Base, PublishEvent
  <2>5. CASE WriteFails(w)
    BY <2>5, FinishPutType DEF Base, WriteFails
  <2> QED BY <2>1, <2>2, <2>3, <2>4, <2>5 DEF PutStep
<1> QED BY <1>1, <1>2, <1>3, PutIdleness DEF Base

(***************************************************************************)
(* Steps of the clients.                                                   *)
(***************************************************************************)
LEMMA StoredType ==
  ASSUME BufferOK
  PROVE  Stored \in Seq(Event)
BY DeduplicatedType DEF Stored, BufferOK

(* replay. *)
LEMMA AfterType ==
  ASSUME BufferOK, NEW last
  PROVE  After(last) \in Seq(Event)
<1> DEFINE found == {n \in DOMAIN Stored : Stored[n].id = last}
           first == CHOOSE n \in found : \A m \in found : n <= m
<1>1. Stored \in Seq(Event)
  BY StoredType
<1>2. CASE found = {}
  BY <1>1, <1>2 DEF After
<1>3. CASE found # {}
  <2>1. found \in SUBSET Nat
    BY <1>1
  <2>2. first \in found
    BY <1>3, <2>1, LeastNumber
  <2>3. first \in 1 .. Len(Stored)
    BY <1>1, <2>2
  <2>4. After(last) = SubSeq(Stored, first + 1, Len(Stored))
    BY <1>3 DEF After
  <2> HIDE DEF first
  <2> QED BY <1>1, <2>3, <2>4
<1> QED BY <1>2, <1>3

(* A client disturbs neither control nor the stored events. *)
LEMMA ClientStays ==
  ASSUME Base, UNCHANGED <<backend, control, lock, streams>>, used' \subseteq Faults,
         \A v \in Writers : out'[v].pc = out[v].pc,
         OutOK', BrokerOK', ChanOK', SeenOK', ReaderOK'
  PROVE  Base'
<1>1. ControlOK' /\ Idleness' /\ Reconciled'
  BY IdlenessStays
<1>2. LockOK'
  BY LockStays DEF Base
<1> QED BY <1>1, <1>2 DEF Base, DataOK, CountsOK, BufferOK, LogOK, streams

LEMMA BaseExpire ==
  ASSUME Base, Expire
  PROVE  Base'
<1>1. ControlOK' /\ Idleness' /\ Reconciled'
  BY IdlenessStays DEF Expire
<1>2. LockOK'
  BY LockStays DEF Base, Expire
<1>3. BufferOK' /\ CountsOK'
  BY BoundsAssumption DEF Base, DataOK, BufferOK, CountsOK, Expire, Use
<1>4. BrokerOK'
  BY Hosts DEF Base, DataOK, BrokerOK, Expire
<1> QED BY <1>1, <1>2, <1>3, <1>4
       DEF Base, DataOK, OutOK, LogOK, ChanOK, SeenOK, ReaderOK, Expire, clients

LEMMA FinishedByReaderType ==
  ASSUME Base, NEW c \in Clients, NEW found, FinishedByReader(c, found)
  PROVE  /\ OutOK' /\ BrokerOK'
         /\ \A v \in Writers : out'[v].pc = out[v].pc /\ out'[v].ev = out[v].ev
<1>1. OutOK' /\ \A v \in Writers : out'[v].pc = out[v].pc /\ out'[v].ev = out[v].ev
  BY CloseOutType DEF Base, DataOK, OutOK, FinishedByReader
<1>2. BrokerOK'
  BY DEF Base, DataOK, BrokerOK, ReaderOK, Conn, FinishedByReader
<1> QED BY <1>1, <1>2

LEMMA BaseClients ==
  ASSUME Base, NEW c \in Clients,
         ClientStep(c) \/ Connect(c) \/ Disconnect(c) \/ PubSubError(c)
  PROVE  Base'
<1> DEFINE r == reader[c]
<1>0. /\ r \in Conn /\ r.host \in Instances /\ r.tries \in Nat /\ Gone(c) \in Conn
      /\ chan[c] \in Seq(Event) /\ seen[c] \in Seq(Event) /\ r.pend \in Seq(Event)
  BY EventTypes DEF Base, DataOK, ReaderOK, ChanOK, SeenOK, Conn, Gone
<1>a. ASSUME NEW x \in Conn, Set(c, x) PROVE ReaderOK'
  BY <1>a DEF Base, DataOK, ReaderOK, Set
<1>b. ASSUME NEW rs, NEW x \in Conn, reader' = [CloseReaders(rs) EXCEPT ![c] = x]
      PROVE  ReaderOK'
  BY <1>b, CloseReadersType DEF Base, DataOK, ReaderOK
<1>c. OutOK /\ BrokerOK /\ ChanOK /\ SeenOK /\ used \subseteq Faults
  BY DEF Base, DataOK, CountsOK
<1>d. ASSUME NEW f, Use(f) PROVE used' \subseteq Faults
  BY <1>c, <1>d DEF Use
<1>e. ASSUME GetOrCreate(r.host) PROVE BrokerOK'
  BY <1>0, <1>c, <1>e, CreatedType DEF GetOrCreate, BrokerOK
<1>1. CASE Replay(c)
  <2>1. After(r.last) \in Seq(Event)
    BY AfterType DEF Base, DataOK
  <2>2. [r EXCEPT !.pc = "replaying", !.pend = After(r.last)] \in Conn
        /\ [r EXCEPT !.pc = "replaying"] \in Conn
    BY <1>0, <2>1 DEF Conn
  <2>3. ReaderOK'
    BY <1>1, <1>a, <2>2 DEF Replay
  <2> QED BY <1>1, <1>c, <1>d, <1>e, <2>3, ClientStays DEF Replay, OutOK, ChanOK, SeenOK
<1>2. CASE YieldReplayed(c)
  <2> DEFINE ev == Head(r.pend)
  <2>0. ev \in Event /\ Tail(r.pend) \in Seq(Event)
    BY <1>0, <1>2 DEF YieldReplayed
  <2>1. ev \in Event /\ Tail(r.pend) \in Seq(Event) /\ ev.id \in Nat
    BY <2>0, EventFields
  <2>2. ReaderOK'
    <3>1. [r EXCEPT !.pend = Tail(@), !.sent = IF ev.id > @ THEN ev.id ELSE @] \in Conn
      BY <1>0, <2>1 DEF Conn
    <3> QED BY <1>2, <1>a, <3>1 DEF YieldReplayed
  <2>3. SeenOK'
    <3>1. seen' = [seen EXCEPT ![c] = Append(seen[c], ev)]
      BY <1>2 DEF YieldReplayed, Show
    <3>2. Append(seen[c], ev) \in Seq(Event)
      BY <1>0, <2>1
    <3> QED BY <1>c, <3>1, <3>2 DEF SeenOK
  <2> QED BY <1>2, <1>c, <2>2, <2>3, ClientStays DEF YieldReplayed, OutOK, BrokerOK, ChanOK
<1>3. CASE GoLive(c)
  <2>1. BrokerOK'
    BY <1>3, <1>c, <1>e DEF GoLive, BrokerOK
  <2>2. ReaderOK'
    <3> DEFINE x == [r EXCEPT !.pc = "listen", !.pend = Backlog,
                              !.closed = broker[r.host] = "finished"]
               y == [r EXCEPT !.pc = "sub"]
    <3>1. x \in Conn /\ y \in Conn
      BY <1>0 DEF Conn, Backlog, Base, DataOK, BufferOK
    <3>2. Set(c, Gone(c)) \/ Set(c, x) \/ Set(c, y)
      BY <1>3 DEF GoLive
    <3> HIDE DEF x, y
    <3> QED BY <1>0, <1>a, <3>1, <3>2
  <2> QED BY <1>3, <1>c, <2>1, <2>2, ClientStays DEF GoLive, OutOK, SeenOK, ChanOK
<1>4. CASE Subscribe(c)
  <2>1. ReaderOK'
    <3>1. [r EXCEPT !.pc = "check"] \in Conn
      BY <1>0 DEF Conn
    <3> QED BY <1>4, <1>a, <3>1 DEF Subscribe
  <2> QED BY <1>4, <1>c, <2>1, ClientStays DEF Subscribe, OutOK, BrokerOK, SeenOK, ChanOK
<1>5. CASE CheckEnd(c)
  <2>1. PICK found \in BOOLEAN :
          /\ FinishedByReader(c, found)
          /\ reader' = [CloseReaders(IF found THEN Readers(reader[c].host) ELSE {})
                          EXCEPT ![c].pc = "listen"]
    BY <1>5 DEF CheckEnd
  <2>2. ReaderOK'
    <3> DEFINE rs == IF found THEN Readers(reader[c].host) ELSE {}
    <3>1. CloseReaders(rs) \in [Clients -> Conn]
      BY CloseReadersType DEF Base, DataOK
    <3>2. [CloseReaders(rs)[c] EXCEPT !.pc = "listen"] \in Conn
      BY <3>1 DEF Conn
    <3>3. reader' = [CloseReaders(rs) EXCEPT ![c] = [CloseReaders(rs)[c] EXCEPT !.pc = "listen"]]
      BY <2>1
    <3> HIDE DEF rs
    <3> QED BY <3>1, <3>2, <3>3 DEF ReaderOK
  <2>3. used' \subseteq Faults
    BY <1>5, <1>c, <1>d DEF CheckEnd
  <2> QED BY <1>5, <1>c, <2>1, <2>2, <2>3, FinishedByReaderType, ClientStays DEF CheckEnd, SeenOK, ChanOK
<1>6. CASE Listen(c)
  <2> DEFINE backlog == r.pend # <<>>
             ev == IF backlog THEN Head(r.pend) ELSE Head(chan[c])
             repeat == backend = "redis" /\ ev.id = r.prev
             end == ev.kind = "end" /\ ~repeat
             next == [r EXCEPT !.pend = IF backlog THEN Tail(@) ELSE @,
                               !.prev = IF backend = "redis" THEN ev.id ELSE 0,
                               !.sent = IF New(c, ev) THEN ev.id ELSE @]
  <2>1. /\ r.pc = "listen" /\ (backlog \/ chan[c] # <<>>)
        /\ IF New(c, ev) /\ ~repeat THEN Show(c, ev) ELSE UNCHANGED seen
        /\ chan' = [chan EXCEPT ![c] = IF end THEN <<>> ELSE IF backlog THEN @ ELSE Tail(@)]
        /\ FinishedByReader(c, end)
        /\ reader' = [CloseReaders(IF end /\ backend = "redis" THEN Readers(reader[c].host) ELSE {})
                        EXCEPT ![c] = IF end THEN Gone(c) ELSE next]
        /\ UNCHANGED <<backend, control, lock, streams, used>>
    BY <1>6 DEF Listen
  <2>2a. ev \in Event
    BY <1>0, <2>1
  <2>2. ev.id \in Nat
    BY <2>2a, EventFields
  <2>3. next \in Conn
    <3>1. backlog => Tail(r.pend) \in Seq(Event)
      BY <1>0
    <3> DEFINE a == IF backlog THEN Tail(r.pend) ELSE r.pend
               b == IF backend = "redis" THEN ev.id ELSE 0
               d == IF New(c, ev) THEN ev.id ELSE r.sent
    <3>2. a \in Seq(Event) /\ b \in Nat /\ d \in Nat
      BY <1>0, <2>2, <3>1 DEF Conn
    <3>3. next = [r EXCEPT !.pend = a, !.prev = b, !.sent = d]
      OBVIOUS
    <3> HIDE DEF a, b, d, next, r
    <3> QED BY <1>0, <3>2, <3>3 DEF Conn
  <2>4. chan[c] # <<>> => Tail(chan[c]) \in Seq(Event)
    BY <1>0
  <2> HIDE DEF next, ev
  <2>5. ChanOK'
    BY <1>0, <1>c, <2>1, <2>4 DEF ChanOK
  <2>6. SeenOK'
    <3>1. Append(seen[c], ev) \in Seq(Event)
      BY <1>0, <2>2a
    <3> QED BY <1>c, <2>1, <3>1 DEF SeenOK, Show
  <2>7. ReaderOK'
    BY <1>0, <1>b, <2>1, <2>3
  <2> QED BY <1>c, <2>1, <2>5, <2>6, <2>7, FinishedByReaderType, ClientStays
<1>7. CASE StopListening(c)
  BY <1>7, <1>0, <1>a, <1>c, ClientStays DEF StopListening, OutOK, BrokerOK, SeenOK, ChanOK
<1>8. CASE Connect(c)
  <2>1. PICK i \in Instances, last \in Nat :
          Set(c, [Away(r.tries + 1) EXCEPT !.pc = "replay", !.host = i, !.last = last,
                                           !.sent = last, !.over = run = "over"])
    <3> DEFINE last == IF seen[c] = <<>> THEN 0 ELSE Last(seen[c]).id
    <3>1. last \in Nat
      <4>1. seen[c] # <<>> => Last(seen[c]) \in Event
        BY <1>0 DEF Last
      <4> QED BY <4>1, EventFields
    <3>2. \E i \in IF backend = "redis" THEN Instances ELSE {Worker} :
            Set(c, [Away(r.tries + 1) EXCEPT !.pc = "replay", !.host = i, !.last = last,
                                             !.sent = last, !.over = run = "over"])
      BY <1>8 DEF Connect
    <3> HIDE DEF last
    <3> QED BY <3>1, <3>2, Hosts
  <2>2. ReaderOK'
    <3>1. Away(r.tries + 1) \in Conn
      BY <1>0, EventTypes
    <3>2. [Away(r.tries + 1) EXCEPT !.pc = "replay", !.host = i, !.last = last,
                                    !.sent = last, !.over = run = "over"] \in Conn
      BY <3>1 DEF Conn
    <3> QED BY <1>a, <2>1, <3>2
  <2> QED BY <1>8, <1>c, <2>2, ClientStays DEF Connect, OutOK, BrokerOK, SeenOK, ChanOK
<1>9. CASE Disconnect(c) \/ PubSubError(c)
  <2>1. ReaderOK'
    <3>1. [r EXCEPT !.pc = "sub", !.prev = 0] \in Conn
      BY <1>0 DEF Conn
    <3> QED BY <1>0, <1>9, <1>a, <3>1 DEF Disconnect, PubSubError
  <2>2. ChanOK'
    <3>1. chan' = [chan EXCEPT ![c] = <<>>]
      BY <1>9 DEF Disconnect, PubSubError
    <3> QED BY <1>c, <3>1 DEF ChanOK
  <2>3. used' \subseteq Faults
    BY <1>9, <1>c, <1>d DEF Disconnect, PubSubError
  <2> QED BY <1>9, <1>c, <2>1, <2>2, <2>3, ClientStays
         DEF Disconnect, PubSubError, OutOK, BrokerOK, SeenOK
<1> QED BY <1>1, <1>2, <1>3, <1>4, <1>5, <1>6, <1>7, <1>8, <1>9 DEF ClientStep

LEMMA BaseNext == Base /\ [Next]_vars => Base'
<1> SUFFICES ASSUME Base, [Next]_vars PROVE Base'
  OBVIOUS
<1>1. CASE UNCHANGED vars
  BY <1>1, DataStays, IdlenessStays DEF vars, Base
<1>2. CASE Next
  BY <1>2, BaseTask, BaseCancel, BaseApi, BaseExpire, BasePuts, BaseClients DEF Next
<1> QED BY <1>1, <1>2

LEMMA AlwaysBase == Spec => []Base
BY BaseInit, BaseNext, PTL DEF Spec

(* In every state variables have their types, the holder of a broker's write *)
(* lock is in the middle of its put, and the Redis buffer is trimmed.        *)
THEOREM TypeCorrect == Spec => []TypeOK
BY AlwaysBase, BaseType, PTL

(***************************************************************************)
(* The end event.                                                          *)
(***************************************************************************)

(* execute_run is past its graph and its error event. *)
Past ==
  /\ \/ task \in {"cancelled", "interrupted", "ending", "finally", "done"}
     \/ task = "queued" /\ run = "over"
  /\ Idle("task") \/ out["task"].ev.kind = "end"

EndStored == \E n \in DOMAIN log : log[n].kind = "end"
EndOnItsWay == \E w \in Writers : ~ Idle(w) /\ out[w].ev.kind = "end"

(* Whoever cancels the run writes an end event and nothing else, and an end *)
(* event is written only when execute_run has nothing else to write.        *)
Ending ==
  /\ \A w \in {"cancel", "api"} : Idle(w) \/ out[w].ev.kind = "end"
  /\ api \in {"signal", "cleanup", "done"} => Past
  /\ EndStored \/ EndOnItsWay => Past
  /\ EndIsLast

LEMMA EndingInit == Init => Ending
BY DEF Init, Ending, Idle, IdleOut, EndStored, EndOnItsWay, EndIsLast, Writers

(* An event is appended to the log. *)
LEMMA LogGrows ==
  ASSUME LogOK, EndIsLast, NEW ev \in Event, log' = Append(log, ev),
         EndStored => ev.kind = "end"
  PROVE  EndIsLast' /\ (EndStored' => EndStored \/ ev.kind = "end")
<1>1. /\ Len(log) \in Nat /\ DOMAIN log = 1 .. Len(log)
      /\ DOMAIN log' = 1 .. Len(log) + 1 /\ log'[Len(log) + 1] = ev
      /\ \A n \in 1 .. Len(log) : log'[n] = log[n]
  BY DEF LogOK
<1>2. \A n \in 1 .. Len(log) + 1 : n = Len(log) + 1 \/ n \in 1 .. Len(log)
  BY <1>1
<1>3. EndIsLast'
  <2> SUFFICES ASSUME NEW m \in DOMAIN log', NEW n \in DOMAIN log', m < n, log'[m].kind = "end"
               PROVE  log'[n].kind = "end"
    BY DEF EndIsLast
  <2>1. m \in 1 .. Len(log)
    BY <1>1
  <2>2. log[m].kind = "end"
    BY <1>1, <2>1
  <2>3. CASE n \in 1 .. Len(log)
    BY <1>1, <2>1, <2>2, <2>3 DEF EndIsLast
  <2>4. CASE n = Len(log) + 1
    BY <1>1, <2>1, <2>2, <2>4 DEF EndStored
  <2> QED BY <1>1, <1>2, <2>3, <2>4
<1>4. EndStored' => EndStored \/ ev.kind = "end"
  BY <1>1, <1>2 DEF EndStored
<1> QED BY <1>3, <1>4

LEMMA LogStays ==
  ASSUME log' = log
  PROVE  (EndIsLast' <=> EndIsLast) /\ (EndStored' <=> EndStored)
BY DEF EndIsLast, EndStored

(* A step that writes nothing. *)
LEMMA EndingStays ==
  ASSUME Ending, log' = log, Past => Past',
         \A w \in Writers : out'[w].pc = out[w].pc /\ out'[w].ev = out[w].ev,
         api' \in {"signal", "cleanup", "done"} => Past'
  PROVE  Ending'
BY LogStays DEF Ending, EndOnItsWay, Idle, Writers

(* What a write of one event stores. *)
LEMMA WriteStores ==
  ASSUME Base, NEW w \in Writers, NEW kind \in Kinds, Write(w, kind)
  PROVE  /\ log' = log \/ \E ev \in Event : ev.kind = kind /\ log' = Append(log, ev)
         /\ out' = out \/ out'[w].ev.kind = kind
         /\ \A v \in Writers \ {w} : out'[v] = out[v]
<1>1. CASE backend = "memory"
  <2> DEFINE ev == [id |-> counter + 1, kind |-> kind, no |-> made + 1]
  <2>1. ev \in Event /\ ev.kind = kind
    BY DEF Base, DataOK, CountsOK, Event
  <2>2. out' = out /\ (log' = log \/ log' = Append(log, ev))
    BY <1>1 DEF Write, MemoryPut
  <2> HIDE DEF ev
  <2> QED BY <2>1, <2>2
<1>2. CASE backend # "memory"
  <2>1. out' = [out EXCEPT ![w] = [pc |-> "alloc", ev |-> Fresh(kind),
                                   dead |-> kind # "data" /\ broker[At(w)] = "finished"]]
        /\ log' = log
    BY <1>2 DEF Write, BeginPut, streams
  <2> QED BY <2>1 DEF Base, DataOK, OutOK, Fresh
<1> QED BY <1>1, <1>2

LEMMA EndingWrite ==
  ASSUME Base, Ending, NEW w \in Writers, NEW kind \in Kinds, Write(w, kind),
         \/ kind = "end" /\ Past'
         \/ w = "task" /\ ~ Past /\ kind # "end",
         api' \in {"signal", "cleanup", "done"} => Past' \/ api' = api
  PROVE  Ending'
<1>1. Past => Past'
  OBVIOUS
<1>2. EndIsLast' /\ (EndStored' => Past')
  <2>1. CASE log' = log
    BY <1>1, <2>1, LogStays DEF Ending
  <2>2. CASE log' # log
    <3>1. PICK ev \in Event : ev.kind = kind /\ log' = Append(log, ev)
      BY <2>2, WriteStores
    <3>2. LogOK /\ (EndStored => ev.kind = "end")
      BY <3>1 DEF Base, DataOK, Ending
    <3>3. EndIsLast' /\ (EndStored' => EndStored \/ ev.kind = "end")
      BY <3>1, <3>2, LogGrows DEF Ending
    <3> QED BY <1>1, <3>1, <3>3 DEF Ending
  <2> QED BY <2>1, <2>2
<1>3. \A v \in Writers : out'[v] = out[v] \/ (v = w /\ out'[v].ev.kind = kind)
  <2>1. /\ out' = out \/ out'[w].ev.kind = kind
        /\ \A v \in Writers \ {w} : out'[v] = out[v]
    BY WriteStores
  <2>2. ASSUME NEW v \in Writers, v # w PROVE out'[v] = out[v]
    BY <2>1, <2>2
  <2> QED BY <2>1, <2>2
<1>4. EndOnItsWay' => Past'
  BY <1>1, <1>3 DEF Ending, EndOnItsWay, Idle
<1>5. \A v \in {"cancel", "api"} : (Idle(v) \/ out[v].ev.kind = "end")'
  BY <1>3 DEF Ending, Idle, Writers
<1>6. api' \in {"signal", "cleanup", "done"} => Past'
  BY <1>1 DEF Ending
<1> QED BY <1>2, <1>4, <1>5, <1>6 DEF Ending

(* The invariant is preserved, component by component. *)
LEMMA EndingTask ==
  ASSUME Base, Ending, TaskStep \/ Emit \/ GraphEnds
  PROVE  Ending'
<1>1. CASE Begin \/ CancelHandled \/ SignalSkipped \/ GraphEnds
  <2>1. UNCHANGED <<out, log, api>>
    BY <1>1 DEF Begin, CancelHandled, SignalSkipped, GraphEnds, Finalize, streams
  <2>2. Past => Past'
    BY <1>1, <2>1
       DEF Begin, CancelHandled, SignalSkipped, GraphEnds, Finalize, Past, Idle
  <2> QED BY <2>1, <2>2, EndingStays DEF Ending
<1>2. CASE Signal
  <2>1. CASE task = "failed"
    BY <1>2, <2>1, EndingWrite DEF Signal, Past, Kinds, Writers
  <2>2. CASE task # "failed"
    <3>1. task' = "ending" /\ Write("task", "end") /\ api' = api /\ Idle("task")
      BY <1>2, <2>2 DEF Signal, Base, Idleness
    <3>2. Past'
      BY <3>1, WriteStores DEF Past, Idle, Kinds, Writers
    <3> QED BY <3>1, <3>2, EndingWrite DEF Kinds, Writers
  <2> QED BY <2>1, <2>2
<1>3. CASE SignalErrorEnd
  <2>1. task' = "ending" /\ Write("task", "end") /\ api' = api /\ Idle("task")
    BY <1>3 DEF SignalErrorEnd
  <2>2. Past'
    BY <2>1, WriteStores DEF Past, Idle, Kinds, Writers
  <2> QED BY <2>1, <2>2, EndingWrite DEF Kinds, Writers
<1>4. CASE Emit
  <2>1. task = "graph" /\ Write("task", "data") /\ api' = api
    BY <1>4 DEF Emit, control
  <2> QED BY <2>1, EndingWrite DEF Kinds, Writers, Past
<1>5. CASE Finally
  <2>1. \A w \in Writers : out'[w].pc = out[w].pc /\ out'[w].ev = out[w].ev
    BY <1>5, CleanupType, Hosts DEF Finally, Base
  <2>2. Past'
    BY <1>5, <2>1 DEF Finally, Past, Idle, Writers
  <2> QED BY <1>5, <2>1, <2>2, EndingStays DEF Finally, Ending, streams
<1> QED BY <1>1, <1>2, <1>3, <1>4, <1>5 DEF TaskStep

LEMMA EndingApi ==
  ASSUME Base, Ending, Interrupt \/ ApiStep
  PROVE  Ending'
<1>1. CASE Interrupt
  <2>1. UNCHANGED <<out, log, task>> /\ run' = "over" /\ api' = "stop"
    BY <1>1 DEF Interrupt, streams
  <2>2. Past => Past'
    BY <2>1 DEF Past, Idle
  <2> QED BY <2>1, <2>2, EndingStays
<1>2. CASE InterruptStops
  <2>1. UNCHANGED <<out, log, run>> /\ api = "stop"
    BY <1>2 DEF InterruptStops, streams
  <2>2. Running => backend = "memory"
    BY <2>1, BackendsAssumption DEF Base, ControlOK, Running, Reconciled
  <2>3. Past'
    <3>1. run = "over" /\ task # "timed out"
      BY <2>1, BackendsAssumption DEF Base, ControlOK, Reconciled
    <3>2. task' \in {"queued", "cancelled", "finally", "done"}
      BY <1>2, <3>1 DEF InterruptStops, Running, Base, ControlOK, Stages
    <3>3. Idle("task")
      BY <2>2 DEF Base, Idleness, Quiet, Writers, Running
    <3> QED BY <2>1, <3>1, <3>2, <3>3 DEF Past, Idle
  <2> QED BY <2>1, <2>3, EndingStays
<1>3. CASE InterruptSignals
  <2>1. Past /\ UNCHANGED <<run, task>> /\ api = "signal"
    BY <1>3 DEF InterruptSignals, Ending
  <2>2. CASE broker[At("api")] = "finished"
    <3>1. UNCHANGED <<out, log>>
      BY <1>3, <2>2 DEF InterruptSignals, streams
    <3>2. Past'
      BY <2>1, <3>1 DEF Past, Idle
    <3> QED BY <3>1, <3>2, EndingStays
  <2>3. CASE broker[At("api")] # "finished"
    <3>1. Write("api", "end")
      BY <1>3, <2>3 DEF InterruptSignals
    <3>2. Past'
      BY <2>1, <3>1, WriteStores DEF Past, Idle, Writers, Kinds
    <3> QED BY <3>1, <3>2, EndingWrite DEF Kinds, Writers
  <2> QED BY <2>2, <2>3
<1>4. CASE InterruptCleans
  <2>1. Past /\ UNCHANGED <<run, task, log>> /\ api = "cleanup"
    BY <1>4 DEF InterruptCleans, Ending, streams
  <2>2. \A w \in Writers : out'[w].pc = out[w].pc /\ out'[w].ev = out[w].ev
    BY <1>4, CleanupType, Hosts DEF InterruptCleans, Base
  <2>3. Past'
    BY <2>1, <2>2 DEF Past, Idle, Writers
  <2> QED BY <2>1, <2>2, <2>3, EndingStays
<1> QED BY <1>1, <1>2, <1>3, <1>4 DEF ApiStep

(* What an abandoned write may still have stored. *)
LEMMA AbandonStores ==
  ASSUME Base, Ending, NEW handler, Abandon(handler)
  PROVE  EndIsLast' /\ (EndStored' => EndStored \/ EndOnItsWay)
<1> DEFINE ev == out["task"].ev
<1>1. ev \in Event
  BY DEF Base, DataOK, OutOK, Put, Writers
<1>2. CASE log' = log
  BY <1>2, LogStays DEF Ending
<1>3. CASE log' # log
  <2>1. log' = Append(log, ev) /\ ~ Idle("task")
    BY <1>3 DEF Abandon, Idle
  <2>2. EndStored => ev.kind = "end"
    BY <2>1 DEF Ending, Past
  <2>3. EndIsLast' /\ (EndStored' => EndStored \/ ev.kind = "end")
    <3> HIDE DEF ev
    <3> QED BY <1>1, <2>1, <2>2, LogGrows DEF Base, DataOK, Ending
  <2>4. ev.kind = "end" => EndOnItsWay
    BY <2>1 DEF EndOnItsWay, Writers
  <2> QED BY <2>3, <2>4
<1> QED BY <1>2, <1>3

LEMMA EndingCancel ==
  ASSUME Base, Ending, TimesOut \/ ExecuteCancel
  PROVE  Ending'
<1>1. CASE TimesOut
  <2>1. /\ Abandon("timed out") /\ out' = [out EXCEPT !["task"] = IdleOut]
        /\ task = "graph" /\ api' = api
    BY <1>1 DEF TimesOut
  <2>2. ~ Past /\ ~ EndStored /\ ~ EndOnItsWay /\ api \notin {"signal", "cleanup", "done"}
    BY <2>1 DEF Past, Ending
  <2>3. EndIsLast' /\ ~ EndStored'
    BY <2>1, <2>2, AbandonStores
  <2>4. /\ Idle("task")'
        /\ \A w \in {"cancel", "api"} : out'[w] = out[w]
    BY <2>1, EventTypes DEF Base, DataOK, OutOK, Writers, Idle
  <2>5. ~ EndOnItsWay'
    BY <2>2, <2>4 DEF EndOnItsWay, Idle, Writers
  <2> QED BY <2>1, <2>2, <2>3, <2>4, <2>5 DEF Ending, Idle
<1>2. CASE ExecuteCancel
  <2>1. Running /\ cancel = "idle" /\ api' = api
    BY <1>2 DEF ExecuteCancel
  <2>2. CASE backend = "memory"
    <3>1. /\ task' = IF task = "graph" THEN "cancelled" ELSE "finally"
          /\ IF broker[Worker] = "finished" THEN UNCHANGED <<out, broker, streams, clients>>
                                            ELSE MemoryPut("end")
      BY <1>2, <2>2 DEF ExecuteCancel
    <3>2. out' = out /\ Idle("task")
      BY <2>2, <3>1 DEF MemoryPut, Base, Idleness, Quiet, Writers
    <3>3. Past'
      BY <3>1, <3>2 DEF Past, Idle
    <3>4. CASE broker[Worker] = "finished"
      BY <3>1, <3>2, <3>3, <3>4, EndingStays DEF streams
    <3>5. CASE broker[Worker] # "finished"
      <4> DEFINE ev == [id |-> counter + 1, kind |-> "end", no |-> made + 1]
      <4>1. ev \in Event /\ ev.kind = "end"
        BY DEF Base, DataOK, CountsOK, Event, Kinds
      <4>2. log' = Append(log, ev)
        BY <3>1, <3>5 DEF MemoryPut
      <4> HIDE DEF ev
      <4>3. EndIsLast'
        BY <4>1, <4>2, LogGrows DEF Base, DataOK, Ending
      <4> QED BY <3>2, <3>3, <4>3 DEF Ending, EndOnItsWay, Idle
    <3> QED BY <3>4, <3>5
  <2>3. CASE backend # "memory"
    <3> DEFINE p == IF broker[Worker] = "finished" THEN IdleOut
                    ELSE [pc |-> "alloc", ev |-> Fresh("end"), dead |-> FALSE]
    <3>1. Abandon("cancelled") /\ out' = [out EXCEPT !["task"] = IdleOut, !["cancel"] = p]
      BY <1>2, <2>3 DEF ExecuteCancel
    <3>2. p.pc = "idle" \/ p.ev.kind = "end"
      BY EventTypes DEF Fresh
    <3> HIDE DEF p
    <3>3. Idle("task")' /\ out'["cancel"] = p /\ out'["api"] = out["api"]
      BY <3>1, EventTypes DEF Base, DataOK, OutOK, Writers, Idle
    <3>4. Past'
      BY <2>1, <3>1, <3>3 DEF Past, Abandon, Running
    <3>5. EndIsLast'
      BY <3>1, AbandonStores
    <3> QED BY <3>2, <3>3, <3>4, <3>5 DEF Ending, Idle
  <2> QED BY <2>2, <2>3
<1> QED BY <1>1, <1>2

LEMMA EndingPuts ==
  ASSUME Base, Ending, NEW w \in Writers, PutStep(w) \/ WriteFails(w)
  PROVE  Ending'
<1>1. /\ ~ Idle(w) /\ UNCHANGED <<run, task, api>>
      /\ \A v \in Writers \ {w} : out'[v].pc = out[v].pc /\ out'[v].ev = out[v].ev
      /\ Idle(w)' \/ out'[w].ev.kind = out[w].ev.kind
  <2>1. CASE Allocate(w)
    <3>1. PICK id : out' = [out EXCEPT ![w] =
            [out[w] EXCEPT !.pc = "put", !.ev = [@ EXCEPT !.id = id, !.no = made + 1]]]
      BY <2>1 DEF Allocate
    <3>2. out[w] \in Put /\ out[w].ev \in Event /\ out \in [Writers -> Put]
      BY DEF Base, DataOK, OutOK, Put
    <3>3. out'[w].ev = [out[w].ev EXCEPT !.id = id, !.no = made + 1]
      BY <3>1, <3>2 DEF Put
    <3>4. out'[w].ev.kind = out[w].ev.kind
      BY <3>2, <3>3 DEF Event
    <3>5. \A v \in Writers \ {w} : out'[v] = out[v]
      BY <3>1, <3>2
    <3> QED BY <2>1, <3>4, <3>5 DEF Allocate, Idle, control
  <2>2. CASE Offer(w)
    BY <2>2, EventTypes DEF Base, DataOK, OutOK, Put, Offer, Idle, control
  <2>3. CASE CacheEvent(w)
    BY <2>3 DEF Base, DataOK, OutOK, Put, CacheEvent, Locks, Idle, control
  <2>4. CASE PublishEvent(w)
    BY <2>4, FinishPutType DEF Base, PublishEvent, Idle, control
  <2>5. CASE WriteFails(w)
    BY <2>5, FinishPutType DEF Base, WriteFails, Idle, control
  <2> QED BY <2>1, <2>2, <2>3, <2>4, <2>5 DEF PutStep
<1>2. Past => Past'
  BY <1>1 DEF Past, Idle, Writers
<1>3. EndOnItsWay' => EndOnItsWay
  BY <1>1 DEF EndOnItsWay, Idle
<1>4. EndIsLast' /\ (EndStored' => EndStored \/ EndOnItsWay)
  <2>1. CASE log' = log
    BY <2>1, LogStays DEF Ending
  <2>2. CASE log' # log
    <3> DEFINE ev == out[w].ev
    <3>1. ev \in Event
      BY DEF Base, DataOK, OutOK, Put
    <3>2. log' = Append(log, ev)
      BY <2>2 DEF PutStep, Allocate, Offer, CacheEvent, PublishEvent, WriteFails, streams
    <3>3. EndStored => ev.kind = "end"
      BY <1>1 DEF Ending, Past, Writers
    <3>4. EndIsLast' /\ (EndStored' => EndStored \/ ev.kind = "end")
      <4> HIDE DEF ev
      <4> QED BY <3>1, <3>2, <3>3, LogGrows DEF Base, DataOK, Ending
    <3>5. ev.kind = "end" => EndOnItsWay
      BY <1>1 DEF EndOnItsWay
    <3> QED BY <3>4, <3>5
  <2> QED BY <2>1, <2>2
<1> QED BY <1>1, <1>2, <1>3, <1>4 DEF Ending, Idle, Writers

LEMMA EndingClients ==
  ASSUME Base, Ending,
         \/ Expire
         \/ \E c \in Clients : ClientStep(c) \/ Connect(c) \/ Disconnect(c) \/ PubSubError(c)
  PROVE  Ending'
<1>1. \A w \in Writers : out'[w].pc = out[w].pc /\ out'[w].ev = out[w].ev
  BY FinishedByReaderType, ZenonT(60)
     DEF Expire, ClientStep, Replay, YieldReplayed, GoLive, Subscribe, CheckEnd, Listen,
         StopListening, Connect, Disconnect, PubSubError
<1>2. UNCHANGED <<log, run, task, api>>
  BY DEF Expire, ClientStep, Replay, YieldReplayed, GoLive, Subscribe, CheckEnd, Listen,
         StopListening, Connect, Disconnect, PubSubError, streams, control
<1>3. Past => Past'
  BY <1>1, <1>2 DEF Past, Idle, Writers
<1> QED BY <1>1, <1>2, <1>3, EndingStays DEF Ending

LEMMA EndingNext == Base /\ Ending /\ [Next]_vars => Ending'
<1> SUFFICES ASSUME Base, Ending, [Next]_vars PROVE Ending'
  OBVIOUS
<1>1. CASE UNCHANGED vars
  BY <1>1, EndingStays DEF vars, control, streams, Past, Idle, Ending
<1>2. CASE Next
  BY <1>2, EndingTask, EndingCancel, EndingApi, EndingPuts, EndingClients DEF Next
<1> QED BY <1>1, <1>2

(* Nothing but another end event is stored after an end event, whoever       *)
(* cancels, whatever fails and however puts interleave: what                 *)
(* _check_end_in_buffer relies on when it looks at the last event only.      *)
THEOREM EndStaysLast == Spec => []EndIsLast
<1>1. Init => Base /\ Ending
  BY BaseInit, EndingInit
<1>2. Base /\ Ending /\ [Next]_vars => Base' /\ Ending'
  BY BaseNext, EndingNext
<1>3. Ending => EndIsLast
  BY DEF Ending
<1> QED BY <1>1, <1>2, <1>3, PTL DEF Spec
-----------------------------------------------------------------------------
(***************************************************************************)
(* What the in-memory broker guarantees to every client, for any number of *)
(* clients, connections and events: what a client received is a prefix of  *)
(* what was stored.                                                        *)
(***************************************************************************)

(* Nothing will be written any more. *)
Dead == run = "over" /\ task \in {"queued", "finally", "done"} /\ api \in {"idle", "done"}

(* Events carry their place in the stream as their number. *)
Numbered == \A n \in 1 .. Len(log) : log[n].id = n

(* The broker stores the whole stream until the sweep removes it. *)
Kept ==
  \/ buffer = log /\ (broker[Worker] = "finished" \/ counter = Len(log))
  \/ buffer = <<>> /\ Dead

(* s is the piece of the stream l that begins with event a. *)
Piece(s, l, a) == \A n \in 1 .. Len(s) : s[n] = l[a + n - 1]

(* The backlog and then the queue: the rest of the stream, from an event on *)
(* that is not later than the first one the client has not seen.            *)
Rest(c, a) ==
  /\ Piece(reader[c].pend, log, a) /\ Piece(chan[c], log, a + Len(reader[c].pend))
  /\ a + Len(reader[c].pend) + Len(chan[c]) = Len(log) + 1

Received(c) == Len(seen[c]) <= Len(log) /\ Piece(seen[c], log, 1)

Follows(c) ==
  /\ Received(c)
  /\ reader[c].pc \in {"away", "replay", "replaying", "listen"}
  /\ reader[c].pc # "listen" => chan[c] = <<>>
  /\ reader[c].pc # "away" => reader[c].sent = Len(seen[c])
  /\ reader[c].pc = "replay" => reader[c].pend = <<>> /\ reader[c].last = Len(seen[c])
  /\ reader[c].pc = "replaying" => /\ Piece(reader[c].pend, log, Len(seen[c]) + 1)
                                   /\ Len(seen[c]) + Len(reader[c].pend) <= Len(log)
  /\ reader[c].pc = "listen" =>
       \/ \E a \in 1 .. Len(seen[c]) + 1 : Rest(c, a)
       \/ Dead /\ reader[c].pend = <<>> /\ chan[c] = <<>>

Lossless == Numbered /\ Kept /\ \A c \in Clients : Follows(c)

(* The invariant holds at the start. *)
LEMMA LosslessInit == Init => Lossless
<1> SUFFICES ASSUME Init PROVE Lossless
  OBVIOUS
<1>1. Numbered /\ Kept
  BY DEF Init, Numbered, Kept
<1>2. \A c \in Clients : Follows(c)
  BY DEF Init, Follows, Received, Piece, Away
<1> QED BY <1>1, <1>2 DEF Lossless

(* The types a client's steps need. *)
LEMMA Types ==
  ASSUME Base, NEW c \in Clients
  PROVE  /\ log \in Seq(Event) /\ buffer \in Seq(Event) /\ reader[c].pend \in Seq(Event)
         /\ chan[c] \in Seq(Event) /\ seen[c] \in Seq(Event) /\ reader[c] \in Conn
         /\ Len(log) \in Nat /\ Len(seen[c]) \in Nat /\ Len(chan[c]) \in Nat
         /\ Len(reader[c].pend) \in Nat
<1>1. /\ log \in Seq(Event) /\ buffer \in Seq(Event) /\ reader[c].pend \in Seq(Event)
      /\ chan[c] \in Seq(Event) /\ seen[c] \in Seq(Event) /\ reader[c] \in Conn
  BY DEF Base, DataOK, LogOK, BufferOK, ReaderOK, ChanOK, SeenOK, Conn
<1> QED BY <1>1

(* A client is not disturbed by what leaves its connection and the stream   *)
(* alone, or only marks its broker as finished.                             *)
LEMMA FollowsStays ==
  ASSUME NEW c, Follows(c), log' = log, seen'[c] = seen[c], chan'[c] = chan[c],
         reader'[c].pc = reader[c].pc, reader'[c].sent = reader[c].sent,
         reader'[c].last = reader[c].last, reader'[c].pend = reader[c].pend, Dead => Dead'
  PROVE  Follows(c)'
BY ZenonT(60) DEF Follows, Received, Rest, Piece

(* A step of execute_run or of a cancel request that stores nothing. *)
LEMMA LosslessStays ==
  ASSUME Lossless, UNCHANGED <<log, buffer, seen, chan>>, Dead => Dead',
         \A c \in Clients : /\ reader'[c].pc = reader[c].pc /\ reader'[c].sent = reader[c].sent
                            /\ reader'[c].last = reader[c].last
                            /\ reader'[c].pend = reader[c].pend,
         broker[Worker] = "finished" => broker'[Worker] = "finished",
         broker[Worker] = "finished" \/ counter' = counter
  PROVE  Lossless'
<1>1. Numbered'
  BY DEF Lossless, Numbered
<1>2. Kept'
  BY DEF Lossless, Kept
<1>3. \A c \in Clients : Follows(c)'
  BY FollowsStays DEF Lossless
<1> QED BY <1>1, <1>2, <1>3 DEF Lossless

(* An event is stored and delivered. *)
LEMMA LosslessPut ==
  ASSUME Base, Lossless, backend = "memory", ~ Dead, NEW kind \in Kinds, MemoryPut(kind)
  PROVE  Lossless'
<1>1. CASE broker[Worker] = "finished"
  <2>1. UNCHANGED <<log, buffer, seen, chan, reader, broker>>
    BY <1>1 DEF MemoryPut
  <2> QED BY <1>1, <2>1, LosslessStays
<1>2. CASE broker[Worker] # "finished"
  <2> DEFINE ev == [id |-> counter + 1, kind |-> kind, no |-> made + 1]
             N == Len(log)
  <2>1. buffer = log /\ counter = N
    BY <1>2 DEF Lossless, Kept
  <2>2. ev.id = N + 1 /\ ev \in Event
    BY <2>1 DEF Base, DataOK, CountsOK, Event
  <2>3. /\ Store(<<ev>>) /\ log' = Append(log, ev) /\ Deliver(<<ev>>)
        /\ reader' = reader \/ \E rs : reader' = CloseReaders(rs)
        /\ counter' = counter + 1 /\ seen' = seen
    BY <1>2 DEF MemoryPut
  <2> HIDE DEF ev
  <2>4. log \in Seq(Event) /\ N \in Nat
    BY DEF Base, DataOK, LogOK
  <2>5. /\ Len(log') = N + 1 /\ log'[N + 1] = ev
        /\ \A n \in 1 .. N : log'[n] = log[n]
    BY <2>2, <2>3, <2>4
  <2>6. Numbered'
    BY <2>2, <2>4, <2>5 DEF Lossless, Numbered
  <2>7. Kept'
    <3>1. buffer' = log \o <<ev>>
      BY <2>1, <2>3 DEF Store
    <3>2. buffer' = log'
      BY <2>2, <2>3, <2>4, <3>1
    <3> QED BY <2>1, <2>3, <2>5, <3>2 DEF Kept
  <2>8. ASSUME NEW c \in Clients PROVE Follows(c)'
    <3> DEFINE r == reader[c]
               L == Len(seen[c])
               P == Len(r.pend)
    <3>1. Follows(c) /\ r.pend \in Seq(Event) /\ chan[c] \in Seq(Event) /\ seen[c] \in Seq(Event)
      BY Types DEF Lossless
    <3>2. /\ reader'[c].pc = r.pc /\ reader'[c].sent = r.sent
          /\ reader'[c].last = r.last /\ reader'[c].pend = r.pend
      BY <2>3, CloseReadersType DEF Base, DataOK
    <3>3. seen'[c] = seen[c] /\ L \in Nat /\ L <= N
      BY <2>3, <3>1 DEF Follows, Received
    <3>4. ASSUME NEW s \in Seq(Event), NEW a \in Nat, a >= 1, a + Len(s) <= N + 1,
                 Piece(s, log, a)
          PROVE  Piece(s, log', a)
      BY <2>4, <2>5, <3>4 DEF Piece
    <3>5. Received(c)'
      <4>1. Piece(seen[c], log', 1)
        BY <3>1, <3>3, <3>4 DEF Follows, Received
      <4> QED BY <2>4, <2>5, <3>3, <4>1 DEF Received
    <3>6. CASE r.pc # "listen"
      <4>1. chan'[c] = chan[c]
        BY <2>3, <3>1, <3>6 DEF Deliver, Subscribed, Follows
      <4>2. CASE r.pc = "replaying"
        <5>1. Piece(r.pend, log, L + 1) /\ L + P <= N /\ P \in Nat
          <6>1. Piece(r.pend, log, L + 1) /\ L + P <= N
            BY <3>1, <4>2 DEF Follows
          <6>2. P \in Nat
            BY <3>1
          <6> QED BY <6>1, <6>2
        <5> HIDE DEF P, L, r, N
        <5>2. L + 1 \in Nat /\ L + 1 >= 1 /\ (L + 1) + P <= N + 1 /\ L + P <= N + 1
          BY <2>4, <3>3, <5>1
        <5>3. Piece(r.pend, log', L + 1)
          BY <3>1, <3>4, <5>1, <5>2 DEF P
        <5> USE DEF L, r, N
        <5>4. L + Len(r.pend) <= Len(log')
          BY <2>5, <5>2 DEF P
        <5> QED BY <3>1, <3>2, <3>3, <3>5, <4>1, <4>2, <5>3, <5>4 DEF Follows
      <4>3. CASE r.pc # "replaying"
        BY <3>1, <3>2, <3>3, <3>5, <3>6, <4>1, <4>3 DEF Follows
      <4> QED BY <4>2, <4>3
    <3>7. CASE r.pc = "listen"
      <4>1. chan'[c] = chan[c] \o <<ev>>
        BY <2>3, <3>7 DEF Deliver, Subscribed
      <4>2. PICK a \in 1 .. L + 1 : Rest(c, a)
        BY <3>1, <3>7 DEF Follows
      <4> DEFINE Q == Len(chan[c])
      <4>3. P \in Nat /\ Q \in Nat /\ a + P + Q = N + 1 /\ a \in Nat /\ a >= 1
        <5>1. P \in Nat /\ Q \in Nat
          BY <3>1
        <5>2. a \in Nat /\ a >= 1
          BY <3>3
        <5>3. a + P + Q = N + 1
          BY <4>2 DEF Rest
        <5> QED BY <5>1, <5>2, <5>3
      <4>4. Piece(r.pend, log', a)
        <5>1. a + P <= N + 1
          <6> HIDE DEF P, Q, N
          <6> QED BY <2>4, <4>3
        <5> QED BY <3>1, <3>4, <4>2, <4>3, <5>1 DEF Rest
      <4> HIDE DEF P, Q
      <4>5. Len(chan'[c]) = Q + 1 /\ chan'[c][Q + 1] = ev /\ \A n \in 1 .. Q : chan'[c][n] = chan[c][n]
        BY <2>2, <3>1, <4>1 DEF Q
      <4>6. ASSUME NEW n \in 1 .. Q + 1 PROVE chan'[c][n] = log'[a + P + n - 1]
        <5>1. CASE n = Q + 1
          <6>1. a + P + n - 1 = N + 1
            BY <2>4, <4>3, <5>1
          <6> QED BY <2>5, <4>5, <5>1, <6>1
        <5>2. CASE n \in 1 .. Q
          <6>1. chan[c][n] = log[a + P + n - 1] /\ a + P + n - 1 \in 1 .. N
            <7>1. Piece(chan[c], log, a + P) /\ n \in 1 .. Len(chan[c])
              BY <4>2, <5>2 DEF Rest, P, Q
            <7> QED BY <2>4, <4>3, <5>2, <7>1 DEF Piece
          <6> QED BY <2>5, <4>5, <5>2, <6>1
        <5> QED BY <4>3, <5>1, <5>2
      <4>7. Piece(chan'[c], log', a + P)
        BY <4>5, <4>6 DEF Piece
      <4>8. Rest(c, a)'
        <5>1. a + P + (Q + 1) = (N + 1) + 1
          BY <2>4, <4>3
        <5> QED BY <2>5, <3>2, <4>4, <4>5, <4>7, <5>1 DEF Rest, P
      <4> QED BY <3>1, <3>2, <3>3, <3>5, <3>7, <4>2, <4>8 DEF Follows
    <3> QED BY <3>6, <3>7
  <2> QED BY <2>6, <2>7, <2>8 DEF Lossless
<1> QED BY <1>1, <1>2

(* execute_run and whoever cancels the run. *)
LEMMA LosslessControl ==
  ASSUME Base, Lossless, backend = "memory",
         TaskStep \/ Emit \/ GraphEnds \/ TimesOut \/ ExecuteCancel \/ Interrupt \/ ApiStep
  PROVE  Lossless'
<1>1. CASE Begin \/ CancelHandled \/ SignalSkipped \/ GraphEnds \/ Interrupt
  <2>1. UNCHANGED <<streams, clients, broker>>
    BY <1>1 DEF Begin, CancelHandled, SignalSkipped, GraphEnds, Interrupt, Finalize
  <2>2. Dead => Dead'
    BY <1>1 DEF Begin, CancelHandled, SignalSkipped, GraphEnds, Interrupt, Finalize, Dead
  <2> QED BY <2>1, <2>2, LosslessStays DEF streams, clients
<1>2. CASE Finally \/ InterruptCleans
  <2>1. /\ CleanupBroker(Worker) /\ UNCHANGED <<run, streams, chan, seen>>
        /\ (task' = task /\ api' = "done") \/ (task' = "done" /\ api' = api)
    BY <1>2 DEF Finally, InterruptCleans, At
  <2>2. Dead => Dead'
    BY <1>2, <2>1 DEF Dead, Finally, InterruptCleans
  <2>3. broker[Worker] = "finished" => broker'[Worker] = "finished"
    BY <2>1, Hosts DEF CleanupBroker, Base, DataOK, BrokerOK
  <2>4. \A c \in Clients : /\ reader'[c].pc = reader[c].pc /\ reader'[c].sent = reader[c].sent
                           /\ reader'[c].last = reader[c].last
                           /\ reader'[c].pend = reader[c].pend
    BY <2>1, CloseReadersType DEF CleanupBroker, Base, DataOK
  <2> QED BY <2>1, <2>2, <2>3, <2>4, LosslessStays DEF streams
<1>3. CASE Signal
  <2>1. PICK kind \in Kinds : MemoryPut(kind)
    BY <1>3 DEF Signal, Write, Kinds
  <2>2. ~ Dead
    BY <1>3 DEF Signal, Dead
  <2> QED BY <2>1, <2>2, LosslessPut
<1>4. CASE SignalErrorEnd
  BY <1>4, LosslessPut DEF SignalErrorEnd, Write, Dead, Kinds
<1>5. CASE Emit
  BY <1>5, LosslessPut DEF Emit, Write, Dead, Kinds
<1>6. CASE TimesOut
  BY <1>6 DEF TimesOut
<1>7. CASE ExecuteCancel
  <2>1. ~ Dead
    BY <1>7 DEF ExecuteCancel, Running, Dead
  <2>2. CASE broker[Worker] = "finished"
    <3>1. UNCHANGED <<broker, streams, clients>>
      BY <1>7, <2>2 DEF ExecuteCancel
    <3> QED BY <2>1, <3>1, LosslessStays DEF streams, clients
  <2>3. CASE broker[Worker] # "finished"
    BY <1>7, <2>1, <2>3, LosslessPut DEF ExecuteCancel, Kinds
  <2> QED BY <2>2, <2>3
<1>8. CASE InterruptStops
  <2>1. UNCHANGED <<streams, clients>> /\ (broker' = broker \/ broker' = Created(Worker)) /\ ~ Dead
    BY <1>8 DEF InterruptStops, GetOrCreate, Dead
  <2>2. broker[Worker] = "finished" => broker'[Worker] = "finished"
    BY <2>1, Hosts DEF Created, Base, DataOK, BrokerOK
  <2> QED BY <2>1, <2>2, LosslessStays DEF streams, clients
<1>9. CASE InterruptSignals
  <2>1. ~ Dead /\ At("api") = Worker
    BY <1>9 DEF InterruptSignals, Dead, At
  <2>2. CASE broker[Worker] = "finished"
    <3>1. UNCHANGED <<broker, streams, clients>>
      BY <1>9, <2>1, <2>2 DEF InterruptSignals
    <3> QED BY <2>1, <3>1, LosslessStays DEF streams, clients
  <2>3. CASE broker[Worker] # "finished"
    BY <1>9, <2>1, <2>3, LosslessPut DEF InterruptSignals, Write, Kinds
  <2> QED BY <2>2, <2>3
<1> QED BY <1>1, <1>2, <1>3, <1>4, <1>5, <1>6, <1>7, <1>8, <1>9 DEF TaskStep, ApiStep

(* The sweep removes the broker of a run that is over. *)
LEMMA LosslessExpire ==
  ASSUME Base, Lossless, backend = "memory", Expire
  PROVE  Lossless'
<1>1. Dead /\ Dead' /\ UNCHANGED <<log, clients>> /\ buffer' = <<>>
  BY DEF Expire, Settled, Dead, control
<1>2. Numbered' /\ Kept'
  BY <1>1 DEF Lossless, Numbered, Kept
<1>3. \A c \in Clients : Follows(c)'
  BY <1>1, FollowsStays DEF Lossless, clients
<1> QED BY <1>2, <1>3 DEF Lossless

(* A step of one client. *)
LEMMA OneClient ==
  ASSUME Lossless, NEW c \in Clients, UNCHANGED <<control, streams>>,
         \A d \in Clients \ {c} : /\ seen'[d] = seen[d] /\ chan'[d] = chan[d]
                                  /\ reader'[d].pc = reader[d].pc /\ reader'[d].sent = reader[d].sent
                                  /\ reader'[d].last = reader[d].last
                                  /\ reader'[d].pend = reader[d].pend,
         broker[Worker] = "finished" => broker'[Worker] = "finished",
         Follows(c)'
  PROVE  Lossless'
<1>1. Dead' <=> Dead
  BY DEF Dead, control
<1>2. Numbered' /\ Kept'
  BY <1>1 DEF Lossless, Numbered, Kept, streams
<1>3. ASSUME NEW d \in Clients, d # c PROVE Follows(d)'
  BY <1>1, <1>3, FollowsStays DEF Lossless, streams
<1> QED BY <1>2, <1>3 DEF Lossless

(* A client that goes away keeps what it received. *)
LEMMA AwayFollows ==
  ASSUME NEW c \in Clients, Received(c), reader'[c] = Gone(c), chan'[c] = <<>>,
         UNCHANGED <<seen, log>>
  PROVE  Follows(c)'
BY DEF Follows, Received, Gone, Away

(* What replay hands out is the stream from the first unseen event on. *)
LEMMA ReplayIsRest ==
  ASSUME Base, Lossless, backend = "memory", NEW c \in Clients, reader[c].pc = "replay"
  PROVE  /\ Piece(After(reader[c].last), log, Len(seen[c]) + 1)
         /\ Len(seen[c]) + Len(After(reader[c].last)) <= Len(log)
<1> DEFINE L == Len(seen[c])
           N == Len(log)
           found == {n \in DOMAIN buffer : buffer[n].id = L}
<1>1. reader[c].last = L /\ L \in Nat /\ L <= N /\ N \in Nat /\ log \in Seq(Event)
  BY Types DEF Lossless, Follows, Received
<1>2. After(L) = IF found = {} THEN buffer
                 ELSE SubSeq(buffer, (CHOOSE n \in found : \A m \in found : n <= m) + 1, Len(buffer))
  BY DEF After, Stored
<1>3. CASE buffer = <<>>
  <2>1. After(L) = <<>>
    BY <1>2, <1>3
  <2> QED BY <1>1, <2>1 DEF Piece
<1>4. CASE buffer = log
  <2>1. DOMAIN log = 1 .. N /\ \A n \in 1 .. N : log[n].id = n
    BY <1>1 DEF Lossless, Numbered
  <2>2. CASE L = 0
    <3>1. found = {}
      BY <1>4, <2>1, <2>2
    <3>2. After(L) = log
      BY <1>2, <1>4, <3>1
    <3> QED BY <1>1, <2>2, <3>2 DEF Piece
  <2>3. CASE L # 0
    <3>1. found = {L}
      BY <1>1, <1>4, <2>1, <2>3
    <3>2. (CHOOSE n \in found : \A m \in found : n <= m) = L
      BY <1>1, <3>1
    <3>3. After(L) = SubSeq(log, L + 1, N)
      BY <1>2, <1>4, <3>1, <3>2
    <3>4. /\ Len(SubSeq(log, L + 1, N)) = N - L
          /\ \A n \in 1 .. N - L : SubSeq(log, L + 1, N)[n] = log[L + 1 + n - 1]
      <4> HIDE DEF L, N
      <4>1. L + 1 \in Int /\ N \in Int /\ \A n \in L + 1 .. N : log[n] \in Event
        BY <1>1 DEF N
      <4>2. /\ Len(SubSeq(log, L + 1, N)) = IF L + 1 <= N THEN N - (L + 1) + 1 ELSE 0
            /\ \A n \in 1 .. N - (L + 1) + 1 : SubSeq(log, L + 1, N)[n] = log[L + 1 + n - 1]
        BY <4>1, SubSeqProperties
      <4>3. N - (L + 1) + 1 = N - L /\ (~ L + 1 <= N => N - L = 0)
        BY <1>1
      <4> QED BY <4>2, <4>3
    <3>5. L + (N - L) <= N
      <4> HIDE DEF L, N
      <4> QED BY <1>1
    <3>6. Len(After(L)) = N - L /\ \A n \in 1 .. Len(After(L)) : After(L)[n] = log[L + 1 + n - 1]
      BY <3>3, <3>4
    <3>7. Piece(After(L), log, L + 1) /\ L + Len(After(L)) <= N
      BY <3>5, <3>6 DEF Piece
    <3> QED BY <1>1, <3>7
  <2> QED BY <2>2, <2>3
<1> QED BY <1>3, <1>4 DEF Lossless, Kept

(* An event that follows what the client has seen is shown to it. *)
LEMMA ReceivedGrows ==
  ASSUME Base, NEW c \in Clients, Received(c), Len(seen[c]) + 1 <= Len(log), log' = log,
         seen'[c] = Append(seen[c], log[Len(seen[c]) + 1])
  PROVE  Received(c)' /\ Len(seen'[c]) = Len(seen[c]) + 1
<1> DEFINE L == Len(seen[c])
           N == Len(log)
           ev == log[L + 1]
<1>1. L \in Nat /\ N \in Nat /\ log \in Seq(Event) /\ seen[c] \in Seq(Event) /\ L + 1 <= N
  BY Types
<1>2. ev \in Event
  BY <1>1
<1>3. seen'[c] = Append(seen[c], ev) /\ \A n \in 1 .. L : seen[c][n] = log[1 + n - 1]
  BY DEF Received, Piece
<1> HIDE DEF ev
<1>4. Len(seen'[c]) = L + 1 /\ seen'[c][L + 1] = ev /\ \A n \in 1 .. L : seen'[c][n] = seen[c][n]
  BY <1>1, <1>2, <1>3
<1>5. ASSUME NEW n \in 1 .. L + 1 PROVE seen'[c][n] = log[1 + n - 1]
  <2> HIDE DEF L
  <2>1. CASE n = L + 1
    <3>1. 1 + n - 1 = L + 1
      BY <1>1, <2>1
    <3> QED BY <1>4, <2>1, <3>1 DEF ev
  <2>2. CASE n \in 1 .. L
    BY <1>3, <1>4, <2>2
  <2>3. n = L + 1 \/ n \in 1 .. L
    BY <1>1
  <2> QED BY <2>1, <2>2, <2>3
<1>6. Piece(seen'[c], log', 1)
  BY <1>4, <1>5 DEF Piece
<1> QED BY <1>1, <1>4, <1>6 DEF Received

(* The first event of a piece, and what is left of it. *)
LEMMA PieceTail ==
  ASSUME NEW s \in Seq(Event), s # <<>>, NEW l, NEW a \in Nat, Piece(s, l, a)
  PROVE  /\ Head(s) = l[a] /\ Tail(s) \in Seq(Event) /\ Len(s) \in Nat \ {0}
         /\ Len(Tail(s)) = Len(s) - 1 /\ Piece(Tail(s), l, a + 1)
<1>1. /\ Head(s) = s[1] /\ Tail(s) \in Seq(Event) /\ Len(s) \in Nat \ {0}
      /\ Len(Tail(s)) = Len(s) - 1 /\ \A n \in 1 .. Len(s) - 1 : Tail(s)[n] = s[n + 1]
  BY HeadTailProperties
<1>2. s[1] = l[a]
  <2>1. 1 \in 1 .. Len(s) /\ a + 1 - 1 = a
    BY <1>1
  <2> QED BY <2>1 DEF Piece
<1>3. ASSUME NEW n \in 1 .. Len(s) - 1 PROVE Tail(s)[n] = l[(a + 1) + n - 1]
  <2>1. n + 1 \in 1 .. Len(s) /\ a + (n + 1) - 1 = (a + 1) + n - 1
    BY <1>1
  <2>2. s[n + 1] = l[a + (n + 1) - 1]
    BY <2>1 DEF Piece
  <2> QED BY <1>1, <2>1, <2>2
<1>4. Piece(Tail(s), l, a + 1)
  BY <1>1, <1>3 DEF Piece
<1> QED BY <1>1, <1>2, <1>4

(* The next event of the backlog or the queue. *)
LEMMA LosslessListen ==
  ASSUME Base, Lossless, backend = "memory", NEW c \in Clients, Listen(c)
  PROVE  Lossless'
<1> DEFINE r == reader[c]
           backlog == r.pend # <<>>
           ev == IF backlog THEN Head(r.pend) ELSE Head(chan[c])
           end == ev.kind = "end"
           L == Len(seen[c])
           N == Len(log)
           next == [r EXCEPT !.pend = IF backlog THEN Tail(@) ELSE @, !.prev = 0,
                             !.sent = IF New(c, ev) THEN ev.id ELSE @]
           R == [CloseReaders({}) EXCEPT ![c] = IF end THEN Gone(c) ELSE next]
<1>1. /\ r.pc = "listen" /\ (backlog \/ chan[c] # <<>>)
      /\ IF New(c, ev) THEN Show(c, ev) ELSE UNCHANGED seen
      /\ chan' = [chan EXCEPT ![c] = IF end THEN <<>> ELSE IF backlog THEN @ ELSE Tail(@)]
      /\ FinishedByReader(c, end) /\ reader' = R
      /\ UNCHANGED <<backend, control, lock, streams, used>>
  BY DEF Listen
<1>2. /\ log \in Seq(Event) /\ r.pend \in Seq(Event) /\ chan[c] \in Seq(Event) /\ r \in Conn
      /\ seen[c] \in Seq(Event) /\ N \in Nat /\ L \in Nat
      /\ Follows(c) /\ Received(c) /\ r.sent = L /\ L <= N
  BY <1>1, Types DEF Lossless, Follows, Received
<1>3. PICK a \in 1 .. L + 1 : Rest(c, a)
  BY <1>1, <1>2 DEF Follows
<1>4. a \in Nat /\ a >= 1 /\ a <= L + 1
  BY <1>2
<1> DEFINE P == Len(r.pend)
           Q == Len(chan[c])
<1>5. /\ P \in Nat /\ Q \in Nat /\ Piece(r.pend, log, a) /\ Piece(chan[c], log, a + P)
      /\ a + P + Q = N + 1
  <2>1. P \in Nat /\ Q \in Nat
    BY <1>2
  <2>2. Piece(r.pend, log, a) /\ Piece(chan[c], log, a + P) /\ a + P + Q = N + 1
    BY <1>3 DEF Rest
  <2> QED BY <2>1, <2>2
<1>6. ev = log[a] /\ a <= N
  <2>1. CASE backlog
    <3>1. ev = log[a] /\ P # 0
      BY <1>2, <1>4, <1>5, <2>1, PieceTail
    <3> HIDE DEF P, Q, N, ev
    <3> QED BY <1>2, <1>4, <1>5, <3>1
  <2>2. CASE ~ backlog
    <3>1. P = 0 /\ chan[c] # <<>>
      BY <1>1, <2>2
    <3>2. Piece(chan[c], log, a)
      BY <1>4, <1>5, <3>1
    <3>3. ev = log[a] /\ Q # 0
      BY <1>2, <1>4, <2>2, <3>1, <3>2, PieceTail
    <3> HIDE DEF P, Q, N, ev
    <3> QED BY <1>2, <1>4, <1>5, <3>1, <3>3
  <2> QED BY <2>1, <2>2
<1>7. ev.id = a
  BY <1>4, <1>6 DEF Lossless, Numbered
<1> HIDE DEF ev, next
<1>8. /\ Received(c)'
      /\ IF a = L + 1 THEN New(c, ev) /\ Len(seen'[c]) = L + 1 ELSE ~ New(c, ev) /\ seen' = seen
  <2>1. CASE a = L + 1
    <3>1. New(c, ev)
      BY <1>2, <1>7, <2>1 DEF New
    <3>2. seen'[c] = Append(seen[c], log[L + 1])
      BY <1>1, <1>6, <2>1, <3>1 DEF Show, Base, DataOK, SeenOK
    <3>3. Received(c)' /\ Len(seen'[c]) = L + 1
      BY <1>1, <1>2, <1>6, <2>1, <3>2, ReceivedGrows DEF streams
    <3> QED BY <2>1, <3>1, <3>3
  <2>2. CASE a # L + 1
    <3>1. a <= L
      <4> HIDE DEF L
      <4> QED BY <1>2, <1>4, <2>2
    <3>2. ~ New(c, ev)
      BY <1>2, <1>4, <1>7, <3>1 DEF New
    <3>3. seen' = seen
      BY <1>1, <3>2
    <3> QED BY <1>1, <1>2, <2>2, <3>2, <3>3 DEF Received, streams
  <2> QED BY <2>1, <2>2
<1>9. \A d \in Clients \ {c} : /\ seen'[d] = seen[d] /\ chan'[d] = chan[d]
                               /\ reader'[d].pc = reader[d].pc /\ reader'[d].sent = reader[d].sent
                               /\ reader'[d].last = reader[d].last
                               /\ reader'[d].pend = reader[d].pend
  <2>1. /\ CloseReaders({}) \in [Clients -> Conn]
        /\ \A d \in Clients : /\ CloseReaders({})[d].pc = reader[d].pc
                              /\ CloseReaders({})[d].sent = reader[d].sent
                              /\ CloseReaders({})[d].last = reader[d].last
                              /\ CloseReaders({})[d].pend = reader[d].pend
    BY CloseReadersType DEF Base, DataOK
  <2> QED BY <1>1, <2>1 DEF Show, Base, DataOK, SeenOK, ChanOK
<1>10. reader'[c] = (IF end THEN Gone(c) ELSE next)
       /\ chan'[c] = IF end THEN <<>> ELSE IF backlog THEN chan[c] ELSE Tail(chan[c])
  BY <1>1, CloseReadersType DEF Base, DataOK, ChanOK
<1>11. Follows(c)'
  <2>1. CASE end
    BY <1>8, <1>10, <2>1 DEF Follows, Gone, Away
  <2>2. CASE ~ end
    <3>1. /\ reader'[c].pc = "listen" /\ reader'[c].pend = IF backlog THEN Tail(r.pend) ELSE r.pend
          /\ reader'[c].sent = IF New(c, ev) THEN ev.id ELSE r.sent
      <4>1. reader'[c] = next
        BY <1>10, <2>2
      <4> DEFINE x == IF backlog THEN Tail(r.pend) ELSE r.pend
                 y == IF New(c, ev) THEN ev.id ELSE r.sent
      <4>2. reader'[c] = [r EXCEPT !.pend = x, !.prev = 0, !.sent = y]
        BY <4>1 DEF next
      <4>3. r \in Conn /\ r.pc = "listen"
        BY <1>1, <1>2
      <4>4. reader'[c].pc = "listen" /\ reader'[c].pend = x /\ reader'[c].sent = y
        <5> HIDE DEF x, y, r
        <5> QED BY <4>2, <4>3 DEF Conn
      <4> QED BY <4>4
    <3>2. reader'[c].sent = Len(seen'[c])
      BY <1>2, <1>7, <1>8, <3>1
    <3>3. a + 1 \in 1 .. Len(seen'[c]) + 1
      <4>1. Len(seen'[c]) = IF a = L + 1 THEN L + 1 ELSE L
        BY <1>8
      <4> HIDE DEF L
      <4> QED BY <1>2, <1>4, <4>1
    <3>4. Rest(c, a + 1)'
      <4>1. log' = log
        BY <1>1 DEF streams
      <4>2. CASE backlog
        <5>1. reader'[c].pend = Tail(r.pend) /\ chan'[c] = chan[c]
          BY <1>10, <2>2, <3>1, <4>2
        <5>2. /\ Len(Tail(r.pend)) = P - 1 /\ P \in Nat \ {0}
              /\ Piece(Tail(r.pend), log, a + 1)
          BY <1>2, <1>4, <1>5, <4>2, PieceTail
        <5>3. (a + 1) + (P - 1) = a + P /\ (a + 1) + (P - 1) + Q = N + 1
          <6> HIDE DEF P, Q, N
          <6> QED BY <1>2, <1>4, <1>5, <5>2
        <5> QED BY <1>5, <4>1, <5>1, <5>2, <5>3 DEF Rest
      <4>3. CASE ~ backlog
        <5>1. reader'[c].pend = r.pend /\ chan'[c] = Tail(chan[c]) /\ P = 0 /\ chan[c] # <<>>
          BY <1>1, <1>10, <2>2, <3>1, <4>3
        <5>2. a + P = a
          BY <1>4, <5>1
        <5>3. /\ Len(Tail(chan[c])) = Q - 1 /\ Q \in Nat \ {0}
              /\ Piece(Tail(chan[c]), log, a + 1)
          BY <1>2, <1>4, <1>5, <5>1, <5>2, PieceTail
        <5>4. (a + 1) + P = a + 1 /\ (a + 1) + P + (Q - 1) = N + 1
          <6> HIDE DEF P, Q, N
          <6> QED BY <1>2, <1>4, <1>5, <5>1, <5>3
        <5>5. Piece(r.pend, log, a + 1)
          BY <5>1 DEF Piece
        <5> QED BY <4>1, <5>1, <5>3, <5>4, <5>5 DEF Rest
      <4> QED BY <4>2, <4>3
    <3> QED BY <1>8, <3>1, <3>2, <3>3, <3>4 DEF Follows
  <2> QED BY <2>1, <2>2
<1>12. broker' = broker
  BY <1>1 DEF FinishedByReader
<1> QED BY <1>1, <1>9, <1>11, <1>12, OneClient

(* Every step of a client. *)
LEMMA LosslessClients ==
  ASSUME Base, Lossless, backend = "memory", NEW c \in Clients,
         ClientStep(c) \/ Connect(c) \/ Disconnect(c) \/ PubSubError(c)
  PROVE  Lossless'
<1> DEFINE r == reader[c]
           L == Len(seen[c])
           N == Len(log)
<1>1. /\ Follows(c) /\ Received(c) /\ L <= N /\ r \in Conn /\ r.host \in Instances
      /\ seen[c] \in Seq(Event) /\ log \in Seq(Event) /\ r.pend \in Seq(Event)
      /\ L \in Nat /\ N \in Nat
  BY Types DEF Lossless, Follows, Received, Conn
<1>2. reader \in [Clients -> Conn] /\ chan \in [Clients -> Seq(Event)]
      /\ seen \in [Clients -> Seq(Event)] /\ broker \in [Instances -> {"none", "open", "finished"}]
  BY DEF Base, DataOK, ReaderOK, ChanOK, SeenOK, BrokerOK
<1>3. ASSUME NEW x, Set(c, x)
      PROVE  reader'[c] = x /\ \A d \in Clients \ {c} : reader'[d] = reader[d]
  BY <1>2, <1>3 DEF Set
<1>4. ASSUME GetOrCreate(r.host) PROVE broker[Worker] = "finished" => broker'[Worker] = "finished"
  BY <1>1, <1>2, <1>4, Hosts DEF GetOrCreate, Created
<1>5. CASE Replay(c)
  <2>1. Set(c, [r EXCEPT !.pc = "replaying", !.pend = After(r.last)])
        /\ UNCHANGED <<control, streams, chan, seen>> /\ r.pc = "replay" /\ GetOrCreate(r.host)
    BY <1>5 DEF Replay
  <2>2. /\ Piece(After(r.last), log, L + 1)
        /\ L + Len(After(r.last)) <= N
    BY <2>1, ReplayIsRest
  <2>3. /\ reader'[c].pc = "replaying" /\ reader'[c].pend = After(r.last)
        /\ reader'[c].sent = r.sent
    <3>1. reader'[c] = [r EXCEPT !.pc = "replaying", !.pend = After(r.last)]
      BY <1>3, <2>1
    <3> QED BY <1>1, <3>1 DEF Conn
  <2>4. Follows(c)'
    BY <1>1, <2>1, <2>2, <2>3 DEF Follows, Received, streams
  <2> QED BY <1>3, <1>4, <2>1, <2>4, OneClient
<1>6. CASE YieldReplayed(c)
  <2> DEFINE ev == Head(r.pend)
  <2>1. /\ r.pc = "replaying" /\ r.pend # <<>> /\ Show(c, ev)
        /\ Set(c, [r EXCEPT !.pend = Tail(@), !.sent = IF ev.id > @ THEN ev.id ELSE @])
        /\ UNCHANGED <<control, streams, chan, broker>>
    BY <1>6 DEF YieldReplayed
  <2>2. Piece(r.pend, log, L + 1) /\ L + Len(r.pend) <= N /\ r.sent = L /\ chan[c] = <<>>
    BY <1>1, <2>1 DEF Follows
  <2>3. /\ ev = log[L + 1] /\ Len(r.pend) \in Nat \ {0} /\ Len(Tail(r.pend)) = Len(r.pend) - 1
        /\ Piece(Tail(r.pend), log, (L + 1) + 1)
    BY <1>1, <2>1, <2>2, PieceTail
  <2>4. L + 1 <= N /\ (L + 1) + (Len(r.pend) - 1) <= N
    <3> DEFINE P == Len(r.pend)
    <3>1. P \in Nat \ {0} /\ L + P <= N
      BY <2>2, <2>3
    <3> HIDE DEF P, L, N
    <3>2. L + 1 <= N /\ (L + 1) + (P - 1) <= N
      BY <1>1, <3>1
    <3> QED BY <3>2 DEF P, L, N
  <2>5. ev.id = L + 1
    BY <1>1, <2>3, <2>4 DEF Lossless, Numbered
  <2>6. seen'[c] = Append(seen[c], log[L + 1]) /\ log' = log
        /\ \A d \in Clients \ {c} : seen'[d] = seen[d]
    BY <1>2, <2>1, <2>3 DEF Show, streams
  <2>7. Received(c)' /\ Len(seen'[c]) = L + 1
    BY <1>1, <2>4, <2>6, ReceivedGrows
  <2> HIDE DEF ev
  <2>8. /\ reader'[c].pc = "replaying" /\ reader'[c].pend = Tail(r.pend)
        /\ reader'[c].sent = L + 1
    <3>1. reader'[c] = [r EXCEPT !.pend = Tail(@), !.sent = IF ev.id > @ THEN ev.id ELSE @]
      BY <1>3, <2>1
    <3>2. ev.id > r.sent
      BY <1>1, <2>2, <2>5
    <3> QED BY <1>1, <2>1, <2>5, <3>1, <3>2 DEF Conn
  <2>9. Follows(c)'
    BY <2>1, <2>2, <2>3, <2>4, <2>6, <2>7, <2>8 DEF Follows
  <2> QED BY <1>3, <2>1, <2>6, <2>9, OneClient
<1>7. CASE GoLive(c)
  <2>1. r.pc = "replaying" /\ r.pend = <<>> /\ UNCHANGED <<control, streams, chan, seen>>
    BY <1>7 DEF GoLive
  <2>2. chan[c] = <<>> /\ r.sent = L
    BY <1>1, <2>1 DEF Follows
  <2>3. CASE Set(c, Gone(c)) /\ UNCHANGED broker
    <3>1. Follows(c)'
      BY <1>1, <1>3, <2>1, <2>2, <2>3, AwayFollows DEF streams
    <3> QED BY <1>3, <2>1, <2>3, <3>1, OneClient
  <2>4. CASE GetOrCreate(r.host)
             /\ Set(c, [r EXCEPT !.pc = "listen", !.pend = Backlog, !.closed = broker[r.host] = "finished"])
    <3>1. /\ reader'[c].pc = "listen" /\ reader'[c].pend = buffer /\ reader'[c].sent = L
      <4>1. reader'[c] = [r EXCEPT !.pc = "listen", !.pend = buffer,
                                   !.closed = broker[r.host] = "finished"]
        BY <1>3, <2>4 DEF Backlog
      <4> QED BY <1>1, <2>2, <4>1 DEF Conn
    <3>2. Follows(c)'
      <4>1. CASE buffer = log
        <5>1. Piece(log, log, 1) /\ Piece(<<>>, log, 1 + N)
          BY <1>1 DEF Piece
        <5>2. Rest(c, 1)'
          BY <1>1, <2>1, <2>2, <3>1, <4>1, <5>1 DEF Rest, streams
        <5>3. 1 \in 1 .. L + 1
          BY <1>1
        <5> QED BY <1>1, <2>1, <2>2, <3>1, <5>2, <5>3 DEF Follows, Received, streams
      <4>2. CASE buffer = <<>> /\ Dead
        <5>1. Dead'
          BY <2>1, <4>2 DEF Dead, control
        <5> QED BY <1>1, <2>1, <2>2, <3>1, <4>2, <5>1 DEF Follows, Received, streams
      <4> QED BY <4>1, <4>2 DEF Lossless, Kept
    <3> QED BY <1>3, <1>4, <2>1, <2>4, <3>2, OneClient
  <2> QED BY <1>7, <2>3, <2>4 DEF GoLive
<1>8. CASE Subscribe(c) \/ CheckEnd(c) \/ PubSubError(c)
  BY <1>1, <1>8 DEF Subscribe, CheckEnd, PubSubError, Follows
<1>9. CASE Listen(c)
  BY <1>9, LosslessListen
<1>10. CASE StopListening(c) \/ Disconnect(c)
  <2>1. /\ Set(c, Gone(c)) /\ chan' = [chan EXCEPT ![c] = <<>>]
        /\ UNCHANGED <<control, streams, seen, broker>>
    BY <1>2, <1>10 DEF StopListening, Disconnect
  <2>2. Follows(c)'
    BY <1>1, <1>2, <1>3, <2>1, AwayFollows DEF streams
  <2>3. \A d \in Clients \ {c} : chan'[d] = chan[d]
    BY <1>2, <2>1
  <2> QED BY <1>3, <2>1, <2>2, <2>3, OneClient
<1>11. CASE Connect(c)
  <2> DEFINE last == IF seen[c] = <<>> THEN 0 ELSE Last(seen[c]).id
  <2>1. /\ r.pc = "away" /\ UNCHANGED <<control, streams, chan, seen, broker>>
        /\ Set(c, [Away(r.tries + 1) EXCEPT !.pc = "replay", !.host = Worker, !.last = last,
                                            !.sent = last, !.over = run = "over"])
    BY <1>11 DEF Connect
  <2>2. last = L
    <3>1. CASE seen[c] = <<>>
      BY <3>1
    <3>2. CASE seen[c] # <<>>
      <4>1. L \in 1 .. N /\ Last(seen[c]) = seen[c][L]
        BY <1>1, <3>2 DEF Last
      <4>2. seen[c][L] = log[L]
        <5>1. L \in 1 .. L /\ 1 + L - 1 = L
          BY <1>1, <4>1
        <5> QED BY <1>1, <5>1 DEF Received, Piece
      <4>3. log[L].id = L
        BY <4>1 DEF Lossless, Numbered
      <4> QED BY <3>2, <4>1, <4>2, <4>3
    <3> QED BY <3>1, <3>2
  <2> HIDE DEF last
  <2>3. /\ reader'[c].pc = "replay" /\ reader'[c].pend = <<>> /\ reader'[c].sent = L
        /\ reader'[c].last = L
    <3>1. reader'[c] = [Away(r.tries + 1) EXCEPT !.pc = "replay", !.host = Worker, !.last = last,
                                                 !.sent = last, !.over = run = "over"]
      BY <1>3, <2>1
    <3> QED BY <2>2, <3>1 DEF Away
  <2>4. Follows(c)'
    BY <1>1, <2>1, <2>3 DEF Follows, Received, streams
  <2> QED BY <1>3, <2>1, <2>4, OneClient
<1> QED BY <1>5, <1>6, <1>7, <1>8, <1>9, <1>10, <1>11 DEF ClientStep

LEMMA LosslessNext ==
  Base /\ (backend = "memory" => Lossless) /\ [Next]_vars => (backend = "memory" => Lossless)'
<1> SUFFICES ASSUME Base, backend = "memory" => Lossless, [Next]_vars, backend' = "memory"
             PROVE  Lossless'
  OBVIOUS
<1>1. CASE UNCHANGED vars
  BY <1>1, LosslessStays DEF vars, streams, clients, control, Dead
<1>2. CASE Next
  <2>1. backend' = backend
    BY <1>2 DEF Next, TaskStep, Begin, CancelHandled, SignalSkipped, Signal, SignalErrorEnd, Finally,
                Emit, GraphEnds, Finalize, TimesOut, ExecuteCancel, Interrupt, ApiStep,
                InterruptStops, InterruptSignals, InterruptCleans, Expire, PutStep, Allocate,
                Offer, CacheEvent, PublishEvent, WriteFails, ClientStep, Replay, YieldReplayed,
                GoLive, Subscribe, CheckEnd, Listen, StopListening, Connect, Disconnect,
                PubSubError
  <2>2. backend = "memory" /\ Lossless
    BY <2>1
  <2>3. ASSUME NEW w \in Writers, PutStep(w) \/ WriteFails(w) PROVE FALSE
    BY <2>2, <2>3 DEF Base, Idleness, Quiet, Idle, PutStep, WriteFails, Allocate, Offer,
                      CacheEvent, Locks, PublishEvent
  <2> QED BY <1>2, <2>2, <2>3, LosslessControl, LosslessExpire, LosslessClients DEF Next
<1> QED BY <1>1, <1>2

LEMMA AlwaysLossless == Spec => [](Base /\ (backend = "memory" => Lossless))
BY BaseInit, BaseNext, LosslessInit, LosslessNext, PTL DEF Spec

(* The in-memory broker loses nothing between replay and live events, over   *)
(* any number of connections: aiter takes the backlog as it registers its    *)
(* queue, and the number of an event tells what was already sent.            *)
THEOREM NothingLost == Spec => []MemoryGapless
<1>1. Base /\ (backend = "memory" => Lossless) => MemoryGapless
  <2> SUFFICES ASSUME Base, Lossless, NEW c \in Clients PROVE IsPrefix(seen[c], log)
    BY DEF MemoryGapless, Gapless
  <2> DEFINE L == Len(seen[c])
  <2>1. /\ log \in Seq(Event) /\ seen[c] \in Seq(Event) /\ L \in Nat /\ L <= Len(log)
        /\ \A n \in 1 .. L : seen[c][n] = log[1 + n - 1]
    BY Types DEF Lossless, Follows, Received, Piece
  <2>2. ASSUME NEW n \in 1 .. L PROVE seen[c][n] = log[n]
    <3>1. 1 + n - 1 = n
      OBVIOUS
    <3> QED BY <2>1, <3>1
  <2>3. SubSeq(seen[c], 1, L) = SubSeq(log, 1, L)
    BY <2>1, <2>2
  <2> QED BY <2>1, <2>3 DEF IsPrefix
<1> QED BY <1>1, AlwaysLossless, PTL

(* With the in-memory broker a client sees no event twice and none out of    *)
(* order.                                                                    *)
THEOREM MemoryInOrder == Spec => [](backend = "memory" => InOrder)
<1>1. Base /\ (backend = "memory" => Lossless) => (backend = "memory" => InOrder)
  <2> SUFFICES ASSUME Base, Lossless, NEW c \in Clients, NEW m \in DOMAIN seen[c],
                      NEW n \in DOMAIN seen[c], m < n
               PROVE  Position(seen[c][m]) < Position(seen[c][n])
    BY DEF InOrder
  <2> DEFINE L == Len(seen[c])
  <2>1. /\ log \in Seq(Event) /\ seen[c] \in Seq(Event) /\ L \in Nat /\ L <= Len(log)
        /\ \A k \in 1 .. L : seen[c][k] = log[1 + k - 1]
    BY Types DEF Lossless, Follows, Received, Piece
  <2>2. ASSUME NEW k \in 1 .. L PROVE Position(seen[c][k]) = k
    <3>1. k \in DOMAIN log /\ seen[c][k] = log[k]
      <4>1. 1 + k - 1 = k /\ k \in 1 .. Len(log)
        BY <2>1
      <4> QED BY <2>1, <4>1
    <3>2. ASSUME NEW j \in DOMAIN log, log[j] = log[k] PROVE j = k
      BY <2>1, <3>1, <3>2 DEF Lossless, Numbered
    <3> QED BY <3>1, <3>2 DEF Position
  <2>3. m \in 1 .. L /\ n \in 1 .. L
    BY <2>1
  <2> QED BY <2>2, <2>3
<1> QED BY <1>1, AlwaysLossless, PTL

-----------------------------------------------------------------------------
(***************************************************************************)
(* The order of events over Redis.  Replay and the live stream overlap,    *)
(* ids start again after ten minutes of silence, writes are repeated and a *)
(* time stamp may stand for a number; what keeps the order is that events  *)
(* are stored and published one after the other, that the buffer is the    *)
(* newest part of the stream, and that no two events in it share an id.    *)
(***************************************************************************)
Logged   == {log[n] : n \in DOMAIN log}
InFlight == {w \in Writers : out[w].pc \in {"put", "wait"}}

(* Every event has a number of its own. *)
Distinct == \A m, n \in DOMAIN log : log[m].no = log[n].no => m = n
Unlike(e, f) == e.no # f.no /\ e.id # f.id

OwnNumbers ==
  /\ Distinct
  /\ \A n \in DOMAIN log : log[n].no <= made
  /\ \A w \in InFlight : out[w].ev.no <= made /\ \A n \in DOMAIN log : log[n].no # out[w].ev.no
  /\ \A v, w \in InFlight : v # w => Unlike(out[v].ev, out[w].ev)

(* An id is a number that the counter has passed, or the time stamp. *)
Issued(id) == id <= counter \/ (id = Stamp /\ "clock" \in used)

(* Ids tell the stored events and those about to be stored apart. *)
OwnIds ==
  /\ \A n \in DOMAIN buffer : Issued(buffer[n].id)
  /\ \A w \in InFlight : /\ Issued(out[w].ev.id)
                         /\ \A n \in DOMAIN buffer : buffer[n].id # out[w].ev.id
  /\ \A m, n \in DOMAIN buffer : buffer[m].id = buffer[n].id => buffer[m] = buffer[n]

(* Positions in the stream. *)
Climbing(s) == /\ \A n \in DOMAIN s : s[n] \in Logged
               /\ \A m, n \in DOMAIN s : m < n => Position(s[m]) <= Position(s[n])
Rising(s)   == /\ \A n \in DOMAIN s : s[n] \in Logged
               /\ \A m, n \in DOMAIN s : m < n => Position(s[m]) < Position(s[n])
Until(s, t) == \A m \in DOMAIN s : \A n \in DOMAIN t : Position(s[m]) <= Position(t[n])
Behind(s, t) == \A m \in DOMAIN s : \A n \in DOMAIN t : Position(s[m]) < Position(t[n])

(* The buffer is the newest part of the stream, some events repeated. *)
Window ==
  /\ Climbing(buffer)
  /\ \A n \in DOMAIN buffer : \A p \in DOMAIN log :
       Position(buffer[n]) <= p => \E m \in DOMAIN buffer : buffer[m] = log[p]

(* Whoever publishes has just stored its event and keeps the others waiting: *)
(* they are in its process, for a request that reconciles writes alone.      *)
Publishing ==
  \A w \in Writers : out[w].pc = "publish" =>
    lock[At(w)] = w /\ log # <<>> /\ out[w].ev = log[Len(log)]

Reconciles == task = "queued" \/ api # "idle" => cancel = "idle"

Streaming == OwnNumbers /\ OwnIds /\ Window /\ Publishing /\ Reconciles

(* What a client has seen rises, what it is going to replay comes after it,  *)
(* and what waits in its subscription is not older.                          *)
InPlace(s, q, r) ==
  /\ Rising(s) /\ Climbing(q) /\ Until(s, q)
  /\ r.pc \notin {"check", "listen"} => q = <<>>
  /\ r.pc # "replaying" => r.pend = <<>>
  /\ r.pc = "replaying" => Rising(r.pend) /\ Behind(s, r.pend)
  /\ s # <<>> => /\ r.pc = "replay" => r.last = s[Len(s)].id
                 /\ r.pc # "away" => r.sent >= s[Len(s)].id

Ascends(c) == InPlace(seen[c], chan[c], reader[c])

Ordered == Streaming /\ \A c \in Clients : Ascends(c)

(* An event of the stream has one position. *)
LEMMA Positions ==
  ASSUME LogOK, Distinct
  PROVE  /\ \A n \in DOMAIN log : log[n] \in Logged /\ Position(log[n]) = n
         /\ \A e \in Logged : Position(e) \in DOMAIN log /\ log[Position(e)] = e
         /\ \A e \in Logged : e \in Event /\ Position(e) \in 1 .. Len(log)
<1>1. DOMAIN log = 1 .. Len(log) /\ \A n \in DOMAIN log : log[n] \in Event
  BY DEF LogOK
<1>2. ASSUME NEW e \in Logged PROVE Position(e) \in DOMAIN log /\ log[Position(e)] = e
  <2>1. \E n \in DOMAIN log : log[n] = e
    BY DEF Logged
  <2> QED BY <2>1 DEF Position
<1>3. ASSUME NEW n \in DOMAIN log PROVE log[n] \in Logged /\ Position(log[n]) = n
  <2>1. log[n] \in Logged
    BY DEF Logged
  <2> QED BY <1>2, <2>1 DEF Distinct
<1> QED BY <1>1, <1>2, <1>3

(* A step that stores nothing, or appends one new event, moves none.        *)
LEMMA PositionsStay ==
  ASSUME LogOK, Distinct, log' = log
  PROVE  Logged' = Logged /\ \A e : Position(e)' = Position(e)
BY DEF Logged, Position

LEMMA PositionsGrow ==
  ASSUME LogOK, Distinct, NEW ev \in Event, log' = Append(log, ev),
         \A n \in DOMAIN log : log[n].no # ev.no
  PROVE  /\ Distinct' /\ LogOK' /\ Len(log') = Len(log) + 1 /\ Len(log) \in Nat
         /\ Logged' = Logged \cup {ev} /\ ev \notin Logged
         /\ \A e \in Logged : Position(e)' = Position(e)
         /\ Position(ev)' = Len(log) + 1 /\ log'[Len(log) + 1] = ev
         /\ DOMAIN log' = 1 .. Len(log) + 1
         /\ \A n \in 1 .. Len(log) : log'[n] = log[n]
<1>1. /\ Len(log) \in Nat /\ DOMAIN log = 1 .. Len(log)
      /\ DOMAIN log' = 1 .. Len(log) + 1 /\ log'[Len(log) + 1] = ev
      /\ Len(log') = Len(log) + 1
      /\ \A n \in 1 .. Len(log) : log'[n] = log[n]
  BY DEF LogOK
<1>2. \A n \in 1 .. Len(log) + 1 : n = Len(log) + 1 \/ n \in 1 .. Len(log)
  BY <1>1
<1>3. LogOK'
  BY DEF LogOK
<1>4. Distinct'
  <2> SUFFICES ASSUME NEW m \in DOMAIN log', NEW n \in DOMAIN log', log'[m].no = log'[n].no
               PROVE  m = n
    BY DEF Distinct
  <2>1. CASE m \in 1 .. Len(log) /\ n \in 1 .. Len(log)
    BY <1>1, <2>1 DEF Distinct
  <2>2. CASE m = Len(log) + 1 /\ n \in 1 .. Len(log)
    BY <1>1, <2>2
  <2>3. CASE n = Len(log) + 1 /\ m \in 1 .. Len(log)
    BY <1>1, <2>3
  <2> QED BY <1>1, <1>2, <2>1, <2>2, <2>3
<1>5. Logged' = Logged \cup {ev} /\ ev \notin Logged
  <2>1. \A e : e \in Logged' <=> \E n \in 1 .. Len(log) + 1 : log'[n] = e
    BY <1>1 DEF Logged
  <2>2. \A e : e \in Logged <=> \E n \in 1 .. Len(log) : log[n] = e
    BY <1>1 DEF Logged
  <2>3. Len(log) + 1 \in 1 .. Len(log) + 1 /\ \A n \in 1 .. Len(log) : n \in 1 .. Len(log) + 1
    BY <1>1
  <2>4. \A e : e \in Logged' <=> e \in Logged \/ e = ev
    BY <1>1, <1>2, <2>1, <2>2, <2>3
  <2>5. ev \notin Logged
    BY <1>1, <2>2
  <2> QED BY <2>4, <2>5
<1>6. ASSUME NEW e \in Logged PROVE Position(e)' = Position(e)
  <2>1. Position(e) \in 1 .. Len(log) /\ log[Position(e)] = e
    BY Positions
  <2>2. Position(e) \in DOMAIN log' /\ log'[Position(e)] = e
    BY <1>1, <2>1
  <2>3. (\A n \in DOMAIN log : log[n] \in Logged /\ Position(log[n]) = n)'
    BY <1>3, <1>4, Positions, PTL
  <2> QED BY <2>2, <2>3
<1>7. Position(ev)' = Len(log) + 1
  <2>1. (\A n \in DOMAIN log : log[n] \in Logged /\ Position(log[n]) = n)'
    BY <1>3, <1>4, Positions, PTL
  <2>2. Len(log) + 1 \in DOMAIN log'
    BY <1>1
  <2> QED BY <1>1, <2>1, <2>2
<1> QED BY <1>1, <1>3, <1>4, <1>5, <1>6, <1>7

Steady == \A e \in Logged : e \in Logged' /\ Position(e)' = Position(e)

(* The stream grows behind a client's back. *)
LEMMA AscendsStays ==
  ASSUME NEW c \in Clients, Ascends(c), Steady, seen'[c] = seen[c], chan'[c] = chan[c],
         reader'[c].pc = reader[c].pc, reader'[c].sent = reader[c].sent,
         reader'[c].last = reader[c].last, reader'[c].pend = reader[c].pend
  PROVE  Ascends(c)'
<1>1. Rising(seen[c])' /\ Climbing(chan[c])' /\ Until(seen[c], chan[c])'
  BY DEF Ascends, InPlace, Rising, Climbing, Until, Steady
<1>2. reader[c].pc = "replaying" => Rising(reader[c].pend)' /\ Behind(seen[c], reader[c].pend)'
  BY DEF Ascends, InPlace, Rising, Behind, Steady
<1> QED BY <1>1, <1>2 DEF Ascends, InPlace

(* A writer goes on, gives up or begins anew, without storing anything. *)
Goes(w) ==
  /\ out'[w].pc \in {"put", "wait"} => out[w].pc \in {"put", "wait"} /\ out'[w].ev = out[w].ev
  /\ out'[w].pc = "publish" => /\ out[w].pc = "publish" /\ out'[w].ev = out[w].ev
                               /\ lock'[At(w)] = lock[At(w)]

Counting == /\ made' >= made /\ counter' >= counter /\ used \subseteq used'
            /\ made' \in Nat /\ counter' \in Nat /\ backend' = backend

LEMMA StreamTypes ==
  ASSUME Base
  PROVE  /\ LogOK /\ log \in Seq(Event) /\ buffer \in Seq(Event)
         /\ made \in Nat /\ counter \in Nat
         /\ \A n \in DOMAIN log : log[n] \in Event /\ log[n].no \in Nat
         /\ \A n \in DOMAIN buffer : buffer[n] \in Event /\ buffer[n].id \in Nat
         /\ \A w \in Writers : /\ out[w] \in Put /\ out[w].ev \in Event
                               /\ out[w].ev.no \in Nat /\ out[w].ev.id \in Nat
<1>1. LogOK /\ log \in Seq(Event) /\ buffer \in Seq(Event) /\ made \in Nat /\ counter \in Nat
  BY DEF Base, DataOK, LogOK, BufferOK, CountsOK
<1>2. \A e \in Event : e.no \in Nat /\ e.id \in Nat
  BY DEF Event
<1>3. \A w \in Writers : out[w] \in Put /\ out[w].ev \in Event
  BY DEF Base, DataOK, OutOK, Put
<1>4. \A n \in DOMAIN log : log[n] \in Event
  BY <1>1
<1>5. \A n \in DOMAIN buffer : buffer[n] \in Event
  BY <1>1
<1> QED BY <1>1, <1>2, <1>3, <1>4, <1>5

LEMMA StreamingStays ==
  ASSUME Base, Streaming, UNCHANGED <<log, buffer>>, Counting, Reconciles',
         \A w \in Writers : Goes(w)
  PROVE  Streaming' /\ Steady
<1>1. /\ LogOK /\ Distinct /\ made \in Nat /\ counter \in Nat
      /\ \A n \in DOMAIN log : log[n].no \in Nat
      /\ \A n \in DOMAIN buffer : buffer[n].id \in Nat
      /\ \A w \in Writers : out[w].ev.no \in Nat /\ out[w].ev.id \in Nat
  BY StreamTypes DEF Streaming, OwnNumbers
<1>2. Steady /\ Logged' = Logged /\ \A e : Position(e)' = Position(e)
  BY <1>1, PositionsStay DEF Steady
<1>3. ASSUME NEW w \in InFlight' PROVE w \in InFlight /\ w \in Writers /\ out'[w].ev = out[w].ev
  BY DEF InFlight, Goes
<1>5. OwnNumbers'
  <2>1. Distinct'
    BY DEF Distinct, Streaming, OwnNumbers
  <2>2. \A n \in DOMAIN log : log'[n].no <= made'
    BY <1>1 DEF Streaming, OwnNumbers, Counting
  <2>3. ASSUME NEW w \in InFlight'
        PROVE  out'[w].ev.no <= made' /\ \A n \in DOMAIN log : log'[n].no # out'[w].ev.no
    BY <1>1, <1>3 DEF Streaming, OwnNumbers, Counting
  <2>4. \A v, w \in InFlight' : v # w => Unlike(out'[v].ev, out'[w].ev)
    BY <1>3 DEF Streaming, OwnNumbers
  <2> QED BY <2>1, <2>2, <2>3, <2>4 DEF OwnNumbers, Unlike
<1>6. OwnIds'
  <2>1. \A n \in DOMAIN buffer' :
          buffer'[n].id <= counter' \/ (buffer'[n].id = Stamp /\ "clock" \in used')
    BY <1>1 DEF Streaming, OwnIds, Issued, Counting
  <2>2. ASSUME NEW w \in InFlight'
        PROVE  (out'[w].ev.id <= counter' \/ (out'[w].ev.id = Stamp /\ "clock" \in used'))
               /\ \A n \in DOMAIN buffer : buffer'[n].id # out'[w].ev.id
    BY <1>1, <1>3 DEF Streaming, OwnIds, Issued, Counting
  <2>3. \A m, n \in DOMAIN buffer' : buffer'[m].id = buffer'[n].id => buffer'[m] = buffer'[n]
    BY DEF Streaming, OwnIds
  <2> QED BY <2>1, <2>2, <2>3 DEF OwnIds, Issued
<1>7. Window'
  BY <1>2 DEF Streaming, Window, Climbing
<1>8. Publishing'
  <2>1. \A w : At(w)' = At(w)
    BY DEF At, Counting
  <2> QED BY <2>1 DEF Streaming, Publishing, Goes
<1> QED BY <1>2, <1>5, <1>6, <1>7, <1>8 DEF Streaming

(* An id is allocated: the counter passes it, or time is later than any. *)
LEMMA StreamingAllocate ==
  ASSUME Base, Streaming, NEW w \in Writers, Allocate(w), counter < Stamp, counter' < Stamp
  PROVE  Streaming' /\ Steady
<1>1. /\ LogOK /\ Distinct /\ made \in Nat /\ counter \in Nat
      /\ \A n \in DOMAIN log : log[n] \in Event /\ log[n].no \in Nat
      /\ \A n \in DOMAIN buffer : buffer[n] \in Event /\ buffer[n].id \in Nat
      /\ \A v \in Writers : out[v] \in Put /\ out[v].ev \in Event /\ out[v].ev.no \in Nat
                            /\ out[v].ev.id \in Nat
  BY StreamTypes DEF Streaming, OwnNumbers
<1>2. PICK id \in Nat :
        /\ out' = [out EXCEPT ![w] =
             [out[w] EXCEPT !.pc = "put", !.ev = [@ EXCEPT !.id = id, !.no = made + 1]]]
        /\ \/ id = counter + 1 /\ counter' = counter + 1 /\ used' = used
           \/ id = Stamp /\ counter' = counter /\ "clock" \notin used /\ used' = used \cup {"clock"}
  <2> DEFINE numbered(id) == [out[w] EXCEPT !.pc = "put",
                                            !.ev = [@ EXCEPT !.id = id, !.no = made + 1]]
  <2>1. \/ /\ counter' = counter + 1 /\ used' = used
           /\ out' = [out EXCEPT ![w] = numbered(counter + 1)]
        \/ /\ Use("clock") /\ counter' = counter
           /\ out' = [out EXCEPT ![w] = numbered(Stamp)]
    BY DEF Allocate
  <2>2. CASE counter' = counter + 1 /\ used' = used
             /\ out' = [out EXCEPT ![w] = numbered(counter + 1)]
    <3>1. counter + 1 \in Nat
      BY <1>1
    <3> QED BY <2>2, <3>1
  <2>3. CASE Use("clock") /\ counter' = counter /\ out' = [out EXCEPT ![w] = numbered(Stamp)]
    <3>1. Stamp \in Nat /\ "clock" \notin used /\ used' = used \cup {"clock"}
      BY <2>3, BoundsAssumption DEF Use
    <3> QED BY <2>3, <3>1
  <2> QED BY <2>1, <2>2, <2>3
<1>3. /\ UNCHANGED <<log, buffer, lock, control, backend>> /\ made' = made + 1
      /\ out[w].pc = "alloc"
  BY DEF Allocate
<1>4. /\ out'[w].pc = "put" /\ out'[w].ev.id = id /\ out'[w].ev.no = made + 1
      /\ \A v \in Writers \ {w} : out'[v] = out[v]
  <2>1. out \in [Writers -> Put] /\ out'[w] = [out[w] EXCEPT !.pc = "put",
                  !.ev = [out[w].ev EXCEPT !.id = id, !.no = made + 1]]
    BY <1>2 DEF Base, DataOK, OutOK
  <2>2. out'[w].pc = "put" /\ out'[w].ev = [out[w].ev EXCEPT !.id = id, !.no = made + 1]
    BY <1>1, <2>1 DEF Put
  <2>3. out'[w].ev.id = id /\ out'[w].ev.no = made + 1
    BY <1>1, <2>2 DEF Event
  <2> QED BY <1>2, <2>1, <2>2, <2>3
<1>5. \A x \in Nat : Issued(x) => /\ x # id
                                  /\ x <= counter' \/ (x = Stamp /\ "clock" \in used')
  BY <1>1, <1>2, BoundsAssumption DEF Issued
<1>6. id <= counter' \/ (id = Stamp /\ "clock" \in used')
  BY <1>1, <1>2
<1>7. w \notin InFlight /\ InFlight' = InFlight \cup {w} /\ InFlight \subseteq Writers
  BY <1>3, <1>4 DEF InFlight
<1>8. Steady /\ Logged' = Logged /\ \A e : Position(e)' = Position(e)
  BY <1>1, <1>3, PositionsStay DEF Steady
<1>9. OwnNumbers'
  <2>1. Distinct'
    BY <1>1, <1>3 DEF Distinct
  <2>2. \A n \in DOMAIN log' : log'[n].no <= made'
    BY <1>1, <1>3 DEF Streaming, OwnNumbers
  <2>3. ASSUME NEW v \in InFlight'
        PROVE  out'[v].ev.no <= made' /\ \A n \in DOMAIN log' : log'[n].no # out'[v].ev.no
    <3>1. CASE v = w
      BY <1>1, <1>3, <1>4, <3>1 DEF Streaming, OwnNumbers
    <3>2. CASE v # w
      BY <1>1, <1>3, <1>4, <1>7, <3>2 DEF Streaming, OwnNumbers
    <3> QED BY <3>1, <3>2
  <2>4. ASSUME NEW v \in InFlight, v # w PROVE Unlike(out'[v].ev, out'[w].ev)
                                              /\ Unlike(out'[w].ev, out'[v].ev)
    <3>1. out'[v] = out[v] /\ out[v].ev.no <= made /\ Issued(out[v].ev.id)
      BY <1>4, <1>7, <2>4 DEF Streaming, OwnNumbers, OwnIds
    <3>2. out[v].ev.no # made + 1 /\ out[v].ev.id # id
      BY <1>1, <1>5, <1>7, <3>1
    <3> QED BY <1>4, <3>1, <3>2 DEF Unlike
  <2>5. \A u, v \in InFlight' : u # v => Unlike(out'[u].ev, out'[v].ev)
    BY <1>4, <1>7, <2>4 DEF Streaming, OwnNumbers
  <2> QED BY <2>1, <2>2, <2>3, <2>5 DEF OwnNumbers, Unlike
<1>10. OwnIds'
  <2>1. \A n \in DOMAIN buffer' :
          buffer'[n].id <= counter' \/ (buffer'[n].id = Stamp /\ "clock" \in used')
    BY <1>1, <1>3, <1>5 DEF Streaming, OwnIds
  <2>2. ASSUME NEW v \in InFlight'
        PROVE  (out'[v].ev.id <= counter' \/ (out'[v].ev.id = Stamp /\ "clock" \in used'))
               /\ \A n \in DOMAIN buffer' : buffer'[n].id # out'[v].ev.id
    <3>1. CASE v = w
      BY <1>1, <1>3, <1>4, <1>5, <1>6, <3>1 DEF Streaming, OwnIds
    <3>2. CASE v # w
      BY <1>1, <1>3, <1>4, <1>5, <1>7, <3>2 DEF Streaming, OwnIds
    <3> QED BY <3>1, <3>2
  <2>3. \A m, n \in DOMAIN buffer' : buffer'[m].id = buffer'[n].id => buffer'[m] = buffer'[n]
    BY <1>3 DEF Streaming, OwnIds
  <2> QED BY <2>1, <2>2, <2>3 DEF OwnIds, Issued
<1>11. Window'
  BY <1>3, <1>8 DEF Streaming, Window, Climbing
<1>12. Publishing'
  <2>1. \A v : At(v)' = At(v)
    BY <1>3 DEF At
  <2> QED BY <1>3, <1>4, <2>1 DEF Streaming, Publishing
<1>13. Reconciles'
  BY <1>3 DEF Streaming, Reconciles, control
<1> QED BY <1>8, <1>9, <1>10, <1>11, <1>12, <1>13 DEF Streaming

(* Ten minutes of silence. *)
LEMMA StreamingExpire ==
  ASSUME Base, Streaming, Expire
  PROVE  Streaming' /\ Steady
<1>1. /\ UNCHANGED <<log, made, out, lock, control, backend>> /\ buffer' = <<>> /\ Quiet
  BY DEF Expire
<1>2. InFlight = {} /\ InFlight' = {}
  BY <1>1 DEF InFlight, Quiet, Idle
<1>3. LogOK /\ Distinct
  BY StreamTypes DEF Streaming, OwnNumbers
<1>4. Steady
  BY <1>1, <1>3, PositionsStay DEF Steady
<1>5. OwnNumbers'
  BY <1>1, <1>2 DEF Streaming, OwnNumbers, Distinct
<1>6. OwnIds' /\ Window'
  BY <1>1, <1>2 DEF OwnIds, Window, Climbing
<1>7. Publishing' /\ Reconciles'
  BY <1>1 DEF Streaming, Publishing, Reconciles, Quiet, Idle, control
<1> QED BY <1>4, <1>5, <1>6, <1>7 DEF Streaming

(* Nobody publishes while a writer finds the lock of its process free. *)
LEMMA NobodyPublishes ==
  ASSUME Base, Streaming, backend = "redis", NEW w \in Writers, out[w].pc = "wait",
         lock[At(w)] = "none"
  PROVE  \A v \in Writers : out[v].pc # "publish"
<1> SUFFICES ASSUME NEW v \in Writers, out[v].pc = "publish" PROVE FALSE
  OBVIOUS
<1>1. lock[At(v)] = v /\ v # "none"
  BY DEF Streaming, Publishing, Writers
<1>2. At(v) # At(w)
  BY <1>1
<1>3. (v = "api" /\ w \in {"task", "cancel"}) \/ (w = "api" /\ v \in {"task", "cancel"})
  BY <1>2 DEF At, Writers
<1>4. ~ Idle("api") /\ (~ Idle("task") \/ ~ Idle("cancel"))
  BY <1>3 DEF Idle
<1>5. api # "idle"
  BY <1>4 DEF Base, Idleness
<1>6. Idle("task") /\ Idle("cancel")
  BY <1>5 DEF Base, Idleness, Reconciled, Streaming, Reconciles
<1> QED BY <1>4, <1>6

(* What RPUSH and LTRIM leave: the end of what was there, and the new event *)
(* once or twice.                                                           *)
StoredTail(ev, k, j) ==
  /\ DOMAIN buffer' = 1 .. Len(buffer) + j - k /\ Len(buffer) + j - k >= 1
  /\ \A n \in DOMAIN buffer' : IF n + k <= Len(buffer) THEN buffer'[n] = buffer[n + k]
                                                       ELSE buffer'[n] = ev

LEMMA StoreLeaves ==
  ASSUME Base, NEW ev \in Event, NEW j \in {1, 2}, NEW evs \in Seq(Event), Len(evs) = j,
         \A n \in 1 .. j : evs[n] = ev, Store(evs)
  PROVE  \E k \in Nat : StoredTail(ev, k, j)
<1> DEFINE b == buffer \o evs
           B == Len(buffer)
<1>1. buffer \in Seq(Event) /\ B \in Nat /\ BufferMax \in Nat \ {0}
  BY BoundsAssumption, StreamTypes
<1>2. /\ b \in Seq(Event) /\ Len(b) = B + j /\ DOMAIN b = 1 .. B + j
      /\ \A n \in 1 .. B + j : b[n] = IF n <= B THEN buffer[n] ELSE evs[n - B]
  BY <1>1
<1>3. \A n \in 1 .. B + j : IF n <= B THEN b[n] = buffer[n] ELSE b[n] = ev
  <2> SUFFICES ASSUME NEW n \in 1 .. B + j, ~ (n <= B) PROVE b[n] = ev
    BY <1>2
  <2> HIDE DEF b, B
  <2>1. n - B \in 1 .. j
    BY <1>1
  <2> QED BY <1>2, <2>1
<1>4. CASE backend = "redis" /\ Len(b) > BufferMax
  <2> DEFINE k == B + j - BufferMax
  <2>1. k \in Nat /\ k + 1 \in Int /\ k + 1 >= 1 /\ B + j \in Nat
    <3> HIDE DEF b, B
    <3> QED BY <1>1, <1>2, <1>4
  <2>2. buffer' = SubSeq(b, k + 1, B + j)
    <3>1. buffer' = SubSeq(b, Len(b) - BufferMax + 1, Len(b))
      BY <1>4 DEF Store
    <3> HIDE DEF b, B
    <3>2. Len(b) - BufferMax + 1 = k + 1
      BY <1>1, <1>2
    <3> QED BY <1>2, <3>1, <3>2
  <2> HIDE DEF b, B
  <2>3. \A n \in (k + 1) .. (B + j) : b[n] \in Event
    <3>1. \A n \in (k + 1) .. (B + j) : n \in 1 .. B + j
      BY <1>1, <2>1
    <3> QED BY <1>2, <3>1
  <2>4. k + 1 <= B + j /\ B + j - k = BufferMax
    BY <1>1
  <2> HIDE DEF k
  <2>5. /\ buffer' \in Seq(Event) /\ Len(buffer') = (B + j) - (k + 1) + 1
        /\ \A n \in 1 .. (B + j) - (k + 1) + 1 : buffer'[n] = b[(k + 1) + n - 1]
    BY <1>1, <2>1, <2>2, <2>3, <2>4, SubSeqProperties
  <2>6. DOMAIN buffer' = 1 .. B + j - k
    <3>1. (B + j) - (k + 1) + 1 = B + j - k
      BY <1>1, <2>1
    <3> QED BY <2>5, <3>1
  <2>7. ASSUME NEW n \in 1 .. B + j - k
        PROVE  IF n + k <= B THEN buffer'[n] = buffer[n + k] ELSE buffer'[n] = ev
    <3>1. n \in 1 .. (B + j) - (k + 1) + 1 /\ (k + 1) + n - 1 = n + k /\ n + k \in 1 .. B + j
      BY <1>1, <2>1
    <3> QED BY <1>3, <2>5, <3>1
  <2>8. B + j - k >= 1
    BY <1>1, <2>4
  <2>9. StoredTail(ev, k, j)
    BY <2>6, <2>7, <2>8 DEF StoredTail, B
  <2> QED BY <2>1, <2>9
<1>5. CASE ~ (backend = "redis" /\ Len(b) > BufferMax)
  <2>1. buffer' = b
    BY <1>5 DEF Store
  <2> HIDE DEF b, B
  <2>2. B + j - 0 = B + j /\ B + j >= 1 /\ \A n \in 1 .. B + j : n + 0 = n
    BY <1>1
  <2>3. StoredTail(ev, 0, j)
    BY <1>2, <1>3, <2>1, <2>2 DEF StoredTail, B
  <2> QED BY <2>3
<1> QED BY <1>4, <1>5

Stores(w) ==
  /\ out[w].pc = "wait" /\ lock[At(w)] = "none"
  /\ Store(<<out[w].ev>>) \/ Store(<<out[w].ev, out[w].ev>>)
  /\ log' = Append(log, out[w].ev) /\ made' = made
  /\ out'[w].pc \notin {"put", "wait"}
  /\ out'[w].pc = "publish" => out'[w].ev = out[w].ev /\ lock'[At(w)] = w
  /\ \A v \in Writers \ {w} : Goes(v)

LEMMA StreamingStore ==
  ASSUME Base, Streaming, backend = "redis", NEW w \in Writers, Stores(w), Counting, Reconciles'
  PROVE  Streaming' /\ Steady
<1> DEFINE B == Len(buffer)
           N == Len(log)
<1>0. PICK ev \in Event : ev = out[w].ev
  BY StreamTypes
<1>1. /\ LogOK /\ Distinct /\ made \in Nat /\ counter \in Nat /\ ev \in Event
      /\ buffer \in Seq(Event) /\ B \in Nat /\ DOMAIN buffer = 1 .. B
      /\ \A n \in DOMAIN log : log[n] \in Event /\ log[n].no \in Nat
      /\ \A n \in DOMAIN buffer : buffer[n] \in Event /\ buffer[n].id \in Nat
      /\ \A v \in Writers : out[v] \in Put /\ out[v].ev \in Event /\ out[v].ev.no \in Nat
                            /\ out[v].ev.id \in Nat
  BY StreamTypes DEF Streaming, OwnNumbers
<1>2. w \in InFlight /\ InFlight \subseteq Writers /\ log' = Append(log, ev)
  BY <1>0 DEF Stores, InFlight
<1>3. PICK j \in {1, 2}, k \in Nat : StoredTail(ev, k, j)
  <2>1. CASE Store(<<ev>>)
    <3>1. <<ev>> \in Seq(Event) /\ Len(<<ev>>) = 1 /\ \A n \in 1 .. 1 : <<ev>>[n] = ev
      BY <1>1
    <3> QED BY <1>1, <2>1, <3>1, StoreLeaves
  <2>2. CASE Store(<<ev, ev>>)
    <3>1. <<ev, ev>> \in Seq(Event) /\ Len(<<ev, ev>>) = 2 /\ \A n \in 1 .. 2 : <<ev, ev>>[n] = ev
      BY <1>1
    <3> QED BY <1>1, <2>2, <3>1, StoreLeaves
  <2> QED BY <1>0, <2>1, <2>2 DEF Stores
<1>4. ASSUME NEW v \in InFlight'
      PROVE  v # w /\ v \in InFlight /\ v \in Writers /\ out'[v].ev = out[v].ev
  BY <1>2 DEF InFlight, Goes, Stores
<1>5. \A n \in DOMAIN log : log[n].no # ev.no
  BY <1>0, <1>2 DEF Streaming, OwnNumbers
<1>6. \A n \in DOMAIN buffer : buffer[n].id # ev.id
  BY <1>0, <1>2 DEF Streaming, OwnIds
<1>7. ev.no <= made /\ Issued(ev.id)
  BY <1>0, <1>2 DEF Streaming, OwnNumbers, OwnIds
<1>8. \A v \in Writers : out[v].pc # "publish"
  BY NobodyPublishes DEF Stores
<1>9. /\ Distinct' /\ N \in Nat /\ Len(log') = N + 1
      /\ Logged' = Logged \cup {ev} /\ ev \notin Logged
      /\ \A e \in Logged : Position(e)' = Position(e)
      /\ Position(ev)' = N + 1 /\ log'[N + 1] = ev
      /\ DOMAIN log' = 1 .. N + 1 /\ DOMAIN log = 1 .. N
      /\ \A n \in 1 .. N : log'[n] = log[n]
  <2> QED BY <1>1, <1>2, <1>5, PositionsGrow DEF LogOK
<1>10. /\ \A n \in DOMAIN log : Position(log[n]) = n
       /\ \A e \in Logged : Position(e) \in 1 .. N /\ log[Position(e)] = e
  BY <1>1, Positions
<1>11. Steady
  BY <1>9 DEF Steady
<1>12. \A n \in 1 .. N + 1 : n = N + 1 \/ n \in 1 .. N
  BY <1>9
<1>13. \A n \in DOMAIN buffer' : /\ n + k <= B => n + k \in DOMAIN buffer /\ buffer'[n] = buffer[n + k]
                                 /\ ~ (n + k <= B) => buffer'[n] = ev
  BY <1>1, <1>3 DEF StoredTail
<1>14. OwnNumbers'
  <2>1. \A n \in DOMAIN log' : log'[n].no <= made'
    BY <1>1, <1>7, <1>9, <1>12 DEF Streaming, OwnNumbers, Stores
  <2>2. ASSUME NEW v \in InFlight'
        PROVE  out'[v].ev.no <= made' /\ \A n \in DOMAIN log' : log'[n].no # out'[v].ev.no
    <3>1. out[v].ev.no <= made /\ Unlike(out[v].ev, ev)
          /\ \A n \in DOMAIN log : log[n].no # out[v].ev.no
      BY <1>0, <1>2, <1>4 DEF Streaming, OwnNumbers
    <3> QED BY <1>4, <1>9, <1>12, <3>1 DEF Unlike, Stores
  <2>3. \A u, v \in InFlight' : u # v => Unlike(out'[u].ev, out'[v].ev)
    BY <1>4 DEF Streaming, OwnNumbers
  <2> QED BY <1>9, <2>1, <2>2, <2>3 DEF OwnNumbers, Unlike
<1>15. OwnIds'
  <2>1. \A n \in DOMAIN buffer' : buffer'[n] = ev \/ \E m \in DOMAIN buffer : buffer'[n] = buffer[m]
    BY <1>13
  <2>2. \A x \in Nat : Issued(x) => x <= counter' \/ (x = Stamp /\ "clock" \in used')
    BY <1>1 DEF Issued, Counting
  <2>3. \A n \in DOMAIN buffer' :
          buffer'[n].id <= counter' \/ (buffer'[n].id = Stamp /\ "clock" \in used')
    BY <1>1, <1>7, <2>1, <2>2 DEF Streaming, OwnIds, Event
  <2>4. ASSUME NEW v \in InFlight'
        PROVE  (out'[v].ev.id <= counter' \/ (out'[v].ev.id = Stamp /\ "clock" \in used'))
               /\ \A n \in DOMAIN buffer' : buffer'[n].id # out'[v].ev.id
    <3>1. Issued(out[v].ev.id) /\ Unlike(out[v].ev, ev)
          /\ \A n \in DOMAIN buffer : buffer[n].id # out[v].ev.id
      BY <1>0, <1>2, <1>4 DEF Streaming, OwnNumbers, OwnIds
    <3> QED BY <1>1, <1>4, <2>1, <2>2, <3>1 DEF Unlike
  <2>5. \A m, n \in DOMAIN buffer' : buffer'[m].id = buffer'[n].id => buffer'[m] = buffer'[n]
    BY <1>6, <2>1 DEF Streaming, OwnIds
  <2> QED BY <2>3, <2>4, <2>5 DEF OwnIds, Issued
<1>16. Window'
  <2>1. /\ \A n \in DOMAIN buffer : buffer[n] \in Logged
        /\ \A m, n \in DOMAIN buffer : m < n => Position(buffer[m]) <= Position(buffer[n])
        /\ \A n \in DOMAIN buffer : \A p \in DOMAIN log :
             Position(buffer[n]) <= p => \E m \in DOMAIN buffer : buffer[m] = log[p]
    BY DEF Streaming, Window, Climbing
  <2>2. ASSUME NEW n \in DOMAIN buffer'
        PROVE  /\ buffer'[n] \in Logged'
               /\ n + k <= B => Position(buffer[n])' = Position(buffer[n + k])
                                /\ Position(buffer[n + k]) \in 1 .. N
               /\ ~ (n + k <= B) => Position(buffer[n])' = N + 1
    <3>0. \A e : e = buffer'[n] => Position(buffer[n])' = Position(e)'
      BY DEF Position
    <3>1. CASE n + k <= B
      <4>1. n + k \in DOMAIN buffer /\ buffer'[n] = buffer[n + k] /\ buffer[n + k] \in Logged
        BY <1>13, <2>1, <3>1
      <4>2. PICK e \in Logged : e = buffer[n + k] /\ e = buffer'[n]
        BY <4>1
      <4> QED BY <1>9, <1>10, <3>0, <3>1, <4>2
    <3>2. CASE ~ (n + k <= B)
      BY <1>9, <1>13, <3>0, <3>2
    <3> QED BY <3>1, <3>2
  <2>3. ASSUME NEW m \in DOMAIN buffer', NEW n \in DOMAIN buffer', m < n
        PROVE  Position(buffer[m])' <= Position(buffer[n])'
    <3>1. m \in Nat /\ n \in Nat /\ m + k < n + k
      BY <1>1, <1>3, <2>3 DEF StoredTail
    <3>2. CASE n + k <= B
      <4>1. m + k <= B /\ m + k \in DOMAIN buffer /\ n + k \in DOMAIN buffer
        BY <1>1, <1>13, <3>1, <3>2
      <4> QED BY <2>1, <2>2, <3>1, <3>2, <4>1
    <3>3. CASE ~ (n + k <= B)
      <4>1. Position(buffer[n])' = N + 1
        BY <2>2, <3>3
      <4>2. Position(buffer[m])' = N + 1 \/ Position(buffer[m])' \in 1 .. N
        BY <2>2
      <4> QED BY <1>9, <4>1, <4>2
    <3> QED BY <3>2, <3>3
  <2>4. ASSUME NEW n \in DOMAIN buffer', NEW p \in DOMAIN log', Position(buffer[n])' <= p
        PROVE  \E m \in DOMAIN buffer' : buffer'[m] = log'[p]
    <3>1. CASE p = N + 1
      <4> DEFINE m == B + j - k
      <4>1. m \in DOMAIN buffer' /\ ~ (m + k <= B)
        BY <1>1, <1>3 DEF StoredTail
      <4> QED BY <1>9, <1>13, <3>1, <4>1
    <3>2. CASE p \in 1 .. N
      <4>1. n + k <= B
        BY <1>9, <2>2, <2>4, <3>2
      <4>2. n + k \in DOMAIN buffer /\ buffer'[n] = buffer[n + k]
            /\ Position(buffer[n + k]) <= p /\ log'[p] = log[p] /\ p \in DOMAIN log
        BY <1>9, <1>13, <2>2, <2>4, <3>2, <4>1
      <4>3. PICK m \in DOMAIN buffer : buffer[m] = log[p]
        BY <2>1, <4>2
      <4>4. CASE m > k
        <5>1. m - k \in DOMAIN buffer' /\ (m - k) + k = m /\ m <= B
          BY <1>1, <1>3, <4>4 DEF StoredTail
        <5> QED BY <1>13, <4>2, <4>3, <5>1
      <4>5. CASE ~ (m > k)
        <5>1. m < n + k
          BY <1>1, <1>3, <4>2, <4>5 DEF StoredTail
        <5>2. Position(buffer[m]) <= Position(buffer[n + k]) /\ Position(buffer[m]) = p
          BY <1>10, <2>1, <4>2, <4>3, <5>1
        <5>3. Position(buffer[n + k]) = p
          BY <1>9, <2>2, <4>1, <4>2, <5>2
        <5>4. log[p] = buffer[n + k]
          BY <1>10, <2>1, <4>2, <5>3
        <5> QED BY <4>2, <5>4
      <4> QED BY <4>4, <4>5
    <3> QED BY <1>9, <1>12, <3>1, <3>2
  <2> QED BY <2>2, <2>3, <2>4 DEF Window, Climbing
<1>17. Publishing'
  <2>1. \A v : At(v)' = At(v)
    BY DEF At, Counting
  <2>2. ASSUME NEW v \in Writers, out'[v].pc = "publish" PROVE v = w
    BY <1>8, <2>2 DEF Stores, Goes
  <2>3. log' # <<>> /\ log'[Len(log')] = ev
    BY <1>9
  <2> QED BY <1>0, <2>1, <2>2, <2>3 DEF Publishing, Stores
<1> QED BY <1>11, <1>14, <1>15, <1>16, <1>17 DEF Streaming

(* A client is left alone; a subscription may receive the newest event, once *)
(* or twice.                                                                 *)
Receives(c) ==
  \/ chan'[c] = chan[c]
  \/ /\ reader[c].pc \in {"check", "listen"} /\ log' = log /\ log # <<>>
     /\ LET x == log[Len(log)] IN chan'[c] \in {chan[c] \o <<x>>, chan[c] \o <<x, x>>}

Left(c) ==
  /\ seen'[c] = seen[c] /\ Receives(c)
  /\ reader'[c].pc = reader[c].pc /\ reader'[c].sent = reader[c].sent
  /\ reader'[c].last = reader[c].last /\ reader'[c].pend = reader[c].pend

LEMMA Publish ==
  ASSUME Base, Streaming, NEW w \in Writers, out[w].pc = "publish", log' = log,
         Deliver(<<out[w].ev>>) \/ Deliver(<<out[w].ev, out[w].ev>>)
  PROVE  \A c \in Clients : Receives(c)
<1>1. log # <<>> /\ out[w].ev = log[Len(log)]
  BY DEF Streaming, Publishing
<1> QED BY <1>1 DEF Deliver, Receives, Subscribed, Base, DataOK, ChanOK

(* Steps of execute_run and of a request that reconciles: no step but a put  *)
(* stores anything.                                                          *)
LEMMA StreamingControl ==
  ASSUME Base, Streaming, backend = "redis",
         TaskStep \/ Emit \/ GraphEnds \/ Interrupt \/ ApiStep
  PROVE  Streaming' /\ Steady /\ \A c \in Clients : Left(c)
<1>0. made \in Nat /\ counter \in Nat
  BY StreamTypes
<1>a. ASSUME UNCHANGED <<streams, used, backend>> PROVE Counting /\ UNCHANGED <<log, buffer>>
  BY <1>0, <1>a DEF Counting, streams
<1>b. ASSUME UNCHANGED clients PROVE \A c \in Clients : Left(c)
  BY <1>b DEF Left, Receives, clients
<1>c. ASSUME UNCHANGED <<lock, backend>>,
             \A w \in Writers : out'[w].pc = out[w].pc /\ out'[w].ev = out[w].ev
      PROVE  \A w \in Writers : Goes(w)
  BY <1>c DEF Goes
<1>d. ASSUME NEW w \in Writers, NEW kind, Write(w, kind), UNCHANGED <<lock, backend>>, Reconciles'
      PROVE  Streaming' /\ Steady /\ \A c \in Clients : Left(c)
  <2>1. BeginPut(w, kind)
    BY <1>d DEF Write
  <2>2. /\ out'[w].pc = "alloc" /\ \A v \in Writers \ {w} : out'[v] = out[v]
        /\ UNCHANGED <<streams, clients, used>>
    BY <2>1 DEF BeginPut, Base, DataOK, OutOK
  <2>3. \A v \in Writers : Goes(v)
    <3>1. Goes(w)
      BY <2>2 DEF Goes
    <3>2. \A v \in Writers \ {w} : Goes(v)
      BY <1>d, <2>2 DEF Goes
    <3> QED BY <3>1, <3>2
  <2> QED BY <1>a, <1>b, <1>d, <2>2, <2>3, StreamingStays
<1>e. ASSUME NEW i \in Instances, CleanupBroker(i), Reconciles',
             UNCHANGED <<backend, lock, streams, chan, seen, used>>
      PROVE  Streaming' /\ Steady /\ \A c \in Clients : Left(c)
  <2>1. \A w \in Writers : out'[w].pc = out[w].pc /\ out'[w].ev = out[w].ev
    BY <1>e, CleanupType DEF Base
  <2>2. \A c \in Clients : Left(c)
    BY <1>e, CloseReadersType DEF CleanupBroker, Base, DataOK, Left, Receives
  <2> QED BY <1>a, <1>c, <1>e, <2>1, <2>2, StreamingStays
<1>1. CASE Begin \/ CancelHandled \/ SignalSkipped \/ GraphEnds \/ Interrupt \/ InterruptStops
  <2>1. UNCHANGED <<out, lock, streams, clients, used, backend>>
    BY <1>1 DEF Begin, CancelHandled, SignalSkipped, GraphEnds, Finalize, Interrupt, InterruptStops
  <2>2. Reconciles'
    BY <1>1 DEF Begin, CancelHandled, SignalSkipped, GraphEnds, Finalize, Interrupt,
                InterruptStops, Streaming, Reconciles
  <2> QED BY <1>a, <1>b, <1>c, <2>1, <2>2, StreamingStays
<1>2. CASE Signal
  <2>1. Reconciles' /\ \E kind : Write("task", kind)
    BY <1>2 DEF Signal, Streaming, Reconciles
  <2> QED BY <1>2, <1>d, <2>1 DEF Signal, Writers
<1>3. CASE SignalErrorEnd
  <2>1. Reconciles' /\ Write("task", "end") /\ UNCHANGED <<lock, backend>>
    BY <1>3 DEF SignalErrorEnd, Streaming, Reconciles
  <2> QED BY <1>d, <2>1 DEF Writers
<1>4. CASE Emit
  <2>1. Reconciles' /\ Write("task", "data") /\ UNCHANGED <<lock, backend>>
    BY <1>4 DEF Emit, Streaming, Reconciles, control
  <2> QED BY <1>d, <2>1 DEF Writers
<1>5. CASE Finally
  <2>1. Reconciles'
    BY <1>5 DEF Finally, Streaming, Reconciles
  <2> QED BY <1>5, <1>e, <2>1, Hosts DEF Finally
<1>6. CASE InterruptSignals
  <2>1. Reconciles' /\ UNCHANGED <<lock, backend>>
    BY <1>6 DEF InterruptSignals, Streaming, Reconciles
  <2>2. CASE Write("api", "end")
    BY <1>d, <2>1, <2>2 DEF Writers
  <2>3. CASE UNCHANGED <<out, broker, streams, clients, used>>
    BY <1>a, <1>b, <1>c, <2>1, <2>3, StreamingStays
  <2> QED BY <1>6, <2>2, <2>3 DEF InterruptSignals
<1>7. CASE InterruptCleans
  <2>1. Reconciles'
    BY <1>7 DEF InterruptCleans, Streaming, Reconciles
  <2> QED BY <1>7, <1>e, <2>1, Hosts DEF InterruptCleans
<1> QED BY <1>1, <1>2, <1>3, <1>4, <1>5, <1>6, <1>7 DEF TaskStep, ApiStep

(* A task that is cancelled in the middle of a put. *)
LEMMA StreamingAbandon ==
  ASSUME Base, Streaming, backend = "redis", NEW handler, Abandon(handler), NEW p,
         UNCHANGED <<backend, made, reader, seen>>, used \subseteq used', Reconciles',
         \/ out' = [out EXCEPT !["task"] = IdleOut]
         \/ out' = [out EXCEPT !["task"] = IdleOut, !["cancel"] = p] /\ Idle("cancel")
            /\ p.pc \in {"idle", "alloc"}
  PROVE  Streaming' /\ Steady /\ \A c \in Clients : Left(c)
<1>0. made \in Nat /\ counter \in Nat
  BY StreamTypes
<1>1. Counting
  BY <1>0 DEF Counting, Abandon
<1>2. \A i \in Instances : lock'[i] = IF lock[i] = "task" THEN "none" ELSE lock[i]
  BY DEF Abandon
<1>3. out'["task"].pc = "idle" /\ \A w \in {"cancel", "api"} : out'[w] = out[w] \/ out'[w].pc \in {"idle", "alloc"}
  BY EventTypes DEF Base, DataOK, OutOK, Writers
<1>4. ASSUME NEW w \in Writers PROVE Goes(w)
  <2>1. CASE w = "task"
    BY <1>3, <2>1 DEF Goes
  <2>2. CASE w # "task"
    <3>1. out[w].pc = "publish" => lock'[At(w)] = lock[At(w)]
      BY <1>2, <2>2, Hosts DEF Streaming, Publishing
    <3> QED BY <1>3, <2>2, <3>1 DEF Goes, Writers
  <2> QED BY <2>1, <2>2
<1>5. "task" \in Writers /\ At("task") = Worker
  BY DEF Writers, At
<1>6. CASE log' = log /\ buffer' = buffer
  <2>1. \A c \in Clients : Left(c)
    <3>1. CASE chan' = chan
      BY <3>1 DEF Left, Receives
    <3>2. CASE chan' # chan
      <4>1. out["task"].pc = "publish" /\ Deliver(<<out["task"].ev>>)
        BY <3>2 DEF Abandon
      <4> QED BY <1>5, <1>6, <4>1, Publish DEF Left
    <3> QED BY <3>1, <3>2
  <2> QED BY <1>1, <1>4, <1>6, <2>1, StreamingStays
<1>7. CASE ~ (log' = log /\ buffer' = buffer)
  <2>1. /\ out["task"].pc = "wait" /\ lock[Worker] = "none"
        /\ Store(<<out["task"].ev>>) /\ log' = Append(log, out["task"].ev) /\ chan' = chan
    BY <1>7 DEF Abandon
  <2>2. Stores("task")
    BY <1>3, <1>4, <1>5, <2>1 DEF Stores
  <2>3. \A c \in Clients : Left(c)
    BY <2>1 DEF Left, Receives
  <2> QED BY <1>1, <1>5, <2>2, <2>3, StreamingStore
<1> QED BY <1>6, <1>7

LEMMA StreamingCancel ==
  ASSUME Base, Streaming, backend = "redis", TimesOut \/ ExecuteCancel
  PROVE  Streaming' /\ Steady /\ \A c \in Clients : Left(c)
<1>1. CASE TimesOut
  <2>1. Reconciles'
    BY <1>1 DEF TimesOut, Abandon, Streaming, Reconciles
  <2>2. /\ Abandon("timed out") /\ out' = [out EXCEPT !["task"] = IdleOut]
        /\ UNCHANGED <<backend, made, reader, seen>> /\ used \subseteq used'
    BY <1>1 DEF TimesOut
  <2> QED BY <2>1, <2>2, StreamingAbandon
<1>2. CASE ExecuteCancel
  <2> DEFINE p == IF broker[Worker] = "finished" THEN IdleOut
                  ELSE [pc |-> "alloc", ev |-> Fresh("end"), dead |-> FALSE]
  <2>1. /\ Abandon("cancelled") /\ out' = [out EXCEPT !["task"] = IdleOut, !["cancel"] = p]
        /\ UNCHANGED <<backend, made, reader, seen, api>> /\ cancel = "idle" /\ Running
        /\ used \subseteq used'
    BY <1>2 DEF ExecuteCancel, Use
  <2>2. Idle("cancel") /\ p.pc \in {"idle", "alloc"}
    BY <2>1, EventTypes DEF Base, Idleness
  <2>3. Reconciles'
    <3>1. api = "idle"
      BY <2>1 DEF Running, Base, Reconciled
    <3> QED BY <2>1, <3>1 DEF Abandon, Reconciles
  <2> HIDE DEF p
  <2> QED BY <2>1, <2>2, <2>3, StreamingAbandon
<1> QED BY <1>1, <1>2

(* The steps of a put. *)
LEMMA StreamingPuts ==
  ASSUME Base, Streaming, backend = "redis", counter < Stamp, counter' < Stamp,
         NEW w \in Writers, PutStep(w) \/ WriteFails(w)
  PROVE  Streaming' /\ Steady /\ \A c \in Clients : Left(c)
<1>0. made \in Nat /\ counter \in Nat /\ out \in [Writers -> Put] /\ lock \in [Instances -> Writers \cup {"none"}]
  BY StreamTypes DEF Base, DataOK, OutOK, LockOK
<1>a. Reconciles'
  BY DEF PutStep, Allocate, Offer, CacheEvent, PublishEvent, WriteFails, control, Streaming,
         Reconciles
<1>b. ASSUME UNCHANGED clients PROVE \A c \in Clients : Left(c)
  BY <1>b DEF Left, Receives, clients
<1>c. ASSUME FinishPut(w), UNCHANGED <<streams, backend, seen>>, used \subseteq used',
             out[w].pc = "publish" \/ (out[w].pc = "wait" /\ lock[At(w)] = "none"),
             \A c \in Clients : Receives(c)
      PROVE  Streaming' /\ Steady /\ \A c \in Clients : Left(c)
  <2>1. Idle(w)' /\ \A v \in Writers \ {w} : out'[v].pc = out[v].pc /\ out'[v].ev = out[v].ev
    BY <1>c, FinishPutType DEF Base
  <2>2. ASSUME NEW v \in Writers, v # w, out[v].pc = "publish" PROVE lock'[At(v)] = lock[At(v)]
    <3>1. out[w].pc = "publish"
      BY <1>c, <2>2, NobodyPublishes
    <3>2. At(v) # At(w)
      BY <2>2, <3>1 DEF Streaming, Publishing
    <3> QED BY <1>0, <1>c, <3>2, Hosts DEF FinishPut
  <2>3. \A v \in Writers : Goes(v)
    <3>1. Goes(w)
      BY <2>1 DEF Goes, Idle
    <3>2. ASSUME NEW v \in Writers, v # w PROVE Goes(v)
      BY <2>1, <2>2, <3>2 DEF Goes
    <3> QED BY <3>1, <3>2
  <2>4. \A c \in Clients : Left(c)
    BY <1>c, CloseReadersType DEF FinishPut, Base, DataOK, Left
  <2>5. Counting /\ UNCHANGED <<log, buffer>>
    BY <1>0, <1>c DEF Counting, streams
  <2> QED BY <1>a, <2>3, <2>4, <2>5, StreamingStays
<1>1. CASE Allocate(w)
  <2>1. UNCHANGED clients
    BY <1>1 DEF Allocate
  <2> QED BY <1>1, <1>b, <2>1, StreamingAllocate
<1>2. CASE Offer(w)
  <2>1. UNCHANGED <<lock, streams, clients, used, backend>> /\ out[w].pc = "put"
        /\ (out'[w].pc = "idle" \/ (out'[w].pc = "wait" /\ out'[w].ev = out[w].ev))
        /\ \A v \in Writers \ {w} : out'[v] = out[v]
    BY <1>0, <1>2, EventTypes DEF Offer, Put
  <2>2. \A v \in Writers : Goes(v)
    BY <2>1 DEF Goes
  <2>3. Counting /\ UNCHANGED <<log, buffer>>
    BY <1>0, <2>1 DEF Counting, streams
  <2> QED BY <1>a, <1>b, <2>1, <2>2, <2>3, StreamingStays
<1>3. CASE CacheEvent(w)
  <2>1. /\ out[w].pc = "wait" /\ lock[At(w)] = "none" /\ lock' = [lock EXCEPT ![At(w)] = w]
        /\ Store(<<out[w].ev>>) \/ Store(<<out[w].ev, out[w].ev>>)
        /\ log' = Append(log, out[w].ev) /\ made' = made
        /\ counter' \in {counter + 1, counter + 2} /\ used \subseteq used'
        /\ out' = [out EXCEPT ![w].pc = "publish"] /\ UNCHANGED <<backend, clients>>
    BY <1>3 DEF CacheEvent, Locks, Use
  <2>2. out'[w].pc = "publish" /\ out'[w].ev = out[w].ev /\ lock'[At(w)] = w
        /\ \A v \in Writers \ {w} : out'[v] = out[v]
    BY <1>0, <2>1, Hosts DEF Put
  <2>3. \A v \in Writers \ {w} : Goes(v)
    BY <2>1, <2>2, NobodyPublishes DEF Goes
  <2>4. Stores(w)
    BY <2>1, <2>2, <2>3 DEF Stores
  <2>5. Counting
    BY <1>0, <2>1 DEF Counting
  <2> QED BY <1>a, <1>b, <2>1, <2>4, <2>5, StreamingStore
<1>4. CASE PublishEvent(w)
  <2>1. /\ out[w].pc = "publish" /\ FinishPut(w) /\ UNCHANGED <<streams, backend, seen>>
        /\ Deliver(<<out[w].ev>>) \/ Deliver(<<out[w].ev, out[w].ev>>)
        /\ used \subseteq used'
    BY <1>4 DEF PublishEvent, Use
  <2>2. \A c \in Clients : Receives(c)
    BY <2>1, Publish DEF streams
  <2> QED BY <1>c, <2>1, <2>2
<1>5. CASE WriteFails(w)
  <2>1. /\ FinishPut(w) /\ UNCHANGED <<streams, backend, seen, chan>> /\ used \subseteq used'
        /\ out[w].pc = "publish" \/ (out[w].pc = "wait" /\ lock[At(w)] = "none")
    BY <1>5 DEF WriteFails, Use
  <2>2. \A c \in Clients : Receives(c)
    BY <2>1 DEF Receives
  <2> QED BY <1>c, <2>1, <2>2
<1> QED BY <1>1, <1>2, <1>3, <1>4, <1>5 DEF PutStep

(* Clients store nothing. *)
LEMMA StreamingClients ==
  ASSUME Base, Streaming,
         \E c \in Clients : ClientStep(c) \/ Connect(c) \/ Disconnect(c) \/ PubSubError(c)
  PROVE  Streaming' /\ UNCHANGED <<streams, backend, log>>
<1>1. \A w \in Writers : out'[w].pc = out[w].pc /\ out'[w].ev = out[w].ev
  BY FinishedByReaderType, ZenonT(60)
     DEF ClientStep, Replay, YieldReplayed, GoLive, Subscribe, CheckEnd, Listen,
         StopListening, Connect, Disconnect, PubSubError
<1>2. UNCHANGED <<streams, control, lock, backend>> /\ used \subseteq used'
  BY DEF ClientStep, Replay, YieldReplayed, GoLive, Subscribe, CheckEnd, Listen, Use,
         StopListening, Connect, Disconnect, PubSubError
<1>3. Counting /\ UNCHANGED <<log, buffer>>
  BY <1>2, StreamTypes DEF Counting, streams
<1>4. Reconciles'
  BY <1>2 DEF Streaming, Reconciles, control
<1>5. \A w \in Writers : Goes(w)
  BY <1>1, <1>2 DEF Goes
<1> QED BY <1>2, <1>3, <1>4, <1>5, StreamingStays

(***************************************************************************)
(* What a client replays.                                                  *)
(***************************************************************************)
FirstCopies == {n \in DOMAIN buffer : n = 1 \/ buffer[n].id # buffer[n - 1].id}

(* Of adjacent events with one id replay keeps the first, and all of those, *)
(* in their order.                                                          *)
LEMMA DeduplicatedKeeps ==
  ASSUME buffer \in Seq(Event)
  PROVE  \E k \in Nat : \E f \in [1 .. k -> FirstCopies] :
           /\ Deduplicated = [n \in 1 .. k |-> buffer[f[n]]] /\ Increasing(f)
           /\ \A i \in FirstCopies : \E n \in 1 .. k : f[n] = i
<1> DEFINE F == [1 .. Cardinality(FirstCopies) -> FirstCopies]
           kept == CHOOSE f \in F : \A m, n \in DOMAIN f : m < n => f[m] < f[n]
<1>1. Len(buffer) \in Nat /\ DOMAIN buffer = 1 .. Len(buffer)
  OBVIOUS
<1>2. FirstCopies \in SUBSET (1 .. Len(buffer))
  BY <1>1 DEF FirstCopies
<1>3. PICK k \in Nat : \E f \in Bijection(1 .. k, FirstCopies) : Increasing(f)
  BY <1>1, <1>2, RangesListed DEF Listed
<1>4. PICK f \in Bijection(1 .. k, FirstCopies) : Increasing(f)
  BY <1>3
<1>5. Cardinality(FirstCopies) = k /\ IsFiniteSet(FirstCopies)
  <2>1. ExistsBijection(1 .. k, FirstCopies)
    BY <1>4 DEF ExistsBijection
  <2>2. IsFiniteSet(1 .. Len(buffer))
    BY <1>1, FS_Interval
  <2>3. IsFiniteSet(FirstCopies)
    BY <1>2, <2>2, FS_Subset
  <2> QED BY <2>1, <2>3, FS_CountingElements
<1>6. f \in F
  BY <1>4, <1>5 DEF Bijection, Injection
<1>7. kept \in F /\ Increasing(kept)
  BY <1>4, <1>6 DEF Increasing
<1>8. Deduplicated = [n \in 1 .. k |-> buffer[kept[n]]]
  <2>1. Deduplicated = [n \in DOMAIN kept |-> buffer[kept[n]]]
    BY DEF Deduplicated, FirstCopies
  <2> HIDE DEF kept
  <2> QED BY <1>5, <1>7, <2>1
<1> HIDE DEF kept
<1>9. kept \in [1 .. k -> FirstCopies]
  BY <1>5, <1>7
<1>10. ASSUME NEW x \in 1 .. k, NEW y \in 1 .. k, kept[x] = kept[y] PROVE x = y
  <2>0. kept[x] \in FirstCopies /\ DOMAIN kept = 1 .. k
    BY <1>9
  <2>1. kept[x] \in Int /\ DOMAIN kept = 1 .. k
    <3>1. kept[x] \in 1 .. Len(buffer)
      BY <1>2, <2>0
    <3> QED BY <1>1, <2>0, <3>1
  <2>2. ~ (x < y) /\ ~ (y < x)
    BY <1>7, <1>10, <2>1 DEF Increasing
  <2> QED BY <2>2
<1>11. kept \in Injection(1 .. k, FirstCopies)
  BY <1>9, <1>10 DEF Injection, IsInjective
<1>12. Cardinality(1 .. k) = k
  BY FS_Interval
<1>13. kept \in Surjection(1 .. k, FirstCopies)
  BY <1>5, <1>11, <1>12, FS_Injection
<1>14. \A i \in FirstCopies : \E n \in 1 .. k : kept[n] = i
  BY <1>13 DEF Surjection
<1> QED BY <1>7, <1>8, <1>9, <1>14

(* What replay reads: the events of the buffer, each once, in their order. *)
LEMMA StoredRises ==
  ASSUME Base, Streaming, backend = "redis"
  PROVE  /\ Stored \in Seq(Event) /\ Rising(Stored)
         /\ \A n \in DOMAIN Stored : \E m \in DOMAIN buffer : Stored[n] = buffer[m]
         /\ \A m \in DOMAIN buffer : \E n \in DOMAIN Stored : Stored[n] = buffer[m]
<1>1. /\ LogOK /\ Distinct /\ buffer \in Seq(Event)
      /\ Len(buffer) \in Nat /\ DOMAIN buffer = 1 .. Len(buffer)
  BY StreamTypes DEF Streaming, OwnNumbers
<1>2. /\ \A n \in DOMAIN buffer : buffer[n] \in Logged
      /\ \A m, n \in DOMAIN buffer : m < n => Position(buffer[m]) <= Position(buffer[n])
      /\ \A m, n \in DOMAIN buffer : buffer[m].id = buffer[n].id => buffer[m] = buffer[n]
  BY DEF Streaming, Window, Climbing, OwnIds
<1>3. \A e \in Logged : Position(e) \in Int /\ log[Position(e)] = e
  BY <1>1, Positions
<1>4. PICK k \in Nat : \E f \in [1 .. k -> FirstCopies] :
           /\ Deduplicated = [n \in 1 .. k |-> buffer[f[n]]] /\ Increasing(f)
           /\ \A i \in FirstCopies : \E n \in 1 .. k : f[n] = i
  BY <1>1, DeduplicatedKeeps
<1>5. PICK f \in [1 .. k -> FirstCopies] :
           /\ Deduplicated = [n \in 1 .. k |-> buffer[f[n]]] /\ Increasing(f)
           /\ \A i \in FirstCopies : \E n \in 1 .. k : f[n] = i
  BY <1>4
<1>6. Stored \in Seq(Event) /\ DOMAIN Stored = 1 .. k /\ \A n \in 1 .. k : Stored[n] = buffer[f[n]]
  BY <1>1, <1>5, DeduplicatedType DEF Stored
<1>7. \A n \in 1 .. k : f[n] \in FirstCopies /\ f[n] \in DOMAIN buffer
  BY <1>5 DEF FirstCopies
<1>8. ASSUME NEW m \in 1 .. k, NEW n \in 1 .. k, m < n
      PROVE  Position(Stored[m]) < Position(Stored[n])
  <2> DEFINE a == f[m]
             b == f[n]
  <2>1. a < b /\ a \in DOMAIN buffer /\ b \in DOMAIN buffer /\ b \in FirstCopies
    BY <1>5, <1>7, <1>8 DEF Increasing
  <2> HIDE DEF a, b
  <2>2. a \in Nat /\ b \in Nat /\ a >= 1 /\ b - 1 \in DOMAIN buffer /\ a <= b - 1 /\ b # 1
    BY <1>1, <2>1
  <2>3. buffer[b].id # buffer[b - 1].id
    BY <2>1, <2>2 DEF FirstCopies
  <2>4. /\ Position(buffer[a]) <= Position(buffer[b - 1])
        /\ Position(buffer[b - 1]) <= Position(buffer[b])
    <3>1. a = b - 1 \/ a < b - 1
      BY <2>2
    <3>2. Position(buffer[a]) <= Position(buffer[b - 1])
      BY <1>2, <1>3, <2>1, <2>2, <3>1
    <3>3. b - 1 < b
      BY <2>2
    <3> QED BY <1>2, <2>1, <2>2, <3>2, <3>3
  <2>5. Position(buffer[b - 1]) # Position(buffer[b])
    BY <1>2, <1>3, <2>1, <2>2, <2>3
  <2>6. Position(buffer[a]) \in Int /\ Position(buffer[b]) \in Int /\ Position(buffer[b - 1]) \in Int
    BY <1>2, <1>3, <2>1, <2>2
  <2>7. Position(buffer[a]) < Position(buffer[b])
    BY <2>4, <2>5, <2>6
  <2> QED BY <1>6, <2>7 DEF a, b
<1>9. Rising(Stored)
  BY <1>2, <1>6, <1>7, <1>8 DEF Rising
<1>10. ASSUME NEW m \in DOMAIN buffer PROVE \E n \in DOMAIN Stored : Stored[n] = buffer[m]
  <2> DEFINE T == {i \in DOMAIN buffer : buffer[i] = buffer[m]}
  <2>1. T \in SUBSET Nat /\ T # {}
    BY <1>1
  <2>2. PICK i \in T : \A x \in T : i <= x
    BY <2>1, LeastNumber
  <2>3. i = 1 \/ (i - 1 \in DOMAIN buffer /\ i - 1 \notin T)
    <3>1. i \in 1 .. Len(buffer)
      BY <1>1, <2>2
    <3> QED BY <1>1, <2>2, <3>1
  <2>4. i \in FirstCopies
    BY <1>2, <2>2, <2>3 DEF FirstCopies
  <2>5. PICK n \in 1 .. k : f[n] = i
    BY <1>5, <2>4
  <2> QED BY <1>6, <2>2, <2>5
<1>11. \A n \in DOMAIN Stored : \E m \in DOMAIN buffer : Stored[n] = buffer[m]
  BY <1>6, <1>7
<1> QED BY <1>6, <1>9, <1>10, <1>11

(* Replay begins behind what the client has seen: its last event is still    *)
(* there, or everything that is there is newer, also if the id it names has  *)
(* been given again.                                                         *)
LEMMA ReplayRises ==
  ASSUME Base, Streaming, backend = "redis", NEW c \in Clients, Ascends(c),
         reader[c].pc = "replay"
  PROVE  /\ After(reader[c].last) \in Seq(Event)
         /\ Rising(After(reader[c].last)) /\ Behind(seen[c], After(reader[c].last))
<1> DEFINE S == Stored
           K == Len(S)
           last == reader[c].last
           L == Len(seen[c])
           found == {n \in DOMAIN S : S[n].id = last}
           i == CHOOSE n \in found : \A m \in found : n <= m
<1>1. /\ S \in Seq(Event) /\ K \in Nat /\ DOMAIN S = 1 .. K /\ Rising(S)
      /\ \A n \in DOMAIN S : \E m \in DOMAIN buffer : S[n] = buffer[m]
      /\ \A m \in DOMAIN buffer : \E n \in DOMAIN S : S[n] = buffer[m]
  <2>1. S \in Seq(Event) /\ Rising(S)
        /\ (\A n \in DOMAIN S : \E m \in DOMAIN buffer : S[n] = buffer[m])
        /\ (\A m \in DOMAIN buffer : \E n \in DOMAIN S : S[n] = buffer[m])
    BY StoredRises
  <2> HIDE DEF S
  <2> QED BY <2>1
<1>2. LogOK /\ Distinct /\ seen[c] \in Seq(Event) /\ L \in Nat /\ DOMAIN seen[c] = 1 .. L
  BY StreamTypes, Types DEF Streaming, OwnNumbers
<1>3. \A e \in Logged : Position(e) \in DOMAIN log /\ log[Position(e)] = e /\ Position(e) \in Int
  BY <1>2, Positions DEF LogOK
<1>4. After(last) = IF found = {} THEN S ELSE SubSeq(S, i + 1, K)
  BY DEF After
<1> HIDE DEF S
<1>5. \A m, n \in DOMAIN buffer : buffer[m].id = buffer[n].id => buffer[m] = buffer[n]
  BY DEF Streaming, OwnIds
<1>6. \A n \in DOMAIN buffer : \A p \in DOMAIN log :
        Position(buffer[n]) <= p => \E m \in DOMAIN buffer : buffer[m] = log[p]
  BY DEF Streaming, Window
(* An event at or before the last one seen: that one is still in the buffer. *)
<1>7. ASSUME L # 0
      PROVE  /\ seen[c][L] \in Logged /\ last = seen[c][L].id
             /\ \A m \in 1 .. L : Position(seen[c][m]) <= Position(seen[c][L])
             /\ \A n \in 1 .. K : Position(S[n]) <= Position(seen[c][L]) =>
                  \E x \in 1 .. K : S[x] = seen[c][L]
  <2> DEFINE z == seen[c][L]
  <2>1. L \in 1 .. L /\ seen[c] # <<>>
    BY <1>2, <1>7
  <2>2. z \in Logged /\ last = z.id
    BY <1>2, <2>1 DEF Ascends, InPlace, Rising
  <2>3. \A m \in 1 .. L : Position(seen[c][m]) <= Position(z)
    <3> SUFFICES ASSUME NEW m \in 1 .. L PROVE Position(seen[c][m]) <= Position(z)
      OBVIOUS
    <3>1. m = L \/ m < L
      BY <1>2
    <3>2. seen[c][m] \in Logged /\ (m < L => Position(seen[c][m]) < Position(z))
      BY <1>2, <2>1 DEF Ascends, InPlace, Rising
    <3> QED BY <1>3, <2>2, <3>1, <3>2
  <2>4. ASSUME NEW n \in 1 .. K, Position(S[n]) <= Position(z) PROVE \E x \in 1 .. K : S[x] = z
    <3>1. PICK m \in DOMAIN buffer : S[n] = buffer[m]
      BY <1>1
    <3>2. PICK y \in DOMAIN buffer : buffer[y] = log[Position(z)]
      BY <1>3, <1>6, <2>2, <2>4, <3>1
    <3> QED BY <1>1, <1>3, <2>2, <3>2
  <2> QED BY <2>2, <2>3, <2>4
<1>8. CASE found = {}
  <2>1. After(last) = S
    BY <1>4, <1>8
  <2>2. Behind(seen[c], S)
    <3> SUFFICES ASSUME NEW m \in 1 .. L, NEW n \in 1 .. K
                 PROVE  Position(seen[c][m]) < Position(S[n])
      BY <1>1, <1>2 DEF Behind
    <3>1. L # 0
      BY <1>2
    <3>2. ~ (Position(S[n]) <= Position(seen[c][L]))
      BY <1>1, <1>7, <1>8, <3>1
    <3>3. Position(seen[c][m]) <= Position(seen[c][L])
      BY <1>7, <3>1
    <3>4. seen[c][m] \in Logged /\ seen[c][L] \in Logged /\ S[n] \in Logged
      BY <1>1, <1>2, <1>7, <3>1 DEF Ascends, InPlace, Rising
    <3> QED BY <1>3, <3>2, <3>3, <3>4
  <2> QED BY <1>1, <2>1, <2>2
<1>9. CASE found # {}
  <2>1. i \in found /\ \A m \in found : i <= m
    <3>1. found \in SUBSET Nat
      BY <1>1
    <3>2. \E n \in found : \A m \in found : n <= m
      BY <1>9, <3>1, LeastNumber
    <3> QED BY <3>2
  <2> HIDE DEF i
  <2>2. i \in 1 .. K /\ S[i].id = last
    BY <1>1, <2>1
  <2> DEFINE A == SubSeq(S, i + 1, K)
  <2>3. /\ A \in Seq(Event) /\ Len(A) \in Nat /\ DOMAIN A = 1 .. Len(A)
        /\ \A n \in 1 .. Len(A) : A[n] = S[i + n] /\ i + n \in 1 .. K
    <3>1. \A n \in (i + 1) .. K : S[n] \in Event
      BY <1>1, <2>2
    <3>2. i + 1 \in Int /\ K \in Int
      BY <1>1, <2>2
    <3> HIDE DEF K
    <3>3. /\ A \in Seq(Event) /\ Len(A) = IF i + 1 <= K THEN K - (i + 1) + 1 ELSE 0
          /\ \A n \in 1 .. K - (i + 1) + 1 : A[n] = S[(i + 1) + n - 1]
      BY <3>1, <3>2, SubSeqProperties
    <3>4. ASSUME NEW n \in 1 .. Len(A) PROVE A[n] = S[i + n] /\ i + n \in 1 .. K
      <4>1. i + 1 <= K /\ n \in 1 .. K - (i + 1) + 1
        BY <1>1, <2>2, <3>3
      <4>2. (i + 1) + n - 1 = i + n /\ i + n \in 1 .. K
        BY <1>1, <2>2, <4>1
      <4> QED BY <3>3, <4>1, <4>2
    <3> QED BY <3>3, <3>4
  <2> HIDE DEF A
  <2>4. After(last) = A
    BY <1>4, <1>9 DEF A
  <2>5. Rising(A)
    <3>1. \A m, n \in 1 .. Len(A) : m < n => i + m < i + n
      BY <2>2, <2>3
    <3> QED BY <1>1, <2>3, <3>1 DEF Rising
  <2>6. ASSUME NEW m \in 1 .. L, NEW n \in 1 .. Len(A)
        PROVE  Position(seen[c][m]) < Position(A[n])
    <3>1. L # 0
      BY <1>2
    <3>2. /\ Position(S[i]) < Position(S[i + n]) /\ S[i] \in Logged /\ S[i + n] \in Logged
          /\ A[n] = S[i + n]
      <4>1. i < i + n /\ i + n \in 1 .. K
        BY <2>2, <2>3
      <4> QED BY <1>1, <2>2, <2>3, <4>1 DEF Rising
    <3>3. Position(seen[c][L]) <= Position(S[i])
      <4> SUFFICES ASSUME ~ (Position(seen[c][L]) <= Position(S[i])) PROVE FALSE
        OBVIOUS
      <4>1. Position(S[i]) <= Position(seen[c][L]) /\ seen[c][L] \in Logged
        BY <1>3, <1>7, <3>1, <3>2
      <4>2. PICK x \in 1 .. K : S[x] = seen[c][L]
        BY <1>7, <2>2, <3>1, <4>1
      <4>3. S[x].id = S[i].id
        BY <1>7, <2>2, <3>1, <4>2
      <4>4. S[x] = S[i]
        BY <1>1, <1>5, <2>2, <4>3, SMTT(30)
      <4> QED BY <1>3, <4>1, <4>2, <4>4
    <3>4. Position(seen[c][m]) <= Position(seen[c][L]) /\ seen[c][L] \in Logged
          /\ seen[c][m] \in Logged
      BY <1>2, <1>7, <3>1 DEF Ascends, InPlace, Rising
    <3> QED BY <1>3, <3>2, <3>3, <3>4
  <2> QED BY <1>2, <2>3, <2>4, <2>5, <2>6 DEF Behind
<1> QED BY <1>8, <1>9

(***************************************************************************)
(* What a client sees.                                                     *)
(***************************************************************************)
LEMMA AscendsBy ==
  ASSUME log' = log, NEW c \in Clients, InPlace(seen'[c], chan'[c], reader'[c])
  PROVE  Ascends(c)'
<1>1. Logged' = Logged /\ \A e : Position(e)' = Position(e)
  BY DEF Logged, Position
<1> QED BY <1>1 DEF Ascends, InPlace, Rising, Climbing, Until, Behind

LEMMA AscendsLeft ==
  ASSUME Base, Streaming, NEW c \in Clients, Ascends(c), Steady, Left(c)
  PROVE  Ascends(c)'
<1>1. CASE chan'[c] = chan[c]
  BY <1>1, AscendsStays DEF Left
<1>2. CASE chan'[c] # chan[c]
  <2> DEFINE x == log[Len(log)]
             Q == Len(chan[c])
  <2>1. /\ reader[c].pc \in {"check", "listen"} /\ log' = log /\ log # <<>>
        /\ chan'[c] \in {chan[c] \o <<x>>, chan[c] \o <<x, x>>}
    BY <1>2 DEF Left, Receives
  <2>2. LogOK /\ Distinct /\ log \in Seq(Event) /\ chan[c] \in Seq(Event) /\ Q \in Nat
        /\ DOMAIN chan[c] = 1 .. Q /\ seen[c] \in Seq(Event)
    BY StreamTypes, Types DEF Streaming, OwnNumbers
  <2>3. /\ x \in Logged /\ x \in Event /\ Position(x) = Len(log)
        /\ \A e \in Logged : Position(e) \in Int /\ Position(e) <= Len(log)
    <3>1. Len(log) \in DOMAIN log /\ Len(log) \in Nat
      BY <2>1, <2>2
    <3> QED BY <2>2, <3>1, Positions
  <2> HIDE DEF x
  <2>4. PICK j \in {1, 2} : /\ DOMAIN chan'[c] = 1 .. Q + j
                            /\ \A n \in 1 .. Q + j : IF n <= Q THEN chan'[c][n] = chan[c][n]
                                                               ELSE chan'[c][n] = x
    <3>1. CASE chan'[c] = chan[c] \o <<x>>
      <4>1. DOMAIN chan'[c] = 1 .. Q + 1 /\ \A n \in 1 .. Q + 1 : IF n <= Q THEN chan'[c][n] = chan[c][n]
                                                               ELSE chan'[c][n] = x
        BY <2>2, <2>3, <3>1
      <4> QED BY <4>1
    <3>2. CASE chan'[c] = chan[c] \o <<x, x>>
      <4>1. DOMAIN chan'[c] = 1 .. Q + 2 /\ \A n \in 1 .. Q + 2 : IF n <= Q THEN chan'[c][n] = chan[c][n]
                                                               ELSE chan'[c][n] = x
        BY <2>2, <2>3, <3>2
      <4> QED BY <4>1
    <3> QED BY <2>1, <3>1, <3>2
  <2>5. /\ Rising(seen[c]) /\ Climbing(chan[c]) /\ Until(seen[c], chan[c])
        /\ \A n \in 1 .. Q : chan[c][n] \in Logged
    BY <2>2 DEF Ascends, InPlace, Climbing
  <2>6. \A n \in 1 .. Q + j : n \in 1 .. Q \/ ~ (n <= Q)
    BY <2>2
  <2>7. Climbing(chan'[c])
    <3>1. ASSUME NEW n \in 1 .. Q + j PROVE chan'[c][n] \in Logged
      BY <2>3, <2>4, <2>5, <2>6
    <3>2. ASSUME NEW m \in 1 .. Q + j, NEW n \in 1 .. Q + j, m < n
          PROVE  Position(chan'[c][m]) <= Position(chan'[c][n])
      <4>1. CASE n <= Q
        <5>1. m <= Q /\ m \in DOMAIN chan[c] /\ n \in DOMAIN chan[c]
          BY <2>2, <3>2, <4>1
        <5> QED BY <2>4, <2>5, <3>2, <4>1, <5>1 DEF Climbing
      <4>2. CASE ~ (n <= Q)
        <5>1. chan'[c][n] = x /\ chan'[c][m] \in Logged
          BY <2>4, <3>1, <4>2
        <5> QED BY <2>3, <5>1
      <4> QED BY <4>1, <4>2
    <3> QED BY <2>4, <3>1, <3>2 DEF Climbing
  <2>8. Until(seen[c], chan'[c])
    <3> SUFFICES ASSUME NEW m \in DOMAIN seen[c], NEW n \in 1 .. Q + j
                 PROVE  Position(seen[c][m]) <= Position(chan'[c][n])
      BY <2>4 DEF Until
    <3>1. CASE n \in 1 .. Q
      BY <2>2, <2>4, <2>5, <3>1 DEF Until
    <3>2. CASE ~ (n <= Q)
      BY <2>3, <2>4, <2>5, <3>2 DEF Rising
    <3> QED BY <2>6, <3>1, <3>2
  <2>9. InPlace(seen'[c], chan'[c], reader'[c])
    BY <2>1, <2>5, <2>7, <2>8 DEF Ascends, InPlace, Left
  <2> QED BY <2>1, <2>9, AscendsBy
<1> QED BY <1>1, <1>2

(* An event that comes after everything a client has seen. *)
LEMMA RisesBy ==
  ASSUME NEW s \in Seq(Event), Rising(s), NEW ev \in Logged, ev \in Event,
         \A m \in DOMAIN s : Position(s[m]) < Position(ev)
  PROVE  /\ Rising(Append(s, ev)) /\ Append(s, ev) # <<>> /\ Append(s, ev)[Len(Append(s, ev))] = ev
         /\ \A n \in DOMAIN Append(s, ev) : \/ n \in DOMAIN s /\ Append(s, ev)[n] = s[n]
                                            \/ Append(s, ev)[n] = ev
<1> DEFINE t == Append(s, ev)
<1>1. /\ Len(s) \in Nat /\ DOMAIN s = 1 .. Len(s) /\ DOMAIN t = 1 .. Len(s) + 1
      /\ Len(t) = Len(s) + 1 /\ t[Len(s) + 1] = ev /\ \A n \in 1 .. Len(s) : t[n] = s[n]
  OBVIOUS
<1> HIDE DEF t
<1>2. \A n \in 1 .. Len(s) + 1 : n = Len(s) + 1 \/ n \in 1 .. Len(s)
  BY <1>1
<1>3. ASSUME NEW m \in DOMAIN t, NEW n \in DOMAIN t, m < n PROVE Position(t[m]) < Position(t[n])
  <2>1. m \in 1 .. Len(s)
    BY <1>1, <1>3
  <2>2. CASE n \in 1 .. Len(s)
    BY <1>1, <1>3, <2>1, <2>2 DEF Rising
  <2>3. CASE n = Len(s) + 1
    BY <1>1, <2>1, <2>3
  <2> QED BY <1>1, <1>2, <2>2, <2>3
<1>4. Rising(t)
  BY <1>1, <1>2, <1>3 DEF Rising
<1>5. t # <<>> /\ t[Len(t)] = ev
  BY <1>1
<1>6. \A n \in DOMAIN t : (n \in DOMAIN s /\ t[n] = s[n]) \/ t[n] = ev
  BY <1>1, <1>2
<1> QED BY <1>4, <1>5, <1>6 DEF t

(* The next event of the subscription. *)
LEMMA ListenAscends ==
  ASSUME Base, Streaming, backend = "redis", NEW c \in Clients, Ascends(c), Listen(c)
  PROVE  InPlace(seen'[c], chan'[c], reader'[c])
<1> DEFINE r == reader[c]
           s == seen[c]
           q == chan[c]
           ev == Head(q)
           repeat == ev.id = r.prev
           end == ev.kind = "end" /\ ~ repeat
           next == [r EXCEPT !.prev = ev.id, !.sent = IF New(c, ev) THEN ev.id ELSE @]
<1>1. /\ r \in Conn /\ q \in Seq(Event) /\ s \in Seq(Event) /\ r.pc = "listen" /\ r.pend = <<>>
      /\ Rising(s) /\ Climbing(q) /\ Until(s, q) /\ q # <<>>
      /\ s # <<>> => r.sent >= s[Len(s)].id
      /\ LogOK /\ Distinct
  BY Types, StreamTypes DEF Listen, Ascends, InPlace, Streaming, OwnNumbers
<1>2. /\ ev \in Event /\ ev = q[1] /\ 1 \in DOMAIN q /\ ev \in Logged
      /\ Tail(q) \in Seq(Event)
      /\ \A n \in DOMAIN Tail(q) : n + 1 \in DOMAIN q /\ Tail(q)[n] = q[n + 1] /\ 1 < n + 1
      /\ \A m, n \in DOMAIN Tail(q) : m < n => m + 1 < n + 1
  <2>1. ev \in Event /\ ev = q[1] /\ 1 \in DOMAIN q /\ Tail(q) \in Seq(Event)
    BY <1>1
  <2>2. Len(q) \in Nat /\ Len(q) # 0 /\ DOMAIN q = 1 .. Len(q) /\ DOMAIN Tail(q) = 1 .. Len(q) - 1
        /\ \A n \in 1 .. Len(q) - 1 : Tail(q)[n] = q[n + 1]
    BY <1>1
  <2>3. \A n \in 1 .. Len(q) - 1 : n + 1 \in 1 .. Len(q) /\ 1 < n + 1
    BY <2>2
  <2>4. ev \in Logged
    BY <1>1, <2>1 DEF Climbing
  <2>5. \A m, n \in DOMAIN Tail(q) : m < n => m + 1 < n + 1
    BY <2>2
  <2> QED BY <2>1, <2>2, <2>3, <2>4, <2>5
<1>3. /\ seen' = IF New(c, ev) /\ ~ repeat THEN [seen EXCEPT ![c] = Append(@, ev)] ELSE seen
      /\ chan' = [chan EXCEPT ![c] = IF end THEN <<>> ELSE Tail(@)]
      /\ \E rs : reader' = [CloseReaders(rs) EXCEPT ![c] = IF end THEN Gone(c) ELSE next]
  BY <1>1 DEF Listen, Show
<1> HIDE DEF ev, next
<1>4. /\ seen'[c] = IF New(c, ev) /\ ~ repeat THEN Append(s, ev) ELSE s
      /\ chan'[c] = IF end THEN <<>> ELSE Tail(q)
      /\ reader'[c] = IF end THEN Gone(c) ELSE next
  BY <1>3, CloseReadersType DEF Base, DataOK, SeenOK, ChanOK
<1>5. /\ \A e \in Logged : Position(e) \in Int /\ log[Position(e)] = e
      /\ ev.id \in Nat /\ \A n \in DOMAIN s : s[n] \in Logged
  BY <1>1, <1>2, Positions, EventFields DEF Rising, LogOK
<1>6. New(c, ev) => \A m \in DOMAIN s : Position(s[m]) < Position(ev)
  <2> SUFFICES ASSUME New(c, ev), NEW m \in DOMAIN s PROVE Position(s[m]) < Position(ev)
    OBVIOUS
  <2>1. Len(s) \in DOMAIN s /\ s # <<>> /\ (m = Len(s) \/ m < Len(s))
    BY <1>1
  <2>2. s[Len(s)].id # ev.id
    <3>1. s[Len(s)].id \in Nat /\ r.sent \in Nat
      BY <1>1, <2>1, EventFields DEF Conn
    <3> QED BY <1>1, <1>5, <2>1, <3>1 DEF New
  <2>3. Position(s[Len(s)]) <= Position(ev)
    BY <1>1, <1>2, <2>1 DEF Until
  <2>4. Position(s[Len(s)]) # Position(ev)
    BY <1>2, <1>5, <2>1, <2>2
  <2>5. m < Len(s) => Position(s[m]) < Position(s[Len(s)])
    BY <1>1, <2>1 DEF Rising
  <2> QED BY <1>2, <1>5, <2>1, <2>3, <2>4, <2>5
<1>7. Rising(seen'[c])
  BY <1>1, <1>2, <1>4, <1>6, RisesBy
<1>8. Climbing(chan'[c])
  <2>1. Climbing(Tail(q)) /\ Climbing(<<>>)
    BY <1>1, <1>2 DEF Climbing
  <2> QED BY <1>4, <2>1
<1>9. Until(seen'[c], chan'[c])
  <2> SUFFICES ASSUME NEW m \in DOMAIN seen'[c], NEW n \in DOMAIN Tail(q), ~ end
               PROVE  Position(seen'[c][m]) <= Position(Tail(q)[n])
    BY <1>4 DEF Until
  <2>1. Tail(q)[n] = q[n + 1] /\ n + 1 \in DOMAIN q /\ 1 < n + 1
    BY <1>2
  <2>2. Position(ev) <= Position(q[n + 1])
    BY <1>1, <1>2, <2>1 DEF Climbing
  <2>3. \A k \in DOMAIN s : Position(s[k]) <= Position(q[n + 1])
    BY <1>1, <2>1 DEF Until
  <2>4. (m \in DOMAIN s /\ seen'[c][m] = s[m]) \/ seen'[c][m] = ev
    BY <1>1, <1>2, <1>4, <1>6, RisesBy
  <2> QED BY <2>1, <2>2, <2>3, <2>4
<1>10. CASE end
  <2>1. reader'[c].pc = "away" /\ reader'[c].pend = <<>> /\ chan'[c] = <<>>
    BY <1>4, <1>10 DEF Gone, Away
  <2> QED BY <1>7, <1>8, <1>9, <2>1 DEF InPlace
<1>11. CASE ~ end
  <2>1. /\ reader'[c].pc = "listen" /\ reader'[c].pend = <<>>
        /\ reader'[c].sent = IF New(c, ev) THEN ev.id ELSE r.sent
    <3> DEFINE y == IF New(c, ev) THEN ev.id ELSE r.sent
    <3>1. reader'[c] = [r EXCEPT !.prev = ev.id, !.sent = y]
      BY <1>4, <1>11 DEF next
    <3> HIDE DEF y, r
    <3>2. reader'[c].pc = r.pc /\ reader'[c].pend = r.pend /\ reader'[c].sent = y
      BY <1>1, <3>1 DEF Conn
    <3> QED BY <1>1, <3>2 DEF y, r
  <2>2. seen'[c] # <<>> => reader'[c].sent >= seen'[c][Len(seen'[c])].id
    <3>1. CASE New(c, ev) /\ ~ repeat
      <4>1. seen'[c][Len(seen'[c])] = ev
        BY <1>1, <1>2, <1>4, <1>6, <3>1, RisesBy
      <4> QED BY <1>5, <2>1, <3>1, <4>1
    <3>2. CASE ~ (New(c, ev) /\ ~ repeat)
      <4>1. seen'[c] = s
        BY <1>4, <3>2
      <4>2. s # <<>> => s[Len(s)].id \in Nat
        BY <1>1, EventFields
      <4>3. r.sent \in Nat
        BY <1>1 DEF Conn
      <4>4. s # <<>> => reader'[c].sent >= s[Len(s)].id
        BY <1>1, <1>5, <2>1, <4>2, <4>3 DEF New
      <4> QED BY <4>1, <4>4
    <3> QED BY <3>1, <3>2
  <2> QED BY <1>7, <1>8, <1>9, <2>1, <2>2 DEF InPlace
<1> QED BY <1>10, <1>11

(* Every step of a client. *)
LEMMA ClientAscends ==
  ASSUME Base, Streaming, backend = "redis", \A d \in Clients : Ascends(d), NEW c \in Clients,
         ClientStep(c) \/ Connect(c) \/ Disconnect(c) \/ PubSubError(c)
  PROVE  \A d \in Clients : Ascends(d)'
<1> DEFINE r == reader[c]
           s == seen[c]
<1>1. /\ r \in Conn /\ s \in Seq(Event) /\ r.pend \in Seq(Event) /\ InPlace(s, chan[c], r)
      /\ LogOK /\ Distinct
  BY Types, StreamTypes DEF Ascends, Streaming, OwnNumbers
<1>2. reader \in [Clients -> Conn] /\ chan \in [Clients -> Seq(Event)]
      /\ seen \in [Clients -> Seq(Event)]
  BY DEF Base, DataOK, ReaderOK, ChanOK, SeenOK
<1>3. log' = log
  BY StreamingClients
<1>4. ASSUME NEW d \in Clients, d # c PROVE Ascends(d)'
  <2>1. /\ seen'[d] = seen[d] /\ chan'[d] = chan[d]
        /\ reader'[d].pc = reader[d].pc /\ reader'[d].sent = reader[d].sent
        /\ reader'[d].last = reader[d].last /\ reader'[d].pend = reader[d].pend
    <3>1. seen'[d] = seen[d]
      BY <1>2, <1>4
         DEF ClientStep, Replay, YieldReplayed, GoLive, Subscribe, CheckEnd, Listen, Show,
             StopListening, Connect, Disconnect, PubSubError
    <3>2. chan'[d] = chan[d]
      BY <1>2, <1>4
         DEF ClientStep, Replay, YieldReplayed, GoLive, Subscribe, CheckEnd, Listen,
             StopListening, Connect, Disconnect, PubSubError
    <3>3. CASE CheckEnd(c) \/ Listen(c)
      <4>1. \E rs, x : reader' = [CloseReaders(rs) EXCEPT ![c] = x]
        BY <3>3 DEF CheckEnd, Listen
      <4> QED BY <1>4, <3>1, <3>2, <4>1, CloseReadersType DEF Base, DataOK
    <3>4. CASE ~ (CheckEnd(c) \/ Listen(c))
      <4>1. \E x : Set(c, x)
        BY <3>4 DEF ClientStep, Replay, YieldReplayed, GoLive, Subscribe, StopListening, Connect,
                    Disconnect, PubSubError
      <4> QED BY <1>2, <1>4, <3>1, <3>2, <4>1 DEF Set
    <3> QED BY <3>3, <3>4
  <2>2. Steady
    BY <1>1, <1>3, PositionsStay DEF Steady
  <2> QED BY <2>1, <2>2, AscendsStays
<1>5. ASSUME NEW x, Set(c, x) PROVE reader'[c] = x
  BY <1>2, <1>5 DEF Set
<1>6. Rising(s) /\ Climbing(<<>>) /\ Until(s, <<>>)
  BY <1>1 DEF InPlace, Climbing, Until
<1>7. InPlace(s, <<>>, Gone(c))
  BY <1>6 DEF InPlace, Gone, Away
<1>8. InPlace(seen'[c], chan'[c], reader'[c])
  <2>1. CASE Replay(c)
    <3>1. r.pc = "replay" /\ UNCHANGED <<chan, seen>>
          /\ \/ Set(c, [r EXCEPT !.pc = "replaying", !.pend = After(r.last)])
             \/ Set(c, [r EXCEPT !.pc = "replaying"])
      BY <2>1 DEF Replay
    <3>2. chan[c] = <<>> /\ r.pend = <<>>
      BY <1>1, <3>1 DEF InPlace
    <3>3. /\ reader'[c].pc = "replaying" /\ reader'[c].sent = r.sent
          /\ reader'[c].pend = After(r.last) \/ reader'[c].pend = <<>>
      <4>1. \/ reader'[c] = [r EXCEPT !.pc = "replaying", !.pend = After(r.last)]
            \/ reader'[c] = [r EXCEPT !.pc = "replaying"]
        BY <1>5, <3>1
      <4> QED BY <1>1, <3>2, <4>1 DEF Conn
    <3>4. /\ Rising(After(r.last)) /\ Behind(s, After(r.last))
          /\ Rising(<<>>) /\ Behind(s, <<>>)
      <4>1. Rising(After(r.last)) /\ Behind(s, After(r.last))
        BY <3>1, ReplayRises
      <4>2. Rising(<<>>) /\ Behind(s, <<>>)
        BY DEF Rising, Behind
      <4> QED BY <4>1, <4>2
    <3> QED BY <1>1, <1>6, <3>1, <3>2, <3>3, <3>4 DEF InPlace
  <2>2. CASE YieldReplayed(c)
    <3> DEFINE p == r.pend
               ev == Head(p)
    <3>1. /\ r.pc = "replaying" /\ p # <<>> /\ Show(c, ev) /\ chan' = chan
          /\ Set(c, [r EXCEPT !.pend = Tail(@), !.sent = IF ev.id > @ THEN ev.id ELSE @])
      BY <2>2 DEF YieldReplayed
    <3>2. chan[c] = <<>> /\ Rising(p) /\ Behind(s, p)
      BY <1>1, <3>1 DEF InPlace
    <3>3. /\ ev \in Event /\ ev = p[1] /\ 1 \in DOMAIN p /\ ev \in Logged
          /\ \A n \in DOMAIN Tail(p) : n + 1 \in DOMAIN p /\ Tail(p)[n] = p[n + 1] /\ 1 < n + 1
          /\ \A m, n \in DOMAIN Tail(p) : m < n => m + 1 < n + 1
      <4>1. ev \in Event /\ ev = p[1] /\ 1 \in DOMAIN p
        BY <1>1, <3>1
      <4>2. Len(p) \in Nat /\ Len(p) # 0 /\ DOMAIN p = 1 .. Len(p) /\ DOMAIN Tail(p) = 1 .. Len(p) - 1
            /\ \A n \in 1 .. Len(p) - 1 : Tail(p)[n] = p[n + 1]
        BY <1>1, <3>1
      <4>3. \A n \in 1 .. Len(p) - 1 : n + 1 \in 1 .. Len(p) /\ 1 < n + 1
        BY <4>2
      <4>4. ev \in Logged
        BY <3>2, <4>1 DEF Rising
      <4>5. \A m, n \in DOMAIN Tail(p) : m < n => m + 1 < n + 1
        BY <4>2
      <4> QED BY <4>1, <4>2, <4>3, <4>4, <4>5
    <3>4. \A m \in DOMAIN s : Position(s[m]) < Position(ev)
      BY <3>2, <3>3 DEF Behind
    <3>5. seen'[c] = Append(s, ev)
      BY <1>2, <3>1 DEF Show
    <3>6. reader'[c] = [r EXCEPT !.pend = Tail(@), !.sent = IF ev.id > @ THEN ev.id ELSE @]
      BY <1>5, <3>1
    <3> HIDE DEF ev
    <3>7. /\ Rising(seen'[c]) /\ seen'[c][Len(seen'[c])] = ev
          /\ \A n \in DOMAIN seen'[c] : (n \in DOMAIN s /\ seen'[c][n] = s[n]) \/ seen'[c][n] = ev
      BY <1>1, <1>6, <3>3, <3>4, <3>5, RisesBy
    <3>8. /\ reader'[c].pc = "replaying" /\ reader'[c].pend = Tail(p)
          /\ reader'[c].sent >= ev.id
      <4>1. r.sent \in Nat /\ ev.id \in Nat
        BY <1>1, <3>3, EventFields DEF Conn
      <4>2. reader'[c].pc = r.pc /\ reader'[c].pend = Tail(p)
            /\ reader'[c].sent = IF ev.id > r.sent THEN ev.id ELSE r.sent
        BY <1>1, <3>6 DEF Conn
      <4> QED BY <3>1, <4>1, <4>2
    <3>9. Rising(Tail(p))
      BY <3>2, <3>3 DEF Rising
    <3>10. Behind(seen'[c], Tail(p))
      <4> SUFFICES ASSUME NEW m \in DOMAIN seen'[c], NEW n \in DOMAIN Tail(p)
                   PROVE  Position(seen'[c][m]) < Position(Tail(p)[n])
        BY DEF Behind
      <4>1. Position(ev) < Position(Tail(p)[n])
        BY <3>2, <3>3 DEF Rising
      <4>2. \A k \in DOMAIN s : Position(s[k]) < Position(Tail(p)[n])
        BY <3>2, <3>3 DEF Behind
      <4> QED BY <3>7, <4>1, <4>2
    <3>11. chan'[c] = <<>> /\ Climbing(<<>>) /\ Until(seen'[c], <<>>)
      BY <3>1, <3>2 DEF Climbing, Until
    <3> QED BY <3>7, <3>8, <3>9, <3>10, <3>11 DEF InPlace
  <2>3. CASE GoLive(c)
    <3>1. /\ r.pc = "replaying" /\ r.pend = <<>> /\ UNCHANGED <<chan, seen>>
          /\ Set(c, Gone(c)) \/ Set(c, [r EXCEPT !.pc = "sub"])
      BY <2>3 DEF GoLive
    <3>2. chan[c] = <<>>
      BY <1>1, <3>1 DEF InPlace
    <3>3. CASE Set(c, Gone(c))
      BY <1>5, <1>7, <3>1, <3>2, <3>3
    <3>4. CASE Set(c, [r EXCEPT !.pc = "sub"])
      <4>1. reader'[c] = [r EXCEPT !.pc = "sub"]
        BY <1>5, <3>4
      <4>2. reader'[c].pc = "sub" /\ reader'[c].pend = <<>> /\ reader'[c].sent = r.sent
        BY <1>1, <3>1, <4>1 DEF Conn
      <4> QED BY <1>1, <1>6, <3>1, <3>2, <4>2 DEF InPlace
    <3> QED BY <3>1, <3>3, <3>4
  <2>4. CASE Subscribe(c) \/ CheckEnd(c)
    <3>1. /\ r.pc \in {"sub", "check"} /\ UNCHANGED <<chan, seen>>
          /\ reader'[c].pc \in {"check", "listen"}
          /\ reader'[c].pend = r.pend /\ reader'[c].sent = r.sent
      <4>1. CASE Subscribe(c)
        <5>1. reader'[c] = [r EXCEPT !.pc = "check"] /\ r.pc = "sub" /\ UNCHANGED <<chan, seen>>
          BY <1>5, <4>1 DEF Subscribe
        <5> QED BY <1>1, <5>1 DEF Conn
      <4>2. CASE CheckEnd(c)
        <5>1. PICK rs : reader' = [CloseReaders(rs) EXCEPT ![c].pc = "listen"]
          BY <4>2 DEF CheckEnd
        <5>2. CloseReaders(rs) \in [Clients -> Conn] /\ CloseReaders(rs)[c].pend = r.pend
              /\ CloseReaders(rs)[c].sent = r.sent
          BY CloseReadersType DEF Base, DataOK
        <5> HIDE DEF r
        <5>3. reader'[c].pc = "listen" /\ reader'[c].pend = r.pend /\ reader'[c].sent = r.sent
          BY <5>1, <5>2 DEF Conn
        <5> QED BY <4>2, <5>3 DEF CheckEnd, r
      <4> QED BY <2>4, <4>1, <4>2
    <3> QED BY <1>1, <3>1 DEF InPlace
  <2>5. CASE Listen(c)
    BY <2>5, ListenAscends
  <2>6. CASE StopListening(c) \/ Disconnect(c)
    <3>1. Set(c, Gone(c)) /\ seen' = seen /\ chan'[c] = <<>>
      BY <1>2, <2>6 DEF StopListening, Disconnect
    <3> QED BY <1>5, <1>7, <3>1
  <2>7. CASE PubSubError(c)
    <3>1. /\ Set(c, Gone(c)) \/ Set(c, [r EXCEPT !.pc = "sub", !.prev = 0])
          /\ seen' = seen /\ chan'[c] = <<>> /\ r.pc \in {"check", "listen"}
      BY <1>2, <2>7 DEF PubSubError
    <3>2. CASE Set(c, Gone(c))
      BY <1>5, <1>7, <3>1, <3>2
    <3>3. CASE Set(c, [r EXCEPT !.pc = "sub", !.prev = 0])
      <4>1. reader'[c] = [r EXCEPT !.pc = "sub", !.prev = 0] /\ r.pend = <<>>
        BY <1>1, <1>5, <3>1, <3>3 DEF InPlace
      <4>2. reader'[c].pc = "sub" /\ reader'[c].pend = <<>> /\ reader'[c].sent = r.sent
        BY <1>1, <4>1 DEF Conn
      <4> QED BY <1>1, <1>6, <3>1, <4>2 DEF InPlace
    <3> QED BY <3>1, <3>2, <3>3
  <2>8. CASE Connect(c)
    <3> DEFINE last == IF s = <<>> THEN 0 ELSE Last(s).id
    <3>1. r.pc = "away" /\ UNCHANGED <<chan, seen>>
          /\ \E i : Set(c, [Away(r.tries + 1) EXCEPT !.pc = "replay", !.host = i, !.last = last,
                                                     !.sent = last, !.over = run = "over"])
      BY <2>8 DEF Connect
    <3>2. s # <<>> => last = s[Len(s)].id /\ last \in Nat
      BY <1>1, EventFields DEF Last
    <3> HIDE DEF last
    <3>3. /\ reader'[c].pc = "replay" /\ reader'[c].pend = <<>> /\ reader'[c].sent = last
          /\ reader'[c].last = last
      <4>1. PICK i : reader'[c] = [Away(r.tries + 1) EXCEPT !.pc = "replay", !.host = i, !.last = last,
                                                     !.sent = last, !.over = run = "over"]
        BY <1>5, <3>1
      <4> QED BY <4>1 DEF Away
    <3>4. chan[c] = <<>>
      BY <1>1, <3>1 DEF InPlace
    <3>5. s # <<>> => last = s[Len(s)].id /\ last >= s[Len(s)].id
      BY <3>2
    <3> QED BY <1>6, <3>1, <3>3, <3>4, <3>5 DEF InPlace
  <2> QED BY <2>1, <2>2, <2>3, <2>4, <2>5, <2>6, <2>7, <2>8 DEF ClientStep
<1> QED BY <1>3, <1>4, <1>8, AscendsBy

LEMMA OrderedInit == Init => Ordered
<1> SUFFICES ASSUME Init PROVE Ordered
  OBVIOUS
<1>1. Streaming
  BY DEF Init, Streaming, OwnNumbers, Distinct, InFlight, IdleOut, OwnIds, Window, Climbing,
         Publishing, Reconciles
<1>2. \A c \in Clients : Ascends(c)
  BY DEF Init, Ascends, InPlace, Rising, Climbing, Until, Away
<1> QED BY <1>1, <1>2 DEF Ordered

(* The clock that numbers an event when Redis does not answer counts in      *)
(* milliseconds: it is ahead of the counter.                                 *)
Earlier == counter < Stamp

LEMMA OrderedNext ==
  Base /\ (backend = "redis" => Ordered) /\ Earlier /\ Earlier' /\ [Next]_vars
    => (backend = "redis" => Ordered)'
<1> SUFFICES ASSUME Base, backend = "redis" => Ordered, Earlier, Earlier', [Next]_vars,
                    backend' = "redis"
             PROVE  Ordered'
  OBVIOUS
<1>1. backend' = backend
  BY DEF vars, Next, TaskStep, Begin, CancelHandled, SignalSkipped, Signal, SignalErrorEnd, Finally,
         Emit, GraphEnds, Finalize, TimesOut, ExecuteCancel, Interrupt, ApiStep,
         InterruptStops, InterruptSignals, InterruptCleans, Expire, PutStep, Allocate,
         Offer, CacheEvent, PublishEvent, WriteFails, ClientStep, Replay, YieldReplayed,
         GoLive, Subscribe, CheckEnd, Listen, StopListening, Connect, Disconnect, PubSubError
<1>2. backend = "redis" /\ Streaming /\ (\A c \in Clients : Ascends(c)) /\ counter < Stamp
      /\ counter' < Stamp
  BY <1>1 DEF Ordered, Earlier
<1>3. ASSUME Streaming' /\ Steady /\ \A c \in Clients : Left(c) PROVE Ordered'
  BY <1>2, <1>3, AscendsLeft DEF Ordered
<1>4. CASE UNCHANGED vars
  <2>1. UNCHANGED <<log, buffer>> /\ Counting /\ Reconciles'
    BY <1>2, <1>4, StreamTypes DEF vars, streams, control, Counting, Streaming, Reconciles
  <2>2. \A w \in Writers : Goes(w)
    BY <1>4 DEF vars, Goes
  <2>3. \A c \in Clients : Left(c)
    BY <1>4 DEF vars, clients, Left, Receives
  <2> QED BY <1>2, <1>3, <2>1, <2>2, <2>3, StreamingStays
<1>5. CASE TaskStep \/ Emit \/ GraphEnds \/ Interrupt \/ ApiStep
  BY <1>2, <1>3, <1>5, StreamingControl
<1>6. CASE TimesOut \/ ExecuteCancel
  BY <1>2, <1>3, <1>6, StreamingCancel
<1>7. CASE Expire
  <2>1. \A c \in Clients : Left(c)
    BY <1>7 DEF Expire, clients, Left, Receives
  <2> QED BY <1>2, <1>3, <1>7, <2>1, StreamingExpire
<1>8. CASE \E w \in Writers : PutStep(w) \/ WriteFails(w)
  BY <1>2, <1>3, <1>8, StreamingPuts
<1>9. CASE \E c \in Clients : ClientStep(c) \/ Connect(c) \/ Disconnect(c) \/ PubSubError(c)
  BY <1>2, <1>9, StreamingClients, ClientAscends DEF Ordered
<1> QED BY <1>4, <1>5, <1>6, <1>7, <1>8, <1>9 DEF Next

(* A client sees the events in the order in which they were stored and none  *)
(* of them twice, over both brokers, any number of connections and every     *)
(* combination of the faults, as long as a time stamp that stands in for a   *)
(* number is later than every number.                                        *)
THEOREM SeenInOrder == Spec /\ []Earlier => []InOrder
<1>1. Base /\ (backend = "redis" => Ordered) => (backend = "redis" => InOrder)
  BY DEF Ordered, Ascends, InPlace, Rising, InOrder
<1>2. Base => backend = "redis" \/ backend = "memory"
  BY BackendsAssumption DEF Base, ControlOK
<1> QED BY <1>1, <1>2, BaseInit, BaseNext, OrderedInit, OrderedNext, MemoryInOrder, PTL DEF Spec
=============================================================================
