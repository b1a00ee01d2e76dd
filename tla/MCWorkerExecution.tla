------------------------- MODULE MCWorkerExecution -------------------------
(* Instances of WorkerExecution for TLC: the topologies and the scenarios. *)
EXTENDS WorkerExecution, TLC

CONSTANTS i1, i2, w1, w2, j1, j2

(* One or two servers with a worker each; one slot per worker, or two. *)
OneServer   == (w1 :> i1)
OneSlot     == (j1 :> w1)
TwoServers  == (w1 :> i1) @@ (w2 :> i2)
OneSlotEach == (j1 :> w1) @@ (j2 :> w2)

None == [f \in Faults |-> 0]

(* Two crashes, a crash with a Redis failure, missed heartbeats, a cancel racing *)
(* a timeout.                                                                    *)
Recovery == {[None EXCEPT !["crash"] = 2],
             [None EXCEPT !["crash"] = 1, !["redis"] = 1],
             [None EXCEPT !["stall"] = 1],
             [None EXCEPT !["cancel"] = 1, !["timeout"] = 1]}
(* A crash, a stop, a stall or a cancel, two or three together, with a failing *)
(* statement; a stop and cancels, or crashes, over a failing Redis; a timeout   *)
(* while the server stops.                                                      *)
EveryFault == {[None EXCEPT !["crash"] = 1, !["stop"] = 1, !["db"] = 1],
               [None EXCEPT !["crash"] = 1, !["cancel"] = 1, !["db"] = 1],
               [None EXCEPT !["stop"] = 1, !["stall"] = 1, !["cancel"] = 1, !["db"] = 1],
               [None EXCEPT !["stop"] = 1, !["redis"] = 1, !["cancel"] = 2],
               [None EXCEPT !["crash"] = 2, !["redis"] = 1],
               [None EXCEPT !["stop"] = 1, !["timeout"] = 1]}
OneDbError == {[None EXCEPT !["db"] = 1]}
OneStop    == {[None EXCEPT !["stop"] = 1]}
=============================================================================
