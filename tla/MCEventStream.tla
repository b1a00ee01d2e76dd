--------------------------- MODULE MCEventStream ---------------------------
(* EventStream for TLC: a worker process and an API process. *)
EXTENDS EventStream, TLC

CONSTANTS c1, i1, i2

=============================================================================
