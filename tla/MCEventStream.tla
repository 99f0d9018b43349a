--------------------------- MODULE MCEventStream ---------------------------
(* EventStream for TLC: every stream is the one user's. *)
EXTENDS EventStream, TLC

CONSTANT u1

MCUserOf == [s \in Streams |-> u1]
=============================================================================
