--------------------------- MODULE MCReadStateGC ---------------------------
(* An instance of ReadStateGC for TLC. *)
EXTENDS ReadStateGC

CONSTANTS writer, collector, c1, c2
=============================================================================
