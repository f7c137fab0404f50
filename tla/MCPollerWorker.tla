--------------------------- MODULE MCPollerWorker ---------------------------
(* Two users; an engine with room for two requests. *)
EXTENDS PollerWorker

CONSTANTS u1, u2
=============================================================================
