---------------------------- MODULE MCEventStream ----------------------------
(***************************************************************************)
(* EventStream for TLC.  Two connections: the one that is read, and an     *)
(* older one whose handler has not noticed yet that it was lost.           *)
(***************************************************************************)
EXTENDS EventStream
=============================================================================
