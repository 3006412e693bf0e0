--------------------------- MODULE MCMediaSessions ---------------------------
(***************************************************************************)
(* MediaSessions for TLC.  One monitor and two offers: a leg, and the one  *)
(* that replaces it or comes after it, each closed by whoever gets there   *)
(* first.  The offers are numbered in the order they are made, so no       *)
(* symmetry is lost.                                                       *)
(***************************************************************************)
EXTENDS MediaSessions
=============================================================================
