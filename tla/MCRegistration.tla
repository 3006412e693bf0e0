--------------------------- MODULE MCRegistration ---------------------------
(***************************************************************************)
(* Registration for TLC.  Two clients are enough: the one in use and the   *)
(* one that replaces it.  No symmetry: a liveness property is checked.     *)
(***************************************************************************)
EXTENDS Registration
=============================================================================
