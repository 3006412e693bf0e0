------------------------- MODULE MCDoorphoneService -------------------------
(***************************************************************************)
(* DoorphoneService for TLC.  The dialogs and the requests are model       *)
(* values of the .cfg.  A third dialog adds no kind of crossing to what    *)
(* the liveness properties say, and makes their check ten times as long;   *)
(* the theorems of DoorphoneProof hold for any number of dialogs.          *)
(***************************************************************************)
EXTENDS DoorphoneService
=============================================================================
