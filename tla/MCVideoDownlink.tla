---------------------------- MODULE MCVideoDownlink ----------------------------
(***************************************************************************)
(* VideoDownlink for TLC.  A track that holds two packets, and three of    *)
(* them: a full queue, and one that the sentinel does not fit.             *)
(***************************************************************************)
EXTENDS VideoDownlink
=============================================================================
