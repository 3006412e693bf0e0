---------------------------- MODULE MCIntegration ----------------------------
(***************************************************************************)
(* Integration for TLC: two opens of Home Assistant, one of somebody else, *)
(* and a row as long as the threshold.  Two opens are interchangeable.     *)
(***************************************************************************)
EXTENDS Integration, TLC

RequestSymmetry == Permutations(Requests)
=============================================================================
