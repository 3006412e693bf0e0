---------------------------- MODULE MCAudioBridge ----------------------------
(***************************************************************************)
(* AudioBridge for TLC.  A backlog of two and four frames each way: a full *)
(* deque that loses a frame, and one that the other thread empties between *)
(* the count and the append.                                               *)
(***************************************************************************)
EXTENDS AudioBridge
=============================================================================
