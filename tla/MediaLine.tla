------------------------------- MODULE MediaLine -------------------------------
(***************************************************************************)
(* What a media path promises between the one who produces and the one who *)
(* takes, however they cross: what is handed over is in order and is never *)
(* more than Backlog old.  Something may be skipped: late media is worse   *)
(* than missing media.                                                     *)
(***************************************************************************)
EXTENDS Naturals

CONSTANT Backlog    \* how old, in frames, a frame may be when it goes

VARIABLES
    captured,   \* frames produced so far: a frame is its rank
    handed      \* the last frame handed over

line == <<captured, handed>>

Init ==
    /\ captured = 0
    /\ handed = 0

Captures ==
    /\ captured' = captured + 1
    /\ UNCHANGED handed

HandsOver ==
    /\ handed' \in (handed + 1)..captured
    /\ captured < handed' + Backlog
    /\ UNCHANGED captured

Spec == Init /\ [][Captures \/ HandsOver]_line
=============================================================================
