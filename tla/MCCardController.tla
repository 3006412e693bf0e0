--------------------------- MODULE MCCardController ---------------------------
(***************************************************************************)
(* CardController for TLC: a visitor, a call somebody placed, one press    *)
(* besides the card's own, and one or two of the talk button at once.      *)
(***************************************************************************)
EXTENDS CardController

CONSTANTS visitor, monitor, first, second

MCIncoming == {visitor}
MCOutgoing == {monitor}
MCToggle   == {first}
MCToggles  == {first, second}
=============================================================================
