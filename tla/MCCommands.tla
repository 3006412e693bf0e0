------------------------------ MODULE MCCommands ------------------------------
(***************************************************************************)
(* Commands for TLC: two panels, a visitor and a monitor at the first;     *)
(* devices of one panel, of both, and of none, and the area of the second. *)
(* The requests are interchangeable.                                       *)
(***************************************************************************)
EXTENDS Commands, TLC

CONSTANTS p1, p2, ring, monitor, ours, shared, unknown, area

MCPanels   == {p1, p2}
MCIncoming == {ring}
MCOutgoing == {monitor}
MCHome     == [c \in {ring, monitor} |-> p1]
MCOwned    == [d \in {ours, shared, unknown, area} |->
                  CASE d = ours -> {p1} [] d = shared -> {p1, p2} [] d = area -> {p2}
                    [] OTHER -> {}]
MCTargets  ==
    {[entry |-> None, devices |-> <<>>,             places |-> {}],
     [entry |-> p2,   devices |-> <<ours>>,         places |-> {}],
     [entry |-> None, devices |-> <<shared>>,       places |-> {}],
     [entry |-> None, devices |-> <<unknown>>,      places |-> {}],
     [entry |-> None, devices |-> <<ours, shared>>, places |-> {}],
     [entry |-> None, devices |-> <<>>,             places |-> {area}]}

RequestSymmetry == Permutations(Requests)
=============================================================================
