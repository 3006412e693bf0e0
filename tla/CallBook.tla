------------------------------ MODULE CallBook ------------------------------
(***************************************************************************)
(* The dialogs the gateway is watching (usecases/calls.py).                *)
(*                                                                         *)
(* The Python dict of TrackedCall is the function `calls`: an id that is   *)
(* not a key maps to Absent.  The dict's insertion order is kept as the    *)
(* set `older` of an entry, the ids that were already listed when it was   *)
(* inserted.  The handle of an entry stands for the dialog itself, so the  *)
(* id is enough.  "error" and "ended" are both terminal and are one state. *)
(***************************************************************************)
CONSTANTS Calls      \* the dialog ids the transport hands out

VARIABLES calls,     \* CallBook._calls
          rang       \* CallBook._rang: ids the panel rang us on

book == <<calls, rang>>

Live     == {"ringing", "connecting", "streaming"}   \* CallState, up
Sides    == {"incoming", "outgoing"}                 \* Direction
Entry    == [state : Live \cup {"absent"}, side : Sides, older : SUBSET Calls]
Absent   == [state |-> "absent", side |-> "incoming", older |-> {}]

BookTypeOK ==
    /\ calls \in [Calls -> Entry]
    /\ rang \in SUBSET Calls

BookInit ==
    /\ calls = [c \in Calls |-> Absent]
    /\ rang = {}

Tracked(c)   == calls[c].state # "absent"
Streaming    == {c \in Calls : calls[c].state = "streaming"}
Outgoing(c)  == Tracked(c) /\ calls[c].side = "outgoing"

\* The first of a list of calls the book gives: [0].
Oldest(c, S) == c \in S /\ calls[c].older \cap S = {}

\* A ring already seen for the id overrules the caller's guess.
SideOf(c, guess) == IF c \in rang THEN "incoming" ELSE guess

(***************************************************************************)
(* record(): a report always leaves an entry, with the direction guessed   *)
(* anew.  record(refine_only=True) is what a command uses: it sharpens an  *)
(* entry and never creates one.                                            *)
(***************************************************************************)
Record(c, s, guess) ==
    /\ calls' = [calls EXCEPT ![c] =
                    [state |-> s,
                     side  |-> SideOf(c, guess),
                     older |-> IF Tracked(c) THEN @.older
                               ELSE {d \in Calls : Tracked(d)}]]
    /\ UNCHANGED rang

\* Faulty variant of Refine: a command that writes its entry whatever the book says.
FaultyRefine(c, s, guess) == Record(c, s, guess)

Refine(c, s, guess) ==
    \/ Tracked(c) /\ Record(c, s, guess)
    \/ ~Tracked(c) /\ UNCHANGED book

MarkIncoming(c) ==
    /\ calls' = IF Tracked(c) THEN [calls EXCEPT ![c].side = "incoming"] ELSE calls
    /\ rang' = rang \cup {c}

Forget(c) ==
    /\ calls' = [d \in Calls |->
                    IF d = c THEN Absent
                    ELSE [calls[d] EXCEPT !.older = @ \ {c}]]
    /\ rang' = rang \ {c}
=============================================================================
