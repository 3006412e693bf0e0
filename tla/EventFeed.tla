------------------------------ MODULE EventFeed ------------------------------
(***************************************************************************)
(* What the event stream promises each of its connections, whoever slows   *)
(* down, leaves or is dropped: a state that is not older than the moment   *)
(* it was opened, then what is published from that moment on, in order,    *)
(* with nothing left out as long as the connection lasts.                  *)
(***************************************************************************)
EXTENDS Naturals

CONSTANT Conns   \* the connections that can be told apart at once

VARIABLES
    published,   \* how many events were published
    feed         \* what each connection has been given

Feeds == [from  : Nat,      \* how many were published when it was opened
          began : BOOLEAN,  \* whether it was given its first state, and which
          first : Nat,
          upto  : Nat]      \* the last event it was given

Opened(n) == [from |-> n, began |-> FALSE, first |-> 0, upto |-> n]

FeedInit ==
    /\ published = 0
    /\ feed = [c \in Conns |-> Opened(0)]

\* The events of one turn of the loop are published together.
Publish(n) ==
    /\ published' = published + n
    /\ UNCHANGED feed

Open(c) ==
    /\ feed' = [feed EXCEPT ![c] = Opened(published)]
    /\ UNCHANGED published

\* The first state was read at some moment since the connection was opened.
Begin(c, n) ==
    /\ ~feed[c].began
    /\ feed' = [feed EXCEPT ![c].began = TRUE, ![c].first = n]
    /\ UNCHANGED published

Give(c) ==
    /\ feed[c].began
    /\ feed[c].upto < published
    /\ feed' = [feed EXCEPT ![c].upto = @ + 1]
    /\ UNCHANGED published

FeedNext ==
    \/ \E n \in 1..2 : Publish(n)
    \/ \E c \in Conns : Open(c) \/ Give(c) \/ \E n \in feed[c].from..published : Begin(c, n)

FeedSpec == FeedInit /\ [][FeedNext]_<<published, feed>>
=============================================================================
