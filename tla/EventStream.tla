----------------------------- MODULE EventStream -----------------------------
(***************************************************************************)
(* The event stream, from the gateway's bus to what Home Assistant shows:  *)
(* the bus and its bounded subscriptions (usecases/events.py), the handler *)
(* that serves one WebSocket (http/ws.py), the integration's client that   *)
(* reads it and reconnects (client.py) and the coordinator that keeps the  *)
(* last state (coordinator.py).                                            *)
(*                                                                         *)
(* An event is its rank in the order of publication, and a state is the    *)
(* rank of the publication that carries it: what a snapshot shows changes  *)
(* on the loop, with a publication.  A turn of the loop publishes either a *)
(* state or an event and the state that follows it.                        *)
(*                                                                         *)
(* aiohttp is not in the repository: it stops serving, ends the handlers   *)
(* that are left, and runs the cleanup last.                               *)
(***************************************************************************)
EXTENDS Naturals, Sequences, FiniteSets

CONSTANTS Conns,      \* the connections that can be told apart at once
          NoConn,     \* none
          Capacity,   \* events a subscriber may fall behind by
          Room,       \* frames on their way before a send waits
          MaxEvents,  \* bound: the events published
          MaxLosses   \* bound: the connections lost

ASSUME StreamAssumption ==
    /\ NoConn \notin Conns
    /\ Capacity \in Nat \ {0}
    /\ {Room, MaxEvents, MaxLosses} \subseteq Nat

VARIABLES
    log,          \* the kind of every event published, in order
    gateway,      \* is the server accepting, ending its handlers, or gone
    subscribers,  \* EventBus._subscribers
    subscription, \* the Subscription of each connection
    handler,      \* where EventsApi.subscribe() is, per connection
    wire,         \* frames written to each connection and not yet read
    link,         \* the connection the integration's client reads
    shown,        \* UrmetCoordinator.data
    available,    \* UrmetCoordinator.last_update_success
    losses,       \* how many connections were lost
    given         \* history: what the client was given on each connection

bus    == <<log, subscribers, subscription>>
client == <<link, shown, available>>
vars   == <<log, gateway, subscribers, subscription, handler, wire, link, shown,
            available, losses, given>>

\* Every connection is a feed.
Feed == INSTANCE EventFeed WITH published <- Len(log), feed <- given

End == 0                        \* the sentinel: None in the queue

\* What a subscriber tells apart: a StateEvent carries all there is to show, and the
\* five others (ring, call, open, registration, webrtc) are followed by one.
Kinds == {"event", "state"}

Frame == [kind : Kinds, rank : Nat] \cup [kind : {"close"}]
Close == [kind |-> "close"]

Subscription == [queue : Seq(Nat), closed : BOOLEAN, dropped : BOOLEAN]

TypeOK ==
    /\ log \in Seq(Kinds)
    /\ gateway \in {"serving", "stopping", "closed"}
    /\ subscribers \in SUBSET Conns
    /\ subscription \in [Conns -> Subscription]
    /\ handler \in [Conns -> {"none", "prepared", "subscribed", "streaming", "ended"}]
    /\ wire \in [Conns -> Seq(Frame)]
    /\ link \in Conns \cup {NoConn}
    /\ shown \in Nat
    /\ available \in BOOLEAN
    /\ losses \in 0..MaxLosses
    /\ given \in [Conns -> Feed!Feeds]

Fresh   == [queue |-> <<>>, closed |-> FALSE, dropped |-> FALSE]

\* The integration has fetched a first state over HTTP: the one before any event.
Init ==
    /\ log = <<>>
    /\ gateway = "serving"
    /\ subscribers = {}
    /\ subscription = [c \in Conns |-> Fresh]
    /\ handler = [c \in Conns |-> "none"]
    /\ wire = [c \in Conns |-> <<>>]
    /\ link = NoConn
    /\ shown = 0
    /\ available = TRUE
    /\ losses = 0
    /\ given = [c \in Conns |-> Feed!Opened(0)]

-----------------------------------------------------------------------------
(* The bus.                                                                *)

\* Faulty variant of Closed: an overflow leaves the bus and tells nobody.
FaultyClosed(s, dropped) ==
    [s EXCEPT !.closed = TRUE, !.dropped = s.dropped \/ dropped]

\* Subscription.close(): the slot past the capacity takes the sentinel, once.
Closed(s, dropped) ==
    IF s.closed THEN s
    ELSE [queue |-> Append(s.queue, End), closed |-> TRUE, dropped |-> dropped]

\* Faulty variant of Offered: what does not fit is skipped.
FaultyOffered(s, rank) ==
    IF s.closed \/ Len(s.queue) >= Capacity THEN s
    ELSE [s EXCEPT !.queue = Append(@, rank)]

\* offer(), and the drop of a subscriber it has no room for.
Offered(s, rank) ==
    IF s.closed \/ Len(s.queue) >= Capacity THEN Closed(s, TRUE)
    ELSE [s EXCEPT !.queue = Append(@, rank)]

\* _fan_out() of one event, then of the state that follows it.
FanOut(kinds) ==
    LET n == Len(log)
        after(s) == IF Len(kinds) = 1 THEN Offered(s, n + 1)
                    ELSE Offered(Offered(s, n + 1), n + 2)
    IN  /\ log' = log \o kinds
        /\ subscription' = [c \in Conns |-> IF c \in subscribers THEN after(subscription[c])
                                            ELSE subscription[c]]
        /\ subscribers' = {c \in subscribers : ~subscription'[c].closed}

Publishes ==
    /\ gateway # "closed"
    /\ \E kinds \in {<<"state">>, <<"event", "state">>} :
          /\ Len(log \o kinds) <= MaxEvents
          /\ FanOut(kinds)
    /\ UNCHANGED <<gateway, handler, wire, link, shown, available, losses, given>>

\* The `with` of the handler leaves the bus, and nobody has the subscription any more.
Leaves(c) ==
    /\ subscription' = [subscription EXCEPT ![c] = Fresh]
    /\ subscribers' = subscribers \ {c}

-----------------------------------------------------------------------------
(* The handler of one connection.                                          *)

Active(c) == handler[c] \in {"prepared", "subscribed", "streaming"}

Writes(c, frame) == wire' = [wire EXCEPT ![c] = Append(@, frame)]

\* The response is prepared: the handler joins the bus, unless the bus is closed.
Subscribes(c) ==
    /\ handler[c] = "prepared"
    /\ IF gateway = "closed"
       THEN /\ handler' = [handler EXCEPT ![c] = "ended"]
            /\ Writes(c, Close)
            /\ UNCHANGED <<subscribers, subscription, given>>
       ELSE /\ handler' = [handler EXCEPT ![c] = "subscribed"]
            /\ subscribers' = subscribers \cup {c}
            /\ subscription' = [subscription EXCEPT ![c] = Fresh]
            /\ given' = [given EXCEPT ![c] = Feed!Opened(Len(log))]
            /\ UNCHANGED wire
    /\ UNCHANGED <<log, gateway, client, losses>>

\* The streaming task starts: the snapshot is read and sent.
Snapshots(c) ==
    /\ handler[c] = "subscribed"
    /\ handler' = [handler EXCEPT ![c] = "streaming"]
    /\ Writes(c, [kind |-> "state", rank |-> Len(log)])
    /\ UNCHANGED <<bus, gateway, client, losses, given>>

\* Faulty variant of Streams: a subscriber that was dropped is not told.
FaultyStreams(c) ==
    LET s == subscription[c] IN
    /\ handler[c] = "streaming"
    /\ Len(wire[c]) <= Room
    /\ s.queue # <<>>
    /\ IF Head(s.queue) = End \/ s.dropped
       THEN /\ Leaves(c)
            /\ handler' = [handler EXCEPT ![c] = "ended"]
            /\ UNCHANGED wire
       ELSE /\ subscription' = [subscription EXCEPT ![c].queue = Tail(@)]
            /\ Writes(c, [kind |-> log[Head(s.queue)], rank |-> Head(s.queue)])
            /\ UNCHANGED <<subscribers, handler>>
    /\ UNCHANGED <<log, gateway, client, losses, given>>

\* The last send has drained: the next event is taken and sent.  The sentinel ends
\* the stream, and so does having been dropped.
Streams(c) ==
    LET s == subscription[c] IN
    /\ handler[c] = "streaming"
    /\ Len(wire[c]) <= Room
    /\ s.queue # <<>>
    /\ IF Head(s.queue) = End \/ s.dropped
       THEN /\ Leaves(c)
            /\ handler' = [handler EXCEPT ![c] = "ended"]
            /\ Writes(c, Close)
       ELSE /\ subscription' = [subscription EXCEPT ![c].queue = Tail(@)]
            /\ Writes(c, [kind |-> log[Head(s.queue)], rank |-> Head(s.queue)])
            /\ UNCHANGED <<subscribers, handler>>
    /\ UNCHANGED <<log, gateway, client, losses, given>>

\* The reading side finds out that the client is gone, whatever the other side awaits.
Notices(c) ==
    /\ Active(c)
    /\ link # c
    /\ handler' = [handler EXCEPT ![c] = "ended"]
    /\ Leaves(c)
    /\ UNCHANGED <<log, gateway, wire, client, losses, given>>

-----------------------------------------------------------------------------
(* The end of the gateway.                                                 *)

Stops ==
    /\ gateway = "serving"
    /\ gateway' = "stopping"
    /\ UNCHANGED <<bus, handler, wire, client, losses, given>>

\* A handler that is left is cancelled, and its connection closed under it.
Cancels(c) ==
    /\ gateway = "stopping"
    /\ Active(c)
    /\ handler' = [handler EXCEPT ![c] = "ended"]
    /\ Leaves(c)
    /\ Writes(c, Close)
    /\ UNCHANGED <<log, gateway, client, losses, given>>

\* The runtime's shutdown publishes the last state and closes the bus.
ClosesBus ==
    /\ gateway = "stopping"
    /\ \A c \in Conns : ~Active(c)
    /\ gateway' = "closed"
    /\ log' = Append(log, "state")
    /\ subscription' = [c \in Conns |-> IF c \in subscribers
                                        THEN Closed(Offered(subscription[c], Len(log) + 1), FALSE)
                                        ELSE subscription[c]]
    /\ subscribers' = {}
    /\ UNCHANGED <<handler, wire, client, losses, given>>

-----------------------------------------------------------------------------
(* The integration.                                                        *)

\* Faulty variant of Connects: a state is read before the response is prepared.
FaultyConnects(c) ==
    /\ link = NoConn
    /\ gateway = "serving"
    /\ ~Active(c)
    /\ link' = c
    /\ handler' = [handler EXCEPT ![c] = "prepared"]
    /\ wire' = [wire EXCEPT ![c] = <<[kind |-> "state", rank |-> Len(log)]>>]
    /\ given' = [given EXCEPT ![c] = Feed!Opened(Len(log))]
    /\ UNCHANGED <<bus, gateway, shown, available, losses>>

\* A retry finds the gateway serving.
Connects(c) ==
    /\ link = NoConn
    /\ gateway = "serving"
    /\ ~Active(c)
    /\ link' = c
    /\ handler' = [handler EXCEPT ![c] = "prepared"]
    /\ wire' = [wire EXCEPT ![c] = <<>>]
    /\ given' = [given EXCEPT ![c] = Feed!Opened(Len(log))]
    /\ UNCHANGED <<bus, gateway, shown, available, losses>>

\* _set_connected(False): the coordinator is told.
Disconnected == link' = NoConn /\ available' = FALSE

\* A frame: a state is what the coordinator shows from now on, the end is a disconnect.
Reads ==
    /\ link # NoConn /\ wire[link] # <<>>
    /\ wire' = [wire EXCEPT ![link] = Tail(@)]
    /\ LET f == Head(wire[link]) IN
       \/ /\ f.kind = "close"
          /\ Disconnected
          /\ UNCHANGED <<shown, given>>
       \/ /\ f.kind # "close"
          /\ shown' = IF f.kind = "state" THEN f.rank ELSE shown
          /\ available' = (available \/ f.kind = "state")
          /\ given' = IF given[link].began THEN [given EXCEPT ![link].upto = f.rank]
                      ELSE [given EXCEPT ![link].began = TRUE, ![link].first = f.rank]
          /\ UNCHANGED link
    /\ UNCHANGED <<bus, gateway, handler, losses>>

\* The line breaks: the client sees it, what was on its way is lost.
Loses ==
    /\ link # NoConn
    /\ losses < MaxLosses
    /\ losses' = losses + 1
    /\ Disconnected
    /\ wire' = [wire EXCEPT ![link] = <<>>]
    /\ UNCHANGED <<bus, gateway, handler, shown, given>>

-----------------------------------------------------------------------------
Handler(c) == Subscribes(c) \/ Snapshots(c) \/ Streams(c) \/ Notices(c) \/ Cancels(c)

Next ==
    \/ Publishes \/ Stops \/ ClosesBus \/ Reads \/ Loses
    \/ \E c \in Conns : Handler(c) \/ Connects(c)

Spec == Init /\ [][Next]_vars

(***************************************************************************)
(* A handler runs when it can, the client reads what it gets and tries     *)
(* again until it is served.  Nothing has to be published, and the gateway *)
(* need not stop.                                                          *)
(***************************************************************************)
FairSpec ==
    /\ Spec
    /\ WF_vars(Reads)
    /\ WF_vars(\E c \in Conns : Connects(c))
    /\ \A c \in Conns : WF_vars(Handler(c))
    /\ WF_vars(ClosesBus)

-----------------------------------------------------------------------------
\* A subscription that is closed while its handler still streams holds its sentinel,
\* last and only once, and within the slot kept for it: the handler does end.
EndAwaitsReader ==
    \A c \in Conns :
        LET s == subscription[c] IN
        handler[c] \in {"subscribed", "streaming"} =>
            /\ Len(s.queue) <= Capacity + 1
            /\ \A i \in 1..Len(s.queue) : s.queue[i] = End <=> s.closed /\ i = Len(s.queue)
            /\ s.closed => s.queue # <<>>
            /\ s.closed <=> c \notin subscribers

\* What is shown over a connection is never older than the moment it was opened,
\* although the states published before its snapshot was read are sent again after it.
NeverOlderThanLink ==
    link # NoConn /\ given[link].began => shown >= given[link].from

\* Every connection is a feed: a first state, then what was published, with no gap.
IsFeed == Feed!FeedSpec

\* While the gateway serves, whoever was dropped or cut off comes back, and what Home
\* Assistant shows comes to be the state that was published last.
CatchesUp ==
    [](gateway = "serving") => <>[](available /\ shown = Len(log))

-----------------------------------------------------------------------------
(* Why the safety properties hold: the parts of an inductive invariant.    *)

Serves(c) == handler[c] \in {"subscribed", "streaming"}

\* A queue holds events that were published, n of them so far, then the sentinel if it
\* was closed, within the room there is.
WellFormed(s, n) ==
    LET len == Len(s.queue) IN
    /\ len <= IF s.closed THEN Capacity + 1 ELSE Capacity
    /\ s.closed => len # 0
    /\ \A i \in 1..len : s.queue[i] <= n /\ (s.queue[i] = End <=> s.closed /\ i = len)

\* It holds them in order from `next` on, up to the last unless it was closed.
Follows(s, next, n) ==
    /\ \A i \in 1..Len(s.queue) : s.queue[i] # End => s.queue[i] = next + i - 1
    /\ ~s.closed => next + Len(s.queue) = n + 1

QueueOf(c) ==
    /\ WellFormed(subscription[c], Len(log))
    /\ subscription[c].closed <=> c \notin subscribers

\* What the frames on the wire are, after what the client was given: first the state
\* that was read, then one event after the other, and at last the close.
Before(c) == IF given[c].began THEN given[c].upto ELSE given[c].upto - 1

WireOf(c) ==
    LET g == given[c]
        w == wire[c]
    IN  /\ g.from <= g.upto /\ g.upto <= Len(log)
        /\ ~g.began => g.upto = g.from
        /\ handler[c] # "none"
        /\ handler[c] \in {"prepared", "subscribed"} => w = <<>> /\ ~g.began
        /\ handler[c] = "streaming" /\ ~g.began => w # <<>>
        /\ \A i \in 1..Len(w) :
              IF w[i].kind = "close" THEN i = Len(w) /\ handler[c] = "ended"
              ELSE /\ w[i].rank \in g.from..Len(log)
                   /\ IF g.began \/ i # 1 THEN w[i].rank = Before(c) + i
                      ELSE w[i].kind = "state"

\* The event to be sent after those on the wire.
NextSent(c) == IF handler[c] = "streaming" THEN Before(c) + Len(wire[c]) + 1
               ELSE given[c].upto + 1

JoinOf(c) == Follows(subscription[c], NextSent(c), Len(log))

QueuesSound   == \A c \in Conns : Serves(c) => QueueOf(c)
MembersServed == \A c \in subscribers : Serves(c)
LinkInOrder   == \A c \in Conns : link = c => WireOf(c) /\ (Serves(c) => JoinOf(c))

IInv == TypeOK /\ QueuesSound /\ MembersServed /\ LinkInOrder /\ NeverOlderThanLink
=============================================================================
