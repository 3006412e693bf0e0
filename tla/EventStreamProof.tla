-------------------------- MODULE EventStreamProof --------------------------
(***************************************************************************)
(* What the event stream keeps for every number of connections, capacity   *)
(* and run of events: a handler that awaits its queue is always woken, and *)
(* the stream of every connection implements the feed of EventFeed.        *)
(***************************************************************************)
EXTENDS EventStream, SequenceTheorems, TLAPS

-----------------------------------------------------------------------------
(* One subscription.                                                       *)

LEMMA ClosedQueue ==
    ASSUME NEW s \in Subscription, NEW n \in Nat, NEW dropped \in BOOLEAN, WellFormed(s, n)
    PROVE  /\ Closed(s, dropped) \in Subscription
           /\ Closed(s, dropped).closed
           /\ WellFormed(Closed(s, dropped), n)
           /\ \A next \in Nat : Follows(s, next, n) => Follows(Closed(s, dropped), next, n)
  <1>1. CASE s.closed
    BY <1>1 DEF Closed
  <1>2. CASE ~s.closed
    <2> DEFINE t == Closed(s, dropped)
    <2>1. /\ s.queue \in Seq(Nat)
          /\ t = [queue |-> Append(s.queue, End), closed |-> TRUE, dropped |-> dropped]
      BY <1>2 DEF Closed, Subscription
    <2>2. t \in Subscription /\ t.closed
      BY <2>1 DEF Subscription, End
    <2>3. /\ Len(t.queue) = Len(s.queue) + 1
          /\ Len(s.queue) \in Nat
          /\ t.queue[Len(s.queue) + 1] = End
          /\ \A i \in 1..Len(s.queue) : t.queue[i] = s.queue[i]
      BY <2>1 DEF End
    <2>4. WellFormed(t, n)
      BY <1>2, <2>1, <2>3, StreamAssumption DEF WellFormed, End
    <2>5. \A next \in Nat : Follows(s, next, n) => Follows(t, next, n)
      BY <1>2, <2>1, <2>3 DEF Follows, End
    <2> QED BY <2>2, <2>4, <2>5
  <1> QED BY <1>1, <1>2

\* What was published later says nothing of a queue that was closed before.
LEMMA ClosedLater ==
    ASSUME NEW s \in Subscription, NEW m \in Nat, NEW n \in Nat, m <= n,
           s.closed, WellFormed(s, m)
    PROVE  /\ WellFormed(s, n)
           /\ \A next \in Nat : Follows(s, next, m) => Follows(s, next, n)
  <1>1. s.queue \in Seq(Nat) /\ Len(s.queue) \in Nat /\ \A i \in 1..Len(s.queue) : s.queue[i] \in Nat
    BY DEF Subscription
  <1>2. WellFormed(s, n)
    BY <1>1 DEF WellFormed
  <1>3. \A next \in Nat : Follows(s, next, m) => Follows(s, next, n)
    BY DEF Follows
  <1> QED BY <1>2, <1>3

\* An event that is offered is queued, or closes the queue.
LEMMA OfferedQueue ==
    ASSUME NEW s \in Subscription, NEW n \in Nat, WellFormed(s, n)
    PROVE  /\ Offered(s, n + 1) \in Subscription
           /\ WellFormed(Offered(s, n + 1), n + 1)
           /\ \A next \in Nat : Follows(s, next, n) => Follows(Offered(s, n + 1), next, n + 1)
  <1>1. CASE s.closed \/ Len(s.queue) >= Capacity
    <2> DEFINE t == Closed(s, TRUE)
    <2>1. Offered(s, n + 1) = t
      BY <1>1 DEF Offered
    <2>2. /\ t \in Subscription /\ t.closed /\ WellFormed(t, n)
          /\ \A next \in Nat : Follows(s, next, n) => Follows(t, next, n)
      BY ClosedQueue
    <2> HIDE DEF t
    <2>3. /\ WellFormed(t, n + 1)
          /\ \A next \in Nat : Follows(t, next, n) => Follows(t, next, n + 1)
      BY <2>2, ClosedLater
    <2> QED BY <2>1, <2>2, <2>3
  <1>2. CASE ~(s.closed \/ Len(s.queue) >= Capacity)
    <2> DEFINE t == Offered(s, n + 1)
    <2>1. /\ s.queue \in Seq(Nat)
          /\ ~s.closed /\ s.dropped \in BOOLEAN
          /\ t = [queue |-> Append(s.queue, n + 1), closed |-> FALSE, dropped |-> s.dropped]
      BY <1>2 DEF Offered, Subscription
    <2> HIDE DEF t
    <2>2. t \in Subscription /\ ~t.closed
      BY <2>1 DEF Subscription
    <2>3. /\ Len(t.queue) = Len(s.queue) + 1
          /\ Len(s.queue) \in Nat
          /\ t.queue[Len(s.queue) + 1] = n + 1
          /\ \A i \in 1..Len(s.queue) : t.queue[i] = s.queue[i] /\ s.queue[i] \in Nat
          /\ \A i \in 1..Len(t.queue) : i = Len(s.queue) + 1 \/ i \in 1..Len(s.queue)
      BY <2>1
    <2>4. WellFormed(t, n + 1)
      <3>1. Len(t.queue) <= Capacity
        BY <1>2, <2>3, StreamAssumption
      <3>2. \A i \in 1..Len(s.queue) : s.queue[i] <= n /\ s.queue[i] # 0
        BY <2>1, <2>3 DEF WellFormed, End
      <3>3. \A i \in 1..Len(t.queue) : t.queue[i] <= n + 1 /\ t.queue[i] # 0
        <4> TAKE i \in 1..Len(t.queue)
        <4>1. CASE i = Len(s.queue) + 1
          BY <2>3, <4>1
        <4>2. CASE i \in 1..Len(s.queue)
          <5>1. t.queue[i] = s.queue[i] /\ s.queue[i] \in Nat
            BY <2>3, <4>2
          <5>2. s.queue[i] <= n /\ s.queue[i] # 0
            BY <3>2, <4>2
          <5> QED BY <5>1, <5>2
        <4> QED BY <2>3, <4>1, <4>2
      <3> QED BY <2>2, <3>1, <3>3 DEF WellFormed, End
    <2>5. ASSUME NEW next \in Nat, Follows(s, next, n)
          PROVE  Follows(t, next, n + 1)
      <3>1. next + Len(s.queue) = n + 1
        BY <2>1, <2>5 DEF Follows
      <3>2. \A i \in 1..Len(s.queue) : t.queue[i] # 0 => t.queue[i] = next + i - 1
        BY <2>3, <2>5 DEF Follows, End
      <3>3. \A i \in 1..Len(t.queue) : t.queue[i] # 0 => t.queue[i] = next + i - 1
        BY <2>3, <3>1, <3>2
      <3>4. next + Len(t.queue) = n + 1 + 1
        BY <2>3, <3>1
      <3> QED BY <3>3, <3>4 DEF Follows, End
    <2> QED BY <2>2, <2>4, <2>5 DEF t
  <1> QED BY <1>1, <1>2

-----------------------------------------------------------------------------
(* A turn of the loop: the log, every subscription, and one wire.          *)

Turns == {<<"state">>, <<"event", "state">>}

LEMMA LongerLog ==
    ASSUME log \in Seq(Kinds), NEW kinds \in Turns, log' = log \o kinds
    PROVE  /\ log' \in Seq(Kinds)
           /\ Len(log) \in Nat /\ Len(kinds) \in 1..2
           /\ Len(log') = Len(log) + Len(kinds)
  BY DEF Turns, Kinds

\* After a turn each queue is still sound, and owes its client what it owed before.
LEMMA FannedOut ==
    ASSUME IInv, NEW kinds \in Turns, FanOut(kinds), NEW c \in Conns
    PROVE  /\ subscription'[c] \in Subscription
           /\ Serves(c) =>
                /\ WellFormed(subscription'[c], Len(log'))
                /\ subscription'[c].closed <=> c \notin subscribers'
                /\ \A next \in Nat : Follows(subscription[c], next, Len(log)) =>
                                     Follows(subscription'[c], next, Len(log'))
  <1> DEFINE n == Len(log)
             s == subscription[c]
             one == Offered(s, n + 1)
             two == Offered(one, n + 2)
  <1>1. /\ s \in Subscription /\ n \in Nat
        /\ c \in subscribers => Serves(c)
        /\ Serves(c) => WellFormed(s, n) /\ (s.closed <=> c \notin subscribers)
    BY DEF IInv, TypeOK, QueuesSound, MembersServed, QueueOf
  <1>2. /\ Len(log') = n + Len(kinds)
        /\ Len(kinds) \in 1..2
    BY LongerLog DEF IInv, TypeOK, FanOut
  <1>3. /\ subscription'[c] = IF c \notin subscribers THEN s
                              ELSE IF Len(kinds) = 1 THEN one ELSE two
        /\ c \in subscribers' <=> c \in subscribers /\ ~subscription'[c].closed
    BY DEF FanOut, IInv, TypeOK
  <1>4. CASE c \notin subscribers
    <2>1. subscription'[c] = s /\ c \notin subscribers'
      BY <1>3, <1>4
    <2>2. ASSUME Serves(c)
          PROVE  /\ s.closed /\ WellFormed(s, Len(log'))
                 /\ \A next \in Nat : Follows(s, next, n) => Follows(s, next, Len(log'))
      <3>1. s.closed /\ WellFormed(s, n)
        BY <1>1, <1>4, <2>2
      <3>2. Len(log') \in Nat /\ n <= Len(log')
        BY <1>1, <1>2
      <3> QED BY <1>1, <3>1, <3>2, ClosedLater
    <2> QED BY <1>1, <2>1, <2>2
  <1>5. CASE c \in subscribers
    <2>1. /\ one \in Subscription /\ WellFormed(one, n + 1)
          /\ \A next \in Nat : Follows(s, next, n) => Follows(one, next, n + 1)
      BY <1>1, <1>5, OfferedQueue
    <2>2. /\ two \in Subscription /\ WellFormed(two, n + 2)
          /\ \A next \in Nat : Follows(one, next, n + 1) => Follows(two, next, n + 2)
      <3> HIDE DEF one
      <3>1. n + 1 \in Nat /\ (n + 1) + 1 = n + 2
        BY <1>1
      <3> QED BY <2>1, <3>1, OfferedQueue
    <2> HIDE DEF one, two
    <2>3. CASE Len(kinds) = 1
      <3>1. subscription'[c] = one /\ Len(log') = n + 1
        BY <1>2, <1>3, <1>5, <2>3
      <3> QED BY <1>3, <1>5, <2>1, <3>1
    <2>4. CASE Len(kinds) = 2
      <3>1. subscription'[c] = two /\ Len(log') = n + 2
        BY <1>2, <1>3, <1>5, <2>4
      <3> QED BY <1>3, <1>5, <2>1, <2>2, <3>1
    <2> QED BY <1>2, <2>3, <2>4
  <1> QED BY <1>4, <1>5

\* A frame that is not the close carries an event.
LEMMA FrameKinds ==
    \A f \in Frame : f.kind = "close" \/ (f.kind \in Kinds /\ f.rank \in Nat)
  BY DEF Frame

\* A wire, as its type has it.
LEMMA WireTyped ==
    ASSUME TypeOK, NEW c \in Conns
    PROVE  /\ wire[c] \in Seq(Frame) /\ Len(wire[c]) \in Nat
           /\ \A i \in 1..Len(wire[c]) :
                /\ wire[c][i] \in Frame
                /\ wire[c][i].kind = "close" \/ wire[c][i].rank \in Nat
           /\ given[c].from \in Nat /\ given[c].upto \in Nat /\ given[c].began \in BOOLEAN
           /\ Len(log) \in Nat
  <1>1. wire[c] \in Seq(Frame)
    BY DEF TypeOK
  <1>2. \A i \in 1..Len(wire[c]) : wire[c][i] \in Frame
    BY <1>1
  <1> QED BY <1>1, <1>2, FrameKinds DEF TypeOK, Feed!Feeds

LEMMA GivenInOrder ==
    ASSUME NEW c \in Conns, WireOf(c)
    PROVE  given[c].from <= given[c].upto /\ given[c].upto <= Len(log)
  BY DEF WireOf

\* The event to be sent next has a rank.
LEMMA NextSentNat ==
    ASSUME TypeOK, NEW c \in Conns, WireOf(c)
    PROVE  NextSent(c) \in Nat /\ Before(c) \in Int
  <1>1. given[c].upto \in Nat /\ Len(wire[c]) \in Nat
    BY WireTyped
  <1>2. Before(c) \in Int /\ Before(c) + 1 \in Nat
    BY <1>1 DEF Before
  <1>3. CASE handler[c] = "streaming"
    BY <1>1, <1>2, <1>3 DEF NextSent
  <1>4. CASE handler[c] # "streaming"
    BY <1>1, <1>4, <1>2 DEF NextSent
  <1> QED BY <1>2, <1>3, <1>4

\* Events that are published leave a wire as it was.
LEMMA WireOfLater ==
    ASSUME TypeOK, NEW c \in Conns, WireOf(c), Len(log') \in Nat, Len(log) <= Len(log'),
           wire'[c] = wire[c], given'[c] = given[c], handler'[c] = handler[c]
    PROVE  WireOf(c)' /\ NextSent(c)' = NextSent(c)
  <1>1. NextSent(c)' = NextSent(c) /\ Before(c)' = Before(c)
    BY DEF NextSent, Before
  <1>2. \A i \in 1..Len(wire[c]) :
           wire[c][i].kind = "close" \/ wire[c][i].rank \in given[c].from..Len(log')
    BY WireTyped DEF WireOf
  <1>3. WireOf(c)'
    BY <1>1, <1>2, WireTyped DEF WireOf
  <1> QED BY <1>1, <1>3

\* The close is written after everything else, when the handler ends.
LEMMA WireEnds ==
    ASSUME TypeOK, NEW c \in Conns, WireOf(c), Active(c), handler'[c] = "ended",
           wire'[c] = Append(wire[c], Close), UNCHANGED <<log, given>>
    PROVE  WireOf(c)'
  <1> DEFINE w == wire[c]
  <1>1. /\ Len(wire'[c]) = Len(w) + 1 /\ Len(w) \in Nat
        /\ wire'[c][Len(w) + 1].kind = "close"
        /\ \A i \in 1..Len(w) : wire'[c][i] = w[i] /\ w[i].kind # "close"
    BY WireTyped DEF Close, WireOf, Active
  <1>2. Before(c)' = Before(c)
    BY DEF Before
  <1>3. \A i \in 1..Len(wire'[c]) : i = Len(w) + 1 \/ i \in 1..Len(w)
    BY <1>1
  <1> QED BY <1>1, <1>2, <1>3 DEF WireOf, Active

-----------------------------------------------------------------------------
(* Types.                                                                  *)

LEMMA FreshTyped == Fresh \in Subscription
  BY DEF Fresh, Subscription

LEMMA LeavesTyped ==
    ASSUME TypeOK, NEW c \in Conns, Leaves(c)
    PROVE  /\ subscription' \in [Conns -> Subscription]
           /\ subscribers' \in SUBSET Conns
  BY FreshTyped DEF TypeOK, Leaves

LEMMA WritesTyped ==
    ASSUME TypeOK, NEW c \in Conns, NEW f \in Frame, Writes(c, f)
    PROVE  wire' \in [Conns -> Seq(Frame)]
  BY DEF TypeOK, Writes

LEMMA CloseTyped == Close \in Frame
  BY DEF Close, Frame

LEMMA OpenedTyped == \A n \in Nat : Feed!Opened(n) \in Feed!Feeds
  BY DEF Feed!Opened, Feed!Feeds

\* The head of a queue that is not the sentinel was published.
LEMMA HeadPublished ==
    ASSUME IInv, NEW c \in Conns, Serves(c), subscription[c].queue # <<>>,
           Head(subscription[c].queue) # End
    PROVE  /\ Head(subscription[c].queue) \in 1..Len(log)
           /\ log[Head(subscription[c].queue)] \in Kinds
           /\ Tail(subscription[c].queue) \in Seq(Nat)
  <1> DEFINE q == subscription[c].queue
  <1>1. q \in Seq(Nat) /\ Len(q) \in Nat /\ Len(q) # 0 /\ log \in Seq(Kinds) /\ Len(log) \in Nat
    BY DEF IInv, TypeOK, Subscription
  <1>2. Head(q) = q[1] /\ q[1] \in Nat /\ 1 \in 1..Len(q)
    BY <1>1
  <1>3. q[1] <= Len(log)
    BY <1>2 DEF IInv, QueuesSound, QueueOf, WellFormed
  <1>4. Head(q) \in 1..Len(log)
    BY <1>1, <1>2, <1>3 DEF End
  <1> HIDE DEF q
  <1>5. log[Head(q)] \in Kinds
    BY <1>1, <1>4
  <1> QED BY <1>1, <1>4, <1>5 DEF q

LEMMA TypeOfPublishes == IInv /\ Publishes => TypeOK'
  <1> SUFFICES ASSUME IInv, Publishes PROVE TypeOK'
    OBVIOUS
  <1>1. PICK kinds \in Turns : FanOut(kinds)
    BY DEF Publishes, Turns
  <1>2. log' \in Seq(Kinds)
    BY <1>1, LongerLog DEF FanOut, IInv, TypeOK
  <1>3. \A c \in Conns : subscription'[c] \in Subscription
    BY <1>1, FannedOut
  <1>4. subscription' \in [Conns -> Subscription] /\ subscribers' \in SUBSET Conns
    BY <1>1, <1>3 DEF FanOut, IInv, TypeOK
  <1> QED BY <1>2, <1>4 DEF Publishes, IInv, TypeOK

LEMMA TypeOfSubscribes == ASSUME IInv, NEW c \in Conns, Subscribes(c) PROVE TypeOK'
  <1>1. Len(log) \in Nat
    BY DEF IInv, TypeOK
  <1>2. CASE gateway = "closed"
    BY <1>2, WritesTyped, CloseTyped DEF Subscribes, IInv, TypeOK, client
  <1>3. CASE gateway # "closed"
    BY <1>1, <1>3, FreshTyped, OpenedTyped DEF Subscribes, IInv, TypeOK, client
  <1> QED BY <1>2, <1>3

LEMMA TypeOfSnapshots == ASSUME IInv, NEW c \in Conns, Snapshots(c) PROVE TypeOK'
  <1>1. [kind |-> "state", rank |-> Len(log)] \in Frame
    BY DEF IInv, TypeOK, Frame, Kinds
  <1> QED BY <1>1, WritesTyped DEF Snapshots, IInv, TypeOK, client, bus

LEMMA TypeOfStreams == ASSUME IInv, NEW c \in Conns, Streams(c) PROVE TypeOK'
  <1> DEFINE s == subscription[c]
  <1>1. CASE Head(s.queue) = End \/ s.dropped
    BY <1>1, WritesTyped, CloseTyped, LeavesTyped DEF Streams, IInv, TypeOK, client
  <1>2. CASE ~(Head(s.queue) = End \/ s.dropped)
    <2>1. /\ Head(s.queue) \in 1..Len(log) /\ log[Head(s.queue)] \in Kinds
          /\ Tail(s.queue) \in Seq(Nat)
      BY <1>2, HeadPublished DEF Streams, Serves
    <2>2. [kind |-> log[Head(s.queue)], rank |-> Head(s.queue)] \in Frame
      BY <2>1 DEF Frame, IInv, TypeOK
    <2>3. wire' \in [Conns -> Seq(Frame)]
      BY <1>2, <2>2, WritesTyped DEF Streams, IInv
    <2>4. subscription' \in [Conns -> Subscription]
      BY <1>2, <2>1 DEF Streams, IInv, TypeOK, Subscription
    <2> QED BY <1>2, <2>3, <2>4 DEF Streams, IInv, TypeOK, client
  <1> QED BY <1>1, <1>2

LEMMA TypeOfNotices == ASSUME IInv, NEW c \in Conns, Notices(c) PROVE TypeOK'
  BY LeavesTyped DEF Notices, IInv, TypeOK, client

LEMMA TypeOfCancels == ASSUME IInv, NEW c \in Conns, Cancels(c) PROVE TypeOK'
  BY LeavesTyped, WritesTyped, CloseTyped DEF Cancels, IInv, TypeOK, client

LEMMA TypeOfClosesBus == IInv /\ ClosesBus => TypeOK'
  <1> SUFFICES ASSUME IInv, ClosesBus PROVE TypeOK'
    OBVIOUS
  <1>1. subscribers = {}
    BY DEF ClosesBus, IInv, MembersServed, Serves, Active, TypeOK
  <1>2. subscription' = [c \in Conns |-> subscription[c]]
    BY <1>1 DEF ClosesBus
  <1>3. log' \in Seq(Kinds)
    BY DEF ClosesBus, IInv, TypeOK, Kinds
  <1> QED BY <1>2, <1>3 DEF ClosesBus, IInv, TypeOK, client

LEMMA TypeOfConnects == ASSUME IInv, NEW c \in Conns, Connects(c) PROVE TypeOK'
  <1>1. Len(log) \in Nat /\ <<>> \in Seq(Frame)
    BY DEF IInv, TypeOK
  <1> QED BY <1>1, OpenedTyped DEF Connects, IInv, TypeOK, bus

LEMMA TypeOfReads == IInv /\ Reads => TypeOK'
  <1> SUFFICES ASSUME IInv, Reads PROVE TypeOK'
    OBVIOUS
  <1> DEFINE w == wire[link]
             f == Head(w)
  <1>1. link \in Conns /\ w \in Seq(Frame) /\ w # <<>>
    BY DEF Reads, IInv, TypeOK
  <1>2. f \in Frame /\ Tail(w) \in Seq(Frame)
    BY <1>1
  <1>3. wire' \in [Conns -> Seq(Frame)]
    BY <1>1, <1>2 DEF Reads, IInv, TypeOK
  <1>4. CASE f.kind = "close"
    BY <1>3, <1>4 DEF Reads, Disconnected, IInv, TypeOK, bus
  <1>5. CASE f.kind # "close"
    <2>1. f.rank \in Nat
      BY <1>2, <1>5, FrameKinds
    <2>2. given' \in [Conns -> Feed!Feeds]
      <3>1. given \in [Conns -> Feed!Feeds]
        BY DEF IInv, TypeOK
      <3>2. CASE given[link].began
        <4>1. given' = [given EXCEPT ![link].upto = f.rank]
          BY <1>5, <3>2 DEF Reads
        <4> QED BY <1>1, <2>1, <3>1, <4>1 DEF Feed!Feeds
      <3>3. CASE ~given[link].began
        <4>1. given' = [given EXCEPT ![link].began = TRUE, ![link].first = f.rank]
          BY <1>5, <3>3 DEF Reads
        <4> QED BY <1>1, <2>1, <3>1, <4>1 DEF Feed!Feeds
      <3> QED BY <3>2, <3>3
    <2>3. shown' \in Nat /\ available' \in BOOLEAN /\ link' = link
      BY <1>5, <2>1 DEF Reads, IInv, TypeOK
    <2> QED BY <1>3, <2>2, <2>3 DEF Reads, IInv, TypeOK, bus
  <1> QED BY <1>4, <1>5

LEMMA TypeOfLoses == IInv /\ Loses => TypeOK'
  <1> SUFFICES ASSUME IInv, Loses PROVE TypeOK'
    OBVIOUS
  <1>1. losses' \in 0..MaxLosses
    BY StreamAssumption DEF Loses, IInv, TypeOK
  <1>2. wire' \in [Conns -> Seq(Frame)]
    <2>1. <<>> \in Seq(Frame)
      OBVIOUS
    <2> QED BY <2>1 DEF Loses, IInv, TypeOK
  <1> QED BY <1>1, <1>2 DEF Loses, Disconnected, IInv, TypeOK, bus

-----------------------------------------------------------------------------
(* Steps of one handler leave the others, and what they serve, as they     *)
(* were.                                                                   *)

Untouched(c) ==
    /\ subscription'[c] = subscription[c] /\ (c \in subscribers' <=> c \in subscribers)
    /\ handler'[c] = handler[c] /\ wire'[c] = wire[c] /\ given'[c] = given[c]

LEMMA UntouchedSound ==
    ASSUME NEW c \in Conns, Untouched(c), log' = log, Serves(c) => QueueOf(c)
    PROVE  Serves(c)' => QueueOf(c)'
  BY DEF Untouched, Serves, QueueOf

LEMMA UntouchedInOrder ==
    ASSUME NEW c \in Conns, Untouched(c), log' = log, WireOf(c), Serves(c) => JoinOf(c)
    PROVE  WireOf(c)' /\ (Serves(c)' => JoinOf(c)')
  <1>1. Before(c)' = Before(c)
    BY DEF Untouched, Before
  <1>2. NextSent(c)' = NextSent(c)
    BY <1>1 DEF Untouched, NextSent
  <1>3. WireOf(c)'
    BY <1>1 DEF Untouched, WireOf
  <1>4. Serves(c)' => JoinOf(c)'
    BY <1>2 DEF Untouched, Serves, JoinOf
  <1> QED BY <1>3, <1>4

\* A step of c's handler keeps the invariant, if it does for c.
LEMMA OneHandler ==
    ASSUME IInv, NEW c \in Conns, TypeOK', log' = log,
           link' = link, shown' = shown, \A d \in Conns \ {c} : Untouched(d),
           Serves(c)' => QueueOf(c)', c \in subscribers' => Serves(c)',
           link = c => WireOf(c)' /\ (Serves(c)' => JoinOf(c)'),
           given'[c].from = given[c].from \/ ~given'[c].began,
           given'[c].began => given[c].began
    PROVE  IInv'
  <1>1. QueuesSound'
    <2> SUFFICES ASSUME NEW d \in Conns, Serves(d)'
                 PROVE  QueueOf(d)'
      BY DEF QueuesSound
    <2>1. CASE d = c
      BY <2>1
    <2>2. CASE d # c
      BY <2>2, UntouchedSound DEF IInv, QueuesSound
    <2> QED BY <2>1, <2>2
  <1>2. MembersServed'
    <2> SUFFICES ASSUME NEW d \in subscribers'
                 PROVE  Serves(d)'
      BY DEF MembersServed
    <2>1. d \in Conns
      BY DEF TypeOK
    <2>2. CASE d = c
      BY <2>2
    <2>3. CASE d # c
      BY <2>1, <2>3 DEF IInv, MembersServed, Untouched, Serves
    <2> QED BY <2>2, <2>3
  <1>3. LinkInOrder'
    <2> SUFFICES ASSUME NEW d \in Conns, link = d
                 PROVE  WireOf(d)' /\ (Serves(d)' => JoinOf(d)')
      BY DEF LinkInOrder
    <2>1. CASE d = c
      BY <2>1
    <2>2. CASE d # c
      BY <2>2, UntouchedInOrder DEF IInv, LinkInOrder
    <2> QED BY <2>1, <2>2
  <1>4. NeverOlderThanLink'
    BY DEF IInv, TypeOK, NeverOlderThanLink, Untouched
  <1> QED BY <1>1, <1>2, <1>3, <1>4 DEF IInv

\* A handler that ends, with or without a close, leaves nothing to keep but its wire.
LEMMA HandlerEnds ==
    ASSUME IInv, NEW c \in Conns, TypeOK', log' = log, link' = link, shown' = shown,
           given' = given, handler' = [handler EXCEPT ![c] = "ended"],
           \/ wire' = wire /\ link # c
           \/ Writes(c, Close) /\ Active(c),
           \/ Leaves(c)
           \/ UNCHANGED <<subscription, subscribers>> /\ ~Serves(c)
    PROVE  IInv'
  <1>1. handler'[c] = "ended" /\ ~Serves(c)'
    BY DEF IInv, TypeOK, Serves
  <1>2. c \notin subscribers'
    BY DEF Leaves, IInv, MembersServed
  <1>3. \A d \in Conns \ {c} : Untouched(d)
    BY DEF IInv, TypeOK, Untouched, Leaves, Writes
  <1>4. link = c => WireOf(c)'
    <2> SUFFICES ASSUME link = c
                 PROVE  WireOf(c)'
      OBVIOUS
    <2>1. Active(c) /\ wire'[c] = Append(wire[c], Close)
      BY DEF Writes, IInv, TypeOK
    <2> QED BY <1>1, <2>1, WireEnds DEF IInv, LinkInOrder
  <1> QED BY <1>1, <1>2, <1>3, <1>4, OneHandler

-----------------------------------------------------------------------------
(* One lemma for each action.                                              *)

LEMMA PublishesKeeps == IInv /\ Publishes => IInv'
  <1> SUFFICES ASSUME IInv, Publishes PROVE IInv'
    OBVIOUS
  <1>1. TypeOK'
    BY TypeOfPublishes
  <1>2. PICK kinds \in Turns : FanOut(kinds)
    BY DEF Publishes, Turns
  <1>3. Len(log') \in Nat /\ Len(log) <= Len(log')
    BY <1>2, LongerLog DEF FanOut, IInv, TypeOK
  <1>4. \A c \in Conns : Serves(c)' <=> Serves(c)
    BY DEF Publishes, Serves
  <1>5. QueuesSound'
    BY <1>2, <1>4, FannedOut DEF QueuesSound, QueueOf
  <1>6. MembersServed'
    BY <1>2, <1>4 DEF FanOut, IInv, TypeOK, MembersServed
  <1>7. LinkInOrder'
    <2> SUFFICES ASSUME NEW c \in Conns, link = c
                 PROVE  WireOf(c)' /\ (Serves(c)' => JoinOf(c)')
      BY DEF LinkInOrder, Publishes
    <2>1. WireOf(c) /\ (Serves(c) => JoinOf(c))
      BY DEF IInv, LinkInOrder
    <2>2. WireOf(c)' /\ NextSent(c)' = NextSent(c)
      BY <1>3, <2>1, WireOfLater DEF Publishes, IInv
    <2>3. ASSUME Serves(c)' PROVE JoinOf(c)'
      <3>1. Follows(subscription[c], NextSent(c), Len(log)) /\ NextSent(c) \in Nat
        BY <1>4, <2>1, <2>3, NextSentNat DEF JoinOf, IInv
      <3>2. Follows(subscription'[c], NextSent(c), Len(log'))
        BY <1>2, <1>4, <2>3, <3>1, FannedOut
      <3> QED BY <2>2, <3>2 DEF JoinOf
    <2> QED BY <2>2, <2>3
  <1>8. NeverOlderThanLink'
    BY DEF Publishes, IInv, NeverOlderThanLink
  <1> QED BY <1>1, <1>5, <1>6, <1>7, <1>8 DEF IInv

LEMMA SubscribesKeeps == ASSUME IInv, NEW c \in Conns, Subscribes(c) PROVE IInv'
  <1>1. TypeOK'
    BY TypeOfSubscribes
  <1>2. CASE gateway = "closed"
    <2>1. ~Serves(c) /\ Active(c)
      BY DEF Subscribes, Serves, Active
    <2> QED BY <1>1, <1>2, <2>1, HandlerEnds DEF Subscribes, client
  <1>3. CASE gateway # "closed"
    <2>1. /\ handler' = [handler EXCEPT ![c] = "subscribed"]
          /\ subscribers' = subscribers \cup {c}
          /\ subscription' = [subscription EXCEPT ![c] = Fresh]
          /\ given' = [given EXCEPT ![c] = Feed!Opened(Len(log))]
          /\ UNCHANGED <<wire, log, client>>
      BY <1>3 DEF Subscribes
    <2>2. /\ handler'[c] = "subscribed" /\ c \in subscribers'
          /\ subscription'[c] = Fresh
          /\ given'[c] = Feed!Opened(Len(log))
          /\ \A d \in Conns \ {c} : Untouched(d)
      BY <2>1 DEF IInv, TypeOK, Untouched
    <2>3. Len(log) \in Nat /\ Len(Fresh.queue) = 0 /\ ~Fresh.closed
      BY DEF IInv, TypeOK, Fresh
    <2>4. QueueOf(c)'
      BY <2>1, <2>2, <2>3, StreamAssumption DEF QueueOf, WellFormed
    <2>5. NextSent(c)' = Len(log) + 1
      BY <2>1, <2>2 DEF NextSent, Feed!Opened
    <2>6. JoinOf(c)'
      <3>1. Follows(Fresh, Len(log) + 1, Len(log))
        BY <2>3 DEF Follows
      <3> QED BY <2>1, <2>2, <2>5, <3>1 DEF JoinOf
    <2>7. ASSUME link = c PROVE WireOf(c)'
      <3>1. wire'[c] = <<>>
        BY <2>1, <2>7 DEF Subscribes, IInv, LinkInOrder, WireOf
      <3> QED BY <2>1, <2>2, <2>3, <3>1 DEF WireOf, Feed!Opened
    <2> QED BY <1>1, <2>1, <2>2, <2>4, <2>6, <2>7, OneHandler
            DEF Serves, Feed!Opened, client
  <1> QED BY <1>2, <1>3

LEMMA SnapshotsKeeps == ASSUME IInv, NEW c \in Conns, Snapshots(c) PROVE IInv'
  <1> DEFINE f == [kind |-> "state", rank |-> Len(log)]
  <1>1. TypeOK'
    BY TypeOfSnapshots
  <1>2. /\ handler[c] = "subscribed" /\ handler'[c] = "streaming"
        /\ wire'[c] = Append(wire[c], f)
        /\ \A d \in Conns \ {c} : Untouched(d)
        /\ UNCHANGED <<bus, client, given>>
    BY DEF Snapshots, Writes, IInv, TypeOK, Untouched, bus
  <1>3. Serves(c) /\ Serves(c)'
    BY <1>2 DEF Serves
  <1>4. QueueOf(c)'
    BY <1>2, <1>3 DEF IInv, QueuesSound, QueueOf, bus
  <1>5. ASSUME link = c PROVE WireOf(c)' /\ JoinOf(c)'
    <2>1. /\ wire[c] = <<>> /\ ~given[c].began /\ WireOf(c) /\ JoinOf(c)
          /\ given[c].upto = given[c].from /\ given[c].upto <= Len(log)
      BY <1>2, <1>3, <1>5 DEF IInv, LinkInOrder, WireOf
    <2>2. /\ wire'[c] = <<f>> /\ Len(wire'[c]) = 1 /\ wire'[c][1] = f
          /\ Len(log) \in Nat /\ given[c].upto \in Nat
      BY <1>2, <2>1, WireTyped DEF IInv
    <2>3. NextSent(c) = given[c].upto + 1
      BY <1>2 DEF NextSent
    <2>4. NextSent(c)' = given[c].upto + 1
      BY <1>2, <2>1, <2>2 DEF NextSent, Before
    <2>5. JoinOf(c)'
      BY <1>2, <2>1, <2>3, <2>4 DEF JoinOf, bus
    <2>6. \A i \in 1..Len(wire'[c]) : i = 1
      BY <2>2
    <2>7. WireOf(c)'
      BY <1>2, <2>1, <2>2, <2>6 DEF WireOf, bus
    <2> QED BY <2>5, <2>7
  <1> QED BY <1>1, <1>2, <1>3, <1>4, <1>5, OneHandler DEF bus, client

\* The next event of the queue of the link is the one to be sent.
LEMMA StreamsInOrder ==
    ASSUME IInv, NEW c \in Conns, link = c, TypeOK', handler[c] = "streaming",
           subscription[c].queue # <<>>, Head(subscription[c].queue) # End,
           subscription' = [subscription EXCEPT ![c].queue = Tail(@)],
           Writes(c, [kind |-> log[Head(subscription[c].queue)],
                      rank |-> Head(subscription[c].queue)]),
           UNCHANGED <<log, given, handler>>
    PROVE  WireOf(c)' /\ JoinOf(c)'
  <1> DEFINE s == subscription[c]
             q == s.queue
             w == wire[c]
             f == [kind |-> log[Head(q)], rank |-> Head(q)]
  <1>1. Serves(c) /\ WireOf(c) /\ JoinOf(c)
    BY DEF Serves, IInv, LinkInOrder
  <1>2. /\ q \in Seq(Nat) /\ Len(q) \in Nat /\ Len(q) >= 1
        /\ Head(q) = q[1]
        /\ Len(Tail(q)) = Len(q) - 1
        /\ \A i \in 1..Len(Tail(q)) : Tail(q)[i] = q[i + 1] /\ i + 1 \in 1..Len(q)
    <2>1. q \in Seq(Nat) /\ q # <<>>
      BY DEF IInv, TypeOK, Subscription
    <2> HIDE DEF q
    <2> QED BY <2>1
  <1>3. subscription'[c].queue = Tail(q) /\ subscription'[c].closed = s.closed
    BY DEF IInv, TypeOK, Subscription
  <1>4. wire' = [wire EXCEPT ![c] = Append(w, f)]
    BY DEF Writes
  <1>5. /\ wire'[c] = Append(w, f) /\ w \in Seq(Frame) /\ Len(w) \in Nat
        /\ Len(wire'[c]) = Len(w) + 1 /\ wire'[c][Len(w) + 1] = f
        /\ \A i \in 1..Len(w) : wire'[c][i] = w[i]
        /\ \A i \in 1..Len(wire'[c]) : i = Len(w) + 1 \/ i \in 1..Len(w)
    BY <1>4, WireTyped DEF IInv, TypeOK
  <1>6. /\ NextSent(c) = Before(c) + Len(w) + 1 /\ Before(c)' = Before(c)
        /\ Before(c) \in Int
    BY <1>1, NextSentNat DEF NextSent, Before, IInv
  <1>7. /\ q[1] = NextSent(c) + 1 - 1
        /\ q[1] \in 1..Len(log) /\ log[q[1]] \in Kinds
    BY <1>1, <1>2, HeadPublished DEF JoinOf, Follows
  <1>8. NextSent(c) \in Nat /\ Len(log) \in Nat
    BY <1>1, NextSentNat, WireTyped DEF IInv
  <1>9. NextSent(c)' = NextSent(c) + 1
    <2>1. NextSent(c)' = Before(c) + Len(wire'[c]) + 1
      BY <1>6 DEF NextSent
    <2> QED BY <1>5, <1>6, <2>1
  <1>10. JoinOf(c)'
    <2>1. \A i \in 1..Len(q) : q[i] # End => q[i] = NextSent(c) + i - 1
      BY <1>1 DEF JoinOf, Follows
    <2>2. \A i \in 1..Len(Tail(q)) :
             Tail(q)[i] # End => Tail(q)[i] = NextSent(c) + 1 + i - 1
      <3> TAKE i \in 1..Len(Tail(q))
      <3>1. Tail(q)[i] = q[i + 1] /\ i + 1 \in 1..Len(q) /\ i \in Nat
        BY <1>2
      <3> HIDE DEF q
      <3>2. q[i + 1] # End => q[i + 1] = NextSent(c) + (i + 1) - 1
        BY <2>1, <3>1
      <3> QED BY <1>8, <3>1, <3>2
    <2>3. ~s.closed => NextSent(c) + Len(q) = Len(log) + 1
      BY <1>1 DEF JoinOf, Follows
    <2>4. ~s.closed => NextSent(c) + 1 + Len(Tail(q)) = Len(log) + 1
      BY <1>2, <1>8, <2>3
    <2> QED BY <1>3, <1>9, <2>2, <2>4 DEF JoinOf, Follows
  <1>11. WireOf(c)'
    <2>1. /\ f.rank = Before(c) + (Len(w) + 1) /\ f.rank \in given[c].from..Len(log)
          /\ f.kind # "close" /\ (given[c].began \/ Len(w) + 1 # 1)
      <3>1. f.rank = q[1] /\ f.kind \in Kinds
        BY <1>2, <1>7
      <3>2. given[c].began \/ Len(w) # 0
        BY <1>1, <1>5 DEF WireOf
      <3>3. Before(c) + (Len(w) + 1) >= given[c].from
        <4>1. /\ given[c].from <= given[c].upto
              /\ given[c].from \in Nat /\ given[c].upto \in Nat
          <5>1. given[c].from <= given[c].upto
            BY <1>1, GivenInOrder
          <5> QED BY <5>1, WireTyped DEF IInv
        <4>2. Before(c) = given[c].upto \/ (Before(c) = given[c].upto - 1 /\ Len(w) >= 1)
          BY <1>5, <3>2 DEF Before
        <4>3. Len(w) \in Nat
          BY <1>5
        <4> HIDE DEF w, q, s, f
        <4>4. CASE Before(c) = given[c].upto
          BY <4>1, <4>3, <4>4
        <4>5. CASE Before(c) = given[c].upto - 1 /\ Len(w) >= 1
          BY <4>1, <4>3, <4>5
        <4> QED BY <4>2, <4>4, <4>5
      <3>4. q[1] = Before(c) + (Len(w) + 1)
        BY <1>5, <1>6, <1>7
      <3> QED BY <1>5, <1>7, <3>1, <3>2, <3>3, <3>4, WireTyped DEF Kinds, IInv
    <2> HIDE DEF f, w
    <2>2. Len(wire'[c]) # 0
      BY <1>5
    <2>3. \A i \in 1..Len(wire'[c]) :
             /\ wire'[c][i].kind # "close"
             /\ wire'[c][i].rank \in given[c].from..Len(log)
             /\ IF given[c].began \/ i # 1 THEN wire'[c][i].rank = Before(c) + i
                ELSE wire'[c][i].kind = "state"
      <3> TAKE i \in 1..Len(wire'[c])
      <3>1. CASE i = Len(w) + 1
        BY <1>5, <2>1, <3>1
      <3>2. CASE i \in 1..Len(w)
        BY <1>1, <1>5, <3>2 DEF WireOf, w
      <3> QED BY <1>5, <3>1, <3>2
    <2>4. wire'[c] # <<>>
      BY <2>2
    <2> QED BY <1>1, <1>6, <2>3, <2>4 DEF WireOf
  <1> QED BY <1>10, <1>11

LEMMA StreamsKeeps == ASSUME IInv, NEW c \in Conns, Streams(c) PROVE IInv'
  <1> DEFINE s == subscription[c]
  <1>1. TypeOK'
    BY TypeOfStreams
  <1>2. CASE Head(s.queue) = End \/ s.dropped
    <2>1. Active(c)
      BY DEF Streams, Active
    <2> QED BY <1>1, <1>2, <2>1, HandlerEnds DEF Streams, client
  <1>3. CASE ~(Head(s.queue) = End \/ s.dropped)
    <2>1. /\ handler[c] = "streaming" /\ s.queue # <<>> /\ Head(s.queue) # End
          /\ subscription' = [subscription EXCEPT ![c].queue = Tail(@)]
          /\ Writes(c, [kind |-> log[Head(s.queue)], rank |-> Head(s.queue)])
          /\ UNCHANGED <<log, given, handler, subscribers, client>>
      BY <1>3 DEF Streams
    <2>2. \A d \in Conns \ {c} : Untouched(d)
      BY <2>1 DEF Untouched, Writes, IInv, TypeOK
    <2>3. link = c => WireOf(c)' /\ JoinOf(c)'
      BY <1>1, <2>1, StreamsInOrder
    <2>4. Serves(c) /\ Serves(c)'
      BY <2>1 DEF Serves
    <2>5. QueueOf(c)'
      <3> DEFINE q == s.queue
                 t == subscription'[c]
      <3>1. /\ t.queue = Tail(q) /\ t.closed = s.closed
            /\ q \in Seq(Nat) /\ q # <<>>
        BY <2>1 DEF IInv, TypeOK, Subscription
      <3>2. /\ Len(q) \in Nat /\ Len(q) # 0 /\ Head(q) = q[1] /\ 1 \in 1..Len(q)
            /\ Len(Tail(q)) = Len(q) - 1
            /\ \A i \in 1..Len(Tail(q)) : Tail(q)[i] = q[i + 1] /\ i + 1 \in 1..Len(q)
        <4> HIDE DEF q
        <4> QED BY <3>1
      <3>3. /\ Len(q) <= IF s.closed THEN Capacity + 1 ELSE Capacity
            /\ \A i \in 1..Len(q) : q[i] <= Len(log) /\ (q[i] = End <=> s.closed /\ i = Len(q))
            /\ s.closed <=> c \notin subscribers
        BY <2>4 DEF IInv, QueuesSound, QueueOf, WellFormed
      <3>4. s.closed => Len(q) # 1
        BY <2>1, <3>2, <3>3
      <3>5. Len(t.queue) <= IF t.closed THEN Capacity + 1 ELSE Capacity
        BY <3>1, <3>2, <3>3, StreamAssumption
      <3>6. t.closed => Len(t.queue) # 0
        BY <3>1, <3>2, <3>4
      <3>7. \A i \in 1..Len(t.queue) :
               t.queue[i] <= Len(log) /\ (t.queue[i] = End <=> t.closed /\ i = Len(t.queue))
        <4> HIDE DEF q, t
        <4> TAKE i \in 1..Len(t.queue)
        <4>1. t.queue[i] = q[i + 1] /\ i + 1 \in 1..Len(q)
          BY <3>1, <3>2
        <4>2. i + 1 = Len(q) <=> i = Len(t.queue)
          BY <3>1, <3>2
        <4> QED BY <3>1, <3>3, <4>1, <4>2
      <3> QED BY <2>1, <3>1, <3>3, <3>5, <3>6, <3>7 DEF QueueOf, WellFormed
    <2> QED BY <1>1, <2>1, <2>2, <2>3, <2>4, <2>5, OneHandler DEF client
  <1> QED BY <1>2, <1>3

LEMMA NoticesKeeps == ASSUME IInv, NEW c \in Conns, Notices(c) PROVE IInv'
  <1>1. TypeOK'
    BY TypeOfNotices
  <1> QED BY <1>1, HandlerEnds DEF Notices, client, Leaves

LEMMA CancelsKeeps == ASSUME IInv, NEW c \in Conns, Cancels(c) PROVE IInv'
  <1>1. TypeOK'
    BY TypeOfCancels
  <1> QED BY <1>1, HandlerEnds DEF Cancels, client, Leaves

LEMMA StopsKeeps == IInv /\ Stops => IInv'
  <1> SUFFICES ASSUME IInv, Stops PROVE IInv'
    OBVIOUS
  <1>1. TypeOK'
    BY DEF Stops, IInv, TypeOK, bus, client
  <1>2. \A c \in Conns : Untouched(c)
    BY DEF Stops, Untouched, bus
  <1>3. QueuesSound'
    BY <1>2, UntouchedSound DEF Stops, bus, IInv, QueuesSound
  <1>4. MembersServed'
    BY DEF Stops, bus, IInv, MembersServed, Serves
  <1>5. LinkInOrder'
    BY <1>2, UntouchedInOrder DEF Stops, bus, client, IInv, LinkInOrder
  <1>6. NeverOlderThanLink'
    BY DEF Stops, client, IInv, NeverOlderThanLink
  <1> QED BY <1>1, <1>3, <1>4, <1>5, <1>6 DEF IInv

LEMMA ClosesBusKeeps == IInv /\ ClosesBus => IInv'
  <1> SUFFICES ASSUME IInv, ClosesBus PROVE IInv'
    OBVIOUS
  <1>1. TypeOK'
    BY TypeOfClosesBus
  <1>2. \A c \in Conns : ~Serves(c)'
    BY DEF ClosesBus, Serves, Active
  <1>3. MembersServed'
    BY DEF ClosesBus, MembersServed
  <1>4. Len(log) \in Nat /\ Len(log') \in Nat /\ Len(log) <= Len(log')
    BY DEF ClosesBus, IInv, TypeOK, Kinds
  <1>5. LinkInOrder'
    <2> SUFFICES ASSUME NEW c \in Conns, link = c
                 PROVE  WireOf(c)'
      BY <1>2 DEF LinkInOrder, ClosesBus, client
    <2> QED BY <1>4, WireOfLater DEF ClosesBus, IInv, LinkInOrder
  <1>6. NeverOlderThanLink'
    BY DEF ClosesBus, client, IInv, NeverOlderThanLink
  <1> QED BY <1>1, <1>2, <1>3, <1>5, <1>6 DEF IInv, QueuesSound

LEMMA ConnectsKeeps == ASSUME IInv, NEW c \in Conns, Connects(c) PROVE IInv'
  <1>1. TypeOK'
    BY TypeOfConnects
  <1>2. /\ link' = c /\ handler'[c] = "prepared" /\ wire'[c] = <<>>
        /\ given'[c] = Feed!Opened(Len(log)) /\ Len(log) \in Nat
        /\ \A d \in Conns \ {c} : Untouched(d)
        /\ UNCHANGED <<log, subscribers, subscription>>
    BY DEF Connects, bus, IInv, TypeOK, Untouched
  <1>3. ~Serves(c) /\ ~Serves(c)'
    BY <1>2 DEF Connects, Serves, Active
  <1>4. QueuesSound'
    BY <1>2, <1>3, UntouchedSound DEF IInv, QueuesSound
  <1>5. MembersServed'
    BY <1>2, <1>3 DEF IInv, TypeOK, MembersServed, Serves, Untouched
  <1>6. WireOf(c)'
    BY <1>2 DEF WireOf, Feed!Opened
  <1>7. LinkInOrder'
    BY <1>2, <1>3, <1>6 DEF LinkInOrder
  <1>8. NeverOlderThanLink'
    BY <1>2 DEF NeverOlderThanLink, Feed!Opened
  <1> QED BY <1>1, <1>4, <1>5, <1>7, <1>8 DEF IInv

\* A frame that is not the close is given to the client.
LEMMA GivenRead ==
    ASSUME IInv, Reads, NEW c \in Conns, link = c, Head(wire[c]).kind # "close"
    PROVE  /\ given' = IF given[c].began
                       THEN [given EXCEPT ![c].upto = Head(wire[c]).rank]
                       ELSE [given EXCEPT ![c].began = TRUE, ![c].first = Head(wire[c]).rank]
           /\ given'[c].from = given[c].from /\ given'[c].began = TRUE
           /\ given'[c].upto = IF given[c].began THEN Head(wire[c]).rank ELSE given[c].upto
  <1> DEFINE f == Head(wire[c])
  <1>1. given \in [Conns -> Feed!Feeds]
    BY DEF IInv, TypeOK
  <1>2. given' = IF given[c].began THEN [given EXCEPT ![c].upto = f.rank]
                 ELSE [given EXCEPT ![c].began = TRUE, ![c].first = f.rank]
    BY DEF Reads
  <1> HIDE DEF f
  <1>3. CASE given[c].began
    <2>1. given' = [given EXCEPT ![c].upto = f.rank]
      BY <1>2, <1>3
    <2> QED BY <1>1, <1>2, <1>3, <2>1 DEF Feed!Feeds, f
  <1>4. CASE ~given[c].began
    <2>1. given' = [given EXCEPT ![c].began = TRUE, ![c].first = f.rank]
      BY <1>2, <1>4
    <2> QED BY <1>1, <1>2, <1>4, <2>1 DEF Feed!Feeds, f
  <1> QED BY <1>3, <1>4

\* The client reads a frame that is not the close.
LEMMA ReadsInOrder ==
    ASSUME IInv, Reads, TypeOK', NEW c \in Conns, link = c, Head(wire[c]).kind # "close"
    PROVE  /\ WireOf(c)' /\ (Serves(c)' => JoinOf(c)')
           /\ shown' >= given'[c].from
  <1> DEFINE w == wire[c]
             f == w[1]
             g == given[c]
  <1>1. WireOf(c) /\ (Serves(c) => JoinOf(c)) /\ (g.began => shown >= g.from)
    BY StreamAssumption DEF IInv, LinkInOrder, NeverOlderThanLink
  <1>2. /\ w \in Seq(Frame) /\ w # <<>>
        /\ wire'[c] = Tail(w) /\ Head(w) = f
        /\ UNCHANGED <<log, subscription, handler>>
    BY DEF Reads, IInv, TypeOK, bus
  <1>3. /\ Len(w) \in Nat /\ 1 \in 1..Len(w) /\ Len(Tail(w)) = Len(w) - 1
        /\ \A i \in 1..Len(Tail(w)) : Tail(w)[i] = w[i + 1] /\ i + 1 \in 1..Len(w) /\ i + 1 # 1
    <2> HIDE DEF w
    <2> QED BY <1>2
  <1>4. /\ f.kind # "close" /\ f.rank \in g.from..Len(log) /\ f.rank \in Nat
        /\ g.began => f.rank = Before(c) + 1
        /\ ~g.began => f.kind = "state"
    BY <1>1, <1>2, <1>3, WireTyped DEF WireOf, IInv
  <1>5. /\ given'[c].from = g.from /\ given'[c].began = TRUE
        /\ given'[c].upto = IF g.began THEN f.rank ELSE g.upto
    <2>1. given \in [Conns -> Feed!Feeds] /\ g \in Feed!Feeds
      BY DEF IInv, TypeOK
    <2>2. CASE g.began
      BY <1>2, <2>1, <2>2, GivenRead
    <2>3. CASE ~g.began
      BY <1>2, <2>1, <2>3, GivenRead
    <2> QED BY <2>2, <2>3
  <1>6. g.from \in Nat /\ g.upto \in Nat /\ Before(c) \in Int /\ Len(log) \in Nat
    BY <1>1, NextSentNat, WireTyped DEF IInv
  <1>7. Before(c)' = Before(c) + 1
    BY <1>4, <1>5, <1>6 DEF Before
  <1>8. WireOf(c)'
    <2>1. \A i \in 1..Len(Tail(w)) :
             IF Tail(w)[i].kind = "close"
             THEN i = Len(Tail(w)) /\ handler[c] = "ended"
             ELSE /\ Tail(w)[i].rank \in g.from..Len(log)
                  /\ Tail(w)[i].rank = Before(c) + 1 + i
      <3> TAKE i \in 1..Len(Tail(w))
      <3>1. Tail(w)[i] = w[i + 1] /\ i + 1 \in 1..Len(w) /\ i + 1 # 1 /\ i \in Nat
        BY <1>3
      <3>2. IF w[i + 1].kind = "close" THEN i + 1 = Len(w) /\ handler[c] = "ended"
            ELSE w[i + 1].rank \in g.from..Len(log) /\ w[i + 1].rank = Before(c) + (i + 1)
        BY <1>1, <3>1 DEF WireOf
      <3> HIDE DEF w
      <3> QED BY <1>3, <1>6, <3>1, <3>2
    <2>2. g.from <= given'[c].upto /\ given'[c].upto <= Len(log)
      BY <1>1, <1>4, <1>5, GivenInOrder
    <2>3. handler[c] # "none" /\ handler[c] \notin {"prepared", "subscribed"}
      BY <1>1, <1>2 DEF WireOf
    <2> HIDE DEF w, g
    <2> QED BY <1>2, <1>5, <1>7, <2>1, <2>2, <2>3 DEF WireOf
  <1>9. ASSUME Serves(c)' PROVE JoinOf(c)'
    <2>1. handler[c] = "streaming" /\ Serves(c)
      BY <1>1, <1>2, <1>9 DEF WireOf, Serves
    <2>2. NextSent(c) = Before(c) + Len(w) + 1
      BY <2>1 DEF NextSent
    <2>3. NextSent(c)' = Before(c)' + Len(Tail(w)) + 1
      BY <1>2, <2>1 DEF NextSent
    <2>4. NextSent(c)' = NextSent(c)
      BY <1>3, <1>6, <1>7, <2>2, <2>3
    <2> QED BY <1>1, <1>2, <2>1, <2>4 DEF JoinOf
  <1>10. shown' >= given'[c].from
    BY <1>1, <1>2, <1>4, <1>5, <1>6 DEF Reads
  <1> QED BY <1>8, <1>9, <1>10

LEMMA ReadsKeeps == IInv /\ Reads => IInv'
  <1> SUFFICES ASSUME IInv, Reads PROVE IInv'
    OBVIOUS
  <1>1. TypeOK'
    BY TypeOfReads
  <1>2. QueuesSound' /\ MembersServed'
    BY DEF Reads, bus, IInv, QueuesSound, MembersServed, QueueOf, Serves
  <1>3. CASE Head(wire[link]).kind = "close"
    <2>1. link' = NoConn
      BY <1>3 DEF Reads, Disconnected
    <2> QED BY <1>1, <1>2, <2>1, StreamAssumption DEF IInv, LinkInOrder, NeverOlderThanLink
  <1>4. CASE Head(wire[link]).kind # "close"
    <2>1. link' = link /\ link \in Conns
      BY <1>4 DEF Reads, IInv, TypeOK
    <2>2. LinkInOrder'
      BY <1>1, <1>4, <2>1, ReadsInOrder DEF LinkInOrder
    <2>3. NeverOlderThanLink'
      BY <1>1, <1>4, <2>1, ReadsInOrder DEF NeverOlderThanLink
    <2> QED BY <1>1, <1>2, <2>2, <2>3 DEF IInv
  <1> QED BY <1>3, <1>4

LEMMA LosesKeeps == IInv /\ Loses => IInv'
  <1> SUFFICES ASSUME IInv, Loses PROVE IInv'
    OBVIOUS
  <1>1. TypeOK'
    BY TypeOfLoses
  <1>2. QueuesSound' /\ MembersServed'
    BY DEF Loses, bus, IInv, QueuesSound, MembersServed, QueueOf, Serves
  <1>3. link' = NoConn
    BY DEF Loses, Disconnected
  <1> QED BY <1>1, <1>2, <1>3, StreamAssumption DEF IInv, LinkInOrder, NeverOlderThanLink

-----------------------------------------------------------------------------
LEMMA InitKeeps == Init => IInv
  <1> SUFFICES ASSUME Init PROVE IInv
    OBVIOUS
  <1>1. TypeOK
    BY FreshTyped, OpenedTyped, StreamAssumption DEF Init, TypeOK
  <1>2. QueuesSound /\ MembersServed /\ LinkInOrder /\ NeverOlderThanLink
    BY StreamAssumption
       DEF Init, QueuesSound, MembersServed, LinkInOrder, NeverOlderThanLink, Serves
  <1> QED BY <1>1, <1>2 DEF IInv

LEMMA NextKeeps == IInv /\ [Next]_vars => IInv'
  <1> SUFFICES ASSUME IInv, [Next]_vars PROVE IInv'
    OBVIOUS
  <1>1. CASE Publishes
    BY <1>1, PublishesKeeps
  <1>2. CASE Stops
    BY <1>2, StopsKeeps
  <1>3. CASE ClosesBus
    BY <1>3, ClosesBusKeeps
  <1>4. CASE Reads
    BY <1>4, ReadsKeeps
  <1>5. CASE Loses
    BY <1>5, LosesKeeps
  <1>6. ASSUME NEW c \in Conns, Handler(c) PROVE IInv'
    BY <1>6, SubscribesKeeps, SnapshotsKeeps, StreamsKeeps, NoticesKeeps, CancelsKeeps
       DEF Handler
  <1>7. ASSUME NEW c \in Conns, Connects(c) PROVE IInv'
    BY <1>7, ConnectsKeeps
  <1>8. CASE UNCHANGED vars
    BY <1>8 DEF vars, IInv, TypeOK, QueuesSound, QueueOf, MembersServed, LinkInOrder, WireOf,
                JoinOf, NextSent, Before, NeverOlderThanLink, Serves
  <1> QED BY <1>1, <1>2, <1>3, <1>4, <1>5, <1>6, <1>7, <1>8 DEF Next

\* The inductive invariant: what is queued, on the wire and given fits together.
THEOREM Inductive == Spec => []IInv
  <1> QED BY InitKeeps, NextKeeps, PTL DEF Spec

\* Every variable keeps its type, for every number of connections and any capacity.
THEOREM Types == Spec => []TypeOK
  <1>1. IInv => TypeOK
    BY DEF IInv
  <1> QED BY <1>1, Inductive, PTL

\* A subscription that was closed holds its sentinel last, in the slot that is kept for
\* it: the handler that awaits the queue (Subscription.next()) is woken and does end.
THEOREM SentinelReached == Spec => []EndAwaitsReader
  <1>1. ASSUME IInv PROVE EndAwaitsReader
    <2> SUFFICES ASSUME NEW c \in Conns, Serves(c)
                 PROVE  LET s == subscription[c] IN
                        /\ Len(s.queue) <= Capacity + 1
                        /\ \A i \in 1..Len(s.queue) :
                              s.queue[i] = End <=> s.closed /\ i = Len(s.queue)
                        /\ s.closed => s.queue # <<>>
                        /\ s.closed <=> c \notin subscribers
      BY DEF EndAwaitsReader, Serves
    <2>1. subscription[c].queue \in Seq(Nat)
      BY <1>1 DEF IInv, TypeOK, Subscription
    <2>2. QueueOf(c)
      BY <1>1 DEF IInv, QueuesSound
    <2> QED BY <2>1, <2>2, StreamAssumption DEF QueueOf, WellFormed
  <1> QED BY <1>1, Inductive, PTL

\* What the coordinator shows is never older than the connection it is shown over.
THEOREM ShownNotOlder == Spec => []NeverOlderThanLink
  <1>1. IInv => NeverOlderThanLink
    BY DEF IInv
  <1> QED BY <1>1, Inductive, PTL

-----------------------------------------------------------------------------
(* The stream implements the feed.                                         *)

FeedVars == <<Len(log), given>>

LEMMA ReadsFeed == IInv /\ Reads => [Feed!FeedNext]_FeedVars
  <1> SUFFICES ASSUME IInv, Reads PROVE [Feed!FeedNext]_FeedVars
    OBVIOUS
  <1> DEFINE w == wire[link]
             f == Head(w)
             g == given[link]
  <1>1. /\ link \in Conns /\ w \in Seq(Frame) /\ w # <<>> /\ Len(log) \in Nat
        /\ g \in Feed!Feeds /\ UNCHANGED log
    BY DEF Reads, bus, IInv, TypeOK
  <1>2. CASE f.kind = "close"
    BY <1>1, <1>2 DEF Reads, FeedVars
  <1>3. CASE f.kind # "close"
    <2>1. f = w[1] /\ 1 \in 1..Len(w)
      <3> HIDE DEF w
      <3> QED BY <1>1
    <2>2. WireOf(link)
      BY <1>1 DEF IInv, LinkInOrder
    <2>3. f.rank \in g.from..Len(log) /\ (g.began => f.rank = g.upto + 1)
      BY <1>3, <2>1, <2>2 DEF WireOf, Before
    <2>4. g.from \in Nat /\ g.upto \in Nat
      BY <1>1 DEF Feed!Feeds
    <2>5. given' = IF g.began THEN [given EXCEPT ![link].upto = f.rank]
                   ELSE [given EXCEPT ![link].began = TRUE, ![link].first = f.rank]
      BY <1>1, <1>3, GivenRead
    <2> HIDE DEF f
    <2>6. CASE g.began
      <3>1. g.upto < Len(log)
        BY <1>1, <2>3, <2>4, <2>6
      <3>2. Feed!Give(link)
        BY <1>1, <2>3, <2>5, <2>6, <3>1 DEF Feed!Give
      <3> QED BY <1>1, <3>2 DEF Feed!FeedNext
    <2>7. CASE ~g.began
      <3>1. Feed!Begin(link, f.rank)
        BY <1>1, <2>5, <2>7 DEF Feed!Begin
      <3> QED BY <1>1, <2>3, <3>1 DEF Feed!FeedNext
    <2> QED BY <2>6, <2>7
  <1> QED BY <1>2, <1>3

LEMMA StepFeeds == IInv /\ [Next]_vars => [Feed!FeedNext]_FeedVars
  <1> SUFFICES ASSUME IInv, [Next]_vars PROVE [Feed!FeedNext]_FeedVars
    OBVIOUS
  <1>1. CASE Publishes
    <2>1. PICK kinds \in Turns : FanOut(kinds)
      BY <1>1 DEF Publishes, Turns
    <2>2. Len(kinds) \in 1..2 /\ Len(log') = Len(log) + Len(kinds)
      BY <2>1, LongerLog DEF FanOut, IInv, TypeOK
    <2>3. Feed!Publish(Len(kinds))
      BY <1>1, <2>2 DEF Feed!Publish, Publishes
    <2> QED BY <2>2, <2>3 DEF Feed!FeedNext
  <1>2. CASE ClosesBus
    <2>1. Len(log') = Len(log) + 1
      BY <1>2 DEF ClosesBus, IInv, TypeOK, Kinds
    <2>2. Feed!Publish(1)
      BY <1>2, <2>1 DEF Feed!Publish, ClosesBus
    <2> QED BY <2>2 DEF Feed!FeedNext
  <1>3. CASE Reads
    BY <1>3, ReadsFeed
  <1>4. CASE Stops \/ Loses \/ UNCHANGED vars
    BY <1>4 DEF Stops, Loses, vars, bus, FeedVars
  <1>5. ASSUME NEW c \in Conns, Handler(c) PROVE [Feed!FeedNext]_FeedVars
    <2>1. CASE Subscribes(c) /\ gateway # "closed"
      <3>1. Feed!Open(c)
        BY <2>1 DEF Subscribes, Feed!Open
      <3> QED BY <3>1 DEF Feed!FeedNext
    <2>2. CASE Subscribes(c) /\ gateway = "closed"
      BY <2>2 DEF Subscribes, FeedVars
    <2>3. CASE Snapshots(c) \/ Streams(c) \/ Notices(c) \/ Cancels(c)
      BY <2>3 DEF Snapshots, Streams, Notices, Cancels, bus, FeedVars
    <2> QED BY <1>5, <2>1, <2>2, <2>3 DEF Handler
  <1>6. ASSUME NEW c \in Conns, Connects(c) PROVE [Feed!FeedNext]_FeedVars
    <2>1. Feed!Open(c)
      BY <1>6 DEF Connects, bus, Feed!Open
    <2> QED BY <2>1 DEF Feed!FeedNext
  <1> QED BY <1>1, <1>2, <1>3, <1>4, <1>5, <1>6 DEF Next

\* The stream of every connection implements the feed: a state that is not older than the
\* connection, then every event published since it was opened, once, in order, no gap.
THEOREM ImplementsFeed == Spec => IsFeed
  <1>1. Init => Feed!FeedInit
    BY DEF Init, Feed!FeedInit
  <1>2. IInv /\ [Next]_vars => [Feed!FeedNext]_<<Len(log), given>>
    BY StepFeeds DEF FeedVars
  <1> QED BY <1>1, <1>2, Inductive, PTL DEF Spec, IsFeed, Feed!FeedSpec
=============================================================================
