-------------------------- MODULE AudioBridgeProof --------------------------
(***************************************************************************)
(* What the two threads of a voice keep without a lock, for any backlog    *)
(* and any number of frames: no wake-up is lost, no loss goes uncounted,   *)
(* and both directions are media lines.                                    *)
(***************************************************************************)
EXTENDS AudioBridge, TLAPS

-----------------------------------------------------------------------------
(* One direction.                                                          *)

\* A deque that is full makes room.
LEMMA AppendedHolds ==
    ASSUME NEW queue \in Seq(Nat), Len(queue) <= Backlog, NEW produced \in Nat,
           \A i \in 1..Len(queue) : queue[i] = (produced - Len(queue)) + i
    PROVE  /\ Appended(queue, produced + 1) \in Seq(Nat)
           /\ Len(Appended(queue, produced + 1)) = Len(queue) + 1 - Full(queue)
           /\ Len(Appended(queue, produced + 1)) <= Backlog
           /\ \A i \in 1..Len(Appended(queue, produced + 1)) :
                 Appended(queue, produced + 1)[i]
                     = ((produced + 1) - Len(Appended(queue, produced + 1))) + i
  <1> DEFINE q == Appended(queue, produced + 1)
  <1>0. Backlog \in Nat \ {0} /\ Len(queue) \in Nat
    BY BridgeAssumption
  <1>1. CASE Len(queue) = Backlog
    <2> DEFINE rest == Tail(queue)
    <2>1. /\ rest \in Seq(Nat) /\ Len(rest) = Len(queue) - 1
          /\ \A i \in 1..Len(rest) : rest[i] = queue[i + 1]
      BY <1>0, <1>1
    <2>2. q = Append(rest, produced + 1) /\ Full(queue) = 1
      BY <1>1 DEF Appended, Full
    <2> HIDE DEF rest, q
    <2>3. /\ q \in Seq(Nat) /\ Len(q) = Len(queue)
          /\ \A i \in 1..Len(rest) : q[i] = rest[i]
          /\ q[Len(q)] = produced + 1
      BY <1>0, <2>1, <2>2
    <2>4. ASSUME NEW i \in 1..Len(q) PROVE q[i] = ((produced + 1) - Len(q)) + i
      <3>1. CASE i = Len(q)
        BY <1>0, <2>3, <3>1
      <3>2. CASE i < Len(q)
        <4>1. i \in 1..Len(rest) /\ i + 1 \in 1..Len(queue)
          BY <1>0, <2>1, <2>3, <3>2
        <4>2. q[i] = queue[i + 1]
          BY <2>1, <2>3, <4>1
        <4>3. queue[i + 1] = (produced - Len(queue)) + (i + 1)
          BY <4>1
        <4> QED BY <1>0, <2>3, <4>2, <4>3
      <3> QED BY <2>3, <3>1, <3>2
    <2>5. Len(q) = Len(queue) + 1 - Full(queue) /\ Len(q) <= Backlog
      BY <1>0, <1>1, <2>2, <2>3
    <2> QED BY <2>3, <2>4, <2>5 DEF q
  <1>2. CASE Len(queue) # Backlog
    <2>1. q = Append(queue, produced + 1) /\ Full(queue) = 0
      BY <1>2 DEF Appended, Full
    <2> HIDE DEF q
    <2>2. /\ q \in Seq(Nat) /\ Len(q) = Len(queue) + 1
          /\ \A i \in 1..Len(queue) : q[i] = queue[i]
          /\ q[Len(q)] = produced + 1
      BY <1>0, <2>1
    <2>3. ASSUME NEW i \in 1..Len(q) PROVE q[i] = ((produced + 1) - Len(q)) + i
      <3>1. CASE i = Len(q)
        BY <1>0, <2>2, <3>1
      <3>2. CASE i < Len(q)
        <4>1. i \in 1..Len(queue)
          BY <1>0, <2>2, <3>2
        <4> QED BY <1>0, <2>2, <4>1
      <3> QED BY <2>2, <3>1, <3>2
    <2>4. Len(q) = Len(queue) + 1 - Full(queue) /\ Len(q) <= Backlog
      BY <1>0, <1>2, <2>1, <2>2
    <2> QED BY <2>2, <2>3, <2>4 DEF q
  <1> QED BY <1>1, <1>2

LEMMA FullIs ==
    ASSUME NEW queue \in Seq(Nat)
    PROVE  /\ Full(queue) \in {0, 1}
           /\ Full(queue) = 1 => Len(queue) = Backlog
           /\ Full(queue) = 0 => Len(queue) # Backlog
  BY DEF Full

\* A frame that was counted for goes in.
LEMMA LineAppends ==
    ASSUME NEW queue, NEW produced, NEW gone, NEW dropped,
           LineOf(queue, produced, gone, dropped, Full(queue))
    PROVE  LineOf(Appended(queue, produced + 1), produced + 1, gone, dropped, 0)
  <1> DEFINE q == Appended(queue, produced + 1)
  <1>1. /\ queue \in Seq(Nat) /\ Len(queue) <= Backlog /\ Len(queue) \in Nat
        /\ produced \in Nat /\ gone \in Nat /\ dropped \in Nat
        /\ \A i \in 1..Len(queue) : queue[i] = (produced - Len(queue)) + i
        /\ gone + Len(queue) <= produced
        /\ produced + Full(queue) <= dropped + gone + Len(queue)
    BY DEF LineOf
  <1>2. /\ q \in Seq(Nat) /\ Len(q) = Len(queue) + 1 - Full(queue) /\ Len(q) <= Backlog
        /\ \A i \in 1..Len(q) : q[i] = ((produced + 1) - Len(q)) + i
    BY <1>1, AppendedHolds
  <1> HIDE DEF q
  <1>3. Full(queue) \in {0, 1}
    BY <1>1, FullIs
  <1>4. Len(q) \in Nat
    BY <1>2
  <1>5. /\ gone + Len(q) <= produced + 1
        /\ (produced + 1) + 0 <= dropped + gone + Len(q)
        /\ {produced + 1, gone, dropped} \subseteq Nat
    BY <1>1, <1>2, <1>3, <1>4
  <1> QED BY <1>2, <1>5 DEF LineOf, q

\* A frame is counted for before it goes in.
LEMMA LineCounts ==
    ASSUME NEW queue, NEW produced, NEW gone, NEW dropped,
           LineOf(queue, produced, gone, dropped, 0)
    PROVE  LineOf(queue, produced, gone, dropped + Full(queue), Full(queue))
  <1>1. /\ queue \in Seq(Nat) /\ Len(queue) \in Nat
        /\ produced \in Nat /\ gone \in Nat /\ dropped \in Nat
        /\ produced <= dropped + gone + Len(queue)
    BY DEF LineOf
  <1>2. Full(queue) \in {0, 1}
    BY <1>1, FullIs
  <1>3. /\ {produced, gone, dropped + Full(queue)} \subseteq Nat
        /\ produced + Full(queue) <= (dropped + Full(queue)) + gone + Len(queue)
    BY <1>1, <1>2
  <1> QED BY <1>3 DEF LineOf

\* The frame that is taken is later than the last, and no older than the backlog.
LEMMA LineTakes ==
    ASSUME NEW queue, NEW produced, NEW gone, NEW dropped, NEW leaving,
           LineOf(queue, produced, gone, dropped, leaving), queue # <<>>
    PROVE  /\ LineOf(Tail(queue), produced, Head(queue), dropped, 0)
           /\ Full(Tail(queue)) = 0
           /\ Head(queue) \in (gone + 1)..produced
           /\ produced < Head(queue) + Backlog
  <1> DEFINE q == Tail(queue)
             n == Len(queue)
  <1>0. Backlog \in Nat \ {0}
    BY BridgeAssumption
  <1>1. /\ queue \in Seq(Nat) /\ n <= Backlog /\ n \in Nat /\ n >= 1
        /\ produced \in Nat /\ gone \in Nat /\ dropped \in Nat
        /\ \A i \in 1..n : queue[i] = (produced - n) + i
        /\ gone + n <= produced
    BY DEF LineOf
  <1>2. /\ q \in Seq(Nat) /\ Len(q) = n - 1
        /\ \A i \in 1..Len(q) : q[i] = queue[i + 1]
    BY <1>1
  <1>3. Head(queue) = queue[1]
    BY <1>1
  <1>4. queue[1] = (produced - n) + 1
    BY <1>1
  <1> HIDE DEF q, n
  <1>5. ASSUME NEW i \in 1..Len(q) PROVE q[i] = (produced - Len(q)) + i
    <2>1. i + 1 \in 1..n
      BY <1>1, <1>2
    <2>2. queue[i + 1] = (produced - n) + (i + 1)
      BY <1>1, <2>1
    <2> QED BY <1>1, <1>2, <2>2
  <1>6. /\ Head(queue) \in (gone + 1)..produced
        /\ produced < Head(queue) + Backlog
        /\ Head(queue) + Len(q) <= produced
        /\ produced + 0 <= dropped + Head(queue) + Len(q)
        /\ Len(q) <= Backlog /\ Len(q) # Backlog
    <2>1. /\ n \in Nat /\ n >= 1 /\ n <= Backlog /\ Backlog \in Nat
          /\ produced \in Nat /\ gone \in Nat /\ dropped \in Nat /\ gone + n <= produced
      BY <1>0, <1>1
    <2>2. Head(queue) = (produced - n) + 1 /\ Len(q) = n - 1
      BY <1>2, <1>3, <1>4
    <2>3. Head(queue) \in Nat /\ Len(q) \in Nat
      BY <2>1, <2>2
    <2> QED BY <2>1, <2>2, <2>3
  <1>7. {produced, Head(queue), dropped} \subseteq Nat
    BY <1>1, <1>6
  <1>8. LineOf(q, produced, Head(queue), dropped, 0)
    BY <1>2, <1>5, <1>6, <1>7 DEF LineOf
  <1>9. Full(q) = 0
    BY <1>6 DEF Full
  <1> QED BY <1>6, <1>8, <1>9 DEF q

-----------------------------------------------------------------------------
(* The types.                                                              *)

LEMMA Initially == Init => IInv
  <1> SUFFICES ASSUME Init PROVE IInv
    OBVIOUS
  <1>0. Backlog \in Nat \ {0}
    BY BridgeAssumption
  <1>1. TypeOK
    <2>1. /\ <<>> \in Seq(Nat) /\ Len(<<>>) <= Backlog /\ 0 \in Nat
      BY <1>0
    <2>2. waiting \in BOOLEAN /\ arrival \in BOOLEAN
      BY DEF Init
    <2> QED BY <2>1, <2>2 DEF Init, TypeOK
  <1>2. LineOf(<<>>, 0, 0, 0, 0)
    BY <1>0 DEF LineOf
  <1>3. DownLine /\ UpLine
    BY <1>2 DEF Init, DownLine, UpLine
  <1>4. SignalOf
    BY DEF Init, SignalOf, NoLostWakeUp
  <1> QED BY <1>1, <1>3, <1>4 DEF IInv

\* The queues have the type the lines give them; the rest is where everybody is.
LEMMA TypeSteps ==
    ASSUME TypeOK, [Next]_vars, DownLine', UpLine'
    PROVE  TypeOK'
  <1>1. /\ downlink' \in Seq(Nat) /\ Len(downlink') <= Backlog
        /\ uplink' \in Seq(Nat) /\ Len(uplink') <= Backlog
        /\ {received', droppedDown', taken'} \subseteq Nat
        /\ {pushed', droppedUp', supplied'} \subseteq Nat
    BY DEF DownLine, UpLine, LineOf
  <1> DEFINE Placed == /\ clock \in {"idle", "counted", "appended", "waking", "posting"}
                       /\ waiting \in BOOLEAN /\ arrival \in BOOLEAN /\ handles \in Nat
                       /\ reader \in {"away", "pop", "empty", "cleared", "raised",
                                      "asleep", "awake"}
                       /\ pump \in {"none", "ready", "counted", "ended"}
                       /\ sender \in {"sending", "stopped"}
                       /\ reason \in {"none", "failed", "closed"}
                       /\ leg \in {"attached", "closing", "detached", "closed", "gone"}
  <1> SUFFICES Placed'
    BY <1>1 DEF TypeOK
  <1>0. Placed
    BY DEF TypeOK
  <1>2. CASE Clock
    <2>1. CASE Counts \/ Appends \/ Supplies
      BY <1>0, <2>1 DEF Counts, Appends, Supplies, signal, up
    <2>2. CASE Looks \/ Lowers
      BY <1>0, <2>2 DEF Looks, Lowers, signal, up
    <2>3. CASE Posts
      <3>1. handles' \in Nat
        BY <1>0, <2>3 DEF Posts
      <3>2. waiting' \in BOOLEAN /\ arrival' \in BOOLEAN
        BY <1>0, <2>3 DEF Posts
      <3> QED BY <1>0, <2>3, <3>1, <3>2 DEF Posts, up
    <2> QED BY <1>2, <2>1, <2>2, <2>3 DEF Clock
  <1>3. CASE Reader
    <2>1. CASE Receives \/ FindsNone
      BY <1>0, <2>1 DEF Receives, FindsNone, signal, up
    <2>2. CASE Pops
      BY <1>0, <2>2 DEF Pops, Delivers, AsksAgain, Fails, Because, signal, up
    <2>3. CASE IsClosed
      BY <1>0, <2>3 DEF IsClosed, Because, signal, up
    <2>4. CASE Clears \/ Raises
      BY <1>0, <2>4 DEF Clears, Raises, up
    <2>5. CASE LooksOnceMore \/ Wakes \/ StopsWaiting
      BY <1>0, <2>5 DEF LooksOnceMore, Wakes, StopsWaiting, signal, up
    <2> QED BY <1>3, <2>1, <2>2, <2>3, <2>4, <2>5 DEF Reader
  <1>4. CASE Runs
    BY <1>0, <1>4 DEF Runs, up
  <1>5. CASE Pump
    BY <1>0, <1>5 DEF Pump, Begins, PushCounts, Pushes, PumpEnds, signal
  <1>6. CASE Teardown
    BY <1>0, <1>6 DEF Teardown, Closes, Detaches, BridgeCloses, PeerCloses, signal, up
  <1>7. CASE UNCHANGED vars
    BY <1>0, <1>7 DEF vars, signal, up
  <1> QED BY <1>2, <1>3, <1>4, <1>5, <1>6, <1>7 DEF Next

-----------------------------------------------------------------------------
(* The two directions.                                                     *)

\* Counting for nothing more is counting for less.
LEMMA LineSettles ==
    ASSUME NEW queue, NEW produced, NEW gone, NEW dropped, NEW leaving \in {0, 1},
           LineOf(queue, produced, gone, dropped, leaving)
    PROVE  LineOf(queue, produced, gone, dropped, 0)
  <1>1. /\ queue \in Seq(Nat) /\ Len(queue) \in Nat
        /\ produced \in Nat /\ gone \in Nat /\ dropped \in Nat
        /\ produced + leaving <= dropped + gone + Len(queue)
    BY DEF LineOf
  <1>2. produced + 0 <= dropped + gone + Len(queue)
    BY <1>1
  <1> QED BY <1>2 DEF LineOf

LEMMA DownKept ==
    ASSUME DownLine, UNCHANGED down, clock' # "counted" \/ clock' = clock
    PROVE  DownLine'
  <1>1. CASE clock = "counted"
    <2>1. LineOf(downlink, received, taken, droppedDown, Full(downlink))
      BY <1>1 DEF DownLine
    <2>2. Full(downlink) \in {0, 1}
      BY <2>1, FullIs DEF LineOf
    <2>3. LineOf(downlink, received, taken, droppedDown, 0)
      BY <2>1, <2>2, LineSettles
    <2> QED BY <2>1, <2>3 DEF DownLine, down
  <1>2. CASE clock # "counted"
    BY <1>2 DEF DownLine, down
  <1> QED BY <1>1, <1>2

LEMMA UpKept ==
    ASSUME UpLine, UNCHANGED <<uplink, pushed, droppedUp, supplied>>,
           pump' # "counted" \/ pump' = pump
    PROVE  UpLine'
  <1>1. CASE pump = "counted"
    <2>1. LineOf(uplink, pushed, supplied, droppedUp, Full(uplink))
      BY <1>1 DEF UpLine
    <2>2. Full(uplink) \in {0, 1}
      BY <2>1, FullIs DEF LineOf
    <2>3. LineOf(uplink, pushed, supplied, droppedUp, 0)
      BY <2>1, <2>2, LineSettles
    <2> QED BY <2>1, <2>3 DEF UpLine
  <1>2. CASE pump # "counted"
    BY <1>2 DEF UpLine
  <1> QED BY <1>1, <1>2

LEMMA DownMoves ==
    /\ DownLine /\ Counts => DownLine'
    /\ DownLine /\ Appends => DownLine'
    /\ DownLine /\ Pops => DownLine'
  <1>1. ASSUME DownLine, Counts PROVE DownLine'
    <2>1. LineOf(downlink, received, taken, droppedDown, 0)
      BY <1>1 DEF DownLine, Counts
    <2>2. LineOf(downlink, received, taken, droppedDown + Full(downlink), Full(downlink))
      BY <2>1, LineCounts
    <2>3. /\ UNCHANGED <<downlink, received, taken>> /\ clock' = "counted"
          /\ droppedDown' = droppedDown + Full(downlink)
      BY <1>1 DEF Counts
    <2>4. LineOf(downlink', received', taken', droppedDown', Full(downlink'))
      BY <2>2, <2>3
    <2> QED BY <2>3, <2>4 DEF DownLine
  <1>2. ASSUME DownLine, Appends PROVE DownLine'
    <2>1. LineOf(downlink, received, taken, droppedDown, Full(downlink))
      BY <1>2 DEF DownLine, Appends
    <2>2. LineOf(Appended(downlink, received + 1), received + 1, taken, droppedDown, 0)
      BY <2>1, LineAppends
    <2>3. /\ downlink' = Appended(downlink, received + 1) /\ received' = received + 1
          /\ UNCHANGED <<droppedDown, taken>> /\ clock' = "appended"
      BY <1>2 DEF Appends
    <2>4. LineOf(downlink', received', taken', droppedDown', 0)
      BY <2>2, <2>3
    <2> QED BY <2>3, <2>4 DEF DownLine
  <1>3. ASSUME DownLine, Pops PROVE DownLine'
    <2>1. PICK leaving : LineOf(downlink, received, taken, droppedDown, leaving)
      BY <1>3 DEF DownLine
    <2>2. downlink # <<>> /\ taken' = Head(downlink) /\ downlink' = Tail(downlink)
          /\ UNCHANGED <<received, droppedDown>>
      BY <1>3 DEF Pops
    <2>3. /\ LineOf(Tail(downlink), received, Head(downlink), droppedDown, 0)
          /\ Full(Tail(downlink)) = 0
      BY <2>1, <2>2, LineTakes
    <2>4. LineOf(downlink', received', taken', droppedDown', 0) /\ Full(downlink') = 0
      BY <2>2, <2>3
    <2> QED BY <2>4 DEF DownLine
  <1> QED BY <1>1, <1>2, <1>3

LEMMA UpMoves ==
    /\ UpLine /\ PushCounts => UpLine'
    /\ UpLine /\ Pushes => UpLine'
    /\ UpLine /\ Supplies => UpLine'
  <1>1. ASSUME UpLine, PushCounts PROVE UpLine'
    <2>1. LineOf(uplink, pushed, supplied, droppedUp, 0)
      BY <1>1 DEF UpLine, PushCounts
    <2>2. LineOf(uplink, pushed, supplied, droppedUp + Full(uplink), Full(uplink))
      BY <2>1, LineCounts
    <2>3. /\ UNCHANGED <<uplink, pushed, supplied>> /\ pump' = "counted"
          /\ droppedUp' = droppedUp + Full(uplink)
      BY <1>1 DEF PushCounts
    <2>4. LineOf(uplink', pushed', supplied', droppedUp', Full(uplink'))
      BY <2>2, <2>3
    <2> QED BY <2>3, <2>4 DEF UpLine
  <1>2. ASSUME UpLine, Pushes PROVE UpLine'
    <2>1. LineOf(uplink, pushed, supplied, droppedUp, Full(uplink))
      BY <1>2 DEF UpLine, Pushes
    <2>2. LineOf(Appended(uplink, pushed + 1), pushed + 1, supplied, droppedUp, 0)
      BY <2>1, LineAppends
    <2>3. /\ uplink' = Appended(uplink, pushed + 1) /\ pushed' = pushed + 1
          /\ supplied' = supplied
      BY <1>2 DEF Pushes
    <2>4. LineOf(uplink', pushed', supplied', droppedUp, 0)
      BY <2>2, <2>3
    <2>5. CASE pump' = "ready" /\ droppedUp' = droppedUp
      BY <2>4, <2>5 DEF UpLine
    <2>6. CASE pump' = "counted" /\ droppedUp' = droppedUp + Full(uplink')
      <3>1. LineOf(uplink', pushed', supplied', droppedUp + Full(uplink'), Full(uplink'))
        BY <2>4, LineCounts
      <3>2. LineOf(uplink', pushed', supplied', droppedUp', Full(uplink'))
        BY <2>6, <3>1
      <3> QED BY <2>6, <3>2 DEF UpLine
    <2> QED BY <1>2, <2>5, <2>6 DEF Pushes
  <1>3. ASSUME UpLine, Supplies PROVE UpLine'
    <2>1. PICK leaving : LineOf(uplink, pushed, supplied, droppedUp, leaving)
      BY <1>3 DEF UpLine
    <2>2. uplink # <<>> /\ supplied' = Head(uplink) /\ uplink' = Tail(uplink)
          /\ UNCHANGED <<pushed, droppedUp>>
      BY <1>3 DEF Supplies
    <2>3. /\ LineOf(Tail(uplink), pushed, Head(uplink), droppedUp, 0)
          /\ Full(Tail(uplink)) = 0
      BY <2>1, <2>2, LineTakes
    <2>4. LineOf(uplink', pushed', supplied', droppedUp', 0) /\ Full(uplink') = 0
      BY <2>2, <2>3
    <2> QED BY <2>4 DEF UpLine
  <1> QED BY <1>1, <1>2, <1>3

\* What any other step leaves of the two directions.
LEMMA OtherSteps ==
    ASSUME [Next]_vars
    PROVE  /\ \/ Counts \/ Appends \/ Pops
              \/ UNCHANGED down /\ (clock' # "counted" \/ clock' = clock)
           /\ \/ PushCounts \/ Pushes \/ Supplies
              \/ /\ UNCHANGED <<uplink, pushed, droppedUp, supplied>>
                 /\ pump' # "counted" \/ pump' = pump
  <1>1. CASE Clock
    BY <1>1 DEF Clock, Counts, Appends, Looks, Lowers, Posts, Supplies, down, up
  <1>2. CASE Reader
    <2>1. CASE Receives \/ Pops \/ FindsNone \/ IsClosed
      BY <2>1 DEF Receives, Pops, FindsNone, IsClosed, down, up
    <2>2. CASE Clears \/ Raises \/ LooksOnceMore \/ Wakes \/ StopsWaiting
      BY <2>2 DEF Clears, Raises, LooksOnceMore, Wakes, StopsWaiting, up
    <2> QED BY <1>2, <2>1, <2>2 DEF Reader
  <1>3. CASE Runs
    BY <1>3 DEF Runs, up
  <1>4. CASE Pump
    BY <1>4 DEF Pump, Begins, PushCounts, Pushes, PumpEnds
  <1>5. CASE Teardown
    BY <1>5 DEF Teardown, Closes, Detaches, BridgeCloses, PeerCloses, up
  <1>6. CASE UNCHANGED vars
    BY <1>6 DEF vars, up
  <1> QED BY <1>1, <1>2, <1>3, <1>4, <1>5, <1>6 DEF Next

LEMMA LineSteps ==
    ASSUME DownLine, UpLine, [Next]_vars
    PROVE  DownLine' /\ UpLine'
  <1>1. DownLine'
    BY OtherSteps, DownMoves, DownKept
  <1>2. UpLine'
    BY OtherSteps, UpMoves, UpKept
  <1> QED BY <1>1, <1>2

-----------------------------------------------------------------------------
(* The flag.                                                               *)

\* While the reader is between its flag and its wake-up, nothing it is owed is taken back.
LEMMA SignalSteps ==
    ASSUME TypeOK, SignalOf, [Next]_vars
    PROVE  SignalOf'
  <1> USE DEF SignalOf, NoLostWakeUp, Owed, BridgeClosed
  <1>1. CASE Clock
    <2>1. CASE Counts
      BY <2>1 DEF Counts, signal
    <2>2. CASE Appends
      BY <2>2 DEF Appends, signal
    <2>3. CASE Looks
      BY <2>3 DEF Looks, signal, down
    <2>4. CASE Lowers
      BY <2>4 DEF Lowers, down
    <2>5. CASE Posts
      BY <2>5 DEF Posts, down, TypeOK
    <2>6. CASE Supplies
      BY <2>6 DEF Supplies, signal, down
    <2> QED BY <1>1, <2>1, <2>2, <2>3, <2>4, <2>5, <2>6 DEF Clock
  <1>2. CASE Reader
    <2>1. CASE reader' \notin {"raised", "asleep"}
      BY <2>1
    <2>2. CASE Raises
      BY <2>2 DEF Raises
    <2>3. CASE LooksOnceMore
      BY <2>3 DEF LooksOnceMore, signal, down
    <2>4. CASE Receives \/ FindsNone \/ IsClosed \/ Clears
      BY <2>1, <2>4 DEF Receives, FindsNone, IsClosed, Clears
    <2>5. CASE Pops
      BY <2>1, <2>5 DEF Pops, Delivers, AsksAgain, Fails
    <2>6. CASE Wakes \/ StopsWaiting
      BY <2>1, <2>6 DEF Wakes, StopsWaiting
    <2> QED BY <1>2, <2>2, <2>3, <2>4, <2>5, <2>6 DEF Reader
  <1>3. CASE Runs
    BY <1>3 DEF Runs, down
  <1>4. CASE Pump
    BY <1>4 DEF Pump, Begins, PushCounts, Pushes, PumpEnds, signal, down
  <1>5. CASE Teardown
    <2>1. CASE Closes \/ Detaches
      BY <2>1 DEF Closes, Detaches, signal, down
    <2>2. CASE BridgeCloses
      BY <2>2 DEF BridgeCloses, down
    <2>3. CASE PeerCloses
      BY <2>3 DEF PeerCloses
    <2> QED BY <1>5, <2>1, <2>2, <2>3 DEF Teardown
  <1>6. CASE UNCHANGED vars
    BY <1>6 DEF vars, signal, down
  <1> QED BY <1>1, <1>2, <1>3, <1>4, <1>5, <1>6 DEF Next

-----------------------------------------------------------------------------
(* The theorems.                                                           *)

\* The strengthening: each direction is the last frames produced, in order, with every loss
\* counted, and a reader that raised its flag is owed a wake-up once it is lowered.
THEOREM Inductive == Spec => []IInv
  <1>1. IInv /\ [Next]_vars => IInv'
    BY LineSteps, TypeSteps, SignalSteps DEF IInv
  <1> QED BY Initially, <1>1, PTL DEF Spec

\* The state has its types, and neither deque ever holds more than the backlog.
THEOREM Types == Spec => []TypeOK
  <1>1. IInv => TypeOK
    BY DEF IInv
  <1> QED BY Inductive, <1>1, PTL

\* The contract between _wake() and next_downlink() (bridge.py:114-119): a reader never
\* sleeps over a frame, or a close, that nobody will wake it for.
THEOREM WakeUpKept == Spec => []NoLostWakeUp
  <1>1. IInv => NoLostWakeUp
    BY DEF IInv, SignalOf
  <1> QED BY Inductive, <1>1, PTL

\* The counters of a bridge never say less than what was lost (bridge.py:103, 168).
THEOREM Counted == Spec => []LossesAreCounted
  <1>1. ASSUME NEW queue, NEW produced, NEW gone, NEW dropped, NEW leaving \in {0, 1},
               LineOf(queue, produced, gone, dropped, leaving)
        PROVE  produced - gone - Len(queue) <= dropped
    <2>1. /\ produced \in Nat /\ gone \in Nat /\ dropped \in Nat
          /\ produced + leaving <= dropped + gone + Len(queue)
          /\ Len(queue) \in Nat
      BY <1>1 DEF LineOf
    <2> QED BY <2>1
  <1>2. IInv => LossesAreCounted
    <2> SUFFICES ASSUME IInv PROVE LossesAreCounted
      OBVIOUS
    <2>1. PICK out \in {0, 1} : LineOf(downlink, received, taken, droppedDown, out)
      BY FullIs DEF IInv, DownLine, TypeOK
    <2>2. PICK back \in {0, 1} : LineOf(uplink, pushed, supplied, droppedUp, back)
      BY FullIs DEF IInv, UpLine, TypeOK
    <2> QED BY <1>1, <2>1, <2>2 DEF LossesAreCounted
  <1> QED BY Inductive, <1>2, PTL

\* What is handed over is in order and no older than the backlog, either way.
THEOREM Refines == Spec => AreMediaLines
  <1>1. Init => Down!Init /\ Up!Init
    BY DEF Init, Down!Init, Up!Init
  <1>2. ASSUME IInv, [Next]_vars
        PROVE  /\ [Down!Captures \/ Down!HandsOver]_(Down!line)
               /\ [Up!Captures \/ Up!HandsOver]_(Up!line)
    <2>1. CASE Appends
      BY <2>1 DEF Appends, Down!Captures, Down!line, Up!line, up
    <2>2. CASE Pops
      <3>1. PICK leaving : LineOf(downlink, received, taken, droppedDown, leaving)
        BY <1>2 DEF IInv, DownLine
      <3>2. Head(downlink) \in (taken + 1)..received /\ received < Head(downlink) + Backlog
        BY <2>2, <3>1, LineTakes DEF Pops
      <3>3. taken' = Head(downlink) /\ UNCHANGED <<received, up>>
        BY <2>2 DEF Pops
      <3> QED BY <3>2, <3>3 DEF Down!HandsOver, Up!line, up
    <2>3. CASE Pushes
      BY <2>3 DEF Pushes, Up!Captures, Up!line, Down!line, down
    <2>4. CASE Supplies
      <3>1. PICK leaving : LineOf(uplink, pushed, supplied, droppedUp, leaving)
        BY <1>2 DEF IInv, UpLine
      <3>2. Head(uplink) \in (supplied + 1)..pushed /\ pushed < Head(uplink) + Backlog
        BY <2>4, <3>1, LineTakes DEF Supplies
      <3>3. supplied' = Head(uplink) /\ UNCHANGED <<pushed, down>>
        BY <2>4 DEF Supplies
      <3> QED BY <3>2, <3>3 DEF Up!HandsOver, Down!line, down
    <2>5. \/ Appends \/ Pops \/ Pushes \/ Supplies
          \/ UNCHANGED <<received, taken, pushed, supplied>>
      <3>1. CASE Counts
        BY <3>1 DEF Counts, up
      <3>2. CASE PushCounts
        BY <3>2 DEF PushCounts, down
      <3> QED BY <1>2, <3>1, <3>2, OtherSteps DEF down
    <2> QED BY <2>1, <2>2, <2>3, <2>4, <2>5 DEF Down!line, Up!line
  <1> QED BY Inductive, <1>1, <1>2, PTL DEF Spec, AreMediaLines, Down!Spec, Up!Spec
=============================================================================
