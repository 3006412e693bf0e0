------------------------- MODULE VideoDownlinkProof -------------------------
(***************************************************************************)
(* What the picture of a call keeps for any depth and any number of        *)
(* packets: the encoder's output is never closed under the thread that     *)
(* reads it, what goes to the browser is a media line, and a session that  *)
(* has ended leaves nothing behind.                                        *)
(***************************************************************************)
EXTENDS VideoDownlink, TLAPS

media == <<stamped, posted, packets, enqueued, handed>>

-----------------------------------------------------------------------------
(* The owners of the run.                                                  *)

LEMMA OwnedKept ==
    ASSUME OwnedOf, UNCHANGED <<run, stop, stdout, joined>>,
           demux = "ended" => demux' = "ended"
    PROVE  OwnedOf'
  BY DEF OwnedOf

LEMMA OwnedTaken ==
    ASSUME OwnedOf, run = "held", NEW by, TakesRun(by), UNCHANGED <<stdout, demux, joined>>
    PROVE  OwnedOf'
  <1>1. run' = "taken" /\ stop'.at = "joining"
    BY DEF TakesRun
  <1>2. stdout # "closed"
    BY DEF OwnedOf
  <1> QED BY <1>1, <1>2 DEF OwnedOf

LEMMA OwnedStopped ==
    ASSUME OwnedOf, NEW by, Stopped(by)
    PROVE  OwnedOf'
  <1>1. stop'.at = "no" /\ UNCHANGED <<run, stdout, demux, joined>>
    BY DEF Stopped, process
  <1> QED BY <1>1 DEF OwnedOf

LEMMA OwnedSteps ==
    ASSUME OwnedOf, [Next]_vars
    PROVE  OwnedOf'
  <1>1. CASE Writes \/ EncoderOpens \/ EncoderFails \/ EncoderExits
    BY <1>1, OwnedKept DEF Writes, EncoderOpens, EncoderFails, EncoderExits, process, owner
  <1>2. CASE Thread
    BY <1>2, OwnedKept DEF Thread, ReadsHeader, ReadsPacket, Sinks, Posts, DemuxEnds, owner
  <1>3. CASE Track
    BY <1>3, OwnedKept DEF Track, RunsPosted, Receives, Gets, Hands, process, owner
  <1>4. CASE Worker
    BY <1>4, OwnedKept DEF Worker, Runs, process, owner
  <1>5. CASE Resumes
    <2>1. CASE \/ Discards \/ ArmTook \/ ArmRaced \/ ArmRefused \/ NoPicture \/ NoPictureNoRun
               \/ CloseUnwatches \/ CloseFindsNoRun
      BY <2>1, OwnedKept DEF Discards, ArmTook, ArmRaced, ArmRefused, NoPicture, NoPictureNoRun,
                             CloseUnwatches, CloseFindsNoRun, process, owner
    <2>2. CASE NoPictureUnwatched
      BY <2>2, OwnedTaken DEF NoPictureUnwatched
    <2>3. CASE DogTapClosed
      <3>1. CASE run = "held"
        BY <2>3, <3>1, OwnedTaken DEF DogTapClosed
      <3> QED BY <2>3, <3>1 DEF DogTapClosed, TakesRun, OwnedOf
    <2>4. CASE CloseTakesRun
      BY <2>4, OwnedTaken DEF CloseTakesRun
    <2> QED BY <1>5, <2>1, <2>2, <2>3, <2>4 DEF Resumes
  <1>6. CASE Watchdog
    BY <1>6, OwnedKept DEF Watchdog, LooksAway, Barks, process, owner
  <1>7. CASE Stop
    <2>1. CASE Joins
      <3>1. /\ stop.at = "joining" /\ joined' = (demux = "ended") /\ stop'.at = "reaping"
            /\ UNCHANGED <<run, stdout, demux>>
        BY <2>1 DEF Joins, process
      <3> QED BY <3>1 DEF OwnedOf
    <2>2. CASE Reaps
      <3>1. /\ stop.at = "reaping" /\ stdout' = (IF joined THEN "closed" ELSE stdout)
            /\ stop'.at = "cleared" /\ UNCHANGED <<run, joined, demux>>
        BY <2>2 DEF Reaps
      <3> QED BY <3>1 DEF OwnedOf
    <2>3. CASE GaveUp \/ DogStopped \/ CloseStopped
      BY <2>3, OwnedStopped DEF GaveUp, DogStopped, CloseStopped
    <2> QED BY <1>7, <2>1, <2>2, <2>3 DEF Stop
  <1>8. CASE Starts
    <2>1. run = "none" /\ run' = "held" /\ UNCHANGED <<stdout, stop, joined>>
      BY <1>8 DEF Starts, EncoderStarts, Arming
    <2> QED BY <2>1 DEF OwnedOf
  <1>9. CASE StartFails \/ Asks \/ Closes
    BY <1>9, OwnedKept DEF StartFails, Asks, Closes, process, owner
  <1>10. CASE WaitUnwatched \/ CloseUnwatched
    BY <1>10, OwnedTaken DEF WaitUnwatched, CloseUnwatched
  <1>11. CASE WaitForestalled \/ CloseForestalled
    BY <1>11, OwnedKept DEF WaitForestalled, CloseForestalled, process, owner
  <1>12. CASE UNCHANGED vars
    BY <1>12, OwnedKept DEF vars, process, owner
  <1> QED BY <1>1, <1>2, <1>3, <1>4, <1>5, <1>6, <1>7, <1>8, <1>9, <1>10, <1>11, <1>12
          DEF Next, Unwatched

-----------------------------------------------------------------------------
(* The packets that were posted.                                           *)

\* A packet, or a sentinel, is posted behind what there is.
LEMMA PostedAppends ==
    ASSUME PostedOf, NEW item \in {End, stamped + 1},
           posted' = Append(posted, item), UNCHANGED enqueued,
           stamped' = IF item = End THEN stamped ELSE item
    PROVE  PostedOf'
  <1>1. /\ posted \in Seq(Nat) /\ stamped \in Nat /\ enqueued \in Nat /\ enqueued <= stamped
        /\ Len(posted) \in Nat /\ item \in Nat
    BY DEF PostedOf, End
  <1>2. /\ posted' \in Seq(Nat) /\ Len(posted') = Len(posted) + 1
        /\ \A i \in 1..Len(posted) : posted'[i] = posted[i]
        /\ posted'[Len(posted')] = item
    BY <1>1
  <1>3. /\ stamped' \in Nat /\ stamped <= stamped' /\ enqueued' <= stamped'
        /\ enqueued' \in Nat
        /\ item # End => item = stamped + 1 /\ item = stamped'
        /\ item = End => stamped' = stamped
    BY <1>1
  <1>4. ASSUME NEW i \in 1..Len(posted'), posted'[i] # End
        PROVE  posted'[i] > enqueued /\ posted'[i] <= stamped'
    <2>1. CASE i = Len(posted')
      BY <1>1, <1>2, <1>3, <1>4, <2>1
    <2>2. CASE i # Len(posted')
      <3>1. i \in 1..Len(posted)
        BY <1>1, <1>2, <2>2
      <3>2. posted[i] > enqueued /\ posted[i] <= stamped /\ posted[i] \in Nat
        BY <1>1, <1>2, <1>4, <3>1 DEF PostedOf
      <3> QED BY <1>1, <1>2, <1>3, <3>1, <3>2
    <2> QED BY <2>1, <2>2
  <1>5. ASSUME NEW i \in 1..Len(posted'), NEW j \in 1..Len(posted'),
               i < j, posted'[i] # End, posted'[j] # End
        PROVE  posted'[i] < posted'[j]
    <2>1. i \in 1..Len(posted)
      BY <1>1, <1>2, <1>5
    <2>2. posted[i] <= stamped /\ posted[i] \in Nat /\ posted'[i] = posted[i]
      <3>1. posted'[i] = posted[i] /\ posted[i] # End /\ posted[i] \in Nat
        BY <1>1, <1>2, <1>5, <2>1
      <3> QED BY <2>1, <3>1 DEF PostedOf
    <2>3. CASE j = Len(posted')
      BY <1>1, <1>2, <1>3, <1>5, <2>2, <2>3
    <2>4. CASE j # Len(posted')
      <3>1. j \in 1..Len(posted)
        BY <1>1, <1>2, <2>4
      <3> QED BY <1>2, <1>5, <2>1, <3>1 DEF PostedOf
    <2> QED BY <2>3, <2>4
  <1>6. ASSUME NEW n \in Nat, enqueued < n, n <= stamped'
        PROVE  \E i \in 1..Len(posted') : posted'[i] = n
    <2>1. CASE n <= stamped
      <3>1. PICK i \in 1..Len(posted) : posted[i] = n
        BY <1>6, <2>1 DEF PostedOf
      <3>2. i \in 1..Len(posted') /\ posted'[i] = n
        BY <1>1, <1>2, <3>1
      <3> QED BY <3>2
    <2>2. CASE ~(n <= stamped)
      <3>1. n = item
        BY <1>1, <1>3, <1>6, <2>2
      <3>2. Len(posted') \in 1..Len(posted')
        BY <1>1, <1>2
      <3> QED BY <1>2, <3>1, <3>2
    <2> QED BY <2>1, <2>2
  <1> QED BY <1>2, <1>3, <1>4, <1>5, <1>6 DEF PostedOf

\* The first packet that was posted is the one after the last that was enqueued.
LEMMA NextPosted ==
    ASSUME PostedOf, posted # <<>>, Head(posted) # End
    PROVE  Head(posted) = enqueued + 1
  <1>1. /\ posted \in Seq(Nat) /\ stamped \in Nat /\ enqueued \in Nat
        /\ Len(posted) \in Nat /\ Len(posted) >= 1 /\ Head(posted) = posted[1]
    BY DEF PostedOf
  <1>2. 1 \in 1..Len(posted) /\ posted[1] \in Nat
    BY <1>1
  <1>3. posted[1] > enqueued /\ posted[1] <= stamped
    BY <1>1, <1>2 DEF PostedOf
  <1>4. enqueued < enqueued + 1 /\ enqueued + 1 <= stamped /\ enqueued + 1 \in Nat
    BY <1>1, <1>2, <1>3
  <1>5. PICK i \in 1..Len(posted) : posted[i] = enqueued + 1
    BY <1>4 DEF PostedOf
  <1>6. CASE i = 1
    BY <1>1, <1>5, <1>6
  <1>7. CASE i # 1
    <2>1. 1 < i /\ posted[i] # End
      BY <1>1, <1>5, <1>7 DEF End
    <2>2. posted[1] < posted[i]
      BY <1>1, <1>2, <1>5, <2>1 DEF PostedOf
    <2> QED BY <1>1, <1>2, <1>3, <1>5, <2>2
  <1> QED BY <1>6, <1>7

LEMMA PostedRuns ==
    ASSUME PostedOf, RunsPosted
    PROVE  PostedOf'
  <1>1. /\ posted \in Seq(Nat) /\ stamped \in Nat /\ enqueued \in Nat /\ enqueued <= stamped
        /\ Len(posted) \in Nat /\ posted # <<>> /\ Head(posted) = posted[1]
        /\ posted' = Tail(posted) /\ stamped' = stamped
    BY DEF PostedOf, RunsPosted
  <1>2. /\ posted' \in Seq(Nat) /\ Len(posted') = Len(posted) - 1 /\ Len(posted') \in Nat
        /\ \A i \in 1..Len(posted') : posted'[i] = posted[i + 1] /\ i + 1 \in 1..Len(posted)
        /\ 1 \in 1..Len(posted)
    BY <1>1
  <1>3. \/ posted[1] = End /\ enqueued' = enqueued
        \/ posted[1] # End /\ enqueued' = posted[1] /\ posted[1] = enqueued + 1
    BY <1>1, NextPosted DEF RunsPosted
  <1>4. /\ enqueued' \in Nat /\ enqueued' <= stamped' /\ enqueued <= enqueued'
        /\ posted[1] # End => posted[1] <= stamped
    BY <1>1, <1>2, <1>3 DEF PostedOf
  <1>5. ASSUME NEW i \in 1..Len(posted'), posted'[i] # End
        PROVE  posted'[i] > enqueued' /\ posted'[i] <= stamped'
    <2>1. posted[i + 1] > enqueued /\ posted[i + 1] <= stamped
      BY <1>2, <1>5 DEF PostedOf
    <2>2. posted[1] # End => posted[1] < posted[i + 1]
      <3>1. 1 < i + 1
        BY <1>2
      <3> QED BY <1>2, <1>5, <3>1 DEF PostedOf
    <2> QED BY <1>1, <1>2, <1>3, <2>1, <2>2
  <1>6. ASSUME NEW i \in 1..Len(posted'), NEW j \in 1..Len(posted'),
               i < j, posted'[i] # End, posted'[j] # End
        PROVE  posted'[i] < posted'[j]
    <2>1. i + 1 < j + 1
      BY <1>2, <1>6
    <2> QED BY <1>2, <1>6, <2>1 DEF PostedOf
  <1>7. ASSUME NEW n \in Nat, enqueued' < n, n <= stamped'
        PROVE  \E i \in 1..Len(posted') : posted'[i] = n
    <2>1. enqueued < n /\ n # posted[1]
      BY <1>1, <1>3, <1>4, <1>7 DEF End
    <2>2. PICK i \in 1..Len(posted) : posted[i] = n
      BY <1>1, <1>7, <2>1 DEF PostedOf
    <2>3. i # 1
      BY <2>1, <2>2
    <2>4. (i - 1) \in 1..Len(posted') /\ (i - 1) + 1 = i
      BY <1>1, <1>2, <2>3
    <2>5. posted'[i - 1] = n
      BY <1>2, <2>2, <2>4
    <2> QED BY <2>4, <2>5
  <1> QED BY <1>2, <1>1, <1>4, <1>5, <1>6, <1>7 DEF PostedOf

-----------------------------------------------------------------------------
(* The queue of the track.                                                 *)

LEMMA HeldAppends ==
    ASSUME NEW queued, NEW gone, NEW last, Held(queued, gone, last), Len(queued) < Depth,
           NEW item \in {End, last + 1}
    PROVE  Held(Append(queued, item), gone, IF item = End THEN last ELSE item)
  <1> DEFINE q == Append(queued, item)
             n == IF item = End THEN last ELSE item
  <1>1. /\ queued \in Seq(Nat) /\ Len(queued) \in Nat /\ Depth \in Nat
        /\ gone \in Nat /\ last \in Nat /\ gone <= last /\ item \in Nat
    BY DownlinkAssumption DEF Held, End
  <1>2. /\ q \in Seq(Nat) /\ Len(q) = Len(queued) + 1
        /\ \A i \in 1..Len(queued) : q[i] = queued[i]
        /\ q[Len(q)] = item
    BY <1>1
  <1>3. /\ n \in Nat /\ gone <= n /\ last <= n /\ n <= last + 1
        /\ item # End => item = n /\ item > last
    BY <1>1 DEF End
  <1>4. \A i \in 1..Len(queued) : queued[i] \in Nat
    BY <1>1
  <1> HIDE DEF q, n
  <1>5. ASSUME NEW i \in 1..Len(q), q[i] # End
        PROVE  q[i] > gone /\ q[i] <= n /\ n + i <= q[i] + Len(q)
    <2>1. CASE i = Len(q)
      BY <1>1, <1>2, <1>3, <1>5, <2>1
    <2>2. CASE i # Len(q)
      <3>1. i \in 1..Len(queued)
        BY <1>1, <1>2, <2>2
      <3>2. q[i] = queued[i] /\ queued[i] \in Nat /\ queued[i] # End
        BY <1>2, <1>4, <1>5, <3>1
      <3>3. queued[i] > gone /\ queued[i] <= last /\ last + i <= queued[i] + Len(queued)
        BY <3>1, <3>2 DEF Held
      <3>4. i \in Nat /\ Len(q) = Len(queued) + 1
        BY <1>2, <3>1
      <3>5. q[i] > gone /\ q[i] <= n
        BY <1>1, <1>3, <3>2, <3>3
      <3>6. n + i <= q[i] + Len(q)
        BY <1>1, <1>3, <3>2, <3>3, <3>4
      <3> QED BY <3>5, <3>6
    <2> QED BY <2>1, <2>2
  <1>6. ASSUME NEW i \in 1..Len(q), NEW j \in 1..Len(q), i < j, q[i] # End, q[j] # End
        PROVE  q[i] < q[j]
    <2>1. i \in 1..Len(queued)
      BY <1>1, <1>2, <1>6
    <2>2. q[i] = queued[i] /\ queued[i] \in Nat /\ queued[i] # End
      BY <1>2, <1>4, <1>6, <2>1
    <2>3. CASE j = Len(q)
      <3>1. queued[i] <= last
        BY <2>1, <2>2 DEF Held
      <3> QED BY <1>1, <1>2, <1>3, <1>6, <2>2, <2>3, <3>1
    <2>4. CASE j # Len(q)
      <3>1. j \in 1..Len(queued)
        BY <1>1, <1>2, <2>4
      <3>2. q[j] = queued[j]
        BY <1>2, <3>1
      <3> QED BY <1>6, <2>1, <2>2, <3>1, <3>2 DEF Held
    <2> QED BY <2>3, <2>4
  <1>7. Len(q) <= Depth
    BY <1>1, <1>2
  <1> QED BY <1>1, <1>2, <1>3, <1>5, <1>6, <1>7 DEF Held, q, n

\* The first goes: what is left is later, if it was a packet.
LEMMA HeldTail ==
    ASSUME NEW queued, NEW gone, NEW last, Held(queued, gone, last), queued # <<>>
    PROVE  /\ Held(Tail(queued), gone, last) /\ Len(Tail(queued)) < Depth
           /\ Head(queued) # End =>
                 /\ Held(Tail(queued), Head(queued), last)
                 /\ Head(queued) \in (gone + 1)..last /\ last < Head(queued) + Depth
  <1> DEFINE q == Tail(queued)
             first == Head(queued)
  <1>1. /\ queued \in Seq(Nat) /\ Len(queued) \in Nat /\ Len(queued) <= Depth
        /\ Depth \in Nat /\ gone \in Nat /\ last \in Nat /\ gone <= last
    BY DownlinkAssumption DEF Held
  <1>2. /\ q \in Seq(Nat) /\ Len(q) = Len(queued) - 1 /\ Len(q) \in Nat
        /\ \A i \in 1..Len(q) : q[i] = queued[i + 1] /\ i + 1 \in 1..Len(queued)
        /\ first = queued[1] /\ 1 \in 1..Len(queued) /\ first \in Nat
    BY <1>1
  <1>3. \A i \in 1..Len(queued) : queued[i] \in Nat
    BY <1>1
  <1> HIDE DEF q, first
  <1>4. Len(q) < Depth
    BY <1>1, <1>2
  <1>5. ASSUME NEW i \in 1..Len(q), q[i] # End
        PROVE  /\ q[i] > gone /\ q[i] <= last /\ last + i <= q[i] + Len(q)
               /\ first # End => q[i] > first
    <2>1. i + 1 \in 1..Len(queued) /\ q[i] = queued[i + 1] /\ queued[i + 1] \in Nat
      BY <1>2, <1>3
    <2>2. /\ queued[i + 1] > gone /\ queued[i + 1] <= last
          /\ last + (i + 1) <= queued[i + 1] + Len(queued)
      BY <1>5, <2>1 DEF Held
    <2>3. first # End => first < queued[i + 1]
      <3>1. 1 < i + 1
        BY <1>2
      <3> QED BY <1>2, <1>5, <2>1, <3>1 DEF Held
    <2>4. i \in Nat /\ Len(q) = Len(queued) - 1 /\ first \in Nat
      BY <1>2
    <2>5. last + i <= q[i] + Len(q)
      <3> DEFINE later == q[i]
      <3>1. /\ later \in Nat /\ last \in Nat /\ i \in Nat
            /\ Len(queued) \in Nat /\ Len(q) = Len(queued) - 1
        BY <1>1, <2>1, <2>4
      <3>2. last + (i + 1) <= later + Len(queued)
        BY <2>1, <2>2
      <3> HIDE DEF later
      <3>3. last + i <= later + Len(q)
        BY <3>1, <3>2
      <3> QED BY <3>3 DEF later
    <2>6. first # End => q[i] > first
      BY <2>1, <2>3, <2>4
    <2> QED BY <2>1, <2>2, <2>5, <2>6
  <1>6. ASSUME NEW i \in 1..Len(q), NEW j \in 1..Len(q), i < j, q[i] # End, q[j] # End
        PROVE  q[i] < q[j]
    <2>1. i + 1 < j + 1
      BY <1>2, <1>6
    <2>2. /\ i + 1 \in 1..Len(queued) /\ q[i] = queued[i + 1]
          /\ j + 1 \in 1..Len(queued) /\ q[j] = queued[j + 1]
      BY <1>2
    <2> QED BY <1>6, <2>1, <2>2 DEF Held
  <1>7. Held(q, gone, last)
    BY <1>1, <1>2, <1>4, <1>5, <1>6 DEF Held
  <1>8. ASSUME first # End
        PROVE  /\ Held(q, first, last)
               /\ first \in (gone + 1)..last /\ last < first + Depth
    <2>1. first > gone /\ first <= last /\ last + 1 <= first + Len(queued)
      BY <1>2, <1>8 DEF Held
    <2>2. q \in Seq(Nat) /\ Len(q) <= Depth /\ first \in Nat
      BY <1>1, <1>2, <1>4
    <2>3. \A i \in 1..Len(q) : q[i] # End =>
            q[i] > first /\ q[i] <= last /\ last + i <= q[i] + Len(q)
      BY <1>5, <1>8
    <2>4. \A i, j \in 1..Len(q) : i < j /\ q[i] # End /\ q[j] # End => q[i] < q[j]
      BY <1>6
    <2>5. Held(q, first, last)
      BY <1>1, <2>1, <2>2, <2>3, <2>4 DEF Held
    <2> QED BY <1>1, <1>2, <2>1, <2>5
  <1> QED BY <1>4, <1>7, <1>8 DEF q, first

\* A packet enters: it pushes the oldest out of a full queue.
LEMMA HeldEnters ==
    ASSUME QueuedOf, enqueued + 1 # End
    PROVE  Held(Entered(enqueued + 1), handed, enqueued + 1)
  <1>1. CASE Len(packets) = Depth
    <2>1. packets # <<>>
      BY <1>1, DownlinkAssumption
    <2>2. Held(Tail(packets), handed, enqueued) /\ Len(Tail(packets)) < Depth
      BY <2>1, HeldTail DEF QueuedOf
    <2>3. Held(Append(Tail(packets), enqueued + 1), handed, enqueued + 1)
      BY <2>2, HeldAppends
    <2> QED BY <1>1, <2>3 DEF Entered
  <1>2. CASE Len(packets) # Depth
    <2>1. Len(packets) < Depth
      BY <1>2, DownlinkAssumption DEF QueuedOf, Held
    <2>2. Held(Append(packets, enqueued + 1), handed, enqueued + 1)
      BY <2>1, HeldAppends DEF QueuedOf
    <2> QED BY <1>2, <2>2 DEF Entered
  <1> QED BY <1>1, <1>2

LEMMA QueuedRuns ==
    ASSUME PostedOf, QueuedOf, RunsPosted
    PROVE  QueuedOf'
  <1>1. CASE Head(posted) # End
    <2>1. /\ enqueued' = enqueued + 1 /\ packets' = Entered(enqueued + 1) /\ handed' = handed
          /\ enqueued + 1 # End
      BY <1>1, NextPosted DEF RunsPosted
    <2>2. Held(packets', handed', enqueued')
      BY <2>1, HeldEnters
    <2> QED BY <2>2 DEF QueuedOf
  <1>2. CASE Head(posted) = End
    <2>1. /\ UNCHANGED <<enqueued, handed>>
          /\ packets' = (IF Len(packets) = Depth THEN packets ELSE Append(packets, End))
      BY <1>2 DEF RunsPosted
    <2>2. CASE Len(packets) = Depth
      BY <2>1, <2>2 DEF QueuedOf
    <2>3. CASE Len(packets) # Depth
      <3>1. Len(packets) < Depth
        BY <2>3, DownlinkAssumption DEF QueuedOf, Held
      <3>2. Held(Append(packets, End), handed, enqueued)
        BY <3>1, HeldAppends DEF QueuedOf
      <3> QED BY <2>1, <2>3, <3>2 DEF QueuedOf
    <2> QED BY <2>2, <2>3
  <1> QED BY <1>1, <1>2

LEMMA QueuedGets ==
    ASSUME QueuedOf, Gets
    PROVE  /\ QueuedOf'
           /\ handed' = handed
              \/ (handed' \in (handed + 1)..enqueued /\ enqueued < handed' + Depth)
  <1>1. packets # <<>> /\ packets' = Tail(packets) /\ enqueued' = enqueued
    BY DEF Gets
  <1>2. CASE handed' = handed
    <2>1. Held(Tail(packets), handed, enqueued)
      BY <1>1, HeldTail DEF QueuedOf
    <2> QED BY <1>1, <1>2, <2>1 DEF QueuedOf
  <1>3. CASE handed' = Head(packets) /\ Head(packets) # End
    <2>1. /\ Held(Tail(packets), Head(packets), enqueued)
          /\ Head(packets) \in (handed + 1)..enqueued /\ enqueued < Head(packets) + Depth
      BY <1>1, <1>3, HeldTail DEF QueuedOf
    <2>2. Held(packets', handed', enqueued')
      BY <1>1, <1>3, <2>1
    <2> QED BY <1>3, <2>1, <2>2 DEF QueuedOf
  <1> QED BY <1>2, <1>3 DEF Gets

-----------------------------------------------------------------------------
(* The steps.                                                              *)

\* What a step does of the media: the thread posts, the loop enqueues, the reader takes, or
\* somebody ends the track.
LEMMA MediaSteps ==
    ASSUME [Next]_vars
    PROVE  \/ Posts \/ RunsPosted \/ Gets
           \/ TrackStops /\ UNCHANGED <<stamped, packets, enqueued, handed>>
           \/ UNCHANGED media
  <1> USE DEF media
  <1>1. CASE Writes \/ EncoderOpens \/ EncoderFails \/ EncoderExits
    BY <1>1 DEF Writes, EncoderOpens, EncoderFails, EncoderExits, line
  <1>2. CASE Thread
    BY <1>2 DEF Thread, ReadsHeader, ReadsPacket, Sinks, DemuxEnds, line
  <1>3. CASE Track
    BY <1>3 DEF Track, Receives, Hands
  <1>4. CASE Worker
    BY <1>4 DEF Worker, Runs, line
  <1>5. CASE Resumes
    <2>1. CASE NoPictureNoRun \/ CloseFindsNoRun
      BY <2>1 DEF NoPictureNoRun, CloseFindsNoRun
    <2>2. CASE Discards \/ ArmTook \/ ArmRaced \/ ArmRefused \/ NoPicture \/ NoPictureUnwatched
      BY <2>2 DEF Discards, ArmTook, ArmRaced, ArmRefused, NoPicture, NoPictureUnwatched, line
    <2>3. CASE DogTapClosed \/ CloseUnwatches \/ CloseTakesRun
      BY <2>3 DEF DogTapClosed, CloseUnwatches, CloseTakesRun, line
    <2> QED BY <1>5, <2>1, <2>2, <2>3 DEF Resumes
  <1>6. CASE Watchdog
    BY <1>6 DEF Watchdog, LooksAway, Barks, line
  <1>7. CASE Stop
    <2>1. CASE Joins \/ Reaps
      BY <2>1 DEF Joins, Reaps, line
    <2>2. CASE GaveUp \/ DogStopped \/ CloseStopped
      BY <2>2 DEF GaveUp, DogStopped, CloseStopped, Stopped
    <2> QED BY <1>7, <2>1, <2>2 DEF Stop
  <1>8. CASE Starts \/ StartFails \/ Asks \/ Closes
    BY <1>8 DEF Starts, EncoderStarts, StartFails, Asks, Closes, line
  <1>9. CASE Unwatched
    BY <1>9 DEF Unwatched, WaitUnwatched, WaitForestalled, CloseUnwatched, CloseForestalled, line
  <1>10. CASE UNCHANGED vars
    BY <1>10 DEF vars, line
  <1> QED BY <1>1, <1>2, <1>3, <1>4, <1>5, <1>6, <1>7, <1>8, <1>9, <1>10 DEF Next

LEMMA MediaKept ==
    ASSUME PostedOf, QueuedOf, [Next]_vars
    PROVE  PostedOf' /\ QueuedOf'
  <1>1. CASE Posts
    <2>1. /\ posted' = Append(posted, stamped + 1) /\ stamped' = stamped + 1
          /\ UNCHANGED <<packets, enqueued, handed>>
      BY <1>1 DEF Posts
    <2>2. stamped + 1 # End
      BY DEF PostedOf, End
    <2>3. PostedOf'
      BY <2>1, <2>2, PostedAppends
    <2> QED BY <2>1, <2>3 DEF QueuedOf
  <1>2. CASE RunsPosted
    BY <1>2, PostedRuns, QueuedRuns
  <1>3. CASE Gets
    <2>1. UNCHANGED <<posted, stamped, enqueued>>
      BY <1>3 DEF Gets
    <2>2. PostedOf'
      BY <2>1 DEF PostedOf
    <2> QED BY <1>3, <2>2, QueuedGets
  <1>4. CASE TrackStops /\ UNCHANGED <<stamped, packets, enqueued, handed>>
    <2>1. posted' = Append(posted, End) /\ stamped' = stamped /\ enqueued' = enqueued
      BY <1>4 DEF TrackStops
    <2>2. PostedOf'
      BY <2>1, PostedAppends
    <2> QED BY <1>4, <2>2 DEF QueuedOf
  <1>5. CASE UNCHANGED media
    BY <1>5 DEF media, PostedOf, QueuedOf
  <1> QED BY <1>1, <1>2, <1>3, <1>4, <1>5, MediaSteps

-----------------------------------------------------------------------------
(* Types.                                                                  *)

LEMMA Removed ==
    ASSUME NEW S, NEW q \in Seq(S), NEW at, at \subseteq 2..Len(q)
    PROVE  Without(q, at) \in Seq(S)
  <1>1. CASE at = {}
    BY <1>1 DEF Without
  <1>2. CASE at # {}
    <2> DEFINE m == CHOOSE i \in at : TRUE
               u == [k \in 1..(Len(q) - 1) |-> IF k < m THEN q[k] ELSE q[k + 1]]
    <2>1. m \in 2..Len(q)
      BY <1>2
    <2>2. Without(q, at) = u
      BY <1>2 DEF Without
    <2> HIDE DEF m
    <2>3. Len(q) - 1 \in Nat
      BY <2>1
    <2>4. ASSUME NEW k \in 1..(Len(q) - 1)
          PROVE  (IF k < m THEN q[k] ELSE q[k + 1]) \in S
      <3>1. k \in 1..Len(q) /\ k + 1 \in 1..Len(q)
        BY <2>3
      <3> QED BY <3>1
    <2>5. u \in [1..(Len(q) - 1) -> S]
      BY <2>4
    <2> QED BY <2>2, <2>3, <2>5
  <1> QED BY <1>1, <1>2

\* The recorder and the worker.
Jobs    == [by : Owners, cmd : {"open", "close"}]
Answers == [by : Owners, out : Outcomes]
NativeTypes ==
    /\ recorder \in {"off", "writing", "blocked", "broken"}
    /\ queue \in Seq(Jobs) /\ returned \in Seq(Answers)

LEMMA Queued ==
    ASSUME NativeTypes, NEW by \in Owners, NEW cmd \in {"open", "close"}
    PROVE  /\ Kept(by) \in Seq(Jobs)
           /\ Append(queue, Job(by, cmd)) \in Seq(Jobs)
           /\ \A o \in Owners : Append(Kept(o), Job(by, cmd)) \in Seq(Jobs)
  <1>1. \A o : Kept(o) \in Seq(Jobs)
    <2> TAKE o
    <2> DEFINE at == {i \in 2..Len(queue) : queue[i].by = o}
    <2>1. Kept(o) = Without(queue, at) /\ at \subseteq 2..Len(queue) /\ queue \in Seq(Jobs)
      BY DEF Kept, NativeTypes
    <2> HIDE DEF at
    <2> QED BY <2>1, Removed
  <1>2. Job(by, cmd) \in Jobs
    BY DEF Job, Jobs
  <1>3. queue \in Seq(Jobs)
    BY DEF NativeTypes
  <1> QED BY <1>1, <1>2, <1>3

LEMMA Took ==
    ASSUME NativeTypes, NEW by, NEW out, Continues(by, out)
    PROVE  returned' \in Seq(Answers)
  BY DEF NativeTypes, Continues

LEMMA WorkerTypes ==
    ASSUME NativeTypes, NEW out \in Outcomes, Runs(out)
    PROVE  NativeTypes'
  <1>1. queue # <<>> /\ queue \in Seq(Jobs) /\ returned \in Seq(Answers)
    BY DEF Runs, NativeTypes
  <1>2. Head(queue) \in Jobs /\ Tail(queue) \in Seq(Jobs)
    BY <1>1
  <1>3. [by |-> Head(queue).by, out |-> out] \in Answers
    BY <1>2 DEF Jobs, Answers
  <1>4. queue' = Tail(queue) /\ returned' = Append(returned, [by |-> Head(queue).by, out |-> out])
    BY DEF Runs
  <1>5. returned' \in Seq(Answers)
    BY <1>1, <1>3, <1>4
  <1>6. recorder' \in {"off", "writing", "blocked", "broken"}
    BY DEF Runs, NativeTypes
  <1> QED BY <1>2, <1>4, <1>5, <1>6 DEF NativeTypes

LEMMA NativeSteps ==
    ASSUME NativeTypes, [Next]_vars
    PROVE  NativeTypes'
  <1> DEFINE Same == UNCHANGED native
  <1>0. Same => NativeTypes'
    BY DEF NativeTypes, native
  <1>1. CASE Writes
    BY <1>1 DEF Writes, NativeTypes
  <1>2. CASE EncoderOpens \/ EncoderFails \/ EncoderExits \/ Thread
    BY <1>0, <1>2 DEF EncoderOpens, EncoderFails, EncoderExits,
                      Thread, ReadsHeader, ReadsPacket, Sinks, Posts, DemuxEnds
  <1>3. CASE Track
    BY <1>0, <1>3 DEF Track, RunsPosted, Receives, Gets, Hands
  <1>4. CASE Worker
    BY <1>4, WorkerTypes DEF Worker
  <1>5. CASE Resumes
    <2>1. CASE Discards
      <3>1. \E by, out : Continues(by, out)
        BY <2>1 DEF Discards
      <3>2. returned' \in Seq(Answers)
        BY <3>1, Took
      <3> QED BY <2>1, <3>2 DEF Discards, NativeTypes
    <2>2. CASE ArmTook \/ NoPicture \/ NoPictureUnwatched \/ NoPictureNoRun
      <3>1. returned' \in Seq(Answers)
        BY <2>2, Took DEF ArmTook, NoPicture, NoPictureUnwatched, NoPictureNoRun
      <3> QED BY <2>2, <3>1 DEF ArmTook, NoPicture, NoPictureUnwatched, NoPictureNoRun, NativeTypes
    <2>3. CASE ArmRaced
      <3>1. returned' \in Seq(Answers)
        BY <2>3, Took DEF ArmRaced
      <3>2. queue' \in Seq(Jobs)
        BY <2>3, Queued DEF ArmRaced, Owners
      <3> QED BY <2>3, <3>1, <3>2 DEF ArmRaced, NativeTypes
    <2>4. CASE ArmRefused
      <3>1. returned' \in Seq(Answers)
        BY <2>4, Took DEF ArmRefused
      <3> QED BY <2>4, <3>1 DEF ArmRefused, NativeTypes
    <2>5. CASE DogTapClosed \/ CloseTakesRun \/ CloseFindsNoRun
      <3>1. returned' \in Seq(Answers)
        BY <2>5, Took DEF DogTapClosed, CloseTakesRun, CloseFindsNoRun
      <3> QED BY <2>5, <3>1 DEF DogTapClosed, CloseTakesRun, CloseFindsNoRun, NativeTypes
    <2>6. CASE CloseUnwatches
      <3>1. returned' \in Seq(Answers)
        BY <2>6, Took DEF CloseUnwatches
      <3>2. queue' \in Seq(Jobs)
        BY <2>6, Queued DEF CloseUnwatches, Owners
      <3> QED BY <2>6, <3>1, <3>2 DEF CloseUnwatches, NativeTypes
    <2> QED BY <1>5, <2>1, <2>2, <2>3, <2>4, <2>5, <2>6 DEF Resumes
  <1>6. CASE LooksAway
    BY <1>0, <1>6 DEF LooksAway
  <1>7. CASE Barks \/ Asks \/ Closes
    <2>1. queue' \in Seq(Jobs)
      BY <1>7, Queued DEF Barks, Asks, Closes, Owners
    <2> QED BY <1>7, <2>1 DEF Barks, Asks, Closes, NativeTypes
  <1>8. CASE Stop
    BY <1>0, <1>8 DEF Stop, Joins, Reaps, GaveUp, DogStopped, CloseStopped, Stopped
  <1>9. CASE Starts \/ StartFails \/ UNCHANGED vars
    BY <1>0, <1>9 DEF Starts, EncoderStarts, StartFails, vars
  <1>10. CASE Unwatched
    BY <1>0, <1>10 DEF Unwatched, WaitUnwatched, WaitForestalled, CloseUnwatched, CloseForestalled
  <1> QED BY <1>1, <1>2, <1>3, <1>4, <1>5, <1>6, <1>7, <1>8, <1>9, <1>10 DEF Next, Watchdog

\* The encoder, the demux thread, and who stops them.
RunTypes ==
    /\ pipe \in {"none", "made", "cleared"}
    /\ standby \in BOOLEAN
    /\ encoder \in {"none", "starting", "draining", "hung", "dying", "exited", "reaped"}
    /\ stdout \in {"open", "closed"}
    /\ demux \in {"none", "opening", "reading", "sinking", "posting", "ended"}
    /\ stopping \in BOOLEAN
    /\ run \in {"none", "held", "taken"}
    /\ stop \in [by : Owners \cup {"nobody"}, at : {"no", "joining", "reaping", "cleared"}]
    /\ joined \in BOOLEAN

LEMMA RunTaken ==
    ASSUME RunTypes, NEW by \in Owners, TakesRun(by),
           UNCHANGED <<pipe, stdout, demux, joined>>
    PROVE  RunTypes'
  BY DEF RunTypes, TakesRun, Killed

LEMMA StopGoesOn ==
    ASSUME RunTypes, NEW now \in {"reaping", "cleared"}, stop' = [stop EXCEPT !.at = now]
    PROVE  stop' \in [by : Owners \cup {"nobody"}, at : {"no", "joining", "reaping", "cleared"}]
  BY DEF RunTypes

LEMMA RunSteps ==
    ASSUME RunTypes, [Next]_vars
    PROVE  RunTypes'
  <1>0. UNCHANGED <<process, owner>> => RunTypes'
    BY DEF RunTypes, process, owner
  <1>1. CASE Writes \/ Worker \/ Track
    BY <1>0, <1>1 DEF Writes, Worker, Runs, Track, RunsPosted, Receives, Gets, Hands
  <1>2. CASE EncoderOpens \/ EncoderFails \/ EncoderExits
    BY <1>2 DEF EncoderOpens, EncoderFails, EncoderExits, RunTypes, owner
  <1>3. CASE Thread
    <2>1. CASE ReadsHeader
      BY <2>1 DEF ReadsHeader, RunTypes, owner
    <2>2. CASE ReadsPacket
      BY <2>2 DEF ReadsPacket, RunTypes, owner
    <2>3. CASE Sinks
      BY <2>3 DEF Sinks, RunTypes, owner
    <2>4. CASE Posts
      BY <2>4 DEF Posts, RunTypes, owner
    <2>5. CASE DemuxEnds
      BY <2>5 DEF DemuxEnds, RunTypes, owner
    <2> QED BY <1>3, <2>1, <2>2, <2>3, <2>4, <2>5 DEF Thread
  <1>4. CASE Resumes
    <2>1. CASE \/ Discards \/ ArmTook \/ ArmRaced \/ ArmRefused \/ NoPicture \/ NoPictureNoRun
               \/ CloseUnwatches \/ CloseFindsNoRun
      BY <1>0, <2>1 DEF Discards, ArmTook, ArmRaced, ArmRefused, NoPicture, NoPictureNoRun,
                        CloseUnwatches, CloseFindsNoRun
    <2>2. CASE NoPictureUnwatched
      BY <2>2, RunTaken DEF NoPictureUnwatched, Owners
    <2>3. CASE DogTapClosed
      BY <2>3, RunTaken DEF DogTapClosed, Owners
    <2>4. CASE CloseTakesRun
      BY <2>4, RunTaken DEF CloseTakesRun, Owners
    <2> QED BY <1>4, <2>1, <2>2, <2>3, <2>4 DEF Resumes
  <1>5. CASE LooksAway \/ Asks \/ Closes \/ UNCHANGED vars
    BY <1>0, <1>5 DEF LooksAway, Asks, Closes, vars
  <1>6. CASE Barks
    BY <1>6 DEF Barks, Killed, RunTypes, owner
  <1>7. CASE Joins
    <2>1. stop' \in [by : Owners \cup {"nobody"}, at : {"no", "joining", "reaping", "cleared"}]
      BY <1>7, StopGoesOn DEF Joins
    <2> QED BY <1>7, <2>1 DEF Joins, RunTypes, process
  <1>8. CASE Reaps
    <2>1. stop' \in [by : Owners \cup {"nobody"}, at : {"no", "joining", "reaping", "cleared"}]
      BY <1>8, StopGoesOn DEF Reaps
    <2> QED BY <1>8, <2>1 DEF Reaps, RunTypes
  <1>9. CASE GaveUp \/ DogStopped \/ CloseStopped
    BY <1>9 DEF GaveUp, DogStopped, CloseStopped, Stopped, RunTypes, process
  <1>10. CASE Starts \/ StartFails
    BY <1>10 DEF Starts, EncoderStarts, StartFails, RunTypes, owner
  <1>11. CASE WaitUnwatched \/ CloseUnwatched
    BY <1>11, RunTaken DEF WaitUnwatched, CloseUnwatched, Owners
  <1>12. CASE WaitForestalled \/ CloseForestalled
    BY <1>0, <1>12 DEF WaitForestalled, CloseForestalled
  <1> QED BY <1>1, <1>2, <1>3, <1>4, <1>5, <1>6, <1>7, <1>8, <1>9, <1>10, <1>11, <1>12
          DEF Next, Watchdog, Stop, Unwatched

\* The tasks of the loop, and the two ends of the track.
TaskTypes ==
    /\ fresh \in BOOLEAN
    /\ dog \in {"none", "watching", "closing", "stopping", "ended"}
    /\ wait \in {"none", "asleep", "arming", "undoing", "arrived", "unwatching", "losing"}
    /\ close \in {"no", "closing", "unwatching", "stopping", "done"}
    /\ track \in {"live", "ended"}
    /\ reader \in {"away", "waiting", "yielding", "ended"}

LEMMA TaskSteps ==
    ASSUME TaskTypes, [Next]_vars
    PROVE  TaskTypes'
  <1>0. UNCHANGED <<tasks, track, reader>> => TaskTypes'
    BY DEF TaskTypes, tasks
  <1>1. CASE Writes \/ Worker \/ EncoderOpens \/ EncoderFails \/ EncoderExits
    BY <1>0, <1>1 DEF Writes, Worker, Runs, EncoderOpens, EncoderFails, EncoderExits, line
  <1>2. CASE Thread
    BY <1>2 DEF Thread, ReadsHeader, ReadsPacket, Sinks, Posts, DemuxEnds, TaskTypes, tasks, line
  <1>3. CASE Track
    BY <1>3 DEF Track, RunsPosted, Receives, Gets, Hands, TaskTypes, tasks
  <1>4. CASE Resumes
    <2>1. CASE Discards \/ ArmTook \/ ArmRaced \/ ArmRefused
      BY <2>1 DEF Discards, ArmTook, ArmRaced, ArmRefused, TaskTypes, tasks, line
    <2>2. CASE NoPictureNoRun \/ CloseFindsNoRun
      BY <2>2 DEF NoPictureNoRun, CloseFindsNoRun, TrackStops, TaskTypes
    <2>3. CASE NoPicture \/ CloseUnwatches
      BY <2>3 DEF NoPicture, CloseUnwatches, Unwatches, TaskTypes, line
    <2>4. CASE NoPictureUnwatched \/ DogTapClosed \/ CloseTakesRun
      BY <2>4 DEF NoPictureUnwatched, DogTapClosed, CloseTakesRun, TaskTypes, line
    <2> QED BY <1>4, <2>1, <2>2, <2>3, <2>4 DEF Resumes
  <1>5. CASE Watchdog
    BY <1>5 DEF Watchdog, LooksAway, Barks, TaskTypes, line
  <1>6. CASE Stop
    BY <1>6 DEF Stop, Joins, Reaps, GaveUp, DogStopped, CloseStopped, Stopped, TrackStops,
                TaskTypes, tasks, line
  <1>7. CASE Starts \/ StartFails \/ Asks \/ Closes
    BY <1>7 DEF Starts, EncoderStarts, StartFails, Asks, Closes, TaskTypes, tasks, line
  <1>8. CASE Unwatched
    BY <1>8 DEF Unwatched, WaitUnwatched, WaitForestalled, CloseUnwatched, CloseForestalled,
                TrackStops, TaskTypes, line
  <1>9. CASE UNCHANGED vars
    BY <1>0, <1>9 DEF vars, line
  <1> QED BY <1>1, <1>2, <1>3, <1>4, <1>5, <1>6, <1>7, <1>8, <1>9 DEF Next

\* The thread stamps one packet for each that there was room for.
StampedOf == stamped \in 0..MaxPackets /\ RoomOf

LEMMA StampedSteps ==
    ASSUME StampedOf, [Next]_vars
    PROVE  StampedOf'
  <1> USE DownlinkAssumption DEF StampedOf, RoomOf
  <1>0. UNCHANGED <<stamped, demux>> => StampedOf'
    OBVIOUS
  <1>1. CASE Writes \/ Worker \/ EncoderOpens \/ EncoderFails \/ EncoderExits
    BY <1>0, <1>1 DEF Writes, Worker, Runs, EncoderOpens, EncoderFails, EncoderExits, process, line
  <1>2. CASE Thread
    <2>1. CASE ReadsHeader \/ ReadsPacket \/ Sinks \/ DemuxEnds
      BY <2>1 DEF ReadsHeader, ReadsPacket, Sinks, DemuxEnds, line
    <2>2. CASE Posts
      BY <2>2 DEF Posts
    <2> QED BY <1>2, <2>1, <2>2 DEF Thread
  <1>3. CASE Track
    BY <1>0, <1>3 DEF Track, RunsPosted, Receives, Gets, Hands, process
  <1>4. CASE Resumes
    BY <1>0, <1>4 DEF Resumes, Discards, ArmTook, ArmRaced, ArmRefused, NoPicture,
                NoPictureUnwatched, NoPictureNoRun, DogTapClosed, CloseUnwatches, CloseTakesRun,
                CloseFindsNoRun, process, line
  <1>5. CASE Watchdog
    BY <1>0, <1>5 DEF Watchdog, LooksAway, Barks, process, line
  <1>6. CASE Stop
    BY <1>0, <1>6 DEF Stop, Joins, Reaps, GaveUp, DogStopped, CloseStopped, Stopped, process, line
  <1>7. CASE Starts \/ StartFails \/ Asks \/ Closes
    BY <1>7 DEF Starts, EncoderStarts, StartFails, Asks, Closes, process, line
  <1>8. CASE Unwatched
    BY <1>0, <1>8 DEF Unwatched, WaitUnwatched, WaitForestalled, CloseUnwatched, CloseForestalled,
                process, line
  <1>9. CASE UNCHANGED vars
    BY <1>0, <1>9 DEF vars, process, line
  <1> QED BY <1>1, <1>2, <1>3, <1>4, <1>5, <1>6, <1>7, <1>8, <1>9 DEF Next

LEMMA Together ==
    /\ NativeTypes /\ RunTypes /\ TaskTypes /\ StampedOf /\ PostedOf /\ QueuedOf
          => TypeOK /\ RoomOf
    /\ NativeTypes' /\ RunTypes' /\ TaskTypes' /\ StampedOf' /\ PostedOf' /\ QueuedOf'
          => TypeOK' /\ RoomOf'
  BY DEF NativeTypes, Jobs, Answers, RunTypes, TaskTypes, StampedOf, PostedOf, QueuedOf, Held, TypeOK

LEMMA Apart == TypeOK /\ RoomOf => NativeTypes /\ RunTypes /\ TaskTypes /\ StampedOf
  BY DEF NativeTypes, Jobs, Answers, RunTypes, TaskTypes, StampedOf, TypeOK

LEMMA Initially == Init => IInv
  <1> SUFFICES ASSUME Init PROVE IInv
    OBVIOUS
  <1>0. Depth \in Nat
    BY DownlinkAssumption
  <1>1. OwnedOf
    BY DEF Init, OwnedOf
  <1>2. PostedOf
    BY DEF Init, PostedOf
  <1>3. QueuedOf
    BY <1>0 DEF Init, QueuedOf, Held
  <1>4. NativeTypes
    BY DEF Init, NativeTypes
  <1>5. RunTypes
    BY DEF Init, RunTypes
  <1>6. TaskTypes
    BY DEF Init, TaskTypes
  <1>7. StampedOf
    BY DownlinkAssumption DEF Init, StampedOf, RoomOf
  <1> QED BY <1>1, <1>2, <1>3, <1>4, <1>5, <1>6, <1>7, Together DEF IInv

LEMMA Steps == IInv /\ [Next]_vars => IInv'
  <1> SUFFICES ASSUME IInv, [Next]_vars PROVE IInv'
    OBVIOUS
  <1>1. NativeTypes /\ RunTypes /\ TaskTypes /\ StampedOf
    BY Apart DEF IInv
  <1>2. NativeTypes' /\ RunTypes' /\ TaskTypes' /\ StampedOf'
    BY <1>1, NativeSteps, RunSteps, TaskSteps, StampedSteps
  <1>3. OwnedOf' /\ PostedOf' /\ QueuedOf'
    BY OwnedSteps, MediaKept DEF IInv
  <1> QED BY <1>2, <1>3, Together DEF IInv

-----------------------------------------------------------------------------
(* What is left of a session: the invariant.                               *)

NoneBy(q, by) == \A i \in 1..Len(q) : q[i].by # by
OneBy(q, by)  == \E i \in 1..Len(q) : /\ q[i].by = by
                                      /\ \A k \in 1..Len(q) : q[k].by = by => k = i

\* The run, from none to its last child: the watchdog lives as long as it is held, until one
\* who is to stop the run awaits its end.
RunOf ==
    /\ run = "none" => /\ encoder = "none" /\ ~standby /\ pipe # "made"
                       /\ dog = "none" /\ wait = "none"
    /\ run = "held" =>
          /\ encoder \notin {"none", "reaped"}
          /\ wait \in {"none", "asleep", "arming", "arrived", "unwatching"}
          /\ \/ dog \in {"watching", "closing"}
             \/ dog = "ended" /\ "unwatching" \in {wait, close}
    /\ run = "taken" =>
          /\ ~standby /\ dog \in {"stopping", "ended"}
          /\ stop.at \in {"joining", "reaping"} => encoder \in {"dying", "exited"}
          /\ stop.at \in {"no", "cleared"} => encoder = "reaped" /\ pipe = "cleared"
    /\ "unwatching" \in {wait, close} => dog = "ended" /\ run # "none"
    /\ close \in {"stopping", "done"} => run # "held"
    /\ close = "done" => track = "ended"
    /\ stop.by = "wait" => wait = "losing"

NoOpen == \A i \in 1..Len(queue) : queue[i].cmd # "open"

\* No tap is open or will be, unless it is closed behind.
Settling ==
    \/ recorder = "off" /\ NoOpen
    \/ \E i \in 1..Len(queue) :
          queue[i].cmd = "close" /\ \A k \in (i + 1)..Len(queue) : queue[k].cmd # "open"

\* Only the wait opens the tap.
OpenOf == \A i \in 1..Len(queue) : queue[i].cmd = "open" => queue[i].by = "wait"

\* The wait has one thing on the worker while it awaits: the tap is closed until that has
\* come back, and open then only if it tells so.  With a picture, or without, it has none.
WaitOf ==
    /\ run = "none" \/ (run = "held" /\ wait = "asleep") =>
          recorder = "off" /\ NoneBy(queue, "wait") /\ NoneBy(returned, "wait")
    /\ wait \in {"arrived", "unwatching"} => NoneBy(queue, "wait") /\ NoneBy(returned, "wait")
    /\ wait = "arming" =>
          \/ recorder = "off" /\ OneBy(queue, "wait") /\ NoneBy(returned, "wait")
          \/ /\ NoneBy(queue, "wait") /\ OneBy(returned, "wait")
             /\ recorder # "off" =>
                   \A i \in 1..Len(returned) : returned[i].by = "wait" => returned[i].out = "ok"

\* Nothing opens a tap behind the close of the session.
Ordered(q) ==
    \A i, k \in 1..Len(q) : q[i].by = "close" /\ i < k => q[k].cmd # "open"

\* The close of the session is behind what it cancelled.  A tap that opens after it is one
\* whose answer has still to come, after the one of the close.
CloseOf ==
    /\ close = "no" => NoneBy(queue, "close") /\ NoneBy(returned, "close")
    /\ close = "closing" /\ run # "taken" =>
          \/ /\ OneBy(queue, "close") /\ NoneBy(returned, "close")
             /\ wait = "none" => Ordered(queue)
          \/ /\ NoneBy(queue, "close") /\ OneBy(returned, "close")
             /\ wait = "none" => NoOpen
             /\ recorder # "off" =>
                   /\ wait = "arming"
                   /\ \E i, j \in 1..Len(returned) :
                         i < j /\ returned[i].by = "close" /\ returned[j].by = "wait"
    /\ close = "unwatching" /\ run # "taken" /\ wait = "none" => recorder = "off" /\ NoOpen

\* Whoever takes the run leaves no tap that nobody is to close, but that of an arm that came
\* back while the close of the session awaited the watchdog.
TapOf ==
    /\ dog = "closing" => wait = "none" /\ Settling
    /\ wait = "unwatching" => Settling
    /\ run = "taken" => wait = "arming" \/ Settling \/ Slipped

Owed == RunOf /\ OpenOf /\ WaitOf /\ CloseOf /\ TapOf

LEMMA RunOfSteps ==
    ASSUME TypeOK, OwnedOf, RunOf, [Next]_vars
    PROVE  RunOf'
  <1> USE DEF TypeOK
  <1>0. UNCHANGED <<pipe, standby, encoder, run, stop, dog, wait, close, track>> => RunOf'
    BY DEF RunOf
  <1>1. CASE Writes \/ Worker
    BY <1>0, <1>1 DEF Writes, Worker, Runs, process, owner, tasks, line
  <1>2. CASE EncoderOpens
    BY <1>2 DEF EncoderOpens, owner, tasks, line, RunOf
  <1>3. CASE EncoderFails
    BY <1>3 DEF EncoderFails, Alive, owner, tasks, line, RunOf
  <1>4. CASE EncoderExits
    BY <1>4 DEF EncoderExits, owner, tasks, line, RunOf
  <1>5. CASE Thread
    <2>1. CASE ReadsHeader
      BY <2>1 DEF ReadsHeader, owner, tasks, line, RunOf
    <2>2. CASE ReadsPacket \/ Sinks \/ Posts \/ DemuxEnds
      BY <1>0, <2>2 DEF ReadsPacket, Sinks, Posts, DemuxEnds, owner, tasks, line
    <2> QED BY <1>5, <2>1, <2>2 DEF Thread
  <1>6. CASE Track
    BY <1>0, <1>6 DEF Track, RunsPosted, Receives, Gets, Hands, process, owner, tasks
  <1>7. CASE Resumes
    <2>1. CASE Discards
      BY <1>0, <2>1 DEF Discards, process, owner, tasks, line
    <2>2. CASE ArmTook \/ ArmRaced \/ ArmRefused
      BY <2>2 DEF ArmTook, ArmRaced, ArmRefused, process, owner, line, RunOf
    <2>3. CASE NoPicture \/ CloseUnwatches
      BY <2>3 DEF NoPicture, CloseUnwatches, Unwatches, process, owner, line, RunOf
    <2>8. CASE NoPictureUnwatched
      <3>1. /\ run = "held" /\ run' = "taken" /\ stop'.at = "joining"
            /\ dog = "ended" /\ dog' = "ended"
            /\ standby' = FALSE /\ encoder' = (IF Alive THEN "dying" ELSE encoder)
            /\ wait' = "losing" /\ UNCHANGED <<close, track>>
        BY <2>8 DEF NoPictureUnwatched, TakesRun, Killed, line
      <3> QED BY <3>1 DEF RunOf, Alive
    <2>4. CASE NoPictureNoRun
      BY <2>4 DEF NoPictureNoRun, TrackStops, process, owner, RunOf
    <2>5. CASE DogTapClosed
      <3>1. /\ dog = "closing" /\ run' = "taken" /\ stop'.at = "joining" /\ dog' = "stopping"
            /\ stop'.by = "watchdog"
            /\ standby' = FALSE /\ encoder' = (IF Alive THEN "dying" ELSE encoder)
            /\ UNCHANGED <<wait, close, track>>
        BY <2>5 DEF DogTapClosed, TakesRun, Killed, line
      <3>2. run = "held" /\ wait # "unwatching" /\ close \notin {"unwatching", "stopping", "done"}
        BY <3>1 DEF RunOf
      <3> QED BY <3>1, <3>2 DEF RunOf, Alive
    <2>6. CASE CloseTakesRun
      <3>1. /\ run = "held" /\ run' = "taken" /\ stop'.at = "joining"
            /\ dog = "ended" /\ dog' = "ended"
            /\ standby' = FALSE /\ encoder' = (IF Alive THEN "dying" ELSE encoder)
            /\ stop'.by = "close" /\ close' = "stopping" /\ UNCHANGED <<wait, track>>
        BY <2>6 DEF CloseTakesRun, TakesRun, Killed, line
      <3> QED BY <3>1 DEF RunOf, Alive
    <2>7. CASE CloseFindsNoRun
      BY <2>7 DEF CloseFindsNoRun, TrackStops, process, owner, RunOf
    <2> QED BY <1>7, <2>1, <2>2, <2>3, <2>4, <2>5, <2>6, <2>7, <2>8 DEF Resumes
  <1>8. CASE Watchdog
    <2>1. CASE LooksAway
      BY <1>0, <2>1 DEF LooksAway, process, owner, line
    <2>2. CASE Barks
      BY <2>2 DEF Barks, Killed, Alive, owner, line, RunOf
    <2> QED BY <1>8, <2>1, <2>2 DEF Watchdog
  <1>9. CASE Stop
    <2>1. CASE Joins
      <3>1. /\ stop.at = "joining" /\ stop'.at = "reaping" /\ stop'.by = stop.by
            /\ UNCHANGED <<pipe, standby, encoder, run, dog, wait, close, track>>
        BY <2>1 DEF Joins, process, tasks, line
      <3> QED BY <3>1 DEF RunOf
    <2>2. CASE Reaps
      <3>1. /\ stop.at = "reaping" /\ stop'.at = "cleared" /\ encoder' = "reaped" /\ pipe' = "cleared"
            /\ stop'.by = stop.by
            /\ UNCHANGED <<standby, run, dog, wait, close, track>>
        BY <2>2 DEF Reaps, tasks, line
      <3> QED BY <3>1 DEF RunOf, OwnedOf
    <2>3. CASE GaveUp \/ DogStopped \/ CloseStopped
      <3>1. /\ stop.at = "cleared" /\ stop'.at = "no" /\ track' = "ended"
            /\ UNCHANGED <<pipe, standby, encoder, run>>
        BY <2>3 DEF GaveUp, DogStopped, CloseStopped, Stopped, TrackStops, process
      <3>2. run = "taken"
        BY <3>1 DEF OwnedOf
      <3>3. dog' \in {dog, "ended"} /\ close' \in {close, "done"} /\ wait' \in {wait, "none"}
        BY <2>3 DEF GaveUp, DogStopped, CloseStopped
      <3>4. stop'.by # "wait"
        BY <2>3 DEF GaveUp, DogStopped, CloseStopped, Stopped
      <3> QED BY <3>1, <3>2, <3>3, <3>4 DEF RunOf
    <2> QED BY <1>9, <2>1, <2>2, <2>3 DEF Stop
  <1>10. CASE Starts
    BY <1>10 DEF Starts, Arming, EncoderStarts, line, RunOf
  <1>11. CASE StartFails
    BY <1>11 DEF StartFails, Arming, owner, tasks, line, RunOf
  <1>12. CASE Asks \/ Closes
    BY <1>12 DEF Asks, Closes, process, owner, line, RunOf
  <1>13. CASE UNCHANGED vars
    BY <1>0, <1>13 DEF vars, process, owner, tasks, line
  <1>14. CASE Unwatched
    <2>1. CASE WaitUnwatched \/ CloseUnwatched
      <3>1. /\ run = "held" /\ run' = "taken" /\ stop'.at = "joining" /\ UNCHANGED <<dog, track>>
            /\ standby' = FALSE /\ encoder' = (IF Alive THEN "dying" ELSE encoder)
            /\ \/ wait = "unwatching" /\ wait' = "losing" /\ close' = close
               \/ close = "unwatching" /\ close' = "stopping" /\ wait' = wait
                  /\ stop'.by = "close"
        BY <2>1 DEF WaitUnwatched, CloseUnwatched, TakesRun, Killed, line
      <3>2. dog = "ended" /\ close # "done"
        BY <3>1 DEF RunOf
      <3> QED BY <3>1, <3>2 DEF RunOf, Alive
    <2>2. CASE WaitForestalled \/ CloseForestalled
      BY <2>2 DEF WaitForestalled, CloseForestalled, TrackStops, process, owner, RunOf
    <2> QED BY <1>14, <2>1, <2>2 DEF Unwatched
  <1> QED BY <1>1, <1>2, <1>3, <1>4, <1>5, <1>6, <1>7, <1>8, <1>9, <1>10, <1>11, <1>12, <1>13, <1>14
          DEF Next

\* What becomes of the places of one who waits, in a line that grows, is read, or loses a job.
LEMMA Behind ==
    ASSUME NEW S, NEW q \in Seq(S), NEW e \in S
    PROVE  /\ \A by : NoneBy(q, by) /\ e.by # by => NoneBy(Append(q, e), by)
           /\ \A by : OneBy(q, by) /\ e.by # by => OneBy(Append(q, e), by)
           /\ \A by : NoneBy(q, by) /\ e.by = by => OneBy(Append(q, e), by)
  <1>1. PICK n \in Nat : n = Len(q)
    OBVIOUS
  <1>2. PICK p : p = Append(q, e)
    OBVIOUS
  <1>3. /\ Len(p) = n + 1 /\ p[n + 1] = e /\ \A i \in 1..n : p[i] = q[i]
        /\ \A i \in 1..(n + 1) : i # n + 1 => i \in 1..n
        /\ \A i \in 1..n : i \in 1..(n + 1) /\ i # n + 1
        /\ n + 1 \in 1..(n + 1)
    BY <1>1, <1>2
  <1> QED BY <1>1, <1>2, <1>3 DEF NoneBy, OneBy

LEMMA AfterFirst ==
    ASSUME NEW S, NEW q \in Seq(S), q # <<>>
    PROVE  /\ \A by : NoneBy(q, by) => Head(q).by # by /\ NoneBy(Tail(q), by)
           /\ \A by : OneBy(q, by) /\ Head(q).by # by => OneBy(Tail(q), by)
           /\ \A by : OneBy(q, by) /\ Head(q).by = by => NoneBy(Tail(q), by)
  <1>1. PICK n \in Nat : n = Len(q)
    OBVIOUS
  <1>2. PICK p : p = Tail(q)
    OBVIOUS
  <1>3. /\ Len(p) = n - 1 /\ Head(q) = q[1] /\ 1 \in 1..n
        /\ \A i \in 1..(n - 1) : p[i] = q[i + 1] /\ i + 1 \in 1..n /\ i + 1 # 1
    BY <1>1, <1>2
  <1>4. \A i \in 1..n : i # 1 => i - 1 \in 1..(n - 1) /\ p[i - 1] = q[i]
    BY <1>1, <1>2
  <1>5. ASSUME NEW by, OneBy(q, by), Head(q).by # by
        PROVE  OneBy(p, by)
    <2>1. PICK i \in 1..n : q[i].by = by /\ \A k \in 1..n : q[k].by = by => k = i
      BY <1>1, <1>5 DEF OneBy
    <2>2. i # 1
      BY <1>3, <1>5, <2>1
    <2>3. i - 1 \in 1..(n - 1) /\ p[i - 1].by = by
      BY <1>4, <2>1, <2>2
    <2>4. ASSUME NEW k \in 1..(n - 1), p[k].by = by
          PROVE  k = i - 1
      <3>1. k + 1 = i
        BY <1>3, <2>1, <2>4
      <3> QED BY <3>1
    <2> QED BY <1>3, <2>3, <2>4 DEF OneBy
  <1>6. ASSUME NEW by, OneBy(q, by), Head(q).by = by
        PROVE  NoneBy(p, by)
    BY <1>1, <1>3, <1>6 DEF OneBy, NoneBy
  <1>7. ASSUME NEW by, NoneBy(q, by)
        PROVE  Head(q).by # by /\ NoneBy(p, by)
    BY <1>1, <1>3, <1>7 DEF NoneBy
  <1> QED BY <1>2, <1>5, <1>6, <1>7

\* A job that was cancelled has left the queue, if it did not run.
Dropped(q, by) ==
    \/ q = queue /\ \A i \in 2..Len(queue) : queue[i].by # by
    \/ \E d \in 2..Len(queue) :
          /\ queue[d].by = by
          /\ Len(q) = Len(queue) - 1
          /\ \A k \in 1..Len(q) : q[k] = IF k < d THEN queue[k] ELSE queue[k + 1]

LEMMA KeptDrops ==
    ASSUME NativeTypes, NEW by
    PROVE  Dropped(Kept(by), by)
  <1> DEFINE at == {i \in 2..Len(queue) : queue[i].by = by}
  <1>1. Kept(by) = Without(queue, at)
    BY DEF Kept
  <1>2. CASE at = {}
    BY <1>1, <1>2 DEF Without, Dropped
  <1>3. CASE at # {}
    <2> DEFINE d == CHOOSE i \in at : TRUE
               u == [k \in 1..(Len(queue) - 1) |-> IF k < d THEN queue[k] ELSE queue[k + 1]]
    <2>1. d \in 2..Len(queue) /\ queue[d].by = by
      BY <1>3
    <2>2. Kept(by) = u
      BY <1>1, <1>3 DEF Without
    <2> HIDE DEF d
    <2>3. Len(queue) - 1 \in Nat
      BY <2>1 DEF NativeTypes
    <2>4. Len(u) = Len(queue) - 1
      BY <2>3
    <2> QED BY <2>1, <2>2, <2>4 DEF Dropped
  <1> QED BY <1>2, <1>3

LEMMA DroppedBy ==
    ASSUME NativeTypes, NEW q, NEW o, Dropped(q, o)
    PROVE  /\ \A by : NoneBy(queue, by) => NoneBy(q, by)
           /\ \A by : OneBy(queue, by) /\ by # o => OneBy(q, by)
           /\ NoOpen => \A i \in 1..Len(q) : q[i].cmd # "open"
  <1>1. PICK n \in Nat : n = Len(queue)
    BY DEF NativeTypes
  <1>2. CASE q = queue
    BY <1>2 DEF NoOpen
  <1>3. ASSUME NEW d \in 2..n, queue[d].by = o, Len(q) = n - 1,
               \A k \in 1..(n - 1) : q[k] = IF k < d THEN queue[k] ELSE queue[k + 1]
        PROVE  /\ \A by : NoneBy(queue, by) => NoneBy(q, by)
               /\ \A by : OneBy(queue, by) /\ by # o => OneBy(q, by)
               /\ NoOpen => \A i \in 1..Len(q) : q[i].cmd # "open"
    <2>1. \A k \in 1..(n - 1) : \E i \in 1..n : q[k] = queue[i] /\ i = IF k < d THEN k ELSE k + 1
      BY <1>3
    <2>2. ASSUME NEW by, OneBy(queue, by), by # o
          PROVE  OneBy(q, by)
      <3>1. PICK i \in 1..n : queue[i].by = by /\ \A k \in 1..n : queue[k].by = by => k = i
        BY <1>1, <2>2 DEF OneBy
      <3>2. i # d
        BY <1>3, <2>2, <3>1
      <3>3. PICK m \in 1..(n - 1) : m = IF i < d THEN i ELSE i - 1
        BY <1>3, <3>1, <3>2
      <3>4. q[m] = queue[i]
        BY <1>3, <3>2, <3>3
      <3>5. ASSUME NEW k \in 1..(n - 1), q[k].by = by
            PROVE  k = m
        <4>1. (IF k < d THEN k ELSE k + 1) = i
          BY <2>1, <3>1, <3>5
        <4> QED BY <3>2, <3>3, <4>1
      <3> QED BY <1>3, <3>1, <3>4, <3>5 DEF OneBy
    <2> QED BY <1>1, <1>3, <2>1, <2>2 DEF NoneBy, NoOpen
  <1> QED BY <1>1, <1>2, <1>3 DEF Dropped


\* A job is never the SDK's own idea: what is on the worker was there, or was asked for.
LEMMA OpenSteps ==
    ASSUME NativeTypes, OpenOf, [Next]_vars
    PROVE  OpenOf'
  <1>0. ASSUME NEW q \in Seq(Jobs), \A i \in 1..Len(q) : q[i].cmd = "open" => q[i].by = "wait",
               NEW j \in Jobs, j.cmd = "open" => j.by = "wait", queue' = Append(q, j)
        PROVE  OpenOf'
    <2>1. PICK n \in Nat : n = Len(q)
      BY <1>0
    <2>2. /\ Len(queue') = n + 1 /\ queue'[n + 1] = j /\ \A i \in 1..n : queue'[i] = q[i]
          /\ \A i \in 1..(n + 1) : i # n + 1 => i \in 1..n
      BY <1>0, <2>1
    <2> QED BY <1>0, <2>1, <2>2 DEF OpenOf
  <1>1. ASSUME NEW by
        PROVE  /\ Kept(by) \in Seq(Jobs)
               /\ \A i \in 1..Len(Kept(by)) : Kept(by)[i].cmd = "open" => Kept(by)[i].by = "wait"
    <2>1. Kept(by) \in Seq(Jobs)
      <3> DEFINE at == {i \in 2..Len(queue) : queue[i].by = by}
      <3>1. Kept(by) = Without(queue, at) /\ at \subseteq 2..Len(queue) /\ queue \in Seq(Jobs)
        BY DEF Kept, NativeTypes
      <3> HIDE DEF at
      <3> QED BY <3>1, Removed
    <2>2. PICK q : q = Kept(by)
      OBVIOUS
    <2>3. Dropped(q, by)
      BY <2>2, KeptDrops
    <2>4. PICK n \in Nat : n = Len(queue)
      BY DEF NativeTypes
    <2>5. \A i \in 1..Len(q) : q[i].cmd = "open" => q[i].by = "wait"
      <3>1. CASE q = queue
        BY <3>1 DEF OpenOf
      <3>2. ASSUME NEW d \in 2..n, Len(q) = n - 1,
                   \A k \in 1..Len(q) : q[k] = IF k < d THEN queue[k] ELSE queue[k + 1]
            PROVE  \A i \in 1..Len(q) : q[i].cmd = "open" => q[i].by = "wait"
        BY <2>4, <3>2 DEF OpenOf
      <3> QED BY <2>3, <2>4, <3>1, <3>2 DEF Dropped
    <2> QED BY <2>1, <2>2, <2>5
  <1>2. queue \in Seq(Jobs) /\ \A i \in 1..Len(queue) : queue[i].cmd = "open" => queue[i].by = "wait"
    BY DEF NativeTypes, OpenOf
  <1>3. \A by \in Owners : Job(by, "close") \in Jobs /\ Job(by, "close").cmd = "close"
    BY DEF Job, Jobs
  <1>4. Job("wait", "open") \in Jobs /\ Job("wait", "open").by = "wait"
    BY DEF Job, Jobs, Owners
  <1>5. UNCHANGED queue => OpenOf'
    BY DEF OpenOf
  <1>6. CASE Worker
    <2>1. queue # <<>> /\ queue' = Tail(queue)
      BY <1>6 DEF Worker, Runs
    <2> QED BY <1>2, <2>1 DEF OpenOf
  <1>7. CASE Asks
    <2>1. queue' = Append(queue, Job("wait", "open"))
      BY <1>7 DEF Asks
    <2> QED BY <1>0, <1>2, <1>4, <2>1
  <1>8. CASE ArmRaced
    <2>1. queue' = Append(queue, Job("wait", "close"))
      BY <1>8 DEF ArmRaced
    <2> QED BY <1>0, <1>2, <1>3, <2>1 DEF Owners
  <1>9. CASE Barks \/ Closes
    <2>1. \E by \in Owners : queue' = Append(Kept("wait"), Job(by, "close"))
      BY <1>9 DEF Barks, Closes, Owners
    <2> QED BY <1>0, <1>1, <1>3, <2>1
  <1>10. CASE CloseUnwatches
    <2>1. queue' = Kept("watchdog")
      BY <1>10 DEF CloseUnwatches
    <2> QED BY <1>1, <2>1 DEF OpenOf
  <1>11. CASE \/ Discards \/ ArmTook \/ ArmRefused \/ NoPicture \/ NoPictureUnwatched
              \/ NoPictureNoRun \/ DogTapClosed \/ CloseTakesRun \/ CloseFindsNoRun
    BY <1>5, <1>11 DEF Discards, ArmTook, ArmRefused, NoPicture, NoPictureUnwatched,
                       NoPictureNoRun, DogTapClosed, CloseTakesRun, CloseFindsNoRun
  <1>12. CASE Writes \/ EncoderOpens \/ EncoderFails \/ EncoderExits \/ Thread \/ Track \/ LooksAway
    BY <1>5, <1>12 DEF Writes, EncoderOpens, EncoderFails, EncoderExits, Thread, ReadsHeader,
                       ReadsPacket, Sinks, Posts, DemuxEnds, Track, RunsPosted, Receives, Gets,
                       Hands, LooksAway, native
  <1>13. CASE Stop \/ Starts \/ StartFails \/ UNCHANGED vars
    BY <1>5, <1>13 DEF Stop, Joins, Reaps, GaveUp, DogStopped, CloseStopped, Stopped, Starts,
                       StartFails, vars, native
  <1>14. CASE Unwatched
    BY <1>5, <1>14 DEF Unwatched, WaitUnwatched, WaitForestalled, CloseUnwatched,
                       CloseForestalled, native
  <1> QED BY <1>6, <1>7, <1>8, <1>9, <1>10, <1>11, <1>12, <1>13, <1>14 DEF Next, Resumes, Watchdog

\* The job that ends and the answer it leaves.
LEMMA JobEnds ==
    ASSUME NativeTypes, OpenOf, NEW out \in Outcomes, Runs(out)
    PROVE  /\ queue # <<>> /\ queue \in Seq(Jobs) /\ returned \in Seq(Answers)
           /\ queue' = Tail(queue) /\ Head(queue) \in Jobs
           /\ \E e \in Answers : /\ e.by = Head(queue).by /\ e.out = out
                                 /\ returned' = Append(returned, e)
           /\ recorder' \in {recorder, "off", "writing"}
           /\ recorder' = "writing" /\ recorder # "writing" =>
                 Head(queue).cmd = "open" /\ Head(queue).by = "wait" /\ out = "ok"
           /\ Head(queue).cmd = "close" => recorder' = "off"
           /\ UNCHANGED <<process, owner, tasks, line>>
  <1>1. queue # <<>> /\ queue \in Seq(Jobs) /\ returned \in Seq(Answers)
    BY DEF Runs, NativeTypes
  <1>2. Head(queue) = queue[1] /\ 1 \in 1..Len(queue) /\ Head(queue) \in Jobs
    BY <1>1
  <1>3. PICK e : e = [by |-> Head(queue).by, out |-> out]
    OBVIOUS
  <1>4. e \in Answers /\ e.by = Head(queue).by /\ e.out = out /\ returned' = Append(returned, e)
    BY <1>2, <1>3 DEF Jobs, Answers, Runs
  <1>5. Head(queue).cmd = "open" => Head(queue).by = "wait"
    BY <1>2 DEF OpenOf
  <1> QED BY <1>1, <1>2, <1>4, <1>5 DEF Runs

\* The answer somebody goes on with is the first.
LEMMA FirstAnswer ==
    ASSUME NativeTypes, NEW by, NEW out, Continues(by, out)
    PROVE  /\ returned \in Seq(Answers) /\ returned # <<>> /\ returned' = Tail(returned)
           /\ Head(returned).by = by /\ Head(returned).out = out
           /\ Len(returned') = Len(returned) - 1
           /\ \A i \in 1..Len(returned') : i + 1 \in 1..Len(returned) /\ returned'[i] = returned[i + 1]
           /\ returned[1] = Head(returned) /\ 1 \in 1..Len(returned)
  <1>1. returned \in Seq(Answers) /\ returned # <<>> /\ returned' = Tail(returned)
        /\ Head(returned) = [by |-> by, out |-> out]
    BY DEF NativeTypes, Continues
  <1> QED BY <1>1


\* The answer of somebody else is read, and a job of somebody else may leave the queue.
LEMMA WaitReads ==
    ASSUME NativeTypes, WaitOf, UNCHANGED <<recorder, wait>>, run' = run \/ run' = "taken",
           queue' = queue \/ queue' = Kept("watchdog"),
           NEW by, by # "wait", NEW out, Continues(by, out)
    PROVE  WaitOf'
  <1>1. /\ NoneBy(queue, "wait") => NoneBy(queue', "wait")
        /\ OneBy(queue, "wait") => OneBy(queue', "wait")
    BY KeptDrops, DroppedBy
  <1>2. /\ NoneBy(returned, "wait") => NoneBy(returned', "wait")
        /\ OneBy(returned, "wait") => OneBy(returned', "wait")
    <2>1. /\ returned \in Seq(Answers) /\ returned # <<>> /\ returned' = Tail(returned)
          /\ Head(returned).by # "wait"
      BY FirstAnswer
    <2> QED BY <2>1, AfterFirst
  <1>3. \A i \in 1..Len(returned') : i + 1 \in 1..Len(returned) /\ returned'[i] = returned[i + 1]
    BY FirstAnswer
  <1> QED BY <1>1, <1>2, <1>3 DEF WaitOf

LEMMA WaitRuns ==
    ASSUME NativeTypes, OpenOf, WaitOf, NEW out \in Outcomes, Runs(out)
    PROVE  WaitOf'
  <1>1. PICK e \in Answers :
           /\ queue # <<>> /\ queue \in Seq(Jobs) /\ returned \in Seq(Answers)
           /\ queue' = Tail(queue) /\ Head(queue) \in Jobs
           /\ e.by = Head(queue).by /\ e.out = out /\ returned' = Append(returned, e)
           /\ recorder' \in {recorder, "off", "writing"}
           /\ recorder' = "writing" /\ recorder # "writing" =>
                 Head(queue).by = "wait" /\ out = "ok"
           /\ UNCHANGED <<run, wait>>
    BY JobEnds DEF owner, tasks
  <1>2. /\ NoneBy(queue, "wait") => Head(queue).by # "wait" /\ NoneBy(queue', "wait")
        /\ OneBy(queue, "wait") /\ Head(queue).by # "wait" => OneBy(queue', "wait")
        /\ OneBy(queue, "wait") /\ Head(queue).by = "wait" => NoneBy(queue', "wait")
    BY <1>1, AfterFirst
  <1>3. /\ NoneBy(returned, "wait") /\ Head(queue).by # "wait" => NoneBy(returned', "wait")
        /\ NoneBy(returned, "wait") /\ Head(queue).by = "wait" => OneBy(returned', "wait")
        /\ OneBy(returned, "wait") /\ Head(queue).by # "wait" => OneBy(returned', "wait")
    BY <1>1, Behind
  <1>4. \A i \in 1..Len(returned') : returned'[i] = e \/ (i \in 1..Len(returned) /\ returned'[i] = returned[i])
    BY <1>1
  <1>5. CASE run = "none" \/ (run = "held" /\ wait = "asleep")
    BY <1>1, <1>2, <1>3, <1>5 DEF WaitOf
  <1>6. CASE wait = "arming"
    <2>1. CASE recorder = "off" /\ OneBy(queue, "wait") /\ NoneBy(returned, "wait")
      <3>1. CASE Head(queue).by # "wait"
        BY <1>1, <1>2, <1>3, <1>6, <2>1, <3>1 DEF WaitOf
      <3>2. CASE Head(queue).by = "wait"
        <4>1. recorder' # "off" => out = "ok"
          BY <1>1, <2>1
        <4>2. \A i \in 1..Len(returned') : returned'[i].by = "wait" => returned'[i].out = out
          BY <1>1, <1>4, <2>1 DEF NoneBy
        <4> QED BY <1>1, <1>2, <1>3, <1>6, <2>1, <3>2, <4>1, <4>2 DEF WaitOf
      <3> QED BY <3>1, <3>2
    <2>2. CASE /\ NoneBy(queue, "wait") /\ OneBy(returned, "wait")
               /\ recorder # "off" =>
                     \A i \in 1..Len(returned) : returned[i].by = "wait" => returned[i].out = "ok"
      <3>1. Head(queue).by # "wait" /\ recorder' \in {recorder, "off"}
        BY <1>1, <1>2, <2>2
      <3>2. recorder' # "off" =>
               \A i \in 1..Len(returned') : returned'[i].by = "wait" => returned'[i].out = "ok"
        BY <1>1, <1>4, <2>2, <3>1
      <3> QED BY <1>1, <1>2, <1>3, <1>6, <2>2, <3>1, <3>2 DEF WaitOf
    <2> QED BY <1>6, <2>1, <2>2 DEF WaitOf
  <1>7. CASE ~(run = "none" \/ (run = "held" /\ wait = "asleep")) /\ wait # "arming"
    BY <1>1, <1>2, <1>3, <1>7 DEF WaitOf
  <1> QED BY <1>5, <1>6, <1>7

LEMMA WaitSteps ==
    ASSUME TypeOK, NativeTypes, OwnedOf, RunOf, OpenOf, WaitOf, [Next]_vars
    PROVE  WaitOf'
  <1>a. run \in {"none", "held", "taken"} /\ Owners = {"wait", "watchdog", "close"}
    BY DEF TypeOK, Owners
  <1>0. UNCHANGED <<recorder, queue, returned, run, wait>> => WaitOf'
    BY DEF WaitOf
  <1>1. CASE Writes
    <2>1. UNCHANGED <<queue, returned, run, wait>> /\ recorder # "off" /\ recorder' # "off"
      BY <1>1 DEF Writes, owner, tasks
    <2> QED BY <2>1 DEF WaitOf
  <1>2. CASE Worker
    BY <1>2, WaitRuns DEF Worker
  <1>3. CASE Discards
    <2>1. UNCHANGED <<recorder, queue, run, wait>>
      BY <1>3 DEF Discards, owner, tasks
    <2>2. PICK out \in Outcomes : \/ Continues("wait", out) /\ wait \notin {"arming", "undoing"}
                                  \/ Continues("watchdog", out)
      BY <1>3 DEF Discards
    <2>3. CASE Continues("watchdog", out)
      BY <2>1, <2>3, WaitReads
    <2>4. CASE Continues("wait", out) /\ wait \notin {"arming", "undoing"}
      <3>1. NoneBy(returned, "wait") => NoneBy(returned', "wait")
        BY <2>4, FirstAnswer, AfterFirst
      <3> QED BY <2>1, <2>4, <3>1 DEF WaitOf
    <2> QED BY <2>2, <2>3, <2>4
  <1>4. CASE Asks
    <2>1. /\ run = "held" /\ wait = "asleep" /\ run' = "held" /\ wait' = "arming"
          /\ queue' = Append(queue, Job("wait", "open")) /\ UNCHANGED <<recorder, returned>>
      BY <1>4 DEF Asks, owner
    <2>2. OneBy(queue', "wait")
      <3>1. Job("wait", "open") \in Jobs /\ Job("wait", "open").by = "wait" /\ queue \in Seq(Jobs)
        BY DEF Job, Jobs, Owners, NativeTypes
      <3>2. NoneBy(queue, "wait")
        BY <2>1 DEF WaitOf
      <3> QED BY <2>1, <3>1, <3>2, Behind
    <2> QED BY <2>1, <2>2 DEF WaitOf
  <1>5. CASE ArmRefused
    <2>1. UNCHANGED <<recorder, queue, run>> /\ wait' = "asleep"
      BY <1>5 DEF ArmRefused, owner
    <2>2. ASSUME run = "held"
          PROVE  recorder = "off" /\ NoneBy(queue, "wait") /\ NoneBy(returned', "wait")
      <3>1. wait = "arming" /\ Continues("wait", "raised")
        BY <1>5, <2>2 DEF ArmRefused, RunOf
      <3>2. /\ returned[1] = Head(returned) /\ 1 \in 1..Len(returned)
            /\ Head(returned).by = "wait" /\ Head(returned).out = "raised"
            /\ NoneBy(returned, "wait") => Head(returned).by # "wait"
            /\ OneBy(returned, "wait") => NoneBy(returned', "wait")
        BY <3>1, FirstAnswer, AfterFirst
      <3> QED BY <3>1, <3>2 DEF WaitOf
    <2>3. run # "none"
      BY <1>5 DEF ArmRefused, RunOf
    <2> QED BY <1>a, <2>1, <2>2, <2>3 DEF WaitOf
  <1>6. CASE \/ ArmRaced \/ NoPictureUnwatched \/ NoPictureNoRun \/ WaitUnwatched
             \/ WaitForestalled \/ GaveUp \/ Barks
    <2>1. wait' \notin {"arming", "asleep", "arrived", "unwatching"}
      BY <1>6 DEF ArmRaced, NoPictureUnwatched, NoPictureNoRun, WaitUnwatched, WaitForestalled,
                  GaveUp, Barks
    <2>2. run' # "none"
      <3>1. CASE ArmRaced \/ NoPictureNoRun \/ WaitForestalled
        BY <3>1 DEF ArmRaced, NoPictureNoRun, WaitForestalled, owner, RunOf
      <3>2. CASE NoPictureUnwatched \/ WaitUnwatched
        BY <3>2 DEF NoPictureUnwatched, WaitUnwatched, TakesRun
      <3>3. CASE Barks
        BY <3>3 DEF Barks, owner, RunOf
      <3>4. CASE GaveUp
        BY <3>4 DEF GaveUp, Stopped, OwnedOf
      <3> QED BY <1>6, <3>1, <3>2, <3>3, <3>4
    <2> QED BY <2>1, <2>2 DEF WaitOf
  <1>12. CASE ArmTook \/ NoPicture
    <2>1. /\ UNCHANGED <<queue, run>> /\ run = "held" /\ wait = "arming"
          /\ wait' \in {"arrived", "unwatching"}
      BY <1>12 DEF ArmTook, NoPicture, owner
    <2>2. PICK out : Continues("wait", out)
      BY <1>12 DEF ArmTook, NoPicture
    <2>3. /\ NoneBy(returned, "wait") => Head(returned).by # "wait"
          /\ OneBy(returned, "wait") => NoneBy(returned', "wait")
          /\ Head(returned).by = "wait"
      <3>1. /\ returned \in Seq(Answers) /\ returned # <<>> /\ returned' = Tail(returned)
            /\ Head(returned).by = "wait"
        BY <2>2, FirstAnswer
      <3> QED BY <3>1, AfterFirst
    <2>4. NoneBy(queue, "wait") /\ NoneBy(returned', "wait")
      BY <2>1, <2>3 DEF WaitOf
    <2> QED BY <2>1, <2>4 DEF WaitOf
  <1>13. CASE CloseUnwatched
    <2>1. UNCHANGED <<recorder, queue, returned, wait>> /\ run' = "taken"
      BY <1>13 DEF CloseUnwatched, TakesRun, native
    <2> QED BY <2>1 DEF WaitOf
  <1>7. CASE DogTapClosed \/ CloseUnwatches \/ CloseTakesRun \/ CloseFindsNoRun
    <2>1. \E by, out : by # "wait" /\ Continues(by, out)
      BY <1>7 DEF DogTapClosed, CloseUnwatches, CloseTakesRun, CloseFindsNoRun
    <2>2. /\ UNCHANGED <<recorder, wait>> /\ (run' = run \/ run' = "taken")
          /\ queue' = queue \/ queue' = Kept("watchdog")
      BY <1>7 DEF DogTapClosed, CloseUnwatches, CloseTakesRun, CloseFindsNoRun, TakesRun, owner
    <2> QED BY <2>1, <2>2, WaitReads
  <1>8. CASE Closes
    <2>1. /\ UNCHANGED <<recorder, returned, run>> /\ wait' \in {"unwatching", "losing", "none"}
          /\ wait' \in {wait, "none"}
          /\ queue' = Append(Kept("wait"), Job("close", "close"))
      BY <1>8 DEF Closes, owner
    <2>2. NoneBy(queue, "wait") => NoneBy(queue', "wait")
      <3>1. Kept("wait") \in Seq(Jobs) /\ Job("close", "close") \in Jobs
            /\ Job("close", "close").by # "wait"
        BY Queued DEF Job, Jobs, Owners
      <3>2. NoneBy(queue, "wait") => NoneBy(Kept("wait"), "wait")
        BY KeptDrops, DroppedBy
      <3> QED BY <2>1, <3>1, <3>2, Behind
    <2> QED BY <2>1, <2>2 DEF WaitOf
  <1>9. CASE Starts
    <2>1. /\ UNCHANGED <<recorder, queue, returned>> /\ run = "none"
          /\ run' = "held" /\ wait' = "asleep"
      BY <1>9 DEF Starts, Arming, native
    <2> QED BY <2>1 DEF WaitOf
  <1>10. CASE \/ EncoderOpens \/ EncoderFails \/ EncoderExits \/ Thread \/ Track \/ LooksAway
              \/ Joins \/ Reaps \/ DogStopped \/ CloseStopped \/ CloseForestalled \/ StartFails
    BY <1>0, <1>10 DEF EncoderOpens, EncoderFails, EncoderExits, Thread, ReadsHeader, ReadsPacket,
                       Sinks, Posts, DemuxEnds, Track, RunsPosted, Receives, Gets, Hands, LooksAway,
                       Joins, Reaps, DogStopped, CloseStopped, CloseForestalled, Stopped, StartFails,
                       native, owner, tasks
  <1>11. CASE UNCHANGED vars
    BY <1>0, <1>11 DEF vars, native, owner, tasks
  <1> QED BY <1>1, <1>2, <1>3, <1>4, <1>5, <1>6, <1>7, <1>8, <1>9, <1>10, <1>11, <1>12, <1>13
          DEF Next, Resumes, Unwatched, Watchdog, Stop


LEMMA NoneOpens ==
    ASSUME OpenOf, NoneBy(queue, "wait")
    PROVE  NoOpen
  BY DEF OpenOf, NoneBy, NoOpen

\* The wait's job that runs is ahead of whatever closes the tap; one that does not is gone.
LEMMA KeptOrdered ==
    ASSUME NativeTypes, OpenOf, NoOpen \/ Ordered(queue) \/ OneBy(queue, "wait")
    PROVE  Ordered(Kept("wait"))
  <1>1. PICK n \in Nat : n = Len(queue)
    BY DEF NativeTypes
  <1>2. PICK q : q = Kept("wait")
    OBVIOUS
  <1>3. Dropped(q, "wait")
    BY <1>2, KeptDrops
  <1>4. CASE NoOpen
    BY <1>2, <1>3, <1>4, DroppedBy DEF Ordered
  <1>5. CASE q = queue /\ \A i \in 2..n : queue[i].by # "wait"
    <2>1. \A i, k \in 1..n : i < k => k \in 2..n
      BY <1>1
    <2> QED BY <1>1, <1>2, <1>5, <2>1 DEF Ordered, OpenOf
  <1>6. ASSUME NEW d \in 2..n, queue[d].by = "wait", Len(q) = n - 1,
               \A k \in 1..(n - 1) : q[k] = IF k < d THEN queue[k] ELSE queue[k + 1]
        PROVE  Ordered(q)
    <2>1. CASE Ordered(queue)
      <3>1. ASSUME NEW i \in 1..(n - 1), NEW k \in 1..(n - 1), q[i].by = "close", i < k
            PROVE  q[k].cmd # "open"
        <4>1. PICK a \in 1..n : a = (IF i < d THEN i ELSE i + 1)
          BY <1>6
        <4>2. PICK b \in 1..n : b = (IF k < d THEN k ELSE k + 1)
          BY <1>6
        <4>3. a < b /\ queue[a] = q[i] /\ queue[b] = q[k]
          BY <1>6, <3>1, <4>1, <4>2
        <4> QED BY <1>1, <2>1, <3>1, <4>3 DEF Ordered
      <3> QED BY <1>6, <3>1 DEF Ordered
    <2>2. CASE OneBy(queue, "wait")
      <3>1. \A m \in 1..n : queue[m].by = "wait" => m = d
        BY <1>1, <1>6, <2>2 DEF OneBy
      <3>2. ASSUME NEW k \in 1..(n - 1)
            PROVE  q[k].cmd # "open"
        <4>1. PICK b \in 1..n : b = (IF k < d THEN k ELSE k + 1)
          BY <1>6
        <4>2. b # d /\ queue[b] = q[k]
          BY <1>6, <4>1
        <4> QED BY <1>1, <3>1, <4>2 DEF OpenOf
      <3> QED BY <1>6, <3>2 DEF Ordered
    <2> QED BY <1>4, <1>2, <2>1, <2>2
  <1> QED BY <1>1, <1>2, <1>3, <1>4, <1>5, <1>6 DEF Dropped

\* Somebody else's answer is read.
LEMMA CloseReads ==
    ASSUME NativeTypes, CloseOf, UNCHANGED <<queue, close, run>>,
           recorder' = recorder, wait' = wait,
           NEW by, by # "close", NEW out, Continues(by, out)
    PROVE  CloseOf'
  <1>1. /\ returned \in Seq(Answers) /\ returned # <<>> /\ returned' = Tail(returned)
        /\ Head(returned).by # "close" /\ returned[1] = Head(returned)
        /\ Len(returned') = Len(returned) - 1 /\ Len(returned) \in Nat
        /\ \A i \in 1..Len(returned') : i + 1 \in 1..Len(returned) /\ returned'[i] = returned[i + 1]
    BY FirstAnswer
  <1>2. /\ NoneBy(returned, "close") => NoneBy(returned', "close")
        /\ OneBy(returned, "close") => OneBy(returned', "close")
    BY <1>1, AfterFirst
  <1>3. ASSUME NEW i \in 1..Len(returned), NEW j \in 1..Len(returned),
               i < j, returned[i].by = "close", returned[j].by = "wait"
        PROVE  \E a, b \in 1..Len(returned') :
                  a < b /\ returned'[a].by = "close" /\ returned'[b].by = "wait"
    <2>1. i # 1
      BY <1>1, <1>3
    <2>2. PICK a \in 1..Len(returned') : a = i - 1
      BY <1>1, <1>3, <2>1
    <2>3. PICK b \in 1..Len(returned') : b = j - 1
      BY <1>1, <1>3, <2>1
    <2>4. a < b /\ returned'[a] = returned[i] /\ returned'[b] = returned[j]
      BY <1>1, <1>3, <2>2, <2>3
    <2> QED BY <1>3, <2>4
  <1>4. Ordered(queue) => Ordered(queue')
    OBVIOUS
  <1>5. NoOpen => NoOpen'
    BY DEF NoOpen
  <1> QED BY <1>2, <1>3, <1>4, <1>5 DEF CloseOf

LEMMA CloseRuns ==
    ASSUME TypeOK, NativeTypes, RunOf, OpenOf, WaitOf, CloseOf, NEW out \in Outcomes, Runs(out)
    PROVE  CloseOf'
  <1>1. PICK e \in Answers :
           /\ queue # <<>> /\ queue \in Seq(Jobs) /\ returned \in Seq(Answers)
           /\ queue' = Tail(queue) /\ Head(queue) \in Jobs
           /\ e.by = Head(queue).by /\ e.out = out /\ returned' = Append(returned, e)
           /\ recorder' \in {recorder, "off", "writing"}
           /\ recorder' = "writing" /\ recorder # "writing" =>
                 Head(queue).cmd = "open" /\ Head(queue).by = "wait" /\ out = "ok"
           /\ Head(queue).cmd = "close" => recorder' = "off"
           /\ UNCHANGED <<run, wait, close>>
    BY JobEnds DEF owner, tasks
  <1>2. /\ NoneBy(queue, "close") => Head(queue).by # "close" /\ NoneBy(queue', "close")
        /\ OneBy(queue, "close") /\ Head(queue).by # "close" => OneBy(queue', "close")
        /\ OneBy(queue, "close") /\ Head(queue).by = "close" => NoneBy(queue', "close")
    BY <1>1, AfterFirst
  <1>3. /\ NoneBy(returned, "close") /\ Head(queue).by # "close" => NoneBy(returned', "close")
        /\ NoneBy(returned, "close") /\ Head(queue).by = "close" => OneBy(returned', "close")
        /\ OneBy(returned, "close") /\ Head(queue).by # "close" => OneBy(returned', "close")
    BY <1>1, Behind
  <1>4. /\ Len(returned) \in Nat /\ Len(returned') = Len(returned) + 1
        /\ returned'[Len(returned) + 1] = e
        /\ \A i \in 1..Len(returned) : returned'[i] = returned[i] /\ i \in 1..Len(returned')
                                       /\ i < Len(returned) + 1
        /\ Len(returned) + 1 \in 1..Len(returned')
    BY <1>1
  <1>5. /\ Head(queue) = queue[1] /\ 1 \in 1..Len(queue)
        /\ \A i \in 1..Len(queue') : queue'[i] = queue[i + 1] /\ i + 1 \in 1..Len(queue) /\ 1 < i + 1
        /\ \A i, k \in 1..Len(queue') : i < k => i + 1 < k + 1
    BY <1>1
  <1>6. CASE close = "no"
    BY <1>1, <1>2, <1>3, <1>6 DEF CloseOf
  <1>7. CASE close = "closing" /\ run # "taken"
    <2>1. CASE /\ OneBy(queue, "close") /\ NoneBy(returned, "close")
               /\ wait = "none" => Ordered(queue)
      <3>1. CASE Head(queue).by = "close"
        <4>1. recorder' = "off"
          BY <1>1, <1>5, <3>1 DEF OpenOf, Jobs
        <4>2. wait = "none" => NoOpen'
          BY <1>5, <2>1, <3>1 DEF Ordered, NoOpen
        <4> QED BY <1>1, <1>2, <1>3, <1>7, <2>1, <3>1, <4>1, <4>2 DEF CloseOf
      <3>2. CASE Head(queue).by # "close"
        <4>1. wait = "none" => Ordered(queue')
          BY <1>5, <2>1 DEF Ordered
        <4> QED BY <1>1, <1>2, <1>3, <1>7, <2>1, <3>2, <4>1 DEF CloseOf
      <3> QED BY <3>1, <3>2
    <2>2. CASE /\ NoneBy(queue, "close") /\ OneBy(returned, "close")
               /\ wait = "none" => NoOpen
               /\ recorder # "off" =>
                     /\ wait = "arming"
                     /\ \E i, j \in 1..Len(returned) :
                           i < j /\ returned[i].by = "close" /\ returned[j].by = "wait"
      <3>1. wait = "none" => NoOpen'
        BY <1>5, <2>2 DEF NoOpen
      <3>2. ASSUME recorder' # "off", recorder # "off"
            PROVE  /\ wait = "arming"
                   /\ \E i, j \in 1..Len(returned') :
                         i < j /\ returned'[i].by = "close" /\ returned'[j].by = "wait"
        BY <1>4, <2>2, <3>2
      <3>3. ASSUME recorder' # "off", recorder = "off"
            PROVE  /\ wait = "arming"
                   /\ \E i, j \in 1..Len(returned') :
                         i < j /\ returned'[i].by = "close" /\ returned'[j].by = "wait"
        <4>1. Head(queue).cmd = "open" /\ Head(queue).by = "wait"
          BY <1>1, <3>3
        <4>2. wait # "none"
          BY <1>5, <2>2, <4>1 DEF NoOpen
        <4>3. ~NoneBy(queue, "wait")
          BY <1>5, <4>1 DEF NoneBy
        <4>4. wait = "arming"
          <5>1. wait \notin {"asleep", "arrived", "unwatching"} \/ run = "none"
            BY <1>7, <4>3 DEF WaitOf, TypeOK
          <5> QED BY <1>7, <4>2, <4>3, <5>1 DEF WaitOf, RunOf, TypeOK
        <4>5. PICK i \in 1..Len(returned) : returned[i].by = "close"
          BY <2>2 DEF OneBy
        <4> QED BY <1>1, <1>4, <4>1, <4>4, <4>5
      <3> QED BY <1>1, <1>2, <1>3, <1>7, <2>2, <3>1, <3>2, <3>3 DEF CloseOf
    <2> QED BY <1>7, <2>1, <2>2 DEF CloseOf
  <1>8. CASE close = "unwatching" /\ run # "taken" /\ wait = "none"
    <2>1. recorder = "off" /\ NoOpen
      BY <1>8 DEF CloseOf
    <2>2. Head(queue).cmd # "open" /\ NoOpen'
      BY <1>5, <2>1 DEF NoOpen
    <2> QED BY <1>1, <1>8, <2>1, <2>2 DEF CloseOf
  <1>9. CASE close # "no" /\ (close = "closing" => run = "taken")
             /\ (close = "unwatching" => run = "taken" \/ wait # "none")
    BY <1>1, <1>9 DEF CloseOf
  <1> QED BY <1>6, <1>7, <1>8, <1>9


LEMMA JobIs ==
    \A by \in Owners, cmd \in {"open", "close"} :
       Job(by, cmd) \in Jobs /\ Job(by, cmd).by = by /\ Job(by, cmd).cmd = cmd
  BY DEF Job, Jobs

LEMMA CloseSteps ==
    ASSUME TypeOK, NativeTypes, OwnedOf, RunOf, OpenOf, WaitOf, WaitOf', CloseOf, [Next]_vars
    PROVE  CloseOf'
  <1>0. UNCHANGED <<queue, returned, run, wait, close>> /\ (recorder' # "off" => recorder # "off")
           => CloseOf'
    BY DEF CloseOf, NoOpen
  <1>a. run \in {"none", "held", "taken"}
    BY DEF TypeOK
  <1>1. CASE Writes
    BY <1>0, <1>1 DEF Writes, owner, tasks
  <1>2. CASE Worker
    BY <1>2, CloseRuns DEF Worker
  <1>3. CASE Discards
    <2>1. PICK out \in Outcomes : Continues("wait", out) \/ Continues("watchdog", out)
      BY <1>3 DEF Discards
    <2>2. UNCHANGED <<queue, close, run>> /\ recorder' = recorder /\ wait' = wait
      BY <1>3 DEF Discards, owner, tasks
    <2> QED BY <2>1, <2>2, CloseReads
  <1>4. CASE Asks
    <2>1. /\ returned = <<>> /\ UNCHANGED <<recorder, returned, close, run>> /\ wait' = "arming"
          /\ queue' = Append(queue, Job("wait", "open"))
      BY <1>4 DEF Asks, owner
    <2>2. /\ NoneBy(queue, "close") => NoneBy(queue', "close")
          /\ OneBy(queue, "close") => OneBy(queue', "close")
      <3>1. Job("wait", "open") \in Jobs /\ Job("wait", "open").by # "close" /\ queue \in Seq(Jobs)
        BY DEF Job, Jobs, Owners, NativeTypes
      <3> QED BY <2>1, <3>1, Behind
    <2>3. ~OneBy(returned, "close")
      BY <2>1 DEF OneBy
    <2> QED BY <2>1, <2>2, <2>3 DEF CloseOf
  <1>5. CASE ArmRefused
    <2>1. UNCHANGED <<recorder, queue, run, close>> /\ wait' = "asleep"
      BY <1>5 DEF ArmRefused, owner
    <2>2. PICK out : Continues("wait", out)
      BY <1>5 DEF ArmRefused
    <2>3. /\ NoneBy(returned, "close") => NoneBy(returned', "close")
          /\ OneBy(returned, "close") => OneBy(returned', "close")
      <3>1. /\ returned \in Seq(Answers) /\ returned # <<>> /\ returned' = Tail(returned)
            /\ Head(returned).by # "close"
        BY <2>2, FirstAnswer
      <3> QED BY <3>1, AfterFirst
    <2>4. run = "held" => recorder' = "off"
      BY <2>1 DEF WaitOf
    <2>5. run # "none"
      BY <1>5 DEF ArmRefused, RunOf
    <2> QED BY <1>a, <2>1, <2>3, <2>4, <2>5 DEF CloseOf
  <1>6. CASE ArmTook
    <2>1. /\ run = "held" /\ wait = "arming" /\ wait' = "arrived"
          /\ UNCHANGED <<recorder, queue, run, close>>
      BY <1>6 DEF ArmTook, owner
    <2>2. Continues("wait", "ok")
      BY <1>6 DEF ArmTook
    <2>3. /\ returned \in Seq(Answers) /\ returned # <<>> /\ returned' = Tail(returned)
          /\ Head(returned).by = "wait" /\ returned[1] = Head(returned) /\ 1 \in 1..Len(returned)
      BY <2>2, FirstAnswer
    <2>4. /\ NoneBy(returned, "close") => NoneBy(returned', "close")
          /\ OneBy(returned, "close") => OneBy(returned', "close")
          /\ ~NoneBy(returned, "wait")
      BY <2>3, AfterFirst
    <2>5. NoneBy(queue, "wait") /\ OneBy(returned, "wait")
      BY <2>1, <2>4 DEF WaitOf
    <2>6. NoOpen
      BY <2>5, NoneOpens
    <2>7. NoOpen' /\ Ordered(queue')
      BY <2>1, <2>6 DEF NoOpen, Ordered
    <2>8. ~ \E i, j \in 1..Len(returned) :
               i < j /\ returned[i].by = "close" /\ returned[j].by = "wait"
      <3>1. \A j \in 1..Len(returned) : returned[j].by = "wait" => j = 1
        BY <2>3, <2>5 DEF OneBy
      <3> QED BY <3>1
    <2> QED BY <2>1, <2>4, <2>7, <2>8 DEF CloseOf
  <1>15. CASE NoPicture
    <2>1. /\ run = "held" /\ wait = "arming" /\ wait' = "unwatching"
          /\ UNCHANGED <<recorder, queue, run, close>>
      BY <1>15 DEF NoPicture, owner
    <2>2. Continues("wait", "no_video")
      BY <1>15 DEF NoPicture
    <2>3. /\ returned \in Seq(Answers) /\ returned # <<>> /\ returned' = Tail(returned)
          /\ Head(returned).by = "wait" /\ Head(returned).out = "no_video"
          /\ returned[1] = Head(returned) /\ 1 \in 1..Len(returned)
      BY <2>2, FirstAnswer
    <2>4. /\ NoneBy(returned, "close") => NoneBy(returned', "close")
          /\ OneBy(returned, "close") => OneBy(returned', "close")
          /\ ~NoneBy(returned, "wait")
      BY <2>3, AfterFirst
    <2>5. recorder = "off"
      BY <2>1, <2>3, <2>4 DEF WaitOf
    <2> QED BY <2>1, <2>4, <2>5 DEF CloseOf
  <1>16. CASE WaitUnwatched \/ WaitForestalled
    <2>1. UNCHANGED <<recorder, queue, returned, close>>
      BY <1>16 DEF WaitUnwatched, WaitForestalled, native
    <2>2. run' = "taken"
      <3>1. CASE WaitUnwatched
        BY <3>1 DEF WaitUnwatched, TakesRun
      <3>2. CASE WaitForestalled
        BY <1>a, <3>2 DEF WaitForestalled, owner, RunOf
      <3> QED BY <1>16, <3>1, <3>2
    <2> QED BY <2>1, <2>2 DEF CloseOf
  <1>17. CASE CloseUnwatches
    <2>1. /\ close = "closing" /\ run = "held" /\ close' = "unwatching" /\ queue' = Kept("watchdog")
          /\ UNCHANGED <<recorder, wait>> /\ Continues("close", "ok")
      BY <1>17 DEF CloseUnwatches
    <2>2. ~NoneBy(returned, "close")
      BY <2>1, FirstAnswer DEF NoneBy
    <2>3. wait = "none" => recorder = "off" /\ NoOpen
      BY <2>1, <2>2 DEF CloseOf
    <2>4. NoOpen => NoOpen'
      BY <2>1, KeptDrops, DroppedBy DEF NoOpen
    <2> QED BY <2>1, <2>3, <2>4 DEF CloseOf
  <1>7. CASE ArmRaced \/ NoPictureUnwatched \/ NoPictureNoRun \/ DogTapClosed
    <2>1. PICK by, out : by # "close" /\ Continues(by, out)
      BY <1>7 DEF ArmRaced, NoPictureUnwatched, NoPictureNoRun, DogTapClosed
    <2>2. NoneBy(returned, "close") => NoneBy(returned', "close")
      <3>1. /\ returned \in Seq(Answers) /\ returned # <<>> /\ returned' = Tail(returned)
        BY <2>1, FirstAnswer
      <3> QED BY <3>1, AfterFirst
    <2>3. NoneBy(queue, "close") => NoneBy(queue', "close")
      <3>1. CASE queue' = Append(queue, Job("wait", "close"))
        <4>1. Job("wait", "close") \in Jobs /\ Job("wait", "close").by # "close" /\ queue \in Seq(Jobs)
          BY DEF Job, Jobs, Owners, NativeTypes
        <4> QED BY <3>1, <4>1, Behind
      <3>2. CASE queue' = queue
        BY <3>2
      <3> QED BY <1>7, <3>1, <3>2 DEF ArmRaced, NoPictureUnwatched, NoPictureNoRun, DogTapClosed
    <2>4. run' = "taken" /\ close' = close
      <3>1. CASE ArmRaced \/ NoPictureNoRun
        <4>1. wait = "arming" /\ run # "held" /\ run' = run /\ close' = close
          BY <3>1 DEF ArmRaced, NoPictureNoRun, owner
        <4> QED BY <1>a, <4>1 DEF RunOf
      <3>2. CASE NoPictureUnwatched \/ DogTapClosed
        BY <3>2 DEF NoPictureUnwatched, DogTapClosed, TakesRun
      <3> QED BY <1>7, <3>1, <3>2
    <2> QED BY <2>2, <2>3, <2>4 DEF CloseOf
  <1>8. CASE CloseTakesRun \/ CloseUnwatched \/ CloseForestalled \/ CloseFindsNoRun \/ CloseStopped
    <2>1. close' \notin {"no", "closing", "unwatching"}
      BY <1>8 DEF CloseTakesRun, CloseUnwatched, CloseForestalled, CloseFindsNoRun, CloseStopped
    <2> QED BY <2>1 DEF CloseOf
  <1>9. CASE GaveUp
    <2>1. /\ UNCHANGED <<recorder, queue, returned, run, close>> /\ stop.at = "cleared"
      BY <1>9 DEF GaveUp, Stopped, native
    <2>2. run = "taken"
      BY <2>1 DEF OwnedOf
    <2> QED BY <2>1, <2>2 DEF CloseOf
  <1>10. CASE Barks
    <2>1. /\ returned = <<>> /\ UNCHANGED <<recorder, returned, close, run>> /\ wait' = "none"
          /\ dog = "watching" /\ queue' = Append(Kept("wait"), Job("watchdog", "close"))
      BY <1>10 DEF Barks, owner
    <2>2. PICK q \in Seq(Jobs) : q = Kept("wait")
      BY Queued DEF Owners
    <2>3. PICK j \in Jobs : j = Job("watchdog", "close") /\ j.by = "watchdog" /\ j.cmd = "close"
      BY JobIs DEF Owners
    <2>4. /\ NoneBy(queue, "close") => NoneBy(queue', "close")
          /\ OneBy(queue, "close") => OneBy(queue', "close")
      <3>1. /\ NoneBy(queue, "close") => NoneBy(q, "close")
            /\ OneBy(queue, "close") => OneBy(q, "close")
        BY <2>2, KeptDrops, DroppedBy
      <3> QED BY <2>1, <2>2, <2>3, <3>1, Behind
    <2>5. ~OneBy(returned, "close")
      BY <2>1 DEF OneBy
    <2>6. (wait = "none" => Ordered(queue)) => Ordered(queue')
      <3>1. run = "held" /\ wait \in {"none", "asleep", "arming", "arrived"}
        BY <1>a, <2>1 DEF RunOf
      <3>2. ~OneBy(returned, "wait")
        BY <2>1 DEF OneBy
      <3>3. wait \in {"asleep", "arrived"} => NoOpen
        BY <3>1, NoneOpens DEF WaitOf
      <3>4. wait = "arming" => OneBy(queue, "wait")
        BY <3>2 DEF WaitOf
      <3>5. (wait = "none" => Ordered(queue)) => Ordered(q)
        BY <2>2, <3>1, <3>3, <3>4, KeptOrdered
      <3>6. /\ Len(queue') = Len(q) + 1 /\ queue'[Len(q) + 1] = j /\ Len(q) \in Nat
            /\ \A i \in 1..Len(q) : queue'[i] = q[i]
        BY <2>1, <2>2, <2>3
      <3>7. ASSUME Ordered(q), NEW i \in 1..Len(queue'), NEW k \in 1..Len(queue'),
                   queue'[i].by = "close", i < k
            PROVE  queue'[k].cmd # "open"
        <4>1. i \in 1..Len(q) /\ q[i].by = "close"
          BY <3>6, <3>7
        <4>2. CASE k = Len(q) + 1
          BY <2>3, <3>6, <4>2
        <4>3. CASE k # Len(q) + 1
          <5>1. k \in 1..Len(q)
            BY <3>6, <4>3
          <5> QED BY <3>6, <3>7, <4>1, <5>1 DEF Ordered
        <4> QED BY <4>2, <4>3
      <3> QED BY <3>5, <3>7 DEF Ordered
    <2>7. close # "unwatching"
      BY <2>1 DEF RunOf
    <2> QED BY <2>1, <2>4, <2>5, <2>6, <2>7 DEF CloseOf
  <1>11. CASE Closes
    <2>1. /\ close = "no" /\ close' = "closing" /\ UNCHANGED returned
          /\ queue' = Append(Kept("wait"), Job("close", "close"))
      BY <1>11 DEF Closes
    <2>2. PICK q \in Seq(Jobs) : q = Kept("wait")
      BY Queued DEF Owners
    <2>3. PICK j \in Jobs : j = Job("close", "close") /\ j.by = "close"
      BY JobIs DEF Owners
    <2>4. NoneBy(q, "close")
      BY <2>1, <2>2, KeptDrops, DroppedBy DEF CloseOf
    <2>5. OneBy(queue', "close")
      BY <2>1, <2>2, <2>3, <2>4, Behind
    <2>6. Ordered(queue')
      <3>1. /\ Len(queue') = Len(q) + 1 /\ Len(q) \in Nat
            /\ \A i \in 1..Len(q) : queue'[i] = q[i]
        BY <2>1, <2>2, <2>3
      <3>2. ASSUME NEW i \in 1..Len(queue'), NEW k \in 1..Len(queue'),
                   queue'[i].by = "close", i < k
            PROVE  FALSE
        <4>1. i \in 1..Len(q) /\ q[i].by = "close"
          BY <3>1, <3>2
        <4> QED BY <2>4, <4>1 DEF NoneBy
      <3> QED BY <3>2 DEF Ordered
    <2> QED BY <2>1, <2>5, <2>6 DEF CloseOf
  <1>12. CASE Starts
    <2>1. /\ UNCHANGED <<recorder, queue, returned, close>> /\ run = "none" /\ wait' = "asleep"
      BY <1>12 DEF Starts, Arming, native
    <2>2. recorder = "off"
      BY <2>1 DEF WaitOf
    <2> QED BY <2>1, <2>2 DEF CloseOf
  <1>13. CASE \/ EncoderOpens \/ EncoderFails \/ EncoderExits \/ Thread \/ Track \/ LooksAway
              \/ Joins \/ Reaps \/ DogStopped \/ StartFails
    BY <1>0, <1>13 DEF EncoderOpens, EncoderFails, EncoderExits, Thread, ReadsHeader, ReadsPacket,
                       Sinks, Posts, DemuxEnds, Track, RunsPosted, Receives, Gets, Hands, LooksAway,
                       Joins, Reaps, DogStopped, Stopped, StartFails, native, owner, tasks
  <1>14. CASE UNCHANGED vars
    BY <1>0, <1>14 DEF vars, native, owner, tasks
  <1> QED BY <1>1, <1>2, <1>3, <1>4, <1>5, <1>6, <1>7, <1>8, <1>9, <1>10, <1>11, <1>12, <1>13, <1>14,
             <1>15, <1>16, <1>17
          DEF Next, Resumes, Unwatched, Watchdog, Stop


\* A close asked for behind everything else.
LEMMA SettledBehind ==
    ASSUME NEW q \in Seq(Jobs), NEW by \in Owners, queue' = Append(q, Job(by, "close"))
    PROVE  Settling'
  <1>1. PICK j \in Jobs : j = Job(by, "close") /\ j.cmd = "close"
    BY JobIs
  <1>2. /\ Len(queue') = Len(q) + 1 /\ Len(q) \in Nat /\ queue'[Len(q) + 1] = j
    BY <1>1
  <1>3. PICK i \in 1..Len(queue') : i = Len(queue') /\ queue'[i] = j
    BY <1>2
  <1>4. \A k \in (i + 1)..Len(queue') : queue'[k].cmd # "open"
    BY <1>2, <1>3
  <1> QED BY <1>1, <1>3, <1>4 DEF Settling

LEMMA SettledRuns ==
    ASSUME NativeTypes, OpenOf, Settling, NEW out \in Outcomes, Runs(out)
    PROVE  Settling'
  <1>1. /\ queue # <<>> /\ queue \in Seq(Jobs) /\ queue' = Tail(queue) /\ Head(queue) \in Jobs
        /\ recorder' \in {recorder, "off", "writing"}
        /\ recorder' = "writing" /\ recorder # "writing" => Head(queue).cmd = "open"
        /\ Head(queue).cmd = "close" => recorder' = "off"
    BY JobEnds
  <1>2. /\ Head(queue) = queue[1] /\ 1 \in 1..Len(queue) /\ Len(queue) \in Nat
        /\ Len(queue') = Len(queue) - 1
        /\ \A i \in 1..Len(queue') : queue'[i] = queue[i + 1] /\ i + 1 \in 1..Len(queue)
    BY <1>1
  <1>3. CASE recorder = "off" /\ NoOpen
    <2>1. NoOpen' /\ recorder' = "off"
      BY <1>1, <1>2, <1>3 DEF NoOpen
    <2> QED BY <2>1 DEF Settling
  <1>4. ASSUME NEW i \in 1..Len(queue), queue[i].cmd = "close",
               \A k \in (i + 1)..Len(queue) : queue[k].cmd # "open"
        PROVE  Settling'
    <2>1. CASE i = 1
      <3>1. \A k \in 1..Len(queue') : k + 1 \in (i + 1)..Len(queue)
        BY <1>2, <2>1
      <3>2. NoOpen' /\ recorder' = "off"
        BY <1>1, <1>2, <1>4, <2>1, <3>1 DEF NoOpen
      <3> QED BY <3>2 DEF Settling
    <2>2. CASE i # 1
      <3>1. PICK m \in 1..Len(queue') : m = i - 1
        BY <1>2, <2>2
      <3>2. queue'[m] = queue[i]
        BY <1>2, <3>1
      <3>3. \A k \in (m + 1)..Len(queue') : queue'[k] = queue[k + 1] /\ k + 1 \in (i + 1)..Len(queue)
        BY <1>2, <3>1
      <3>4. queue'[m].cmd = "close" /\ \A k \in (m + 1)..Len(queue') : queue'[k].cmd # "open"
        BY <1>4, <3>2, <3>3
      <3> QED BY <3>4 DEF Settling
    <2> QED BY <2>1, <2>2
  <1> QED BY <1>3, <1>4 DEF Settling

\* An arm that did not take leaves the tap closed.
LEMMA ArmLeaves ==
    ASSUME NativeTypes, OpenOf, WaitOf, wait = "arming", NEW out, out # "ok", Continues("wait", out)
    PROVE  recorder = "off" /\ NoOpen
  <1>1. /\ returned \in Seq(Answers) /\ returned # <<>>
        /\ Head(returned).by = "wait" /\ Head(returned).out = out
        /\ returned[1] = Head(returned) /\ 1 \in 1..Len(returned)
    BY FirstAnswer
  <1>2. ~NoneBy(returned, "wait")
    BY <1>1 DEF NoneBy
  <1>3. /\ NoneBy(queue, "wait")
        /\ recorder # "off" =>
              \A i \in 1..Len(returned) : returned[i].by = "wait" => returned[i].out = "ok"
    BY <1>2 DEF WaitOf
  <1>4. recorder = "off"
    BY <1>1, <1>3
  <1> QED BY <1>3, <1>4, NoneOpens

LEMMA TapSteps ==
    ASSUME TypeOK, NativeTypes, OwnedOf, RunOf, OpenOf, WaitOf, CloseOf, TapOf, [Next]_vars
    PROVE  TapOf'
  <1>a. run \in {"none", "held", "taken"}
    BY DEF TypeOK
  <1>b. UNCHANGED queue /\ (recorder = "off" => recorder' = "off") /\ Settling => Settling'
    BY DEF Settling, NoOpen
  <1>c. wait' = wait /\ close' \in {close, "done"} /\ Slipped => Slipped'
    BY DEF Slipped
  <1>0. /\ UNCHANGED <<queue, run, wait, dog>> /\ close' \in {close, "done"}
        /\ recorder = "off" => recorder' = "off"
        => TapOf'
    <2>1. ASSUME UNCHANGED <<queue, run, wait, dog>>, close' \in {close, "done"},
                 recorder = "off" => recorder' = "off"
          PROVE  TapOf'
      BY <1>b, <1>c, <2>1 DEF TapOf
    <2> QED BY <2>1
  <1>1. CASE Writes
    BY <1>0, <1>1 DEF Writes, owner, tasks
  <1>2. CASE Worker
    <2>1. PICK out \in Outcomes : Runs(out)
      BY <1>2 DEF Worker
    <2>2. UNCHANGED <<run, wait, dog, close>>
      BY <2>1 DEF Runs, owner, tasks
    <2>3. Settling => Settling'
      BY <2>1, SettledRuns
    <2> QED BY <1>c, <2>2, <2>3 DEF TapOf
  <1>3. CASE Asks \/ ArmTook
    <2>1. /\ run = "held" /\ run' = "held" /\ wait \in {"asleep", "arming"} /\ dog' = dog
          /\ wait' # "unwatching"
      BY <1>3 DEF Asks, ArmTook, owner
    <2> QED BY <2>1 DEF TapOf
  <1>4. CASE ArmRaced
    <2>1. queue' = Append(queue, Job("wait", "close")) /\ wait = "arming" /\ dog' = dog
      BY <1>4 DEF ArmRaced
    <2>2. Settling'
      BY <2>1, SettledBehind DEF NativeTypes, Owners
    <2> QED BY <2>1, <2>2 DEF TapOf
  <1>5. CASE ArmRefused
    <2>1. UNCHANGED <<queue, recorder, run, dog>> /\ wait \in {"arming", "undoing"} /\ wait' = "asleep"
      BY <1>5 DEF ArmRefused, owner
    <2>2. wait = "arming" => Settling
      BY <1>5, ArmLeaves DEF ArmRefused, Settling
    <2> QED BY <1>b, <2>1, <2>2 DEF TapOf, Slipped
  <1>6. CASE NoPicture \/ NoPictureUnwatched
    <2>1. UNCHANGED <<queue, recorder>> /\ dog' = "ended" /\ wait = "arming" /\ Continues("wait", "no_video")
      BY <1>6 DEF NoPicture, NoPictureUnwatched, Unwatches
    <2>2. Settling
      BY <2>1, ArmLeaves DEF Settling
    <2> QED BY <1>b, <2>1, <2>2 DEF TapOf
  <1>7. CASE NoPictureNoRun
    <2>1. UNCHANGED <<queue, recorder, run, dog>> /\ wait = "arming" /\ Continues("wait", "no_video")
          /\ wait' = "none"
      BY <1>7 DEF NoPictureNoRun, owner
    <2>2. Settling
      BY <2>1, ArmLeaves DEF Settling
    <2> QED BY <1>b, <2>1, <2>2 DEF TapOf
  <1>8. CASE Barks
    <2>1. queue' = Append(Kept("wait"), Job("watchdog", "close")) /\ wait' = "none"
      BY <1>8 DEF Barks
    <2>2. Kept("wait") \in Seq(Jobs)
      BY Queued DEF Owners
    <2>3. Settling'
      BY <2>1, <2>2, SettledBehind DEF Owners
    <2> QED BY <2>1, <2>3 DEF TapOf
  <1>9. CASE DogTapClosed
    <2>1. UNCHANGED <<queue, recorder, wait>> /\ dog = "closing" /\ dog' = "stopping"
      BY <1>9 DEF DogTapClosed
    <2> QED BY <1>b, <2>1 DEF TapOf
  <1>10. CASE Closes
    <2>1. queue' = Append(Kept("wait"), Job("close", "close")) /\ dog' = dog
          /\ wait' \in {wait, "none"}
      BY <1>10 DEF Closes
    <2>2. Kept("wait") \in Seq(Jobs)
      BY Queued DEF Owners
    <2>3. Settling'
      BY <2>1, <2>2, SettledBehind DEF Owners
    <2> QED BY <2>1, <2>3 DEF TapOf
  <1>11. CASE CloseUnwatches
    <2>1. run' = "held" /\ dog # "ended" /\ dog' = "ended" /\ wait' = wait
      BY <1>11 DEF CloseUnwatches, Unwatches, owner
    <2>2. wait' # "unwatching"
      BY <2>1 DEF RunOf
    <2> QED BY <2>1, <2>2 DEF TapOf
  <1>17. CASE CloseTakesRun
    <2>1. /\ run = "held" /\ close = "closing" /\ dog = "ended" /\ dog' = "ended"
          /\ UNCHANGED <<queue, recorder>>
      BY <1>17 DEF CloseTakesRun
    <2>2. wait = "unwatching"
      BY <2>1 DEF RunOf
    <2>3. Settling'
      BY <1>b, <2>1, <2>2 DEF TapOf
    <2> QED BY <2>1, <2>3 DEF TapOf
  <1>18. CASE CloseUnwatched
    <2>1. /\ run = "held" /\ close = "unwatching" /\ close' = "stopping" /\ UNCHANGED <<wait, dog>>
          /\ UNCHANGED <<queue, recorder>>
      BY <1>18 DEF CloseUnwatched, native
    <2>2. dog = "ended" /\ wait \in {"none", "asleep", "arming", "arrived", "unwatching"}
      BY <2>1 DEF RunOf
    <2>3. CASE wait = "none"
      <3>1. recorder = "off" /\ NoOpen
        BY <2>1, <2>3 DEF CloseOf
      <3> QED BY <1>b, <2>1, <2>2, <2>3, <3>1 DEF TapOf, Settling
    <2>4. CASE wait = "asleep"
      <3>1. recorder = "off" /\ NoOpen
        BY <2>1, <2>4, NoneOpens DEF WaitOf
      <3> QED BY <1>b, <2>1, <2>2, <2>4, <3>1 DEF TapOf, Settling
    <2>5. CASE wait = "arming"
      BY <2>1, <2>2, <2>5 DEF TapOf
    <2>6. CASE wait = "arrived"
      <3>1. Slipped'
        BY <2>1, <2>6 DEF Slipped
      <3> QED BY <2>1, <2>2, <2>6, <3>1 DEF TapOf
    <2>7. CASE wait = "unwatching"
      <3>1. Settling'
        BY <1>b, <2>1, <2>7 DEF TapOf
      <3> QED BY <2>1, <2>2, <3>1 DEF TapOf
    <2> QED BY <2>2, <2>3, <2>4, <2>5, <2>6, <2>7
  <1>19. CASE WaitUnwatched \/ WaitForestalled
    <2>1. UNCHANGED <<queue, recorder, dog>> /\ wait = "unwatching" /\ wait' # "unwatching"
      BY <1>19 DEF WaitUnwatched, WaitForestalled, native
    <2>2. Settling'
      BY <1>b, <2>1 DEF TapOf
    <2> QED BY <2>1, <2>2 DEF TapOf
  <1>12. CASE GaveUp
    <2>1. UNCHANGED <<queue, recorder, run, dog>> /\ stop.by = "wait" /\ wait' = "none"
      BY <1>12 DEF GaveUp, Stopped, native
    <2>2. wait = "losing"
      BY <2>1 DEF RunOf
    <2> QED BY <1>b, <2>1, <2>2 DEF TapOf, Slipped
  <1>13. CASE DogStopped
    <2>1. UNCHANGED <<queue, recorder, run, wait, close>> /\ dog' = "ended"
      BY <1>13 DEF DogStopped, Stopped, native
    <2> QED BY <1>b, <1>c, <2>1 DEF TapOf
  <1>14. CASE Starts
    <2>1. run' = "held" /\ dog' = "watching" /\ wait' = "asleep"
      BY <1>14 DEF Starts
    <2> QED BY <2>1 DEF TapOf
  <1>15. CASE \/ EncoderOpens \/ EncoderFails \/ EncoderExits \/ Thread \/ Track \/ LooksAway
              \/ Discards \/ Joins \/ Reaps \/ CloseStopped \/ CloseFindsNoRun
              \/ CloseForestalled \/ StartFails
    BY <1>0, <1>15 DEF EncoderOpens, EncoderFails, EncoderExits, Thread, ReadsHeader, ReadsPacket,
                       Sinks, Posts, DemuxEnds, Track, RunsPosted, Receives, Gets, Hands, LooksAway,
                       Discards, Joins, Reaps, CloseStopped, CloseFindsNoRun, CloseForestalled,
                       Stopped, StartFails, native, owner, tasks
  <1>16. CASE UNCHANGED vars
    BY <1>0, <1>16 DEF vars, native, owner, tasks
  <1> QED BY <1>1, <1>2, <1>3, <1>4, <1>5, <1>6, <1>7, <1>8, <1>9, <1>10, <1>11, <1>12, <1>13,
             <1>14, <1>15, <1>16, <1>17, <1>18, <1>19
          DEF Next, Resumes, Unwatched, Watchdog, Stop

-----------------------------------------------------------------------------
(* The theorems.                                                           *)

\* The strengthening: the run is taken once, what is posted is every packet stamped since in
\* order, and a packet that is queued is no older than its place says.
THEOREM Inductive == Spec => []IInv
  BY Initially, Steps, PTL DEF Spec

\* Everything is of its type: the queue of the track holds no more than its depth
\* (track.py:101-108), what was handed was enqueued, and what was enqueued was stamped.
THEOREM TypeCorrect == Spec => []TypeOK
  <1>1. IInv => TypeOK
    BY DEF IInv
  <1> QED BY Inductive, <1>1, PTL

\* However the watchdog, the wait and the end of the session race for the run, the output of
\* the encoder is closed only after the demux thread has ended (encoder.py:193).
THEOREM StdoutSafe == Spec => []NotClosedUnderReader
  <1>1. IInv => NotClosedUnderReader
    BY DEF IInv, OwnedOf, NotClosedUnderReader
  <1> QED BY Inductive, <1>1, PTL

\* Whoever takes the run, and whenever, what is on the worker closes the tap behind every
\* arm, or an arm comes back to its wait and is undone there (pipeline.py:119-125); the arm
\* that came back while the close awaited the watchdog (pipeline.py:199-200) is the one
\* exception, and it is the only one.
THEOREM OwedInductive == Spec => []Owed
  <1>1. Init => Owed
    <2> SUFFICES ASSUME Init PROVE Owed
      OBVIOUS
    <2>1. RunOf
      BY DEF Init, RunOf
    <2>2. OpenOf /\ WaitOf
      BY DEF Init, OpenOf, WaitOf, NoneBy
    <2>3. CloseOf
      BY DEF Init, CloseOf, NoneBy
    <2>4. TapOf
      BY DEF Init, TapOf
    <2> QED BY <2>1, <2>2, <2>3, <2>4 DEF Owed
  <1>2. IInv /\ Owed /\ [Next]_vars => Owed'
    <2> SUFFICES ASSUME IInv, Owed, [Next]_vars PROVE Owed'
      OBVIOUS
    <2>1. TypeOK /\ NativeTypes /\ OwnedOf /\ RunOf /\ OpenOf /\ WaitOf /\ CloseOf /\ TapOf
      BY Apart DEF IInv, Owed
    <2>2. RunOf' /\ OpenOf' /\ WaitOf'
      BY <2>1, RunOfSteps, OpenSteps, WaitSteps
    <2>3. CloseOf' /\ TapOf'
      BY <2>1, <2>2, CloseSteps, TapSteps
    <2> QED BY <2>2, <2>3 DEF Owed
  <1> QED BY <1>1, <1>2, Inductive, PTL DEF Spec

\* The session that has ended, with no stop under way and nothing of it on the worker, has
\* left no pipe, no read end, no child and no live track, whoever closed what, and no tap
\* but that of an arm that slipped between the end of the watchdog and that of the run.
THEOREM NothingLeft == Spec => []NothingLeftBehind
  <1>1. ASSUME IInv, Owed PROVE NothingLeftBehind
    <2> SUFFICES ASSUME close = "done", stop.at = "no", queue = <<>>, returned = <<>>
                 PROVE  Freed
      BY DEF NothingLeftBehind
    <2>1. track = "ended" /\ run \in {"none", "taken"}
      BY <1>1 DEF IInv, TypeOK, Owed, RunOf
    <2>2. CASE run = "none"
      BY <1>1, <2>1, <2>2 DEF Owed, RunOf, WaitOf, Freed
    <2>3. CASE run = "taken"
      <3>1. wait # "arming"
        BY <1>1 DEF Owed, WaitOf, OneBy
      <3>2. recorder = "off" \/ Slipped
        BY <1>1, <2>3, <3>1 DEF Owed, TapOf, Settling
      <3> QED BY <1>1, <2>1, <2>3, <3>2 DEF Owed, RunOf, Freed
    <2> QED BY <2>1, <2>2, <2>3
  <1> QED BY <1>1, Inductive, OwedInductive, PTL

\* What aiortc is handed is in order and no older than the queue is deep (track.py:42),
\* whatever sentinels are in the way.
THEOREM Refines == Spec => IsMediaLine
  <1>1. Init => Line!Init
    BY DEF Init, Line!Init
  <1>2. ASSUME IInv, [Next]_vars PROVE [Line!Captures \/ Line!HandsOver]_(Line!line)
    <2>1. CASE RunsPosted
      <3>1. handed' = handed /\ (enqueued' = enqueued \/ enqueued' = enqueued + 1)
        BY <1>2, <2>1, NextPosted DEF RunsPosted, IInv
      <3> QED BY <3>1 DEF Line!Captures, Line!line
    <2>2. CASE Gets
      <3>1. \/ handed' = handed
            \/ handed' \in (handed + 1)..enqueued /\ enqueued < handed' + Depth
        BY <1>2, <2>2, QueuedGets DEF IInv
      <3>2. enqueued' = enqueued
        BY <2>2 DEF Gets
      <3> QED BY <3>1, <3>2 DEF Line!HandsOver, Line!line
    <2>3. \/ RunsPosted \/ Gets
          \/ UNCHANGED <<enqueued, handed>>
      BY <1>2, MediaSteps DEF Posts, media
    <2> QED BY <2>1, <2>2, <2>3 DEF Line!line
  <1> QED BY Inductive, <1>1, <1>2, PTL DEF Spec, IsMediaLine, Line!Spec
=============================================================================
