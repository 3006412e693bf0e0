------------------------------ MODULE AudioBridge ------------------------------
(***************************************************************************)
(* One call's voice in both directions, across the boundary between the    *)
(* media clock thread and the event loop (media/audio/bridge.py), with     *)
(* what drives it on the loop (media/audio/tracks.py) and the teardown of  *)
(* the session that owns it (media/session.py).                            *)
(*                                                                         *)
(* There is no lock.  A step is what one thread does between two looks at  *)
(* what the other writes: on_frame and next_downlink are taken apart at    *)
(* every read and write of the deques and of the flag.  What runs on the   *)
(* loop is not interrupted by what else runs on the loop (AtAwait).        *)
(*                                                                         *)
(* A frame is its rank in the order it was produced.  aiortc's sender is   *)
(* not in the repository: it calls recv() again and again, and never again *)
(* after an exception.                                                     *)
(***************************************************************************)
EXTENDS Naturals, Sequences

CONSTANTS Backlog,      \* frames either direction holds
          MaxFrames,    \* bound: frames the doorphone sends
          MaxPushes     \* bound: frames the browser sends

ASSUME BridgeAssumption ==
    /\ Backlog \in Nat \ {0}
    /\ MaxFrames \in Nat
    /\ MaxPushes \in Nat

VARIABLES
    downlink,       \* AudioBridge._downlink
    received,       \* frames from the doorphone
    droppedDown,    \* AudioBridge.dropped_downlink
    taken,          \* history: the last frame that left the downlink
    uplink,         \* AudioBridge._uplink
    pushed,         \* frames from the browser
    droppedUp,      \* AudioBridge.dropped_uplink
    supplied,       \* history: the last frame that left the uplink
    clock,          \* where the media clock thread is in on_frame
    waiting,        \* AudioBridge._waiting
    arrival,        \* AudioBridge._arrival is set
    handles,        \* arrival.set calls posted to the loop and not run
    reader,         \* where the coroutine in next_downlink is
    pump,           \* where the browser's pump is in push_uplink
    sender,         \* does aiortc still call recv()
    reason,         \* AudioBridge.stop_reason
    leg             \* how far MediaSession.aclose() has come

down   == <<downlink, received, droppedDown, taken>>
up     == <<uplink, pushed, droppedUp, supplied, pump>>
signal == <<waiting, arrival, handles>>
vars   == <<down, up, clock, signal, reader, sender, reason, leg>>

Down == INSTANCE MediaLine WITH captured <- received, handed <- taken
Up   == INSTANCE MediaLine WITH captured <- pushed, handed <- supplied

TypeOK ==
    /\ downlink \in Seq(Nat) /\ Len(downlink) <= Backlog
    /\ uplink \in Seq(Nat) /\ Len(uplink) <= Backlog
    /\ {received, droppedDown, taken} \subseteq Nat
    /\ {pushed, droppedUp, supplied} \subseteq Nat
    /\ clock \in {"idle", "counted", "appended", "waking", "posting"}
    /\ waiting \in BOOLEAN
    /\ arrival \in BOOLEAN
    /\ handles \in Nat
    /\ reader \in {"away", "pop", "empty", "cleared", "raised", "asleep", "awake"}
    /\ pump \in {"none", "ready", "counted", "ended"}
    /\ sender \in {"sending", "stopped"}
    /\ reason \in {"none", "failed", "closed"}
    /\ leg \in {"attached", "closing", "detached", "closed", "gone"}

Init ==
    /\ downlink = <<>> /\ received = 0 /\ droppedDown = 0 /\ taken = 0
    /\ uplink = <<>> /\ pushed = 0 /\ droppedUp = 0 /\ supplied = 0
    /\ clock = "idle"
    /\ waiting = FALSE
    /\ arrival = FALSE
    /\ handles = 0
    /\ reader = "away"
    /\ pump = "none"
    /\ sender = "sending"
    /\ reason = "none"
    /\ leg = "attached"

-----------------------------------------------------------------------------
(* The media clock thread.                                                 *)

Full(queue) == IF Len(queue) = Backlog THEN 1 ELSE 0

\* Faulty variant of Appended: a full deque refuses the newest instead.
FaultyAppended(queue, frame) ==
    IF Full(queue) = 1 THEN queue ELSE Append(queue, frame)

\* deque(maxlen=backlog).append().
Appended(queue, frame) ==
    Append(IF Full(queue) = 1 THEN Tail(queue) ELSE queue, frame)

\* The native side holds the sink until it is detached.
Attached == leg \in {"attached", "closing"}

\* Faulty variant of Counts: the deque is taken to be full one frame late.
FaultyCounts ==
    /\ Attached /\ clock = "idle" /\ received < MaxFrames
    /\ droppedDown' = droppedDown + (IF Len(downlink) > Backlog THEN 1 ELSE 0)
    /\ clock' = "counted"
    /\ UNCHANGED <<downlink, received, taken, up, signal, reader, sender, reason, leg>>

\* on_frame() looks at how full the deque is, and counts the frame it will push
\* out; the loop may make room before the append.
Counts ==
    /\ Attached /\ clock = "idle" /\ received < MaxFrames
    /\ droppedDown' = droppedDown + Full(downlink)
    /\ clock' = "counted"
    /\ UNCHANGED <<downlink, received, taken, up, signal, reader, sender, reason, leg>>

Appends ==
    /\ clock = "counted"
    /\ downlink' = Appended(downlink, received + 1)
    /\ received' = received + 1
    /\ clock' = "appended"
    /\ UNCHANGED <<droppedDown, taken, up, signal, reader, sender, reason, leg>>

\* It looks for a reader that waits, once the frame is in.
Looks ==
    /\ clock = "appended"
    /\ clock' = IF waiting THEN "waking" ELSE "idle"
    /\ UNCHANGED <<down, up, signal, reader, sender, reason, leg>>

\* _wake() lowers the flag, then posts the wake-up.
Lowers ==
    /\ clock = "waking"
    /\ waiting' = FALSE
    /\ clock' = "posting"
    /\ UNCHANGED <<down, up, arrival, handles, reader, sender, reason, leg>>

Posts ==
    /\ clock = "posting"
    /\ handles' = handles + 1
    /\ clock' = "idle"
    /\ UNCHANGED <<down, up, waiting, arrival, reader, sender, reason, leg>>

\* next_frame(): None when there is nothing, which changes a counter only.
Supplies ==
    /\ Attached /\ clock = "idle" /\ uplink # <<>>
    /\ supplied' = Head(uplink)
    /\ uplink' = Tail(uplink)
    /\ UNCHANGED <<down, pushed, droppedUp, pump, clock, signal, reader, sender, reason, leg>>

-----------------------------------------------------------------------------
(* The reader: aiortc's sender, in recv(), in next_downlink().             *)

\* Nothing of this bridge is in the middle of a turn of the loop.
AtAwait == reader \in {"away", "asleep"} /\ pump # "counted"

Receives ==
    /\ AtAwait /\ sender = "sending" /\ reader = "away" /\ leg # "gone"
    /\ reader' = "pop"
    /\ UNCHANGED <<down, up, clock, signal, sender, reason, leg>>

\* stopped(): the first reason is the one that is kept.
Because(why) == reason' = IF reason = "none" THEN why ELSE reason

\* A packet goes to aiortc: the frame carries at least one whole sample.
Delivers ==
    /\ reader' = "away"
    /\ UNCHANGED <<sender, reason>>

\* _next_packet() asks for another frame: this one has no whole sample.
AsksAgain == UNCHANGED <<reader, sender, reason>>

\* The packet could not be made.  recv() says so and raises.
Fails ==
    /\ reader' = "away"
    /\ sender' = "stopped"
    /\ Because("failed")

Pops ==
    /\ reader = "pop" /\ downlink # <<>>
    /\ taken' = Head(downlink)
    /\ downlink' = Tail(downlink)
    /\ Delivers \/ AsksAgain \/ Fails
    /\ UNCHANGED <<received, droppedDown, up, clock, signal, leg>>

FindsNone ==
    /\ reader = "pop" /\ downlink = <<>>
    /\ reader' = "empty"
    /\ UNCHANGED <<down, up, clock, signal, sender, reason, leg>>

BridgeClosed == leg \in {"closed", "gone"}

\* None, and the end of the track.
IsClosed ==
    /\ reader = "empty" /\ BridgeClosed
    /\ reader' = "away"
    /\ sender' = "stopped"
    /\ Because("closed")
    /\ UNCHANGED <<down, up, clock, signal, leg>>

Clears ==
    /\ reader = "empty" /\ ~BridgeClosed
    /\ arrival' = FALSE
    /\ reader' = "cleared"
    /\ UNCHANGED <<down, up, clock, waiting, handles, sender, reason, leg>>

\* Faulty variant of Raises: the flag the clock thread lowered stays down.
FaultyRaises ==
    /\ reader = "cleared"
    /\ reader' = "raised"
    /\ UNCHANGED <<down, up, clock, signal, sender, reason, leg>>

Raises ==
    /\ reader = "cleared"
    /\ waiting' = TRUE
    /\ reader' = "raised"
    /\ UNCHANGED <<down, up, clock, arrival, handles, sender, reason, leg>>

\* Faulty variant of LooksOnceMore: it sleeps without looking again.
FaultyLooksOnceMore ==
    /\ reader = "raised"
    /\ reader' = IF arrival THEN "awake" ELSE "asleep"
    /\ UNCHANGED <<down, up, clock, signal, sender, reason, leg>>

\* It sleeps only if there is still nothing; a wait for a set event does not sleep.
LooksOnceMore ==
    /\ reader = "raised"
    /\ reader' = IF downlink = <<>> /\ ~BridgeClosed /\ ~arrival THEN "asleep" ELSE "awake"
    /\ UNCHANGED <<down, up, clock, signal, sender, reason, leg>>

Wakes ==
    /\ AtAwait /\ reader = "asleep" /\ arrival
    /\ reader' = "awake"
    /\ UNCHANGED <<down, up, clock, signal, sender, reason, leg>>

StopsWaiting ==
    /\ reader = "awake"
    /\ waiting' = FALSE
    /\ reader' = "pop"
    /\ UNCHANGED <<down, up, clock, arrival, handles, sender, reason, leg>>

\* A turn of the loop runs what the clock thread posted.
Runs ==
    /\ AtAwait /\ handles > 0
    /\ handles' = handles - 1
    /\ arrival' = TRUE
    /\ UNCHANGED <<down, up, clock, waiting, reader, sender, reason, leg>>

-----------------------------------------------------------------------------
(* The browser's pump.                                                     *)

\* _browser_track(): the browser's track arrived with its offer.
Begins ==
    /\ AtAwait /\ pump = "none" /\ leg = "attached"
    /\ pump' = "ready"
    /\ UNCHANGED <<down, uplink, pushed, droppedUp, supplied, clock, signal, reader, sender, reason, leg>>

\* push_uplink(), taken apart where the clock thread may supply a frame.
PushCounts ==
    /\ AtAwait /\ pump = "ready" /\ pushed < MaxPushes
    /\ droppedUp' = droppedUp + Full(uplink)
    /\ pump' = "counted"
    /\ UNCHANGED <<down, uplink, pushed, supplied, clock, signal, reader, sender, reason, leg>>

\* _take() cuts one decoded frame into as many frames as it holds, without a break.
Pushes ==
    /\ pump = "counted"
    /\ uplink' = Appended(uplink, pushed + 1)
    /\ pushed' = pushed + 1
    /\ \/ pump' = "ready" /\ UNCHANGED droppedUp
       \/ /\ pushed + 1 < MaxPushes
          /\ droppedUp' = droppedUp + Full(uplink')
          /\ pump' = "counted"
    /\ UNCHANGED <<down, supplied, clock, signal, reader, sender, reason, leg>>

\* The browser's track ends, or decodes to something the bridge does not take:
\* _drain() writes that down, and the session carries on.
PumpEnds ==
    /\ AtAwait /\ pump = "ready"
    /\ pump' = "ended"
    /\ UNCHANGED <<down, uplink, pushed, droppedUp, supplied, clock, signal, reader, sender, reason, leg>>

-----------------------------------------------------------------------------
(* The teardown, MediaSession.aclose().                                    *)

\* The session is marked closed and the pump is cancelled.
Closes ==
    /\ AtAwait /\ leg = "attached"
    /\ leg' = "closing"
    /\ pump' = "ended"
    /\ UNCHANGED <<down, uplink, pushed, droppedUp, supplied, clock, signal, reader, sender, reason>>

\* detach_audio() returns: the clock thread has left the sink, for good.
Detaches ==
    /\ AtAwait /\ leg = "closing" /\ clock = "idle"
    /\ leg' = "detached"
    /\ UNCHANGED <<down, up, clock, signal, reader, sender, reason>>

\* bridge.close() wakes whoever waits.
BridgeCloses ==
    /\ AtAwait /\ leg = "detached"
    /\ leg' = "closed"
    /\ arrival' = TRUE
    /\ UNCHANGED <<down, up, clock, waiting, handles, reader, sender, reason>>

\* The peer connection is closed: its sender is cancelled wherever it awaits.
PeerCloses ==
    /\ AtAwait /\ leg = "closed"
    /\ leg' = "gone"
    /\ sender' = "stopped"
    /\ reader' = "away"
    /\ UNCHANGED <<down, up, clock, signal, reason>>

-----------------------------------------------------------------------------
Clock == Counts \/ Appends \/ Looks \/ Lowers \/ Posts \/ Supplies

Reader ==
    \/ Receives \/ Pops \/ FindsNone \/ IsClosed \/ Clears \/ Raises
    \/ LooksOnceMore \/ Wakes \/ StopsWaiting

Pump == Begins \/ PushCounts \/ Pushes \/ PumpEnds

Teardown == Closes \/ Detaches \/ BridgeCloses \/ PeerCloses

Next == Clock \/ Reader \/ Runs \/ Pump \/ Teardown

Spec == Init /\ [][Next]_vars

\* The clock thread finishes the callback it is in, the loop goes on, and a teardown
\* that was begun ends.  No frame is ever owed: not by the panel, not by the browser.
FairSpec ==
    /\ Spec
    /\ WF_vars(Appends \/ Looks \/ Lowers \/ Posts)
    /\ WF_vars(Reader) /\ WF_vars(Runs) /\ WF_vars(Pushes)
    /\ WF_vars(Detaches \/ BridgeCloses \/ PeerCloses)

-----------------------------------------------------------------------------
(* Properties.                                                             *)

\* A wake-up is on its way to the reader: the clock thread is about to post it,
\* it is posted, or the event is set.
Owed == arrival \/ handles > 0 \/ clock \in {"waking", "posting"}

\* No wake-up is lost (bridge.py:114-119, the contract between _wake() and
\* next_downlink()): a reader that sleeps over a frame is owed a wake-up, or the
\* thread that just appended it is about to find the flag raised.
NoLostWakeUp ==
    reader = "asleep" =>
        /\ downlink # <<>> => Owed \/ (clock = "appended" /\ waiting)
        /\ waiting \/ Owed
        /\ BridgeClosed => arrival

\* What was neither handed over nor is still held was lost, and is counted
\* (bridge.py:103 and 168 count before they append, and the other thread may make
\* room in between): the counters never say less than what was lost.
LossesAreCounted ==
    /\ received - taken - Len(downlink) <= droppedDown
    /\ pushed - supplied - Len(uplink) <= droppedUp

\* Both directions are media lines: in order, and never more than the backlog late
\* (bridge.py:21-23).
AreMediaLines == Down!Spec /\ Up!Spec

\* Every frame the panel sends is handed over or overtaken by a later one, unless
\* the sender stops or the session ends: the reader never sleeps over a frame.
VoiceMoves ==
    \A f \in 1..MaxFrames :
        received >= f ~> taken >= f \/ sender = "stopped" \/ leg # "attached"

-----------------------------------------------------------------------------
(* Why they hold: the parts of an inductive invariant.                     *)

\* A direction holds the last frames produced, in order; what is neither there nor handed
\* over is counted, the frame that is about to be pushed out included.
LineOf(queue, produced, gone, dropped, leaving) ==
    /\ queue \in Seq(Nat) /\ Len(queue) <= Backlog
    /\ {produced, gone, dropped} \subseteq Nat
    /\ \A i \in 1..Len(queue) : queue[i] = (produced - Len(queue)) + i
    /\ gone + Len(queue) <= produced
    /\ produced + leaving <= dropped + gone + Len(queue)

DownLine == LineOf(downlink, received, taken, droppedDown,
                   IF clock = "counted" THEN Full(downlink) ELSE 0)
UpLine   == LineOf(uplink, pushed, supplied, droppedUp,
                   IF pump = "counted" THEN Full(uplink) ELSE 0)

\* A reader that raised the flag finds it raised, or is owed what lowered it.
SignalOf ==
    /\ reader \in {"raised", "asleep"} => waiting \/ Owed
    /\ NoLostWakeUp

IInv == TypeOK /\ DownLine /\ UpLine /\ SignalOf
=============================================================================
