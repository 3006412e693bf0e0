----------------------------- MODULE VideoDownlink -----------------------------
(***************************************************************************)
(* One call's picture, from the recorder on the media clock thread to the  *)
(* browser: the named pipe, the encoder and the demux thread               *)
(* (media/encoder.py), the watchdog (media/watchdog.py), the pipeline that *)
(* owns them (media/pipeline.py), the track (media/track.py), and the      *)
(* session that arms the tap, loses the picture or ends                    *)
(* (media/session_video.py, picture_wait.py).                              *)
(*                                                                         *)
(* The recorder writes while it holds the lock of the conference bridge,   *)
(* which every native call needs: on a pipe that is read by nobody who     *)
(* drains it, it stays in that write.  The recorder and ffmpeg are not in  *)
(* the repository.                                                         *)
(*                                                                         *)
(* A packet is its rank.  A budget of the watchdog is not measured: what   *)
(* was fresh at one look may be too old at the next.  Cancelling a task is *)
(* one turn of the loop.  A session starts its pipeline once.              *)
(***************************************************************************)
EXTENDS Naturals, Sequences, Queues

CONSTANTS Depth,        \* packets the track holds
          MaxPackets    \* bound: packets that come out of the encoder

ASSUME DownlinkAssumption ==
    /\ Depth \in Nat \ {0}
    /\ MaxPackets \in Nat

VARIABLES
    recorder,   \* off, writing, held in a write, or turned away by the pipe
    queue,      \* the worker's jobs, the running one first
    returned,   \* jobs that ended and whose continuation is still to run
    pipe,       \* the work directory with the named pipe in it
    standby,    \* EncoderRun._standby: this process holds the read end
    encoder,    \* the process
    stdout,     \* the encoder's output, as this process holds it
    demux,      \* the demux thread
    stopping,   \* EncoderRun._stopping
    run,        \* VideoDownlink._run: not made, held, or taken by who stops it
    stop,       \* EncoderRun.stop(): who runs it and what it awaits
    joined,     \* what _join_pump() found
    fresh,      \* the watchdog's budget has not run out
    dog,        \* the watchdog's task
    wait,       \* PictureWait
    close,      \* SessionVideo.aclose()
    track,      \* readyState of the track
    stamped,    \* packets submitted
    posted,     \* what was posted to the loop by the track
    packets,    \* VideoPacketTrack._queue
    enqueued,   \* history: the last packet that entered the queue
    handed,     \* history: the last packet that left it for aiortc
    reader      \* aiortc's sender in recv()

native  == <<recorder, queue, returned>>                          \* urmet_sdk, on its threads
process == <<pipe, standby, encoder, stdout, demux, stopping>>    \* EncoderRun
owner   == <<run, stop, joined>>                                  \* VideoDownlink
tasks   == <<fresh, dog, wait, close>>                            \* Watchdog, PictureWait
line    == <<track, stamped, posted, packets, enqueued, handed, reader>>  \* VideoPacketTrack
vars    == <<native, process, owner, tasks, line>>

Line == INSTANCE MediaLine WITH Backlog <- Depth, captured <- enqueued

End == 0                                    \* the sentinel: None in the queue
Owners   == {"wait", "watchdog", "close"}
Outcomes == {"ok", "no_video", "raised"}

TypeOK ==
    /\ recorder \in {"off", "writing", "blocked", "broken"}
    /\ queue \in Seq([by : Owners, cmd : {"open", "close"}])
    /\ returned \in Seq([by : Owners, out : Outcomes])
    /\ pipe \in {"none", "made", "cleared"}
    /\ standby \in BOOLEAN
    /\ encoder \in {"none", "starting", "draining", "hung", "dying", "exited", "reaped"}
    /\ stdout \in {"open", "closed"}
    /\ demux \in {"none", "opening", "reading", "sinking", "posting", "ended"}
    /\ stopping \in BOOLEAN
    /\ run \in {"none", "held", "taken"}
    /\ stop \in [by : Owners \cup {"nobody"}, at : {"no", "joining", "reaping", "cleared"}]
    /\ joined \in BOOLEAN
    /\ fresh \in BOOLEAN
    /\ dog \in {"none", "watching", "closing", "stopping", "ended"}
    /\ wait \in {"none", "asleep", "arming", "undoing", "arrived", "unwatching", "losing"}
    /\ close \in {"no", "closing", "unwatching", "stopping", "done"}
    /\ track \in {"live", "ended"}
    /\ stamped \in 0..MaxPackets
    /\ posted \in Seq(Nat)
    /\ packets \in Seq(Nat) /\ Len(packets) <= Depth
    /\ enqueued \in 0..stamped
    /\ handed \in 0..enqueued
    /\ reader \in {"away", "waiting", "yielding", "ended"}

Init ==
    /\ recorder = "off" /\ queue = <<>> /\ returned = <<>>
    /\ pipe = "none" /\ standby = FALSE /\ encoder = "none" /\ stdout = "open"
    /\ demux = "none" /\ stopping = FALSE
    /\ run = "none" /\ stop = [by |-> "nobody", at |-> "no"] /\ joined = FALSE
    /\ fresh = FALSE /\ dog = "none" /\ wait = "none" /\ close = "no"
    /\ track = "live" /\ stamped = 0 /\ posted = <<>> /\ packets = <<>>
    /\ enqueued = 0 /\ handed = 0 /\ reader = "away"

-----------------------------------------------------------------------------
(* The pipe: who writes, who reads.                                        *)

Alive   == encoder \in {"starting", "draining", "hung"}
Readers == standby \/ encoder \in {"draining", "hung", "dying"}

\* A write is held while somebody has the read end and nobody drains it, and fails once
\* nobody has it.
Writes ==
    /\ recorder \in {"writing", "blocked"}
    /\ recorder' = IF ~Readers THEN "broken"
                   ELSE IF encoder = "draining" THEN "writing" ELSE "blocked"
    /\ recorder' # recorder
    /\ UNCHANGED <<queue, returned, process, owner, tasks, line>>

EncoderOpens ==
    /\ encoder = "starting"
    /\ encoder' = "draining"
    /\ UNCHANGED <<native, pipe, standby, stdout, demux, stopping, owner, tasks, line>>

EncoderFails ==
    /\ Alive
    /\ encoder' \in {"hung", "exited"} \ {encoder}
    /\ UNCHANGED <<native, pipe, standby, stdout, demux, stopping, owner, tasks, line>>

EncoderExits ==
    /\ encoder = "dying"
    /\ encoder' = "exited"
    /\ UNCHANGED <<native, pipe, standby, stdout, demux, stopping, owner, tasks, line>>

-----------------------------------------------------------------------------
(* The demux thread.                                                       *)

\* A header came out: ffmpeg reads the pipe, and the standby is let go.
ReadsHeader ==
    /\ demux = "opening" /\ encoder = "draining" /\ recorder = "writing"
    /\ demux' = "reading"
    /\ standby' = FALSE
    /\ UNCHANGED <<native, pipe, encoder, stdout, stopping, owner, tasks, line>>

\* A packet came out: the thread ends if it was told to stop.
ReadsPacket ==
    /\ demux = "reading" /\ encoder \in {"draining", "dying", "exited"}
    /\ stamped < MaxPackets
    /\ demux' = IF stopping THEN "ended" ELSE "sinking"
    /\ UNCHANGED <<native, pipe, standby, encoder, stdout, stopping, owner, tasks, line>>

\* _receive(): the watchdog is fed first, then the track, if it is live.
Sinks ==
    /\ demux = "sinking"
    /\ fresh' = (fresh \/ dog = "watching")
    /\ demux' = IF track = "live" THEN "posting" ELSE "reading"
    /\ UNCHANGED <<native, pipe, standby, encoder, stdout, stopping, owner, dog, wait, close, line>>

\* submit() has stamped the packet, above the one before it, and posts it.
Posts ==
    /\ demux = "posting"
    /\ stamped' = stamped + 1
    /\ posted' = Append(posted, stamped + 1)
    /\ demux' = "reading"
    /\ UNCHANGED <<native, pipe, standby, encoder, stdout, stopping, owner, tasks, track,
                   packets, enqueued, handed, reader>>

\* The output of the encoder ends with it, or does not demux.
DemuxEnds ==
    /\ demux \in {"opening", "reading"}
    /\ demux' = "ended"
    /\ UNCHANGED <<native, pipe, standby, encoder, stdout, stopping, owner, tasks, line>>

-----------------------------------------------------------------------------
(* The track.                                                              *)

\* Faulty variant of Entered: the newest packet is dropped.
FaultyEntered(packet) == IF Len(packets) = Depth THEN packets ELSE Append(packets, packet)

\* _enqueue() drops the oldest of a full queue.
Entered(packet) == Append(IF Len(packets) = Depth THEN Tail(packets) ELSE packets, packet)

\* A turn of the loop runs what the track posted.  The sentinel finds no slot in a full
\* queue: that raises in the loop, which goes on.
RunsPosted ==
    /\ posted # <<>>
    /\ posted' = Tail(posted)
    /\ \/ /\ Head(posted) # End
          /\ packets' = Entered(Head(posted))
          /\ enqueued' = Head(posted)
       \/ /\ Head(posted) = End
          /\ packets' = IF Len(packets) = Depth THEN packets ELSE Append(packets, End)
          /\ UNCHANGED enqueued
    /\ UNCHANGED <<native, process, owner, tasks, track, stamped, handed, reader>>

Receives ==
    /\ reader = "away" /\ dog # "none"
    /\ reader' = "waiting"
    /\ UNCHANGED <<native, process, owner, tasks, track, stamped, posted, packets, enqueued, handed>>

\* recv() goes on with what it got: the end, or a packet.
Gets ==
    /\ reader = "waiting" /\ packets # <<>>
    /\ packets' = Tail(packets)
    /\ IF Head(packets) = End \/ track = "ended"
       THEN reader' = "ended" /\ UNCHANGED handed
       ELSE reader' = "yielding" /\ handed' = Head(packets)
    /\ UNCHANGED <<native, process, owner, tasks, track, stamped, posted, enqueued>>

\* The loop has turned once, and the packet goes to aiortc.
Hands ==
    /\ reader = "yielding"
    /\ reader' = "away"
    /\ UNCHANGED <<native, process, owner, tasks, track, stamped, posted, packets, enqueued, handed>>

\* Faulty variant of TrackStops: nothing wakes who waits.
FaultyTrackStops == track' = "ended" /\ UNCHANGED posted

\* track.stop() posts the sentinel, each time it is called.
TrackStops ==
    /\ track' = "ended"
    /\ posted' = Append(posted, End)

-----------------------------------------------------------------------------
(* The pipeline: its start, its kill, its stop.                            *)

\* The offer has its voice tap.  Somebody may be closing the session already, and wait
\* for the worker behind that tap.
Arming == run = "none" /\ pipe = "none" /\ close \in {"no", "closing"}

\* EncoderRun.start(): the pipe, the standby reader, the encoder and the thread.
EncoderStarts ==
    pipe' = "made" /\ standby' = TRUE /\ encoder' = "starting" /\ demux' = "opening"

\* SessionVideo.arm(): the run, its watchdog, and the wait for a picture.
Starts ==
    /\ Arming
    /\ EncoderStarts
    /\ run' = "held"
    /\ dog' = "watching" /\ fresh' = TRUE /\ wait' = "asleep"
    /\ UNCHANGED <<native, stdout, stopping, stop, joined, close, line>>

\* There is no encoder to run, or no pipe to be made: nothing is left behind.
StartFails ==
    /\ Arming
    /\ pipe' = "cleared"
    /\ stopping' = TRUE
    /\ UNCHANGED <<native, standby, encoder, stdout, demux, owner, tasks, line>>

\* Faulty variant of Killed: the read end this process holds is forgotten.
FaultyKilled ==
    /\ stopping' = TRUE
    /\ encoder' = IF Alive THEN "dying" ELSE encoder
    /\ UNCHANGED standby

\* kill(): the recorder's next write must find no reader.
Killed ==
    /\ stopping' = TRUE
    /\ standby' = FALSE
    /\ encoder' = IF Alive THEN "dying" ELSE encoder

\* _stop_run() takes the watchdog first, unless it is gone, and awaits its end: the run is
\* still there, and its generation still valid.  A watchdog that stops the run itself has
\* nothing to await.
Unwatches == dog # "ended" /\ dog' = "ended"

\* Then it takes the run, which moves the generation, and stops it.
TakesRun(by) ==
    /\ run' = "taken"
    /\ stop' = [by |-> by, at |-> "joining"]
    /\ Killed

\* The demux thread ends in time, or is left to end alone.
Joins ==
    /\ stop.at = "joining"
    /\ joined' = (demux = "ended")
    /\ stop' = [stop EXCEPT !.at = "reaping"]
    /\ UNCHANGED <<native, process, run, tasks, line>>

\* Faulty variant of Reaps: the output is closed whoever still reads it.
FaultyReaps ==
    /\ stop.at = "reaping" /\ encoder = "exited"
    /\ encoder' = "reaped"
    /\ stdout' = "closed"
    /\ pipe' = "cleared"
    /\ stop' = [stop EXCEPT !.at = "cleared"]
    /\ UNCHANGED <<native, standby, demux, stopping, run, joined, tasks, line>>

\* The child is collected, its output closed if nobody reads it, its directory removed.
Reaps ==
    /\ stop.at = "reaping" /\ encoder = "exited"
    /\ encoder' = "reaped"
    /\ stdout' = IF joined THEN "closed" ELSE stdout
    /\ pipe' = "cleared"
    /\ stop' = [stop EXCEPT !.at = "cleared"]
    /\ UNCHANGED <<native, standby, demux, stopping, run, joined, tasks, line>>

\* Who ran the stop goes on, and ends the track.
Stopped(by) ==
    /\ stop.by = by /\ stop.at = "cleared"
    /\ stop' = [by |-> "nobody", at |-> "no"]
    /\ TrackStops
    /\ UNCHANGED <<native, process, run, joined, fresh, stamped, packets, enqueued, handed, reader>>

-----------------------------------------------------------------------------
(* The worker, and what the session has of the tap.                        *)

Job(by, cmd) == [by |-> by, cmd |-> cmd]

\* Cancelling a task takes its one job off the queue, unless it runs.
Kept(by) == Without(queue, {i \in 2..Len(queue) : queue[i].by = by})

Continues(by, out) ==
    /\ returned # <<>> /\ Head(returned) = [by |-> by, out |-> out]
    /\ returned' = Tail(returned)

\* The running job ends.  The tap opens only on a pipe somebody reads; the recorder is
\* taken out only between two writes.
Runs(out) ==
    LET j == Head(queue) IN
    /\ queue # <<>>
    /\ recorder # "blocked"
    /\ \/ /\ j.cmd = "open" /\ out = "ok" /\ recorder = "off" /\ Readers
          /\ recorder' = "writing"
       \/ j.cmd = "open" /\ out # "ok" /\ UNCHANGED recorder
       \/ j.cmd = "close" /\ out = "ok" /\ recorder' = "off"
    /\ queue' = Tail(queue)
    /\ returned' = Append(returned, [by |-> j.by, out |-> out])
    /\ UNCHANGED <<process, owner, tasks, line>>

\* Nobody waits for what a cancelled task had asked for.
Discards ==
    /\ \E out \in Outcomes :
          \/ Continues("wait", out) /\ wait \notin {"arming", "undoing"}
          \/ Continues("watchdog", out) /\ dog # "closing"
    /\ UNCHANGED <<recorder, queue, process, owner, tasks, line>>

\* The wait asks again: arm() refuses unless the run it began with drains its pipe.
Asks ==
    /\ returned = <<>>
    /\ wait = "asleep" /\ run = "held" /\ ~stopping
    /\ wait' = "arming"
    /\ queue' = Append(queue, Job("wait", "open"))
    /\ UNCHANGED <<recorder, returned, process, owner, fresh, dog, close, line>>

\* The tap took: the watchdog's budget starts again, and a picture is shown.
ArmTook ==
    /\ wait = "arming" /\ Continues("wait", "ok") /\ run = "held"
    /\ wait' = "arrived"
    /\ fresh' = TRUE
    /\ UNCHANGED <<recorder, queue, process, owner, dog, close, line>>

\* Faulty variant of ArmRaced: the tap is left where it is.
FaultyArmRaced ==
    /\ wait = "arming" /\ Continues("wait", "ok") /\ run # "held"
    /\ wait' = "asleep"
    /\ UNCHANGED <<recorder, queue, process, owner, fresh, dog, close, line>>

\* The tap took on a pipe that is dead since: it is taken out again.
ArmRaced ==
    /\ wait = "arming" /\ Continues("wait", "ok") /\ run # "held"
    /\ wait' = "undoing"
    /\ queue' = Append(queue, Job("wait", "close"))
    /\ UNCHANGED <<recorder, process, owner, fresh, dog, close, line>>

ArmRefused ==
    /\ \/ wait = "arming" /\ Continues("wait", "raised")
       \/ wait = "undoing" /\ Continues("wait", "ok")
    /\ wait' = "asleep"
    /\ UNCHANGED <<recorder, queue, process, owner, fresh, dog, close, line>>

\* The panel offers no picture: _lose() stops the watchdog and the run.
NoPicture ==
    /\ wait = "arming" /\ Continues("wait", "no_video") /\ run = "held"
    /\ wait' = "unwatching"
    /\ Unwatches
    /\ UNCHANGED <<recorder, queue, process, owner, fresh, close, line>>

\* The close of the session has taken the watchdog, and not yet the run.
NoPictureUnwatched ==
    /\ wait = "arming" /\ Continues("wait", "no_video") /\ run = "held" /\ dog = "ended"
    /\ wait' = "losing"
    /\ TakesRun("wait")
    /\ UNCHANGED <<recorder, queue, pipe, stdout, demux, joined, fresh, dog, close, line>>

\* There is no run to stop any more: _lose() only ends the track.
NoPictureNoRun ==
    /\ wait = "arming" /\ Continues("wait", "no_video") /\ run # "held"
    /\ wait' = "none"
    /\ TrackStops
    /\ UNCHANGED <<recorder, queue, process, owner, fresh, dog, close, stamped, packets,
                   enqueued, handed, reader>>

\* The watchdog has ended, and the run is still there, or somebody else took it meanwhile.
WaitUnwatched ==
    /\ wait = "unwatching" /\ run = "held"
    /\ wait' = "losing"
    /\ TakesRun("wait")
    /\ UNCHANGED <<native, pipe, stdout, demux, joined, fresh, dog, close, line>>

WaitForestalled ==
    /\ wait = "unwatching" /\ run # "held"
    /\ wait' = "none"
    /\ TrackStops
    /\ UNCHANGED <<native, process, owner, fresh, dog, close, stamped, packets, enqueued,
                   handed, reader>>

GaveUp ==
    /\ Stopped("wait")
    /\ wait' = "none"
    /\ UNCHANGED <<dog, close>>

-----------------------------------------------------------------------------
(* The watchdog.                                                           *)

\* It looks, and time has passed since.
LooksAway ==
    /\ returned = <<>>
    /\ dog = "watching" /\ fresh /\ encoder # "exited"
    /\ fresh' = FALSE
    /\ UNCHANGED <<native, process, owner, dog, wait, close, line>>

\* Nothing moved, or the encoder is dead: it is killed first, then the asking stops, and
\* the tap is closed.
Barks ==
    /\ returned = <<>>
    /\ dog = "watching" /\ (~fresh \/ encoder = "exited")
    /\ dog' = "closing"
    /\ Killed
    /\ wait' = "none"
    /\ queue' = Append(Kept("wait"), Job("watchdog", "close"))
    /\ UNCHANGED <<recorder, returned, pipe, stdout, demux, owner, fresh, close, line>>

\* The tap is closed: the picture is lost, and the reaction stops what it belongs to.
DogTapClosed ==
    /\ dog = "closing" /\ Continues("watchdog", "ok")
    /\ dog' = "stopping"
    /\ TakesRun("watchdog")
    /\ UNCHANGED <<recorder, queue, pipe, stdout, demux, joined, fresh, wait, close, line>>

DogStopped ==
    /\ Stopped("watchdog")
    /\ dog' = "ended"
    /\ UNCHANGED <<wait, close>>

-----------------------------------------------------------------------------
(* The end of the session.                                                 *)

\* aclose() stops the asking and closes the tap: the watchdog still watches.
Closes ==
    /\ close = "no"
    /\ close' = "closing"
    /\ wait' = IF wait \in {"unwatching", "losing"} THEN wait ELSE "none"
    /\ queue' = Append(Kept("wait"), Job("close", "close"))
    /\ UNCHANGED <<recorder, returned, process, owner, fresh, dog, line>>

\* Then the pipeline: the watchdog is cancelled, with the close it may be awaiting.  Until
\* it has ended an arm that comes back is taken.
CloseUnwatches ==
    /\ close = "closing" /\ Continues("close", "ok") /\ run = "held"
    /\ close' = "unwatching"
    /\ Unwatches
    /\ queue' = Kept("watchdog")
    /\ UNCHANGED <<recorder, process, owner, fresh, wait, line>>

\* The wait has taken the watchdog, and not yet the run.
CloseTakesRun ==
    /\ close = "closing" /\ Continues("close", "ok") /\ run = "held" /\ dog = "ended"
    /\ close' = "stopping"
    /\ TakesRun("close")
    /\ UNCHANGED <<recorder, queue, pipe, stdout, demux, joined, fresh, dog, wait, line>>

CloseUnwatched ==
    /\ close = "unwatching" /\ run = "held"
    /\ close' = "stopping"
    /\ TakesRun("close")
    /\ UNCHANGED <<native, pipe, stdout, demux, joined, fresh, dog, wait, line>>

CloseForestalled ==
    /\ close = "unwatching" /\ run # "held"
    /\ close' = "done"
    /\ TrackStops
    /\ UNCHANGED <<native, process, owner, fresh, dog, wait, stamped, packets, enqueued,
                   handed, reader>>

\* There is no run, or somebody else stops it: only the track is ended.
CloseFindsNoRun ==
    /\ close = "closing" /\ Continues("close", "ok") /\ run # "held"
    /\ close' = "done"
    /\ TrackStops
    /\ UNCHANGED <<recorder, queue, process, owner, fresh, dog, wait, stamped, packets,
                   enqueued, handed, reader>>

CloseStopped ==
    /\ Stopped("close")
    /\ close' = "done"
    /\ UNCHANGED <<dog, wait>>

-----------------------------------------------------------------------------
Worker   == \E out \in Outcomes : Runs(out)
Resumes  == \/ Discards \/ ArmTook \/ ArmRaced \/ ArmRefused
            \/ NoPicture \/ NoPictureUnwatched \/ NoPictureNoRun
            \/ DogTapClosed \/ CloseUnwatches \/ CloseTakesRun \/ CloseFindsNoRun
Unwatched == \/ WaitUnwatched \/ WaitForestalled
             \/ CloseUnwatched \/ CloseForestalled
Watchdog == LooksAway \/ Barks
Stop     == Joins \/ Reaps \/ GaveUp \/ DogStopped \/ CloseStopped
Thread   == ReadsHeader \/ ReadsPacket \/ Sinks \/ Posts \/ DemuxEnds
Track    == RunsPosted \/ Receives \/ Gets \/ Hands

Next ==
    \/ Writes \/ EncoderOpens \/ EncoderFails \/ EncoderExits
    \/ Thread \/ Track \/ Worker \/ Resumes \/ Unwatched \/ Watchdog \/ Stop
    \/ Starts \/ StartFails \/ Asks \/ Closes

Spec == Init /\ [][Next]_vars

(***************************************************************************)
(* The system runs a write that can go on and ends a process it has        *)
(* killed, the loop runs what it holds, the watchdog polls, the worker's   *)
(* calls end, and so do a join and a wait, which have timeouts.  An        *)
(* encoder owes nothing, and no session need start or end.                 *)
(***************************************************************************)
FairSpec ==
    /\ Spec
    /\ WF_vars(Writes) /\ WF_vars(EncoderExits) /\ WF_vars(Worker) /\ WF_vars(Resumes)
    /\ WF_vars(Unwatched) /\ WF_vars(Watchdog) /\ WF_vars(Stop) /\ WF_vars(RunsPosted)
    /\ WF_vars(Receives \/ Gets \/ Hands)

-----------------------------------------------------------------------------
\* The media clock thread is never left in a write (watchdog.py:3-6): whatever becomes
\* of the encoder, and whoever closes the tap meanwhile, the recorder goes on or is
\* turned away.  One killed encoder is not enough while this process holds the read end.
RecorderFreed == recorder = "blocked" ~> recorder # "blocked"

\* The output of the encoder is closed only when the demux thread no longer reads it
\* (encoder.py:193): closing a pipe another thread may still read is a use after free.
NotClosedUnderReader == stdout = "closed" => demux = "ended"

\* What reaches aiortc is in order, and never more than the queue's depth late
\* (track.py:42): a queue that is full loses its oldest.
IsMediaLine == Line!Spec

\* An arm that came back while the end of the session awaited the watchdog: the tap it put
\* in is on a pipe about to be killed, and nobody takes it out.
Slipped == wait = "arrived" /\ close \in {"stopping", "done"}

\* What pipeline.py:110-113 says of every arm: what a race leaves armed on a dead pipe is
\* closed.  It does not hold of one that slipped (README, section 4).
RaceIsClosed ==
    close = "done" /\ stop.at = "no" /\ queue = <<>> /\ returned = <<>> => recorder = "off"

Freed ==
    /\ recorder = "off" \/ Slipped
    /\ ~standby /\ pipe # "made"
    /\ encoder \in {"none", "reaped"}
    /\ track = "ended"

\* When the session has ended, no stop is under way and the worker has no job of it left,
\* nothing is left behind (pipeline.py:197-204, picture_wait.py:62-73): neither the pipe,
\* the read end, or the child of a run that somebody else had taken, nor a tap that an arm
\* of a cancelled wait, or one that raced the teardown, put in after it was closed; but
\* for the tap of an arm that slipped.
NothingLeftBehind ==
    close = "done" /\ stop.at = "no" /\ queue = <<>> /\ returned = <<>> => Freed

Gone == close = "done" /\ Freed /\ (encoder # "none" => reader = "ended")

\* A session that ends is gone for good, whatever its watchdog and its wait were doing:
\* the tap closed unless its arm slipped, the child collected, its directory removed, the
\* reader of the track ended although the sentinel may not fit the queue.  A wait that the
\* offer began behind the close is not stopped: it goes on asking, and is refused.
TeardownEnds == close # "no" ~> []Gone

-----------------------------------------------------------------------------
(* Why two of these are invariant: the parts of an inductive one.  What the *)
(* third needs besides is with its proof.                                  *)

\* A run is taken once, and stopped by who took it.
OwnedOf ==
    /\ stop.at # "no" => run = "taken"
    /\ stdout = "closed" => run = "taken" /\ demux = "ended"
    /\ stop.at = "reaping" /\ joined => demux = "ended"

\* What is posted and not enqueued is every packet that was stamped since, in order, among
\* the sentinels.
PostedOf ==
    /\ posted \in Seq(Nat) /\ stamped \in Nat /\ enqueued \in Nat /\ enqueued <= stamped
    /\ \A i \in 1..Len(posted) :
          posted[i] # End => posted[i] > enqueued /\ posted[i] <= stamped
    /\ \A i, j \in 1..Len(posted) :
          i < j /\ posted[i] # End /\ posted[j] # End => posted[i] < posted[j]
    /\ \A n \in Nat : enqueued < n /\ n <= stamped => \E i \in 1..Len(posted) : posted[i] = n

\* A packet of the queue is as many packets old as there are places behind it, at most.
Held(queued, gone, last) ==
    /\ queued \in Seq(Nat) /\ Len(queued) <= Depth
    /\ gone \in Nat /\ last \in Nat /\ gone <= last
    /\ \A i \in 1..Len(queued) :
          queued[i] # End =>
              /\ queued[i] > gone /\ queued[i] <= last
              /\ last + i <= queued[i] + Len(queued)
    /\ \A i, j \in 1..Len(queued) :
          i < j /\ queued[i] # End /\ queued[j] # End => queued[i] < queued[j]

QueuedOf == Held(packets, handed, enqueued)

\* The thread stamps the packet it looked for room for.
RoomOf == demux \in {"sinking", "posting"} => stamped < MaxPackets

IInv == TypeOK /\ OwnedOf /\ PostedOf /\ QueuedOf /\ RoomOf
=============================================================================
