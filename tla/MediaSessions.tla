---------------------------- MODULE MediaSessions ----------------------------
(***************************************************************************)
(* The browser legs bridged onto the live calls: the policy                *)
(* (usecases/sessions.py), the life of one leg (media/session.py), its     *)
(* picture (media/session_video.py, picture_wait.py, pipeline.py), the     *)
(* taps crossed to the SDK worker (sip/tap.py), and the hangup that waits  *)
(* for a leg to be gone (usecases/service.py).                             *)
(*                                                                         *)
(* A call is here once it streams.  The taps are the native side's, one of *)
(* each kind per call, whatever leg asked for them.  A leg stands for the  *)
(* offer that makes it too, so that it may wait for the leg it replaces.   *)
(* Awaiting a task that was just cancelled is a turn of the loop: a state  *)
(* of its own where a teardown awaits the watchdog, since its wait for a   *)
(* picture goes on meanwhile, and of nobody else.                          *)
(***************************************************************************)
EXTENDS Naturals, Sequences, FiniteSets, Queues

CONSTANTS Calls,      \* calls that stream
          Monitors,   \* those the gateway placed
          MaxOffers   \* bound: the offers browsers ever make

ASSUME SessionsAssumption ==
    /\ Monitors \subseteq Calls
    /\ MaxOffers \in Nat

VARIABLES
    up,        \* the dialogs the SIP stack has
    audio,     \* per call, the leg whose sink is in both directions, or Nobody
    video,     \* per call, the leg whose pipe the recorder writes into, or Nobody
    reports,   \* ends of dialogs hopped to the loop, not yet run
    calls,     \* the CallBook: the calls it lists as streaming
    sessions,  \* MediaSessions._sessions, in the order of the dict
    leg,       \* each leg, and the offer that makes it
    graces,    \* per call, the grace timers that run
    hanging,   \* per call, where a user's hangup() is
    queue,     \* the worker's jobs, the running one first
    returned   \* jobs that ended and whose continuation is still to run

native == <<up, audio, video, reports>>
vars   == <<up, audio, video, reports, calls, sessions, leg, graces, hanging, queue, returned>>

Legs   == 1..MaxOffers
Nobody == 0
Owners == {"offer", "close", "wait", "watchdog", "user", "reap"}
Outcomes == {"ok", "mismatch", "no_video", "raised"}

Leg == [call  : Calls,
        \* the offer: not made, waiting for the leg it replaces, awaiting the tap, taking
        \* a tap of the wrong format out, negotiating, closing what it could
        \* not answer, ended with or without an answer
        offer : {"none", "replacing", "attaching", "undoing", "negotiating",
                 "failing", "ended"},
        \* aclose(): what it awaits
        close : {"no", "video", "unwatching", "pipeline", "audio", "peer", "done"},
        awaited : [by : {"nobody", "offer", "user"}, leg : Legs \cup {Nobody}],
        \* PictureWait: asleep, its arm on the worker, taking a stale tap out, or over: it
        \* slipped if its arm took while the teardown of the leg awaited the watchdog
        wait  : {"none", "asleep", "arming", "undoing", "slipped"},
        \* VideoDownlink: not started, drained by its encoder, killed by the watchdog, gone
        pipe  : {"none", "up", "killed", "gone"}]

Job    == [by : Owners, leg : Legs \cup {Nobody}, call : Calls,
           cmd : {"attach", "detach", "open_video", "close_video", "hangup"}]
Result == [by : Owners, leg : Legs \cup {Nobody}, call : Calls,
           out : Outcomes]

TypeOK ==
    /\ up \in SUBSET Calls
    /\ audio \in [Calls -> Legs \cup {Nobody}]
    /\ video \in [Calls -> Legs \cup {Nobody}]
    /\ reports \in SUBSET Calls
    /\ calls \in SUBSET Calls
    /\ sessions \in Seq(Legs)
    /\ leg \in [Legs -> Leg]
    /\ graces \in [Calls -> Nat]
    /\ hanging \in [Calls -> {"no", "closing", "native"}]
    /\ queue \in Seq(Job)
    /\ returned \in Seq(Result)

NoOne == [by |-> "nobody", leg |-> Nobody]

Init ==
    /\ up = Calls
    /\ audio = [c \in Calls |-> Nobody]
    /\ video = [c \in Calls |-> Nobody]
    /\ reports = {}
    /\ calls = Calls
    /\ sessions = <<>>
    /\ leg \in [Legs -> {[call |-> c, offer |-> "none", close |-> "no", awaited |-> NoOne,
                          wait |-> "none", pipe |-> "none"] : c \in Calls}]
    /\ graces = [c \in Calls |-> 0]
    /\ hanging = [c \in Calls |-> "no"]
    /\ queue = <<>>
    /\ returned = <<>>

-----------------------------------------------------------------------------
(* The book of legs.                                                       *)

On(c, listed) == {i \in 1..Len(listed) : leg[listed[i]].call = c}

\* _for_call(): the first leg listed on the call, if there is one.
IsFor(s, c) == \E i \in On(c, sessions) : s = sessions[i] /\ \A j \in On(c, sessions) : i <= j
NoneFor(c)  == On(c, sessions) = {}

\* A leg is in the dict once.
Popped(s) == Without(sessions, {i \in 1..Len(sessions) : sessions[i] = s})

\* Faulty variant of Orphaned: the direction is tested the wrong way round.
FaultyOrphaned(c, listed) == On(c, listed) = {} /\ c \in calls /\ c \notin Monitors

\* _orphaned_monitor(): a call we placed that streams and has no leg.
Orphaned(c, listed) == On(c, listed) = {} /\ c \in calls /\ c \in Monitors

-----------------------------------------------------------------------------
(* The worker, and the awaits on it.                                       *)

Task(by, s, c, cmd) == [by |-> by, leg |-> s, call |-> c, cmd |-> cmd]
Submits(task)       == queue' = Append(queue, task)

\* Cancelling a task that awaits the worker takes its one job off the queue, unless it runs.
Kept(by, s) == Without(queue, {i \in 2..Len(queue) : queue[i].by = by /\ queue[i].leg = s})

Continues(by, s, out) ==
    /\ returned # <<>>
    /\ Head(returned).by = by
    /\ Head(returned).leg = s
    /\ Head(returned).out = out
    /\ returned' = Tail(returned)

\* A sleep lasts half a second at least: what the worker has handed back by then has run.
SleepsEnd == returned = <<>>

\* Nobody waits for what a cancelled task had asked for.
Discards(s) ==
    /\ \E out \in Outcomes : \/ Continues("wait", s, out) /\ leg[s].wait = "none"
                             \/ /\ Continues("watchdog", s, out)
                                /\ leg[s].pipe = "gone" \/ leg[s].close = "unwatching"
    /\ UNCHANGED <<up, audio, video, reports, calls, sessions, leg, graces, hanging, queue>>

\* attach_audio_tap: a call that is over has no media, a sink that is already there is
\* replaced or refused.
Attached(s, c, out) ==
    /\ out \in {"ok", "mismatch", "raised"}
    /\ out # "raised" => c \in up
    /\ audio' = IF out = "raised" THEN audio ELSE [audio EXCEPT ![c] = s]
    /\ UNCHANGED <<up, video, reports>>

Detached(c) ==
    /\ audio' = [audio EXCEPT ![c] = Nobody]
    /\ UNCHANGED <<up, video, reports>>

\* open_video_tap: refused on a pipe nobody reads, and while the picture is not there.
VideoOpened(s, c, out) ==
    /\ out \in {"ok", "no_video", "raised"}
    /\ out = "ok" => c \in up /\ video[c] = Nobody /\ s # Nobody /\ leg[s].pipe = "up"
    /\ out = "no_video" => c \in up
    /\ video' = IF out = "ok" THEN [video EXCEPT ![c] = s] ELSE video
    /\ UNCHANGED <<up, audio, reports>>

VideoClosed(c) ==
    /\ video' = [video EXCEPT ![c] = Nobody]
    /\ UNCHANGED <<up, audio, reports>>

\* A dialog that ends releases its taps and is reported.
Over(c) ==
    IF c \in up
    THEN /\ up' = up \ {c}
         /\ reports' = reports \cup {c}
         /\ audio' = [audio EXCEPT ![c] = Nobody]
         /\ video' = [video EXCEPT ![c] = Nobody]
    ELSE UNCHANGED native

\* The running job ends.
Runs(out) ==
    LET j == Head(queue) IN
    /\ queue # <<>>
    /\ \/ j.cmd = "attach" /\ Attached(j.leg, j.call, out)
       \/ j.cmd = "detach" /\ out = "ok" /\ Detached(j.call)
       \/ j.cmd = "open_video" /\ VideoOpened(j.leg, j.call, out)
       \/ j.cmd = "close_video" /\ out = "ok" /\ VideoClosed(j.call)
       \/ j.cmd = "hangup" /\ out = "ok" /\ Over(j.call)
    /\ queue' = Tail(queue)
    /\ returned' = Append(returned, [by |-> j.by, leg |-> j.leg, call |-> j.call, out |-> out])
    /\ UNCHANGED <<calls, sessions, leg, graces, hanging>>

FarEnds(c) ==
    /\ c \in up
    /\ Over(c)
    /\ UNCHANGED <<calls, sessions, leg, graces, hanging, queue, returned>>

-----------------------------------------------------------------------------
(* aclose(): the first caller tears the leg down, the others return at     *)
(* once.  `l` is the legs as the caller leaves them.                       *)

\* The picture is no longer asked for, and the first tap is let go.
Closes(l, s, by, waiter) ==
    /\ leg' = [l EXCEPT ![s].close = "video", ![s].wait = "none",
                        ![s].awaited = [by |-> by, leg |-> waiter]]
    /\ queue' = Append(Kept("wait", s), Task("close", s, l[s].call, "close_video"))

\* Faulty variant of Fails: the offer waits for whoever is closing its leg.
FaultyFails(l, s) ==
    LET failing == [l EXCEPT ![s].offer = "failing"] IN
    \/ l[s].close = "no" /\ Closes(failing, s, "offer", s)
    \/ l[s].close # "no" /\ leg' = failing /\ UNCHANGED queue

\* What an offer that cannot be answered does on its way out.
Fails(l, s) ==
    \/ /\ l[s].close = "no"
       /\ Closes([l EXCEPT ![s].offer = "failing"], s, "offer", s)
    \/ /\ l[s].close # "no"
       /\ leg' = [l EXCEPT ![s].offer = "ended"]
       /\ UNCHANGED queue

\* The tap is closed: the pipeline is next, if it was ever started and is still there.
\* Its watchdog is cancelled, with the close it may be awaiting, and its end awaited.
VideoReturned(s) ==
    /\ leg[s].close = "video"
    /\ Continues("close", s, "ok")
    /\ IF leg[s].pipe \in {"up", "killed"}
       THEN /\ leg' = [leg EXCEPT ![s].close = "unwatching"]
            /\ queue' = Kept("watchdog", s)
       ELSE /\ leg' = [leg EXCEPT ![s].close = "audio"]
            /\ Submits(Task("close", s, leg[s].call, "detach"))
    /\ UNCHANGED <<up, audio, video, reports, calls, sessions, graces, hanging>>

\* Only then is the run taken, unless the wait found no picture meanwhile: until here an
\* arm that comes back is not a stale one.
Unwatched(s) ==
    /\ leg[s].close = "unwatching"
    /\ IF leg[s].pipe \in {"up", "killed"}
       THEN /\ leg' = [leg EXCEPT ![s].close = "pipeline", ![s].pipe = "gone"]
            /\ UNCHANGED queue
       ELSE /\ leg' = [leg EXCEPT ![s].close = "audio"]
            /\ Submits(Task("close", s, leg[s].call, "detach"))
    /\ UNCHANGED <<up, audio, video, reports, calls, sessions, graces, hanging, returned>>

\* The encoder and its thread are gone.
PipelineStopped(s) ==
    /\ leg[s].close = "pipeline"
    /\ leg' = [leg EXCEPT ![s].close = "audio"]
    /\ Submits(Task("close", s, leg[s].call, "detach"))
    /\ UNCHANGED <<up, audio, video, reports, calls, sessions, graces, hanging, returned>>

AudioReturned(s) ==
    /\ leg[s].close = "audio"
    /\ Continues("close", s, "ok")
    /\ leg' = [leg EXCEPT ![s].close = "peer"]
    /\ UNCHANGED <<up, audio, video, reports, calls, sessions, graces, hanging, queue>>

Opens(l, s, listed) ==
    /\ leg' = [l EXCEPT ![s].offer = "attaching"]
    /\ sessions' = Append(listed, s)
    /\ Submits(Task("offer", s, l[s].call, "attach"))

\* The peer connection is closed.  _session_closed() takes the leg out of the book, a
\* monitor left without one gets a grace, and who awaited aclose() goes on.
PeerClosed(s) ==
    LET c    == leg[s].call
        who  == leg[s].awaited
        done == [leg EXCEPT ![s].close = "done", ![s].awaited = NoOne]
    IN  /\ leg[s].close = "peer"
        /\ graces' = IF Orphaned(c, Popped(s)) THEN [graces EXCEPT ![c] = @ + 1] ELSE graces
        /\ \/ /\ who.by = "nobody"
              /\ leg' = done
              /\ sessions' = Popped(s)
              /\ UNCHANGED <<queue, hanging>>
           \/ /\ who.by = "offer" /\ who.leg = s
              /\ leg' = [done EXCEPT ![s].offer = "ended"]
              /\ sessions' = Popped(s)
              /\ UNCHANGED <<queue, hanging>>
           \/ /\ who.by = "offer" /\ who.leg # s
              /\ Opens(done, who.leg, Popped(s))
              /\ UNCHANGED hanging
           \/ /\ who.by = "user"
              /\ leg' = done
              /\ sessions' = Popped(s)
              /\ hanging' = [hanging EXCEPT ![c] = "native"]
              /\ Submits(Task("user", Nobody, c, "hangup"))
        /\ UNCHANGED <<up, audio, video, reports, calls, returned>>

-----------------------------------------------------------------------------
(* The offer.                                                              *)

Made(s) == leg[s].offer # "none"

\* A browser offers on a call that streams.  The leg that is there is replaced: it is
\* closed and waited for, unless somebody is closing it already.
Offers(s, c) ==
    LET new == [leg EXCEPT ![s].call = c] IN
    /\ c \in calls
    /\ ~Made(s) /\ \A t \in 1..(s-1) : Made(t)
    /\ \/ /\ NoneFor(c)
          /\ Opens(new, s, sessions)
       \/ \E t \in Legs :
             /\ IsFor(t, c)
             /\ \/ /\ leg[t].close = "no"
                   /\ Closes([new EXCEPT ![s].offer = "replacing"], t, "offer", s)
                   /\ UNCHANGED sessions
                \/ /\ leg[t].close # "no"
                   /\ Opens(new, s, sessions)
    /\ UNCHANGED <<up, audio, video, reports, calls, graces, hanging, returned>>

\* The voice is in: the pipeline starts, the picture is asked for, and the answer is
\* negotiated, unless there is no encoder to start.
AttachReturned(s, out) ==
    /\ leg[s].offer = "attaching"
    /\ Continues("offer", s, out)
    /\ \/ /\ out = "ok"
          /\ leg' = [leg EXCEPT ![s].offer = "negotiating", ![s].pipe = "up",
                                ![s].wait = "asleep"]
          /\ UNCHANGED queue
       \/ /\ out = "mismatch"
          /\ leg' = [leg EXCEPT ![s].offer = "undoing"]
          /\ Submits(Task("offer", s, leg[s].call, "detach"))
       \/ out \in {"ok", "raised"} /\ Fails(leg, s)
    /\ UNCHANGED <<up, audio, video, reports, calls, sessions, graces, hanging>>

UndoReturned(s) ==
    /\ leg[s].offer = "undoing"
    /\ Continues("offer", s, "ok")
    /\ Fails(leg, s)
    /\ UNCHANGED <<up, audio, video, reports, calls, sessions, graces, hanging>>

\* The negotiation ends, with an answer only while the peer connection is open.
Negotiated(s) ==
    /\ leg[s].offer = "negotiating"
    /\ \/ /\ leg[s].close \notin {"peer", "done"}
          /\ leg' = [leg EXCEPT ![s].offer = "ended"]
          /\ UNCHANGED queue
       \/ Fails(leg, s)
    /\ UNCHANGED <<up, audio, video, reports, calls, sessions, graces, hanging, returned>>

-----------------------------------------------------------------------------
(* The picture.                                                            *)

\* The wait wakes up and arms the tap.  On a pipeline that has moved on since the wait
\* began it is refused, and sleeps again.
Asks(s) ==
    /\ SleepsEnd
    /\ leg[s].wait = "asleep"
    /\ leg[s].pipe = "up"
    /\ leg' = [leg EXCEPT ![s].wait = "arming"]
    /\ Submits(Task("wait", s, leg[s].call, "open_video"))
    /\ UNCHANGED <<up, audio, video, reports, calls, sessions, graces, hanging, returned>>

\* A picture is shown.  Nobody takes the tap of an arm out that came back while the teardown
\* of its leg awaited the watchdog.
Arrived(s) == [leg EXCEPT ![s].wait = IF leg[s].close = "unwatching" THEN "slipped" ELSE "none"]

\* Faulty variant of ArmReturned: a stale arm is refused, and its tap left where it is.
FaultyArmReturned(s, out) ==
    /\ leg[s].wait = "arming"
    /\ Continues("wait", s, out)
    /\ out \in {"ok", "raised"}
    /\ leg' = IF out = "ok" /\ leg[s].pipe = "up" THEN Arrived(s)
              ELSE [leg EXCEPT ![s].wait = "asleep"]
    /\ UNCHANGED <<up, audio, video, reports, calls, sessions, graces, hanging, queue>>

\* An arm that raced the end of its pipeline takes out the tap it put in.  The pipeline of
\* a panel that offers no picture is stopped: that too awaits the watchdog first, but the
\* one wait that could arm the tap is the one that stops it.
ArmReturned(s, out) ==
    LET waits(w) == leg' = [leg EXCEPT ![s].wait = w] IN
    /\ leg[s].wait = "arming"
    /\ Continues("wait", s, out)
    /\ \/ out = "ok" /\ leg[s].pipe = "up" /\ leg' = Arrived(s) /\ UNCHANGED queue
       \/ /\ out = "ok" /\ leg[s].pipe # "up"
          /\ waits("undoing")
          /\ Submits(Task("wait", s, leg[s].call, "close_video"))
       \/ out = "raised" /\ waits("asleep") /\ UNCHANGED queue
       \/ /\ out = "no_video"
          /\ leg' = [leg EXCEPT ![s].wait = "none", ![s].pipe = "gone"]
          /\ UNCHANGED queue
    /\ UNCHANGED <<up, audio, video, reports, calls, sessions, graces, hanging>>

StaleReturned(s) ==
    /\ leg[s].wait = "undoing"
    /\ Continues("wait", s, "ok")
    /\ leg' = [leg EXCEPT ![s].wait = "asleep"]
    /\ UNCHANGED <<up, audio, video, reports, calls, sessions, graces, hanging, queue>>

\* Nothing moved for too long, or the encoder died: it is killed, the asking stops, and
\* the tap is closed.
Stalls(s) ==
    /\ SleepsEnd
    /\ leg[s].pipe = "up" /\ leg[s].close # "unwatching"
    /\ leg' = [leg EXCEPT ![s].pipe = "killed", ![s].wait = "none"]
    /\ queue' = Append(Kept("wait", s), Task("watchdog", s, leg[s].call, "close_video"))
    /\ UNCHANGED <<up, audio, video, reports, calls, sessions, graces, hanging, returned>>

PictureLost(s) ==
    /\ leg[s].pipe = "killed" /\ leg[s].close # "unwatching"
    /\ Continues("watchdog", s, "ok")
    /\ leg' = [leg EXCEPT ![s].pipe = "gone"]
    /\ UNCHANGED <<up, audio, video, reports, calls, sessions, graces, hanging, queue>>

-----------------------------------------------------------------------------
(* What else ends a leg: the client, the connection, the dialog, a hangup. *)

\* DELETE on the session, or the connection failed.
Drops(s) ==
    /\ leg[s].close = "no"
    /\ \E i \in 1..Len(sessions) : sessions[i] = s
    /\ Closes(leg, s, "nobody", Nobody)
    /\ UNCHANGED <<up, audio, video, reports, calls, sessions, graces, hanging, returned>>

\* The report of the end: call_ended() closes the leg in a task of its own.
CallEnded(c) ==
    /\ c \in reports
    /\ reports' = reports \ {c}
    /\ calls' = calls \ {c}
    /\ IF \E s \in Legs : IsFor(s, c) /\ leg[s].close = "no"
       THEN \E s \in Legs : IsFor(s, c) /\ Closes(leg, s, "nobody", Nobody)
       ELSE UNCHANGED <<leg, queue>>
    /\ UNCHANGED <<up, audio, video, sessions, graces, hanging, returned>>

\* hangup() closes the leg and waits for it, unless somebody is closing it already.
HangsUp(c) ==
    /\ hanging[c] = "no"
    /\ c \in calls
    /\ \/ \E s \in Legs :
             /\ IsFor(s, c) /\ leg[s].close = "no"
             /\ Closes(leg, s, "user", Nobody)
             /\ hanging' = [hanging EXCEPT ![c] = "closing"]
       \/ /\ \A s \in Legs : IsFor(s, c) => leg[s].close # "no"
          /\ Submits(Task("user", Nobody, c, "hangup"))
          /\ hanging' = [hanging EXCEPT ![c] = "native"]
          /\ UNCHANGED leg
    /\ UNCHANGED <<up, audio, video, reports, calls, sessions, graces, returned>>

\* A grace ends: a monitor that still has no leg is hung up.
GraceEnds(c) ==
    /\ graces[c] > 0
    /\ graces' = [graces EXCEPT ![c] = @ - 1]
    /\ IF Orphaned(c, sessions) THEN Submits(Task("reap", Nobody, c, "hangup"))
       ELSE UNCHANGED queue
    /\ UNCHANGED <<up, audio, video, reports, calls, sessions, leg, hanging, returned>>

HangupReturned(c, by) ==
    /\ returned # <<>> /\ Head(returned).call = c
    /\ Continues(by, Nobody, "ok")
    /\ calls' = calls \ {c}
    /\ hanging' = IF by = "user" THEN [hanging EXCEPT ![c] = "no"] ELSE hanging
    /\ UNCHANGED <<up, audio, video, reports, sessions, leg, graces, queue>>

-----------------------------------------------------------------------------
InProgress(s) == \/ leg[s].offer \notin {"none", "ended"}
                 \/ leg[s].close \notin {"no", "done"}

Worker == \E out \in Outcomes : Runs(out)

\* The continuation of the job that ended first.
Resumes ==
    /\ returned # <<>>
    /\ \/ \E s \in Legs :
             /\ s = Head(returned).leg
             /\ \/ VideoReturned(s) \/ AudioReturned(s) \/ UndoReturned(s)
                \/ StaleReturned(s) \/ PictureLost(s) \/ Discards(s)
                \/ \E out \in Outcomes : AttachReturned(s, out) \/ ArmReturned(s, out)
       \/ \E c \in Calls, by \in {"user", "reap"} : HangupReturned(c, by)

\* What a leg awaits elsewhere than on the worker.
Awaits(s) == Negotiated(s) \/ Unwatched(s) \/ PipelineStopped(s) \/ PeerClosed(s)

Call(c) == CallEnded(c) \/ GraceEnds(c)

\* No offer can be made any more, and nothing is under way.
Rests ==
    /\ queue = <<>> /\ returned = <<>>
    /\ \A s \in Legs : ~InProgress(s)
    /\ calls = {} \/ Made(MaxOffers)
    /\ UNCHANGED vars

Next ==
    \/ Worker \/ Resumes \/ Rests
    \/ \E s \in Legs : \/ Awaits(s) \/ Asks(s) \/ Stalls(s) \/ Drops(s)
                       \/ \E c \in Calls : Offers(s, c)
    \/ \E c \in Calls : Call(c) \/ FarEnds(c) \/ HangsUp(c)

Spec == Init /\ [][Next]_vars

(***************************************************************************)
(* The worker's calls are bounded, the loop runs what it holds, a          *)
(* negotiation and the end of a pipeline are bounded, and a grace ends.    *)
(* The worker and the loop are fair together, since a job that nobody has  *)
(* heard of holds every new one back; so are the last two: a leg and a     *)
(* call have but so many.                                                  *)
(***************************************************************************)
FairSpec ==
    /\ Spec
    /\ WF_vars(Worker \/ Resumes)
    /\ WF_vars((\E s \in Legs : Awaits(s)) \/ (\E c \in Calls : Call(c)))

-----------------------------------------------------------------------------
\* Nothing is under way on a call and no leg is listed on it: no tap is left armed, but one
\* of an arm that slipped (README, section 4).
NoTapLeft ==
    \A c \in Calls :
        /\ NoneFor(c)
        /\ \A i \in 1..Len(queue) : queue[i].call # c
        /\ \A i \in 1..Len(returned) : returned[i].call # c
        => audio[c] = Nobody /\ (video[c] = Nobody \/ leg[video[c]].wait = "slipped")

\* Once the browsers stop offering, every offer has ended and every teardown has taken
\* its leg out of the book: no two of them wait for each other, or for what is gone.
LegsSettle == <>[](\A s \in Legs : ~InProgress(s))

\* A monitor is not left for good by its last leg: it gets another, or ends.
Left(c) == NoneFor(c) /\ \E s \in Legs : leg[s].call = c /\ leg[s].close = "done"
OrphanReaped == \A c \in Monitors : []<>~(Left(c) /\ c \in up)

-----------------------------------------------------------------------------
(* Why they hold: the parts of an inductive invariant.  What is under way  *)
(* is a line: what the worker handed back, then what it has still to do.   *)

Item(r, q, k) == IF k <= Len(r) THEN r[k] ELSE q[k - Len(r)]
Places(r, q)  == 1..(Len(r) + Len(q))
IsOf(x, by, s) == x.by = by /\ x.leg = s

Has(r, q, by, s) == \E k \in Places(r, q) : IsOf(Item(r, q, k), by, s)

Ahead(r, q, first, then, s) ==
    \E i, k \in Places(r, q) :
        i < k /\ IsOf(Item(r, q, i), first, s) /\ IsOf(Item(r, q, k), then, s)

Queued(q, by, s) == \E k \in 1..Len(q) : IsOf(q[k], by, s)
Armed(r, s)      == \E k \in 1..Len(r) : IsOf(r[k], "wait", s) /\ r[k].out = "ok"

\* A task awaits one job at a time.
OnceIn(r, q) ==
    \A i, k \in Places(r, q) :
        LET x == Item(r, q, i) IN
        x.leg # Nobody /\ IsOf(Item(r, q, k), x.by, x.leg) => i = k

Unmade == {"none", "replacing"}
Unarmed == Unmade \cup {"attaching", "undoing"}

\* What a leg is at while something of it is under way.
DueOf(by, l) ==
    \/ by = "offer" /\ l.offer \in {"attaching", "undoing"}
    \/ by = "close" /\ l.close \in {"video", "audio"}
    \/ by = "wait" /\ l.offer \notin Unarmed /\ l.wait # "asleep"
    \/ by = "watchdog" /\ l.pipe \in {"killed", "gone"}

Due(x) ==
    \/ x.by \in {"user", "reap"} /\ x.leg = Nobody
    \/ x.leg \in Legs /\ x.call = leg[x.leg].call /\ DueOf(x.by, leg[x.leg])

\* What it has asked the worker for.
Placed(j) ==
    /\ Due(j)
    /\ \/ j.by \in {"user", "reap"} /\ j.cmd = "hangup"
       \/ j.by = "offer" /\ j.cmd = (IF leg[j.leg].offer = "attaching" THEN "attach" ELSE "detach")
       \/ j.by = "close" /\ j.cmd = (IF leg[j.leg].close = "video" THEN "close_video" ELSE "detach")
       \/ j.by = "wait" /\ j.cmd = "open_video" /\ leg[j.leg].wait \in {"arming", "none"}
       \/ j.by = "wait" /\ j.cmd = "close_video" /\ leg[j.leg].wait \in {"undoing", "none"}
       \/ j.by = "watchdog" /\ j.cmd = "close_video"

LineOf ==
    /\ OnceIn(returned, queue)
    /\ \A k \in 1..Len(returned) : Due(returned[k])
    /\ \A k \in 1..Len(queue) : Placed(queue[k])

\* A leg is in the book from its offer to the end of its teardown.
Listed(s) == \E i \in 1..Len(sessions) : sessions[i] = s
BookOf(s) ==
    /\ leg[s].offer \notin Unmade /\ leg[s].close # "done" => Listed(s)
    /\ Listed(s) => leg[s].offer \notin Unmade

\* A leg that replaces another waits for that one only, and nobody else waits for it.
AwaitedOf(s) ==
    LET who == leg[s].awaited IN
    who.by = "offer" =>
        /\ who.leg \in Legs
        /\ leg[who.leg].offer = (IF who.leg = s THEN "failing" ELSE "replacing")
        /\ \A t \in Legs : leg[t].awaited = who => t = s

FreshOf(s) ==
    /\ leg[s].offer \in Unmade => leg[s].close = "no"
    /\ leg[s].offer \in Unarmed => leg[s].wait = "none" /\ leg[s].pipe = "none"
    /\ leg[s].wait = "undoing" => leg[s].pipe # "up"
    /\ leg[s].wait = "slipped" => leg[s].close \notin {"no", "video"}

\* What a teardown overtakes, and what it comes after.
ClosingOf(s) ==
    LET before(first, then) == Ahead(returned, queue, first, then, s) IN
    /\ leg[s].close = "video" => Has(returned, queue, "close", s)
    /\ leg[s].close # "no" =>
          /\ leg[s].pipe = "up" => leg[s].close \in {"video", "unwatching"}
          /\ leg[s].offer = "attaching" /\ Has(returned, queue, "offer", s) =>
                leg[s].close = "video" /\ before("offer", "close")
          /\ leg[s].wait = "arming" /\ leg[s].close = "video" /\ leg[s].pipe = "up" =>
                before("close", "wait")
    /\ leg[s].wait = "none" /\ leg[s].pipe = "up" /\ Has(returned, queue, "wait", s) =>
          leg[s].close = "video" /\ before("wait", "close")

\* Who owes it to a call to take a tap out.
AudioOwed(c) ==
    LET s == audio[c] IN
    s # Nobody =>
        /\ leg[s].call = c /\ leg[s].offer \notin Unmade
        /\ \/ leg[s].close \in {"no", "video", "unwatching", "pipeline"}
           \/ leg[s].close = "audio" /\ Queued(queue, "close", s)

VideoOwed(c) ==
    LET s == video[c] IN
    s # Nobody =>
        /\ leg[s].call = c /\ leg[s].offer \notin Unmade
        /\ \/ leg[s].close = "no"
           \/ leg[s].close = "video" /\ Queued(queue, "close", s)
           \/ leg[s].wait = "arming" /\ Armed(returned, s)
           \/ leg[s].wait = "undoing" /\ Queued(queue, "wait", s)
           \/ leg[s].wait = "slipped"

IInv ==
    /\ TypeOK /\ LineOf
    /\ \A s \in Legs : BookOf(s) /\ AwaitedOf(s) /\ FreshOf(s) /\ ClosingOf(s)
    /\ \A c \in Calls : AudioOwed(c) /\ VideoOwed(c)
-----------------------------------------------------------------------------
(* Who waits.                                                              *)

\* The teardown of a leg is under way, and `who` awaits its end.
Tearing(l, s, who) == l[s].close \notin {"no", "done"} /\ l[s].awaited = who

\* Whoever awaits the worker has a job or its result under way.
AnsweredOf(s) ==
    LET expects(by) == Has(returned, queue, by, s) IN
    /\ leg[s].offer \in {"attaching", "undoing"} => expects("offer")
    /\ leg[s].close \in {"video", "audio"} => expects("close")
    /\ leg[s].wait \in {"arming", "undoing"} => expects("wait")
    /\ leg[s].pipe = "killed" /\ leg[s].close # "unwatching" => expects("watchdog")

\* Whoever awaits the end of a leg is known to its teardown.
OfferWaits(l, s) ==
    LET who == [by |-> "offer", leg |-> s] IN
    /\ l[s].offer = "failing" => Tearing(l, s, who)
    /\ l[s].offer = "replacing" => \E t \in Legs : t # s /\ Tearing(l, t, who)

HangupWaits(c) ==
    /\ hanging[c] = "closing" =>
          \E s \in Legs : leg[s].call = c /\ Tearing(leg, s, [by |-> "user", leg |-> Nobody])
    /\ hanging[c] = "native" =>
          \E k \in Places(returned, queue) :
             LET x == Item(returned, queue, k) IN IsOf(x, "user", Nobody) /\ x.call = c

\* Nobody is left waiting for what will not come (sessions.py:85-97, service.py:146,
\* session.py:129-142): not by an offer that replaces a leg or fails with its own, a wait
\* that is cancelled, or a hangup that crosses a teardown.
NoneStranded ==
    /\ \A s \in Legs : AnsweredOf(s) /\ OfferWaits(leg, s)
    /\ \A c \in Calls : HangupWaits(c)
=============================================================================
