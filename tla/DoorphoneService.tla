-------------------------- MODULE DoorphoneService --------------------------
(***************************************************************************)
(* The facade the HTTP layer calls (usecases/service.py), over the book of *)
(* live calls, the one SDK worker thread (sip/worker.py) and the hop that  *)
(* brings SIP callbacks onto the event loop (sip/bridge.py).               *)
(*                                                                         *)
(* Three kinds of actor interleave.  The event loop runs the coroutines of *)
(* the HTTP requests from one await to the next, and the callbacks.  The   *)
(* worker thread runs the blocking SDK calls one at a time, in order.  The *)
(* SIP stack and the panel move the dialogs.  Between an await and its     *)
(* continuation anything may happen.                                       *)
(*                                                                         *)
(* urmet_sdk is not in the repository: its dialogs are modelled from how   *)
(* this code and its doubles use it.  A dialog's reports reach the loop in *)
(* order and end with the terminal one.                                    *)
(***************************************************************************)
EXTENDS CallBook, Naturals, Sequences, FiniteSets

CONSTANTS Inbound,   \* dialogs the panel rings us on
          Outbound,  \* dialogs our INVITEs create
          Requests,  \* HTTP requests that can be in progress at once
          NoCall,    \* no dialog
          Prompt     \* every report the SDK made before a command returned
                     \* reaches the loop before that command's continuation

ASSUME ServiceAssumption ==
    /\ Calls = Inbound \cup Outbound
    /\ Inbound \cap Outbound = {}
    /\ NoCall \notin Calls
    /\ IsFiniteSet(Requests)
    /\ Prompt \in BOOLEAN

VARIABLES dialog,    \* what the SIP stack has: the truth about each dialog
          inbox,     \* per dialog, the callbacks hopped to the loop, not yet run
          queue,     \* the worker's jobs, the running one first
          request,   \* the coroutine of each request
          inviting   \* DoorphoneService._inviting

vars == <<calls, rang, dialog, inbox, queue, request, inviting>>

Commands == {"invite", "hangup", "answer", "open_during", "open_on_demand"}
Invites  == {"invite", "open_on_demand"}
Reports  == Live \cup {"ring", "over"}
Idle     == [op |-> "none", cmd |-> "none", at |-> "idle", call |-> NoCall,
             monitors |-> {}, ok |-> FALSE]

Request == [op : {"none", "place", "hangup", "answer", "open"},
            cmd : Commands \cup {"none"},
            \* idle, awaiting close_for_call, on the worker (queued, INVITE out,
            \* media up), or the SDK call returned and not yet continued
            at : {"idle", "closing", "native", "dialled", "streamed", "returned"},
            call : Calls \cup {NoCall},
            monitors : SUBSET Calls,     \* what _hangup_monitors has left
            ok : BOOLEAN]                \* FALSE: the SDK call raised

TypeOK ==
    /\ BookTypeOK
    /\ dialog \in [Calls -> {"none", "early", "streaming", "over"}]
    /\ inbox \in [Calls -> Seq(Reports)]
    /\ queue \in Seq(Requests)
    /\ request \in [Requests -> Request]
    /\ inviting \in Nat

Init ==
    /\ BookInit
    /\ dialog = [c \in Calls |-> "none"]
    /\ inbox = [c \in Calls |-> <<>>]
    /\ queue = <<>>
    /\ request = [r \in Requests |-> Idle]
    /\ inviting = 0

InFlight == {r \in Requests : request[r].cmd \in Invites}

Up(c)   == dialog[c] \in {"early", "streaming"}
sip     == <<dialog, inbox>>
Become(r, rec) == request' = [request EXCEPT ![r] = rec]

-----------------------------------------------------------------------------
(* The coroutines, from a request or a continuation to the next await.     *)

\* Submit an SDK call to the worker and await it.
Submit(r, op, cmd, c, monitors) ==
    /\ queue' = Append(queue, r)
    /\ Become(r, [op |-> op, cmd |-> cmd, at |-> "native", call |-> c,
                  monitors |-> monitors, ok |-> FALSE])

\* hangup() of a listed dialog awaits close_for_call first.
CloseLegFirst(r, op, c, monitors) ==
    /\ Become(r, [op |-> op, cmd |-> "hangup", at |-> "closing", call |-> c,
                  monitors |-> monitors, ok |-> FALSE])
    /\ UNCHANGED <<queue, inviting>>

\* Faulty variant of PlaceOn: the monitors are every streaming call, whoever started it.
FaultyPlaceOn(r, todo, listed) ==
    LET left == {c \in todo : listed[c].state # "absent"}
    IN  \/ \E c \in left : CloseLegFirst(r, "place", c, left \ {c})
        \/ /\ left = {}
           /\ Submit(r, "place", "invite", NoCall, {})
           /\ inviting' = inviting + 1

\* place_call(): hang up the dialogs of the snapshot `todo` that are ours, one at a time,
\* then send the INVITE.  `listed` is the book now: the side of a dialog is read at its
\* turn, and one that is passed over before `c` is not looked at again.
PlaceOn(r, todo, listed) ==
    LET left == {c \in todo : listed[c].state # "absent" /\ listed[c].side = "outgoing"}
    IN  \/ \E c \in left, passed \in SUBSET (todo \ left) :
              CloseLegFirst(r, "place", c, todo \ ({c} \cup passed))
        \/ /\ left = {}
           /\ Submit(r, "place", "invite", NoCall, {})
           /\ inviting' = inviting + 1

PlaceCall(r) ==
    /\ request[r].at = "idle"
    /\ PlaceOn(r, Streaming, calls)
    /\ UNCHANGED <<calls, rang, dialog, inbox>>

Hangup(r, c) ==
    /\ request[r].at = "idle"
    /\ Tracked(c)
    /\ CloseLegFirst(r, "hangup", c, {})
    /\ UNCHANGED <<calls, rang, dialog, inbox>>

Answer(r, c) ==
    /\ request[r].at = "idle"
    /\ Tracked(c)
    /\ Submit(r, "answer", "answer", c, {})
    /\ UNCHANGED <<calls, rang, dialog, inbox, inviting>>

Open(r) ==
    /\ request[r].at = "idle"
    /\ \/ /\ \E c \in Calls : /\ Oldest(c, Streaming)
                               /\ Submit(r, "open", "open_during", c, {})
          /\ UNCHANGED inviting
       \/ /\ Streaming = {}
          /\ Submit(r, "open", "open_on_demand", NoCall, {})
          /\ inviting' = inviting + 1
    /\ UNCHANGED <<calls, rang, dialog, inbox>>

\* The browser leg is down: hangup() goes on to the SDK.
LegClosed(r) ==
    /\ request[r].at = "closing"
    /\ Submit(r, request[r].op, "hangup", request[r].call, request[r].monitors)
    /\ UNCHANGED <<calls, rang, dialog, inbox, inviting>>

-----------------------------------------------------------------------------
(* The worker thread and the SIP stack.  A dialog that moves is reported.  *)

Running(r, cmd, at) ==
    /\ queue # <<>> /\ Head(queue) = r
    /\ request[r].cmd = cmd
    /\ request[r].at = at

Report(c, s) == inbox' = [inbox EXCEPT ![c] = Append(@, s)]
Moves(c, to) == dialog' = [dialog EXCEPT ![c] = to]

\* A dialog that is up ends; one that is not is left as it is.
Ends(c) ==
    \/ Up(c) /\ Moves(c, "over") /\ Report(c, "over")
    \/ ~Up(c) /\ UNCHANGED sip

\* Faulty variant of Returns: a call that raised never frees the worker thread.
FaultyReturns(r, ok) ==
    /\ queue' = IF ok THEN Tail(queue) ELSE queue
    /\ Become(r, [request[r] EXCEPT !.at = "returned", !.ok = ok])
    /\ UNCHANGED <<calls, rang, inviting>>

\* The SDK call is over; its job leaves the worker.
Returns(r, ok) ==
    /\ queue' = Tail(queue)
    /\ Become(r, [request[r] EXCEPT !.at = "returned", !.ok = ok])
    /\ UNCHANGED <<calls, rang, inviting>>

Advances(r, c, at) ==
    /\ Become(r, [request[r] EXCEPT !.at = at, !.call = c])
    /\ UNCHANGED <<calls, rang, queue, inviting>>

\* An INVITE of view_door or of an open on demand leaves.
Fresh == {c \in Outbound : dialog[c] = "none"}

Dials(r) == \E cmd \in Invites :
    LET c == CHOOSE d \in Fresh : TRUE IN
    /\ Fresh # {}
    /\ Running(r, cmd, "native")
    /\ Moves(c, "early")
    /\ Report(c, "connecting")
    /\ Advances(r, c, "dialled")

\* The panel answers it: the media streams.
Streams(r) == \E cmd \in Invites :
    LET c == request[r].call IN
    /\ Running(r, cmd, "dialled")
    /\ dialog[c] = "early"
    /\ Moves(c, "streaming")
    /\ Report(c, "streaming")
    /\ Advances(r, c, "streamed")

\* view_door returns its handle, even to a dialog that has ended meanwhile.
ViewReturns(r) ==
    /\ Running(r, "invite", "streamed")
    /\ Returns(r, TRUE)
    /\ UNCHANGED sip

\* open_door and open_gate release the short call they placed.
OnDemandReturns(r) == \E at \in {"dialled", "streamed"}, ok \in BOOLEAN :
    /\ Running(r, "open_on_demand", at)
    /\ Ends(request[r].call)
    /\ Returns(r, ok)

\* The SDK gives the INVITE up: refused, timed out, or nothing left to dial.
InviteFails(r) ==
    \/ \E cmd \in Invites :
          /\ Running(r, cmd, "native")
          /\ Returns(r, FALSE)
          /\ UNCHANGED sip
    \/ /\ Running(r, "invite", "dialled")
       /\ Ends(request[r].call)
       /\ Returns(r, FALSE)

NativeHangup(r) ==
    /\ Running(r, "hangup", "native")
    /\ \/ Ends(request[r].call) /\ Returns(r, TRUE)
       \/ UNCHANGED sip /\ Returns(r, FALSE)

NativeAnswer(r) ==
    LET c == request[r].call IN
    /\ Running(r, "answer", "native")
    /\ \/ /\ dialog[c] = "early"
          /\ Moves(c, "streaming")
          /\ Report(c, "streaming")
          /\ Returns(r, TRUE)
       \/ UNCHANGED sip /\ Returns(r, FALSE)

\* The INFO inside a live dialog moves no dialog, acknowledged or not.
NativeOpenDuring(r) ==
    /\ Running(r, "open_during", "native")
    /\ \E ok \in BOOLEAN : Returns(r, ok)
    /\ UNCHANGED sip

\* The panel rings.  The ring and the first state may reach the loop in either order.
Rings(c) ==
    /\ c \in Inbound
    /\ dialog[c] = "none"
    /\ Moves(c, "early")
    /\ \E first \in {<<"ring", "ringing">>, <<"ringing", "ring">>} :
          inbox' = [inbox EXCEPT ![c] = first]
    /\ UNCHANGED <<calls, rang, queue, request, inviting>>

\* The far end hangs up.
FarEnds(c) ==
    /\ Up(c)
    /\ Ends(c)
    /\ UNCHANGED <<calls, rang, queue, request, inviting>>

-----------------------------------------------------------------------------
(* Back on the loop: the callbacks and the continuations.                  *)

Arrives(c) == inbox' = [inbox EXCEPT ![c] = Tail(@)]

RingArrived(c) ==
    /\ inbox[c] # <<>> /\ Head(inbox[c]) = "ring"
    /\ MarkIncoming(c)
    /\ Arrives(c)
    /\ UNCHANGED <<dialog, queue, request, inviting>>

\* call_state_arrived(): the side is guessed from an INVITE of ours in flight, and
\* the CallEvent carries the direction the book ends up with.
Guess == IF inviting > 0 THEN "outgoing" ELSE "incoming"
PublishedSide(c) == SideOf(c, Guess)

\* Faulty variant of CallStateArrived: the transport may only refine, like a command.
FaultyCallStateArrived(c) ==
    /\ inbox[c] # <<>> /\ Head(inbox[c]) # "ring"
    /\ LET s == Head(inbox[c]) IN
          IF s = "over" THEN Forget(c) ELSE Refine(c, s, Guess)
    /\ Arrives(c)
    /\ UNCHANGED <<dialog, queue, request, inviting>>

CallStateArrived(c) ==
    /\ inbox[c] # <<>> /\ Head(inbox[c]) # "ring"
    /\ LET s == Head(inbox[c]) IN
          IF s = "over" THEN Forget(c) ELSE Record(c, s, Guess)
    /\ Arrives(c)
    /\ UNCHANGED <<dialog, queue, request, inviting>>

\* A continuation runs once the callbacks ahead of it in the loop have run.
Continues(r, cmd) ==
    /\ request[r].at = "returned"
    /\ request[r].cmd = cmd
    /\ Prompt /\ request[r].call # NoCall => inbox[request[r].call] = <<>>

\* Faulty variant of HangupReturned: the dialog is forgotten although the SDK raised.
FaultyHangupReturned(r) ==
    /\ Continues(r, "hangup")
    /\ Forget(request[r].call)
    /\ IF request[r].op = "place"
       THEN PlaceOn(r, request[r].monitors, calls')
       ELSE Become(r, Idle) /\ UNCHANGED <<queue, inviting>>
    /\ UNCHANGED <<dialog, inbox>>

HangupReturned(r) ==
    /\ Continues(r, "hangup")
    /\ IF ~request[r].ok
       THEN Become(r, Idle) /\ UNCHANGED <<book, queue, inviting>>
       ELSE /\ Forget(request[r].call)
            /\ IF request[r].op = "place"
               THEN PlaceOn(r, request[r].monitors, calls')
               ELSE Become(r, Idle) /\ UNCHANGED <<queue, inviting>>
    /\ UNCHANGED <<dialog, inbox>>

\* Faulty variant of PlaceReturned: the counter goes back only when the INVITE did.
FaultyPlaceReturned(r) ==
    /\ Continues(r, "invite")
    /\ IF request[r].ok
       THEN Refine(request[r].call, "streaming", "outgoing") /\ inviting' = inviting - 1
       ELSE UNCHANGED <<book, inviting>>
    /\ Become(r, Idle)
    /\ UNCHANGED <<dialog, inbox, queue>>

\* place_call() after _invite(): the counter goes back whatever happened, and the
\* entry the transport made is sharpened, if it is still there.
PlaceReturned(r) ==
    /\ Continues(r, "invite")
    /\ inviting' = inviting - 1
    /\ IF request[r].ok THEN Refine(request[r].call, "streaming", "outgoing")
       ELSE UNCHANGED book
    /\ Become(r, Idle)
    /\ UNCHANGED <<dialog, inbox, queue>>

AnswerReturned(r) ==
    /\ Continues(r, "answer")
    /\ IF request[r].ok THEN Refine(request[r].call, "streaming", "incoming")
       ELSE UNCHANGED book
    /\ Become(r, Idle)
    /\ UNCHANGED <<dialog, inbox, queue, inviting>>

OpenReturned(r) ==
    /\ \/ Continues(r, "open_during") /\ UNCHANGED inviting
       \/ Continues(r, "open_on_demand") /\ inviting' = inviting - 1
    /\ Become(r, Idle)
    /\ UNCHANGED <<book, dialog, inbox, queue>>

-----------------------------------------------------------------------------
Client(r) == PlaceCall(r) \/ Open(r) \/ \E c \in Calls : Hangup(r, c) \/ Answer(r, c)

Worker(r) ==
    \/ Dials(r) \/ Streams(r) \/ ViewReturns(r) \/ OnDemandReturns(r) \/ InviteFails(r)
    \/ NativeHangup(r) \/ NativeAnswer(r) \/ NativeOpenDuring(r)

Resumes(r) ==
    \/ LegClosed(r) \/ HangupReturned(r) \/ PlaceReturned(r)
    \/ AnswerReturned(r) \/ OpenReturned(r)

Callback(c) == RingArrived(c) \/ CallStateArrived(c)

Next ==
    \/ \E r \in Requests : Client(r) \/ Worker(r) \/ Resumes(r)
    \/ \E c \in Calls : Rings(c) \/ FarEnds(c) \/ Callback(c)

Spec == Init /\ [][Next]_vars

(***************************************************************************)
(* The loop runs every callback and every continuation it holds, and every *)
(* SDK call is bounded by a timeout of its own: it answers or it raises.   *)
(* No client has to ask for anything and no far end has to hang up.        *)
(***************************************************************************)
Fairness ==
    /\ \A r \in Requests : WF_vars(Worker(r)) /\ WF_vars(Resumes(r))
    /\ \A c \in Calls : WF_vars(Callback(c))

FairSpec == Spec /\ Fairness

-----------------------------------------------------------------------------
(* Safety.                                                                 *)

\* Once the loop has run the last report of a dialog, the dialog is not in the book
\* and no command in flight can put it back: an entry that came back would never
\* leave, and the doorphone would look busy until a restart.
NoResurrection ==
    \A c \in Calls : dialog[c] = "over" /\ inbox[c] = <<>> => ~Tracked(c)

\* A dialog leaves the book only when the SIP stack no longer has it: neither a
\* hangup that failed nor one still on its way hides a dialog that is up.
LeavesOnlyWhenOver ==
    [][\A c \in Calls : Tracked(c) /\ ~Tracked(c)' => dialog[c] = "over"]_vars

\* Placing a call hangs up monitors of ours, never a visitor's dialog, although an
\* inbound dialog first seen while an INVITE is in flight is taken for ours.
VisitorKept ==
    \A r \in Requests :
        /\ request[r].op = "place" /\ request[r].cmd = "hangup"
        /\ request[r].call \in Inbound
        => dialog[request[r].call] = "over"

\* The guess a callback makes is the right one: the counter is what is in flight,
\* whichever way each INVITE came back.
InvitingInFlight == inviting = Cardinality(InFlight)

(* Liveness.                                                               *)

\* Every request is answered: none waits for ever on the worker or on another.
EveryRequestReturns == \A r \in Requests : request[r].at # "idle" ~> request[r].at = "idle"

\* A dialog that streams is shown streaming, unless it ends first.
StreamingIsShown ==
    \A c \in Calls : dialog[c] = "streaming" ~> c \in Streaming \/ dialog[c] = "over"

-----------------------------------------------------------------------------
(* Why the safety properties hold: the parts of an inductive invariant.    *)

\* A dialog's terminal report is its last one, and is still to run as long as the
\* book lists a dialog that is over.
ReportsOf(c) ==
    LET n == Len(inbox[c]) IN
    /\ dialog[c] = "none" => n = 0 /\ ~Tracked(c) /\ c \notin rang
    /\ dialog[c] # "over" => \A i \in 1..n : inbox[c][i] # "over"
    /\ dialog[c] = "over" /\ n # 0
          => inbox[c][n] = "over" /\ \A i \in 1..n-1 : inbox[c][i] # "over"
    /\ dialog[c] = "over" /\ n = 0 => ~Tracked(c)

\* Where the ring and the first state of a visitor's dialog stand: until the ring has
\* run the dialog may be listed as ours, but then it is ringing, not streaming.
VisitorOf(c) ==
    \/ /\ ~Tracked(c)
       /\ dialog[c] = "early"
       /\ \/ inbox[c] \in {<<"ring", "ringing">>, <<"ringing", "ring">>} /\ c \notin rang
          \/ inbox[c] = <<"ringing">> /\ c \in rang
    \/ /\ Tracked(c)
       /\ c \in rang
       /\ calls[c].side = "incoming"
       /\ \/ inbox[c] = <<>>
          \/ inbox[c] = <<"streaming">> /\ dialog[c] = "streaming"
    \/ /\ Tracked(c)
       /\ c \notin rang
       /\ calls[c].side = "incoming" \/ calls[c].state = "ringing"
       /\ \/ inbox[c] = <<"ring">>
          \/ inbox[c] = <<"ring", "streaming">> /\ dialog[c] = "streaming"

DialogOf(c) == ReportsOf(c) /\ (c \in Inbound /\ Up(c) => VisitorOf(c))

\* A command names a dialog the transport made, a hangup that did not raise has ended
\* its own, and the visitors' dialogs a place_call looks at stream until they are over.
RequestOf(r) ==
    LET q == request[r] IN
    /\ q.cmd \in {"hangup", "answer"} => q.call \in Calls /\ dialog[q.call] # "none"
    /\ q.cmd = "answer" /\ Up(q.call) => Tracked(q.call)
    /\ q.cmd = "hangup" /\ q.at = "returned" /\ q.ok => dialog[q.call] = "over"
    /\ q.cmd \in Invites /\ q.at \in {"dialled", "streamed"}
          => q.call \in Outbound /\ dialog[q.call] # "none"
    /\ q.cmd = "invite" /\ q.at = "returned" /\ q.ok => q.call \in Outbound
    /\ q.at = "closing" => q.cmd = "hangup"
    /\ q.cmd = "none" <=> q.at = "idle"
    /\ \A c \in Inbound \cap q.monitors :
          dialog[c] # "none" /\ (Up(c) => calls[c].state = "streaming")
    /\ q.op = "place" /\ q.cmd = "hangup" /\ q.call \in Inbound => dialog[q.call] = "over"

IInv ==
    /\ TypeOK
    /\ InvitingInFlight
    /\ \A c \in Calls : DialogOf(c)
    /\ \A r \in Requests : RequestOf(r)
=============================================================================
