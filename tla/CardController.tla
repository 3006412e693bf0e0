---------------------------- MODULE CardController ----------------------------
(***************************************************************************)
(* The Lovelace card's link: the controller (card/src/controller.ts), the  *)
(* WebRTC link it makes (link/webrtc.ts), the view model it reads          *)
(* (state.ts) and the calls it makes onto Home Assistant (link/hass.ts).   *)
(*                                                                         *)
(* One thread runs the card, and every await is a place where a click, a   *)
(* pushed state or an answer of another await comes in.  Nothing cancels   *)
(* an await: what was under way when its link was closed still resumes.    *)
(*                                                                         *)
(* The gateway is what the card sees of it: a state that goes forward, a   *)
(* session opened for an offer.  The browser and Home Assistant are not    *)
(* in the repository.  A session has the number of its link.               *)
(***************************************************************************)
EXTENDS Naturals, FiniteSets

CONSTANTS Incoming,     \* calls of a visitor
          Outgoing,     \* calls that somebody placed to look
          Toggles,      \* presses of the talk button that may be under way at once
          AutoStart,    \* the card is configured with auto_start "always"
          MaxGestures,  \* bound: presses of Décrocher and Regarder
          None          \* no call

ASSUME CardAssumption ==
    /\ Incoming \cap Outgoing = {} /\ None \notin Incoming \cup Outgoing
    /\ IsFiniteSet(Toggles)
    /\ AutoStart \in BOOLEAN /\ MaxGestures \in Nat

VARIABLES
    seen,        \* the calls of the last pushed state
    connected,   \* the element is in the page
    sub,         \* the subscription: none, on its way, or on
    linkState,
    pending,     \* pendingCallId
    ignored,     \* ignoredCallId
    autoStarted,
    commands,    \* answer and look services that have not resolved
    gestures,    \* history: how often answer() and look() ran
    link,        \* the current link, or 0
    made,        \* links made, the last one's number
    connecting,
    hasRemote,
    sessionId,   \* the current session, or 0
    at,          \* where connect() of a link is
    closed,      \* WebrtcLink.closed
    session,     \* the session at the gateway: none, open, or told to close
    talking,
    held,        \* the link holds a microphone track
    live,        \* microphone streams acquired for the link and not stopped
    toggle       \* where each toggleTalk() is, and the link it captured

view  == <<seen, connected, sub>>
press == <<ignored, autoStarted, commands, gestures>>
own   == <<linkState, pending, link, connecting, hasRemote, sessionId, talking>>
wire  == <<made, at, session>>
mic   == <<closed, held, live>>
vars  == <<view, press, own, wire, mic, toggle>>

Calls == Incoming \cup Outgoing
Links == 1..(MaxGestures + 1)

\* A connecting call is like a ringing one, but for the banner; a call of somebody who looks
\* is nothing to the card before it streams.
Phases == {"absent", "ringing", "streaming", "ended", "gone"}
Rank   == [absent |-> 0, ringing |-> 1, streaming |-> 2, ended |-> 3, gone |-> 4]
Frames == {calls \in [Calls -> Phases] : \A c \in Outgoing : calls[c] # "ringing"}

Rest == [at |-> "no", link |-> 0]

TypeOK ==
    /\ seen \in Frames
    /\ connected \in BOOLEAN
    /\ sub \in {"none", "subscribing", "on"}
    /\ linkState \in {"idle", "answering", "negotiating", "waiting", "live", "degraded"}
    /\ pending \in Calls \cup {None}
    /\ ignored \in Calls \cup {None}
    /\ autoStarted \in BOOLEAN
    /\ gestures \in Nat /\ commands \in 0..gestures
    /\ link \in Links \cup {0} /\ sessionId \in Links \cup {0}
    /\ made \in Links \cup {0}
    /\ connecting \in BOOLEAN /\ hasRemote \in BOOLEAN /\ talking \in BOOLEAN
    /\ at \in [Links -> {"none", "offering", "posting", "answering", "up", "failed"}]
    /\ closed \in [Links -> BOOLEAN] /\ held \in [Links -> BOOLEAN]
    /\ session \in [Links -> {"none", "open", "told"}]
    /\ live \in [Links -> 0..Cardinality(Toggles)]
    /\ toggle \in [Toggles -> [at : {"no", "asking", "replacing", "unmuting", "muting"},
                               link : Links \cup {0}]]

Init ==
    /\ seen = [c \in Calls |-> "absent"] /\ connected = FALSE /\ sub = "none"
    /\ linkState = "idle" /\ pending = None /\ ignored = None /\ autoStarted = FALSE
    /\ commands = 0 /\ gestures = 0
    /\ link = 0 /\ made = 0 /\ connecting = FALSE /\ hasRemote = FALSE /\ sessionId = 0
    /\ at = [l \in Links |-> "none"] /\ closed = [l \in Links |-> FALSE]
    /\ session = [l \in Links |-> "none"]
    /\ talking = FALSE /\ held = [l \in Links |-> FALSE] /\ live = [l \in Links |-> 0]
    /\ toggle = [t \in Toggles |-> Rest]

-----------------------------------------------------------------------------
(* The view model (state.ts).                                              *)

Ringing(calls)   == {c \in Incoming : calls[c] = "ringing"}
Streaming(calls) == {c \in Calls : calls[c] = "streaming"}
Active(calls)    == Ringing(calls) \cup Streaming(calls)

-----------------------------------------------------------------------------
(* The end of a link.                                                      *)

\* WebrtcLink.close(): the track it holds is stopped.
Close ==
    /\ closed' = [l \in Links |-> closed[l] \/ l = link]
    /\ live' = [l \in Links |-> IF l = link /\ held[l] THEN live[l] - 1 ELSE live[l]]
    /\ held' = [l \in Links |-> held[l] /\ l # link]

\* Faulty variant of Teardown: the session is forgotten before it is read.
FaultyTeardown(then) ==
    /\ Close
    /\ link' = 0 /\ hasRemote' = FALSE /\ sessionId' = 0 /\ pending' = None
    /\ connecting' = FALSE /\ talking' = FALSE /\ linkState' = then
    /\ UNCHANGED session

\* teardown() forgets the link, whichever it is now, and tells the gateway of the session.
Teardown(then) ==
    /\ Close
    /\ link' = 0 /\ hasRemote' = FALSE /\ sessionId' = 0 /\ pending' = None
    /\ connecting' = FALSE /\ talking' = FALSE /\ linkState' = then
    /\ session' = [l \in Links |-> IF l = sessionId THEN "told" ELSE session[l]]

-----------------------------------------------------------------------------
(* The page, and what the gateway pushes.                                  *)

Connects ==
    /\ ~connected
    /\ connected' = TRUE
    /\ UNCHANGED <<seen, sub, press, own, wire, mic, toggle>>

\* ensureStarted(), on a connection and on every push of hass.
Subscribes ==
    /\ connected /\ sub = "none"
    /\ sub' = "subscribing"
    /\ UNCHANGED <<seen, connected, press, own, wire, mic, toggle>>

\* The subscription resolves, although the element may have left, or fails.
Subscribed ==
    /\ sub = "subscribing"
    /\ sub' \in {"on", "none"}
    /\ UNCHANGED <<seen, connected, press, own, wire, mic, toggle>>

\* hostDisconnected(): a subscription on its way is not ended.
Disconnects ==
    /\ connected
    /\ connected' = FALSE
    /\ sub' = IF sub = "on" THEN "none" ELSE sub
    /\ Teardown("idle")
    /\ UNCHANGED <<seen, press, made, at, toggle>>

\* Faulty variant of Waiting: a call that streams is joined by an idle card.
FaultyWaiting == linkState \in {"idle", "answering"}

\* advancePending() looks only for what a gesture waits for.
Waiting == linkState = "answering"

\* The call that was answered is over, before it could be joined.
Over(calls) == Waiting /\ pending # None /\ calls[pending] = "ended"

\* What the gesture waits for streams: its own call, or, for a look, any.
Ready(calls) ==
    /\ Waiting
    /\ IF pending = None THEN Streaming(calls) # {} ELSE calls[pending] = "streaming"

\* Faulty variant of MayOffer: a link that is up does not count.
FaultyMayOffer == ~connecting

MayOffer == ~connecting /\ link = 0

\* negotiate() makes a link, whose connect() starts an offer.
Negotiates ==
    /\ MayOffer
    /\ made' = made + 1 /\ link' = made + 1
    /\ at' = [at EXCEPT ![made + 1] = "offering"]
    /\ connecting' = TRUE
    /\ linkState' = "negotiating"
    /\ UNCHANGED <<press, pending, hasRemote, sessionId, talking, session, mic>>

\* A service is called for a gesture: the user's, or the card's own look.
Sends ==
    /\ commands' = commands + 1
    /\ gestures' = gestures + 1

AutoLooks(calls) == AutoStart /\ ~autoStarted /\ Active(calls) = {}

\* react() with a card that is idle: it may look, once in its life.
Idles(calls) ==
    /\ linkState = "idle"
    /\ IF AutoLooks(calls)
       THEN /\ autoStarted' = TRUE /\ Sends
            /\ linkState' = "answering" /\ pending' = None
            /\ UNCHANGED <<ignored, link, connecting, hasRemote, sessionId, talking>>
       ELSE UNCHANGED <<press, own>>
    /\ UNCHANGED <<wire, mic>>

\* The pending call is over: the card is torn down, and idle from there.
GivesUp(calls) ==
    /\ Over(calls)
    /\ IF AutoLooks(calls)
       THEN autoStarted' = TRUE /\ Sends /\ Teardown("answering") /\ UNCHANGED ignored
       ELSE Teardown("idle") /\ UNCHANGED press
    /\ UNCHANGED <<made, at>>

\* Nothing to do, but for a session that the gateway calls degraded.
Keeps(calls) ==
    /\ linkState # "idle" /\ ~Over(calls) /\ (Ready(calls) => ~MayOffer)
    /\ \/ UNCHANGED linkState
       \/ linkState = "live" /\ Active(calls) # {} /\ linkState' = "degraded"
    /\ UNCHANGED <<press, pending, link, connecting, hasRemote, sessionId, talking, wire, mic>>

\* onState(): the frames of a subscription go forward, and some are never sent.
Pushed ==
    /\ sub # "none"
    /\ \E calls \in Frames :
          /\ \A c \in Calls : Rank[calls[c]] >= Rank[seen[c]]
          /\ seen' = calls
          /\ \/ GivesUp(calls)
             \/ ~Over(calls) /\ Ready(calls) /\ Negotiates
             \/ Idles(calls)
             \/ Keeps(calls)
    /\ UNCHANGED <<connected, sub, toggle>>

-----------------------------------------------------------------------------
(* The user.                                                               *)

\* Presses of the user so far: the card's own look is not one.
Presses == gestures - (IF autoStarted THEN 1 ELSE 0)

Banner == {c \in Ringing(seen) : c # ignored}

\* Décrocher is there whenever a visitor rings, whatever the card is doing.
Answer(c) ==
    /\ connected /\ c \in Banner /\ Presses < MaxGestures
    /\ Sends
    /\ ignored' = None
    /\ linkState' = "answering" /\ pending' = c
    /\ UNCHANGED <<view, autoStarted, link, connecting, hasRemote, sessionId, talking,
                   wire, mic, toggle>>

Look ==
    /\ connected /\ link = 0 /\ Banner = {} /\ linkState # "answering" /\ ~connecting
    /\ Presses < MaxGestures
    /\ Sends
    /\ linkState' = "answering" /\ pending' = None
    /\ UNCHANGED <<view, ignored, autoStarted, link, connecting, hasRemote, sessionId,
                   talking, wire, mic, toggle>>

Ignore(c) ==
    /\ connected /\ c \in Banner
    /\ ignored' = c
    /\ UNCHANGED <<view, autoStarted, commands, gestures, own, wire, mic, toggle>>

HangUp ==
    /\ connected /\ link # 0
    /\ Teardown("idle")
    /\ UNCHANGED <<view, press, made, at, toggle>>

\* An answer or a look resolves; a failure tears down what the card has by then.
CommandDone ==
    /\ commands > 0
    /\ commands' = commands - 1
    /\ UNCHANGED <<view, ignored, autoStarted, gestures, own, wire, mic, toggle>>

CommandFails ==
    /\ commands > 0
    /\ commands' = commands - 1
    /\ Teardown("idle")
    /\ UNCHANGED <<view, ignored, autoStarted, gestures, made, at, toggle>>

-----------------------------------------------------------------------------
(* connect(), resumed after each of its awaits.                            *)

\* The offer is made and gathered: it goes to the gateway.
Offered(l) ==
    /\ at[l] = "offering"
    /\ at' = [at EXCEPT ![l] = "posting"]
    /\ UNCHANGED <<view, press, own, made, session, mic, toggle>>

GatewayOpens(l) ==
    /\ at[l] = "posting" /\ session[l] = "none"
    /\ session' = [session EXCEPT ![l] = "open"]
    /\ UNCHANGED <<view, press, own, made, at, mic, toggle>>

\* The answer comes, and is applied.
Replied(l) ==
    /\ at[l] = "posting" /\ session[l] # "none"
    /\ at' = [at EXCEPT ![l] = "answering"]
    /\ UNCHANGED <<view, press, own, made, session, mic, toggle>>

\* onRemote(): the answer being applied, the panel's stream is there.
Remote(l) ==
    /\ at[l] = "answering" /\ ~closed[l]
    /\ hasRemote' = TRUE
    /\ linkState' = IF linkState \in {"negotiating", "waiting"} THEN "live" ELSE linkState
    /\ UNCHANGED <<view, press, pending, link, connecting, sessionId, talking, wire, mic, toggle>>

Connected(l) ==
    /\ at[l] = "answering" /\ ~closed[l]
    /\ at' = [at EXCEPT ![l] = "up"]
    /\ sessionId' = l
    /\ linkState' = IF hasRemote THEN "live" ELSE "waiting"
    /\ connecting' = FALSE
    /\ UNCHANGED <<view, press, pending, link, hasRemote, talking, made, session, mic, toggle>>

\* No codec, no answer, a closed connection: the catch tears down what the card has by
\* then, which may be another link.
Fails(l) ==
    /\ at[l] \in {"offering", "posting", "answering"}
    /\ at' = [at EXCEPT ![l] = "failed"]
    /\ Teardown("idle")
    /\ UNCHANGED <<view, press, made, toggle>>

\* connectionState is "failed".
Degraded ==
    /\ link # 0 /\ at[link] = "up"
    /\ linkState' = "degraded"
    /\ UNCHANGED <<view, press, pending, link, connecting, hasRemote, sessionId, talking,
                   wire, mic, toggle>>

-----------------------------------------------------------------------------
(* toggleTalk(), resumed after each of its awaits.                         *)

\* Faulty variant of HasMic: the microphone is acquired each time.
FaultyHasMic(l) == FALSE

HasMic(l) == held[l]

ToggleTalk(t) ==
    /\ connected /\ linkState \in {"live", "degraded"} /\ link # 0
    /\ toggle[t].at = "no"
    /\ toggle' = [toggle EXCEPT ![t] =
          [at |-> IF talking THEN "muting" ELSE IF HasMic(link) THEN "unmuting" ELSE "asking",
           link |-> link]]
    /\ UNCHANGED <<view, press, own, wire, mic>>

\* The user allowed the microphone.  A closed link has no sender to put it on: that raises.
Acquired(t) ==
    LET l == toggle[t].link IN
    /\ toggle[t].at = "asking"
    /\ live' = [live EXCEPT ![l] = @ + 1]
    /\ held' = [held EXCEPT ![l] = ~closed[l]]
    /\ toggle' = [toggle EXCEPT ![t] = IF closed[l] THEN Rest ELSE [@ EXCEPT !.at = "replacing"]]
    /\ UNCHANGED <<view, press, own, wire, closed>>

Replaced(t) ==
    /\ toggle[t].at = "replacing" /\ ~closed[toggle[t].link]
    /\ toggle' = [toggle EXCEPT ![t].at = "unmuting"]
    /\ UNCHANGED <<view, press, own, wire, mic>>

\* The gateway has set the microphone of the panel, and the card shows it.
MicSet(t) ==
    /\ toggle[t].at \in {"unmuting", "muting"}
    /\ talking' = (toggle[t].at = "unmuting")
    /\ toggle' = [toggle EXCEPT ![t] = Rest]
    /\ UNCHANGED <<view, press, linkState, pending, link, connecting, hasRemote, sessionId,
                   wire, mic>>

ToggleFails(t) ==
    /\ toggle[t].at # "no"
    /\ toggle' = [toggle EXCEPT ![t] = Rest]
    /\ UNCHANGED <<view, press, own, wire, mic>>

-----------------------------------------------------------------------------
Page    == Connects \/ Subscribes \/ Subscribed \/ Disconnects \/ Pushed
User    == \/ \E c \in Calls : Answer(c) \/ Ignore(c)
           \/ Look \/ HangUp \/ CommandDone \/ CommandFails
Joins(l) == Offered(l) \/ GatewayOpens(l) \/ Replied(l) \/ Connected(l) \/ Fails(l)
Talks(t) == ToggleTalk(t) \/ Acquired(t) \/ Replaced(t) \/ MicSet(t) \/ ToggleFails(t)

Next ==
    \/ Page \/ User \/ Degraded
    \/ \E l \in Links : Joins(l) \/ Remote(l)
    \/ \E t \in Toggles : Talks(t)

Spec == Init /\ [][Next]_vars

-----------------------------------------------------------------------------
\* One link at a time (controller.ts:229): a peer connection that was made and not closed
\* is the one the card holds, so that whatever ends the card ends it.
OnePeer == \A l \in 1..made : ~closed[l] => l = link

\* The card never joins a call on its own (controller.ts:195-197): each offer is the
\* outcome of one press, and a press that still waits has made none.
OfferPerGesture == made + (IF linkState = "answering" THEN 1 ELSE 0) <= gestures

\* A leg that was up and is closed, whoever closed it, is closed at the gateway too
\* (controller.ts:173-177), so that no call is held by a browser that has gone.
SessionClosed == \A l \in Links : at[l] = "up" /\ closed[l] => session[l] = "told"

\* Every track is stopped when the link is closed (webrtc.ts:112-114).
MicReleased == \A l \in Links : closed[l] => live[l] = 0

-----------------------------------------------------------------------------
(* Why they hold: the parts of an inductive invariant.                     *)

\* A link is made for a gesture that was waiting, so that there is a number for it.
Counted ==
    /\ gestures \in Nat /\ autoStarted \in BOOLEAN /\ made \in Nat
    /\ OfferPerGesture
    /\ gestures <= MaxGestures + (IF autoStarted THEN 1 ELSE 0)

\* The one link that is open is the current one, and so is its session.
Linked ==
    /\ made \in Links \cup {0} /\ link \in 0..made
    /\ at \in [Links -> {"none", "offering", "posting", "answering", "up", "failed"}]
    /\ closed \in [Links -> BOOLEAN]
    /\ session \in [Links -> {"none", "open", "told"}]
    /\ link # 0 => ~closed[link]
    /\ \A l \in Links : l > made => at[l] = "none" /\ ~closed[l]
    /\ \A l \in Links : at[l] = "up" /\ ~closed[l] => sessionId = l
    /\ OnePeer
    /\ SessionClosed

\* A stream is live for each prompt that was granted, until its track is stopped: while a link
\* is open it holds the track it has, or has none.
Asking(l) == {t \in Toggles : toggle[t].at = "asking" /\ toggle[t].link = l}
Microphones ==
    /\ \A t \in Toggles : toggle[t].at # "no" => toggle[t].link \in Links
    /\ \A l \in Links :
          /\ held[l] => live[l] > 0
          /\ ~held[l] /\ ~closed[l] => live[l] = 0
          /\ live[l] + Cardinality(Asking(l)) <= Cardinality(Toggles)

IInv == TypeOK /\ Counted /\ Linked /\ Microphones
=============================================================================
