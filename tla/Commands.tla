------------------------------- MODULE Commands -------------------------------
(***************************************************************************)
(* A command on its way from Home Assistant to the panel and back: the     *)
(* urmet.* actions and the buttons (services.py, button.py, switch.py),    *)
(* the card's offer (websocket_api.py), the one path to the gateway        *)
(* (commands.py, client.py), the routes and the table of statuses          *)
(* (http/rest.py, http/errors.py).                                         *)
(*                                                                         *)
(* Several panels may be set up, each with a gateway of its own.  What a   *)
(* command is aimed at is decided from what Home Assistant shows, which is *)
(* late; the gateway decides again when the request reaches it; and the    *)
(* client stops waiting after REQUEST_TIMEOUT_S, which stops nothing at    *)
(* the gateway.  What the service does behind a route takes several steps  *)
(* in DoorphoneService, and one here.                                      *)
(***************************************************************************)
EXTENDS Naturals, FiniteSets, Sequences

CONSTANTS Panels,    \* config entries, one panel and one gateway each
          Incoming,  \* dialogs of a visitor
          Outgoing,  \* dialogs placed to look
          Home,      \* the panel of a dialog
          Targets,   \* targets a call may name: an entry or none, a list of devices, and
                     \* places: the entities, areas, floors and labels that a schema accepts
          Owned,     \* the Urmet entries of a device or a place, none if it is unknown
          Requests,
          None

Calls == Incoming \cup Outgoing

ASSUME CommandsAssumption ==
    /\ Incoming \cap Outgoing = {} /\ None \notin Panels \cup Calls
    /\ Home \in [Calls -> Panels]
    /\ \A t \in Targets :
          /\ t.entry \in Panels \cup {None}
          /\ t.devices \in Seq(DOMAIN Owned) /\ t.places \subseteq DOMAIN Owned
    /\ Owned \in [DOMAIN Owned -> SUBSET Panels]

VARIABLES
    loaded,   \* entries that are set up
    dialog,   \* where each dialog is at its gateway
    shown,    \* where the coordinator of its entry shows it
    request,  \* each command: what it asks, of which gateway, of which dialog
    served,   \* the status the gateway has for it, or 0
    told,     \* what whoever asked was told
    acted,    \* history: the panel did what was asked
    meant     \* history: the panels and the dialogs that could be meant, and whether the
              \* target is one that is read

world == <<loaded, dialog, shown>>
vars  == <<world, request, served, told, acted, meant>>

\* CallState: idle is unborn, connecting is on its way to streaming and counted with it,
\* ended and error are over.
Dialogs  == {"unborn", "ringing", "streaming", "over"}
Progress == [unborn |-> 0, ringing |-> 1, streaming |-> 2, over |-> 3]

Live(d) == d \in {"ringing", "streaming"}

\* What can go wrong behind a route, with the classes it extends (domain/errors.py).
\* WorkerStopped stands for every error of the gateway's own that the table has no entry
\* for: no client, a bus or a pipeline that is not there, a codec or a format refused.
Classes == [OpenNotAcknowledged |-> {"OpenNotAcknowledged", "Call"},
            NoVideoOffered      |-> {"NoVideoOffered", "Call"},
            NotRegistered       |-> {"NotRegistered"},
            Registration        |-> {"Registration"},
            Call                |-> {"Call"},
            UnknownCall         |-> {"UnknownCall"},
            NoStreamingCall     |-> {"NoStreamingCall"},
            MediaUnavailable    |-> {"MediaUnavailable"},
            MalformedBody       |-> {"MalformedBody"},
            WorkerStopped       |-> {"WorkerStopped"}]
Errors == DOMAIN Classes

\* async_setup_services(): the urmet.* actions, and those whose schema takes a call_id.
Actions == {"open", "answer", "hang_up", "look", "microphone"}
OfCall  == {"answer", "hang_up"}

Asked == Actions \cup {"offer"}
Idle  == [what |-> "nothing", panel |-> None, call |-> None]

TypeOK ==
    /\ loaded \subseteq Panels
    /\ dialog \in [Calls -> Dialogs] /\ shown \in [Calls -> Dialogs]
    /\ request \in [Requests -> [what : Asked \cup {"nothing"}, panel : Panels \cup {None},
                                 call : Calls \cup {None}]]
    /\ served \in [Requests -> {0, 201, 204, 400, 404, 409, 500, 502, 503}]
    /\ told \in [Requests ->
          {"nothing", "refused", "acknowledged", "unacknowledged", "done", "error"}]
    /\ acted \in [Requests -> BOOLEAN]
    /\ meant \in [Requests -> [panels : SUBSET Panels, calls : SUBSET Calls, read : BOOLEAN]]

Init ==
    /\ loaded = {}
    /\ dialog = [c \in Calls |-> "unborn"] /\ shown = [c \in Calls |-> "unborn"]
    /\ request = [r \in Requests |-> Idle]
    /\ served = [r \in Requests |-> 0] /\ told = [r \in Requests |-> "nothing"]
    /\ acted = [r \in Requests |-> FALSE]
    /\ meant = [r \in Requests |-> [panels |-> {}, calls |-> {}, read |-> TRUE]]

-----------------------------------------------------------------------------
(* The entries, the dialogs, and what is shown of them.                    *)

\* The setup fetches the state of the gateway (__init__.py:102).
Loads(p) ==
    /\ p \notin loaded
    /\ loaded' = loaded \cup {p}
    /\ shown' = [c \in Calls |-> IF Home[c] = p THEN dialog[c] ELSE shown[c]]
    /\ UNCHANGED <<dialog, request, served, told, acted, meant>>

Unloads(p) ==
    /\ p \in loaded
    /\ loaded' = loaded \ {p}
    /\ UNCHANGED <<dialog, shown, request, served, told, acted, meant>>

\* A state event reaches the coordinator: late, but never older than the last.
Shows(p) ==
    /\ p \in loaded
    /\ \E c \in Calls, d \in Dialogs :
          /\ Home[c] = p
          /\ Progress[shown[c]] < Progress[d] /\ Progress[d] <= Progress[dialog[c]]
          /\ shown' = [shown EXCEPT ![c] = d]
    /\ UNCHANGED <<loaded, dialog, request, served, told, acted, meant>>

Rings(c) ==
    /\ c \in Incoming /\ dialog[c] = "unborn"
    /\ dialog' = [dialog EXCEPT ![c] = "ringing"]
    /\ UNCHANGED <<loaded, shown, request, served, told, acted, meant>>

FarEnds(c) ==
    /\ Live(dialog[c])
    /\ dialog' = [dialog EXCEPT ![c] = "over"]
    /\ UNCHANGED <<loaded, shown, request, served, told, acted, meant>>

-----------------------------------------------------------------------------
(* Which panel, and which dialog.                                          *)

\* _targeted_entry_id(): an entry goes before a device, several devices are no target,
\* and a call that names neither stands for the entries there are, whatever place it names:
\* those are accepted and never read.
Named(t) ==
    IF t.entry # None THEN {t.entry}
    ELSE IF Len(t.devices) = 0 THEN loaded
    ELSE IF Len(t.devices) = 1 THEN Owned[t.devices[1]]
    ELSE {}

\* Faulty variant of Resolves: the first of several is as good as any.
FaultyResolves(t, p) == p \in Named(t) /\ p \in loaded

\* _resolve_entry(): one loaded doorphone, or none at all.
Resolves(t, p) == Named(t) = {p} /\ p \in loaded

\* _sole_call(): the one call that is shown ringing.
SoleRinging(p) ==
    LET ringing == {c \in Calls : Home[c] = p /\ shown[c] = "ringing"}
    IN  IF Cardinality(ringing) = 1 THEN ringing ELSE {}

\* _first_active_call(): the calls are listed in no order that matters here.
ShownActive(p) == {c \in Calls : Home[c] = p /\ Live(shown[c])}

\* The dialogs a command may turn to: the one it names, or what is shown.
Candidates(what, p, named) ==
    IF named # None THEN {named}
    ELSE IF what = "answer" THEN SoleRinging(p)
    ELSE IF what = "hang_up" THEN ShownActive(p)
    ELSE {None}

-----------------------------------------------------------------------------
(* Asking.                                                                 *)

\* What services.py reads of a target: all of it, but for a place and nothing else.
Read(t) == t.entry # None \/ t.devices # <<>> \/ t.places = {}

\* The panels a target names.
Names(t) ==
    LET named == {t.devices[i] : i \in DOMAIN t.devices} \cup t.places
    IN  ({t.entry} \ {None}) \cup UNION {Owned[name] : name \in named}

\* What a person who names a target, and a dialog or none, can mean by it.
Meant(t, named) ==
    LET nothing == t.entry = None /\ t.devices = <<>> /\ t.places = {}
        panels  == IF ~nothing THEN Names(t)
                   ELSE IF Cardinality(loaded) = 1 THEN loaded ELSE {}
    IN  [panels |-> panels,
         calls  |-> IF named # None THEN {named}
                    ELSE {c \in Calls : Home[c] \in panels /\ Live(shown[c])},
         read   |-> Read(t)]

\* The target of a button, or of the card.
Entry(p) == [entry |-> p, devices |-> <<>>, places |-> {}]

Tells(r, what) ==
    /\ told' = [told EXCEPT ![r] = what]
    /\ UNCHANGED <<request, served, acted>>

\* A command is sent, refused, or, for a hang-up with nothing to hang up, already done.
Commands(r, what, p, named) ==
    \/ \E c \in Candidates(what, p, named) :
          /\ request' = [request EXCEPT ![r] = [what |-> what, panel |-> p, call |-> c]]
          /\ UNCHANGED <<served, told, acted>>
    \/ /\ Candidates(what, p, named) = {}
       /\ Tells(r, IF what = "hang_up" THEN "done" ELSE "refused")

Fresh(r) == request[r] = Idle /\ told[r] = "nothing"

\* An urmet.* action: it may name a target, and a dialog.
Acts(r, what, t, named) ==
    /\ Fresh(r)
    /\ \/ \E p \in Panels : Resolves(t, p) /\ Commands(r, what, p, named)
       \/ (\A p \in Panels : ~Resolves(t, p)) /\ Tells(r, "refused")
    /\ meant' = [meant EXCEPT ![r] = Meant(t, named)]
    /\ UNCHANGED world

\* A button or the switch: it belongs to its entry, and names no dialog.
Presses(r, what, p) ==
    /\ Fresh(r) /\ p \in loaded
    /\ Commands(r, what, p, None)
    /\ meant' = [meant EXCEPT ![r] = Meant(Entry(p), None)]
    /\ UNCHANGED world

\* urmet/webrtc/offer: the card names its entry, and the dialog it joins or none.
Offers(r, p, named) ==
    /\ Fresh(r)
    /\ IF p \in loaded THEN Commands(r, "offer", p, named) ELSE Tells(r, "refused")
    /\ meant' = [meant EXCEPT ![r] = Meant(Entry(p), named)]
    /\ UNCHANGED world

-----------------------------------------------------------------------------
(* At the gateway.                                                         *)

\* The table of statuses: the first entry that is a class of the error wins.
Table == <<[of |-> "OpenNotAcknowledged", status |-> 502],
           [of |-> "NoVideoOffered",      status |-> 409],
           [of |-> "NotRegistered",       status |-> 409],
           [of |-> "Registration",        status |-> 502],
           [of |-> "Call",                status |-> 502],
           [of |-> "UnknownCall",         status |-> 404],
           [of |-> "NoStreamingCall",     status |-> 409],
           [of |-> "MediaUnavailable",    status |-> 503],
           [of |-> "MalformedBody",       status |-> 400]>>

\* status_for(): what the table does not list was not foreseen.
StatusFor(error) ==
    LET hits == {i \in DOMAIN Table : Table[i].of \in Classes[error]}
    IN  IF hits = {} THEN 500
        ELSE Table[CHOOSE i \in hits : \A j \in hits : i <= j].status

AtGateway(r, what) == request[r].what = what /\ served[r] = 0

\* The call book of that gateway has the dialog.
Listed(r) ==
    LET c == request[r].call IN
    c # None /\ Home[c] = request[r].panel /\ Live(dialog[c])

Serves(r, status, did) ==
    /\ served' = [served EXCEPT ![r] = status]
    /\ acted' = [acted EXCEPT ![r] = did]
    /\ UNCHANGED <<loaded, shown, request, told, meant>>

Opens(r) ==
    /\ AtGateway(r, "open")
    /\ Serves(r, 204, TRUE)
    /\ UNCHANGED dialog

SetsMicrophone(r) ==
    /\ AtGateway(r, "microphone")
    /\ Serves(r, 204, TRUE)
    /\ UNCHANGED dialog

Answers(r) ==
    /\ AtGateway(r, "answer")
    /\ Listed(r) /\ dialog[request[r].call] = "ringing"
    /\ dialog' = [dialog EXCEPT ![request[r].call] = "streaming"]
    /\ Serves(r, 204, TRUE)

\* A dialog that is not in the book is already hung up.
HangsUp(r) ==
    /\ AtGateway(r, "hang_up")
    /\ dialog' = [c \in Calls |-> IF Listed(r) /\ c = request[r].call THEN "over" ELSE dialog[c]]
    /\ Serves(r, 204, Listed(r))

\* The monitors that stream are hung up before the call is placed.
Unwatched(p) ==
    [c \in Calls |->
        IF c \in Outgoing /\ Home[c] = p /\ dialog[c] = "streaming" THEN "over" ELSE dialog[c]]

Looks(r) ==
    /\ AtGateway(r, "look")
    /\ \E c \in Outgoing :
          /\ Home[c] = request[r].panel /\ dialog[c] = "unborn"
          /\ dialog' = [Unwatched(request[r].panel) EXCEPT ![c] = "streaming"]
    /\ Serves(r, 201, TRUE)

\* MediaSessions._pick(): the dialog an offer names, or one that streams.
Picked(r) ==
    {c \in Calls : /\ Home[c] = request[r].panel /\ dialog[c] = "streaming"
                   /\ request[r].call \in {c, None}}

Joins(r) ==
    /\ AtGateway(r, "offer")
    /\ Picked(r) # {}
    /\ Serves(r, 201, TRUE)
    /\ UNCHANGED dialog

\* What the SDK, the worker or the service raises instead.
MayRaise(r) ==
    CASE request[r].what = "open" ->
            {"OpenNotAcknowledged", "NotRegistered", "Call", "WorkerStopped"}
      [] request[r].what = "look" -> {"NoVideoOffered", "NotRegistered", "Call", "WorkerStopped"}
      [] request[r].what = "microphone" -> {"WorkerStopped"}
      [] request[r].what = "offer" ->
            {"MediaUnavailable",
             IF Picked(r) # {} THEN "WorkerStopped"
             ELSE IF request[r].call = None \/ Listed(r) THEN "NoStreamingCall"
             ELSE "UnknownCall"}
      [] request[r].what = "answer" /\ ~Listed(r) -> {"UnknownCall"}
      [] request[r].what = "hang_up" /\ ~Listed(r) -> {}
      [] OTHER -> {"Call", "NotRegistered", "WorkerStopped"}

Raises(r) ==
    /\ request[r] # Idle /\ served[r] = 0
    /\ \E e \in MayRaise(r) : Serves(r, StatusFor(e), FALSE)
    /\ dialog' = IF request[r].what = "look" THEN Unwatched(request[r].panel) ELSE dialog

-----------------------------------------------------------------------------
(* Back at Home Assistant.                                                 *)

Waits(r) == request[r] # Idle /\ told[r] = "nothing"

\* _raise_for_status(): what the other commands make of a status.
Outcome(status) == IF status < 400 THEN "done" ELSE "error"

\* Faulty variant of Returns: an answer of the gateway is an opened door.
FaultyReturns(r) ==
    /\ Waits(r) /\ served[r] # 0
    /\ Tells(r, IF request[r].what = "open" THEN "acknowledged"
                ELSE Outcome(served[r]))
    /\ UNCHANGED <<world, meant>>

\* An open says what the panel acknowledged, whatever the failure; the others raise it.
Returns(r) ==
    /\ Waits(r) /\ served[r] # 0
    /\ Tells(r, IF request[r].what = "open"
                THEN IF served[r] = 204 THEN "acknowledged" ELSE "unacknowledged"
                ELSE Outcome(served[r]))
    /\ UNCHANGED <<world, meant>>

\* The client gives up, or the connection breaks, wherever the request is.
TimesOut(r) ==
    /\ Waits(r)
    /\ Tells(r, "error")
    /\ UNCHANGED <<world, meant>>

-----------------------------------------------------------------------------
\* The dialogs somebody can name: those there have been.
Known == {c \in Calls : dialog[c] # "unborn"}

Asks(r) ==
    \/ \E what \in Actions, t \in Targets : Acts(r, what, t, None)
    \/ \E what \in OfCall, t \in Targets, c \in Known : Acts(r, what, t, c)
    \/ \E what \in Actions, p \in Panels : Presses(r, what, p)
    \/ \E p \in Panels, c \in Known \cup {None} : Offers(r, p, c)

Handles(r) ==
    \/ Opens(r) \/ SetsMicrophone(r) \/ Answers(r) \/ HangsUp(r) \/ Looks(r)
    \/ Joins(r) \/ Raises(r)

Next ==
    \/ \E p \in Panels : Loads(p) \/ Unloads(p) \/ Shows(p)
    \/ \E c \in Calls : Rings(c) \/ FarEnds(c)
    \/ \E r \in Requests : Asks(r) \/ Handles(r) \/ Returns(r) \/ TimesOut(r)

Spec == Init /\ [][Next]_vars

-----------------------------------------------------------------------------
\* "an open fired at the wrong door is worse than an open that did not happen"
\* (services.py:10-11): the panel that moves is one the command can have meant, and so is the
\* dialog, however late what was shown is and whatever was set up meanwhile.  It speaks of the
\* targets services.py:87-101 reads: nothing, an entry, a device.
OnlyWhatWasMeant ==
    \A r \in Requests : acted[r] /\ meant[r].read =>
        /\ request[r].panel \in meant[r].panels
        /\ request[r].call \in meant[r].calls \cup {None}

\* An action is aimed "from the call's own target", and refused "when the named target is not
\* a loaded Urmet entry" (services.py:7, 64): whatever the target, the panel that moves is one
\* it names.  It does not hold of a target that names an entity, an area, a floor or a label
\* alone, which every schema accepts (services.py:160-163).
NamedPanelOnly ==
    \A r \in Requests : acted[r] => request[r].panel \in meant[r].panels

\* No command claims what it did not get (commands.py:7-9): what is acknowledged was
\* acknowledged by the panel, what is done was done for this command, or the dialog it was
\* to hang up is none of that panel's any more, and what is refused has moved nothing.
NeverOverclaims ==
    \A r \in Requests :
        /\ told[r] = "acknowledged" => acted[r]
        /\ told[r] = "done" /\ request[r] # Idle =>
              \/ acted[r]
              \/ request[r].what = "hang_up" /\ ~Listed(r)
        /\ told[r] = "refused" => ~acted[r]

-----------------------------------------------------------------------------
(* Why they hold: the parts of an inductive invariant.                     *)

\* What is shown is late, never early.
NotAhead == \A c \in Calls : Progress[shown[c]] <= Progress[dialog[c]]

\* A request is for a panel that could be meant, if its target was read, and for a dialog
\* that has been: a name that is not listed any more will not be again.
AimOf(r) ==
    request[r] # Idle =>
        /\ request[r].what \in Asked
        /\ meant[r].read => /\ request[r].panel \in meant[r].panels
                            /\ request[r].call \in meant[r].calls \cup {None}
        /\ request[r].call # None => dialog[request[r].call] # "unborn"

\* The status stands for what the panel did, but for a dialog that was hung up before.
StatusOf(r) ==
    /\ request[r] = Idle => served[r] = 0
    /\ acted[r] => served[r] \in {201, 204}
    /\ served[r] \in {201, 204} =>
          acted[r] \/ (request[r].what = "hang_up" /\ ~Listed(r))

\* What is told is what the status says.
ToldOf(r) ==
    /\ told[r] = "acknowledged" => request[r].what = "open" /\ served[r] = 204
    /\ told[r] = "done" /\ request[r] # Idle => served[r] \in {201, 204}
    /\ told[r] = "refused" => request[r] = Idle

IInv == TypeOK /\ NotAhead /\ \A r \in Requests : AimOf(r) /\ StatusOf(r) /\ ToldOf(r)
=============================================================================
