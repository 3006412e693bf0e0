------------------------------ MODULE Integration ------------------------------
(***************************************************************************)
(* One doorphone in Home Assistant (custom_components/urmet): the opens a  *)
(* user asks for and the origin they leave for the event that comes back   *)
(* (commands.py, event.py), a restored counter (sensor.py), the repairs    *)
(* issues (repairs.py), and what a reload keeps of them (__init__.py).     *)
(*                                                                         *)
(* The stream is what EventStream.tla describes, without its queues: the   *)
(* events of a connection arrive in order, and those of a gap are lost.    *)
(* The gateway handles a request in its own time, and goes on with one     *)
(* whose caller gave up.                                                   *)
(*                                                                         *)
(* The specification is that of one config entry, and named EntrySpec.     *)
(***************************************************************************)
EXTENDS Naturals, Sequences

CONSTANTS Requests,      \* opens asked for in Home Assistant
          Others,        \* opens asked of the gateway by somebody else
          Threshold,     \* ROUTE_503_THRESHOLD
          Default,       \* no origin was left: the default one is used
          MaxWire,       \* bound: events on their way
          MaxTurns,      \* bound: changes of the registration
          MaxRefused     \* bound: offers answered 503 in a row

ASSUME IntegrationAssumption ==
    /\ Requests \cap Others = {} /\ {Default, "unseen"} \cap (Requests \cup Others) = {}
    /\ {Threshold, MaxWire, MaxTurns, MaxRefused} \subseteq Nat

VARIABLES
    stage,      \* the entry: unloaded, its client started, or its entities added
    online,     \* the event stream is up
    sent,       \* the events sent on it
    bound,      \* the gateway is registered
    turns,      \* how often that changed
    asked,      \* where async_open() is
    handled,    \* the gateway has handled the open
    stash,      \* runtime_data.pending_open
    due,        \* history: no other open has touched the stash since this one left its own
    credited,   \* history: whom the event of an open was credited to, if it was shown
    count,      \* CounterSensor._value
    stored,     \* the state the counter was restored from, or stored with
    counted,    \* history: acknowledged opens the counter has been told of
    known,      \* UrmetIssueMonitor._registered
    consecutive,\* UrmetIssueMonitor._consecutive_503
    issues,     \* the issues that are open
    refused     \* history: offers answered 503 since another answer, each while the gateway
                \* was registered or the monitor could not know better yet

stream    == <<stage, online, sent>>
gateway   == <<bound, turns, handled>>
origin    == <<asked, stash, due, credited>>
counter   == <<count, stored, counted>>
repairs   == <<known, consecutive, issues, refused>>
entryVars == <<stream, gateway, origin, counter, repairs>>

Opens  == Requests \cup Others

\* What parse_event() yields, by what this entry does with it.  A registration event is
\* accepted, rejected, lost or not released; rings, calls and sessions move nothing here.
Events == [kind : {"open"}, by : Opens, is : BOOLEAN]
          \cup [kind : {"state", "registered", "rejected", "unreleased", "lost"}, is : BOOLEAN]

EntryTypeOK ==
    /\ stage \in {"unloaded", "setup", "loaded"}
    /\ online \in BOOLEAN /\ sent \in Seq(Events)
    /\ stage = "unloaded" \/ ~online => sent = <<>>
    /\ bound \in BOOLEAN /\ turns \in 0..MaxTurns
    /\ asked \in [Requests -> {"no", "sent", "over"}]
    /\ handled \in [Opens -> BOOLEAN]
    /\ stash \in Requests \cup {Default}
    /\ due \in [Requests -> BOOLEAN]
    /\ credited \in [Opens -> Requests \cup {Default, "unseen"}]
    /\ count \in Nat /\ stored \in Nat /\ counted \in Nat
    /\ known \in BOOLEAN
    /\ consecutive \in 0..MaxRefused /\ refused \in 0..MaxRefused
    /\ issues \subseteq {"unconfirmed_release", "auth_failure", "calls_not_routed"}

EntryInit ==
    /\ stage = "unloaded" /\ online = FALSE /\ sent = <<>>
    /\ bound = FALSE /\ turns = 0
    /\ asked = [r \in Requests |-> "no"] /\ handled = [o \in Opens |-> FALSE]
    /\ stash = Default /\ due = [r \in Requests |-> FALSE]
    /\ credited = [o \in Opens |-> "unseen"]
    /\ count = 0 /\ stored = 0 /\ counted = 0
    /\ known = FALSE /\ consecutive = 0 /\ issues = {} /\ refused = 0

-----------------------------------------------------------------------------
(* The entry.                                                              *)

\* async_setup_entry(): the client, then the monitor, in one turn of the loop.
SetsUp ==
    /\ stage = "unloaded"
    /\ stage' = "setup"
    /\ stash' = Default
    /\ known' = FALSE /\ consecutive' = 0
    /\ count' = 0
    /\ UNCHANGED <<online, sent, gateway, asked, due, credited, stored, counted, issues, refused>>

\* The entities are added; a counter is restored before it listens.
Restores ==
    /\ stage = "setup"
    /\ stage' = "loaded"
    /\ count' = stored
    /\ UNCHANGED <<online, sent, gateway, origin, stored, counted, repairs>>

\* async_unload_entry(): the entities go, their states stored, then the client.
Unloads ==
    /\ stage = "loaded"
    /\ stage' = "unloaded"
    /\ online' = FALSE /\ sent' = <<>>
    /\ stored' = count
    /\ due' = [r \in Requests |-> FALSE]
    /\ UNCHANGED <<gateway, asked, stash, credited, count, counted, repairs>>

\* The gateway begins a connection with its state.
StreamUp ==
    /\ stage # "unloaded" /\ ~online
    /\ online' = TRUE
    /\ sent' = <<[kind |-> "state", is |-> bound]>>
    /\ UNCHANGED <<stage, gateway, origin, counter, repairs>>

StreamDown ==
    /\ online
    /\ online' = FALSE /\ sent' = <<>>
    /\ UNCHANGED <<stage, gateway, origin, counter, repairs>>

-----------------------------------------------------------------------------
(* The gateway.                                                            *)

Published(event) ==
    /\ Len(sent) < MaxWire
    /\ sent' = IF online THEN Append(sent, event) ELSE sent

\* The registration changes, or is refused again.  The state that follows says the same.
Turns ==
    /\ turns < MaxTurns
    /\ turns' = turns + 1
    /\ \E kind \in {"registered", "rejected", "unreleased", "lost"} :
          /\ bound' = (kind = "registered")
          /\ Published([kind |-> kind, is |-> kind = "registered"])
    /\ UNCHANGED <<stage, online, handled, origin, counter, repairs>>

\* An open the panel answered, or left unanswered, is published; one that was refused is not.
PanelOpens(o) ==
    /\ ~handled[o] /\ (o \in Requests => asked[o] # "no")
    /\ handled' = [handled EXCEPT ![o] = TRUE]
    /\ \/ \E acknowledged \in BOOLEAN :
             Published([kind |-> "open", by |-> o, is |-> acknowledged])
       \/ UNCHANGED sent
    /\ UNCHANGED <<stage, online, bound, turns, origin, counter, repairs>>

-----------------------------------------------------------------------------
(* An open.                                                                *)

\* Faulty variant of Stashed: an origin that is still there is not overwritten.
FaultyStashed(r) == IF stash = Default THEN r ELSE stash

\* stash_open_origin() overwrites.
Stashed(r) == r

\* async_open() leaves who asked, then asks.
Asks(r) ==
    /\ stage = "loaded" /\ asked[r] = "no"
    /\ asked' = [asked EXCEPT ![r] = "sent"]
    /\ stash' = Stashed(r)
    /\ due' = [q \in Requests |-> q = r]
    /\ UNCHANGED <<stream, gateway, credited, counter, repairs>>

\* The request has its answer, or times out: what it left is not taken back.
Returns(r) ==
    /\ asked[r] = "sent"
    /\ asked' = [asked EXCEPT ![r] = "over"]
    /\ UNCHANGED <<stream, gateway, stash, due, credited, counter, repairs>>

-----------------------------------------------------------------------------
(* What an event of the stream does to each listener.                      *)

\* Faulty variant of Listening: an entity listens before it is restored.
FaultyListening == stage # "unloaded"

Listening == stage = "loaded"

\* Faulty variant of Credits: the event reads the stash and leaves it.
FaultyCredits(o) ==
    /\ credited' = [credited EXCEPT ![o] = stash]
    /\ due' = [q \in Requests |-> FALSE]
    /\ UNCHANGED stash

\* ActuatorEvent: the event takes what the stash holds.
Credits(o) ==
    /\ credited' = [credited EXCEPT ![o] = stash]
    /\ stash' = Default
    /\ due' = [q \in Requests |-> FALSE]

\* CounterSensor: only what the panel acknowledged is counted.
Counts(acknowledged) ==
    IF acknowledged THEN count' = count + 1 /\ counted' = counted + 1
                    ELSE UNCHANGED <<count, counted>>

\* Faulty variant of Registration: a snapshot is not asked whether it is registered.
FaultyRegistration(event) ==
    /\ known' = IF event.kind = "state" THEN known ELSE event.is
    /\ issues' = CASE event.kind = "registered" -> issues \ {"unconfirmed_release", "auth_failure"}
                   [] event.kind = "rejected" -> issues \cup {"auth_failure"}
                   [] event.kind = "unreleased" -> issues \cup {"unconfirmed_release"}
                   [] OTHER -> issues

\* UrmetIssueMonitor.handle_event(): a snapshot says whether it is registered, and clears
\* nothing.
Registration(event) ==
    /\ known' = event.is
    /\ issues' = CASE event.kind = "registered" -> issues \ {"unconfirmed_release", "auth_failure"}
                   [] event.kind = "rejected" -> issues \cup {"auth_failure"}
                   [] event.kind = "unreleased" -> issues \cup {"unconfirmed_release"}
                   [] OTHER -> issues

Dispatches ==
    /\ sent # <<>>
    /\ sent' = Tail(sent)
    /\ LET event == Head(sent) IN
          \/ /\ event.kind = "open" /\ Listening
             /\ Credits(event.by) /\ Counts(event.is)
             /\ UNCHANGED repairs
          \/ /\ event.kind = "open" /\ ~Listening
             /\ UNCHANGED <<stash, due, credited, count, counted, repairs>>
          \/ /\ event.kind # "open"
             /\ Registration(event)
             /\ UNCHANGED <<stash, due, credited, count, counted, consecutive, refused>>
    /\ UNCHANGED <<stage, online, gateway, asked, stored>>

-----------------------------------------------------------------------------
(* The offers of the card, as note_offer_status() sees them.               *)

Attached == stage # "unloaded"

\* What the monitor was told last may be overtaken: the stream is down, or news of the
\* registration is on its way.
Late == ~online \/ \E i \in DOMAIN sent : sent[i].kind # "open"

\* 503: it counts while the monitor was last told of a registration, and is passed over
\* otherwise, the row left as it is.
OfferRefused ==
    /\ Attached /\ refused < MaxRefused
    /\ refused' = IF bound \/ Late THEN refused + 1 ELSE refused
    /\ IF known
         THEN /\ consecutive' = consecutive + 1
              /\ issues' = IF consecutive + 1 >= Threshold
                             THEN issues \cup {"calls_not_routed"} ELSE issues
         ELSE UNCHANGED <<consecutive, issues>>
    /\ UNCHANGED <<stream, gateway, origin, counter, known>>

OfferTaken ==
    /\ Attached
    /\ consecutive' = 0 /\ refused' = 0
    /\ issues' = issues \ {"calls_not_routed"}
    /\ UNCHANGED <<stream, gateway, origin, counter, known>>

\* Any other failure breaks the row, and leaves the issue.
OfferFailed ==
    /\ Attached
    /\ consecutive' = 0 /\ refused' = 0
    /\ UNCHANGED <<stream, gateway, origin, counter, known, issues>>

-----------------------------------------------------------------------------
EntryNext ==
    \/ SetsUp \/ Restores \/ Unloads \/ StreamUp \/ StreamDown
    \/ Turns \/ Dispatches
    \/ \E o \in Opens : PanelOpens(o)
    \/ \E r \in Requests : Asks(r) \/ Returns(r)
    \/ OfferRefused \/ OfferTaken \/ OfferFailed

EntrySpec == EntryInit /\ [][EntryNext]_entryVars

-----------------------------------------------------------------------------
\* An open that no other crossed is credited to who asked for it (commands.py:10-12,
\* event.py:120-124), whatever failed, timed out or was reloaded before it.
AloneIsCredited ==
    [][\A r \in Requests : credited'[r] # credited[r] /\ due[r] => credited'[r] = r]_entryVars

\* What one open leaves is taken by one event (commands.py:44): of opens that overlap, lose
\* their event or cross a reload, no two are put down to the same request.
OriginTakenOnce ==
    \A o, q \in Opens : credited[o] \in Requests /\ credited[q] = credited[o] => o = q

\* The counter is unbroken (sensor.py:3-5): a reload neither loses nor repeats an open that
\* it was told of.
CounterUnbroken == stage = "loaded" => count = counted

\* The Route trap is called only on as many 503 as the threshold with no other answer between
\* them (repairs.py:77-83), each met while the gateway was registered, or while the stream
\* was down or the news that it no longer was had yet to be read: what the monitor believes
\* (repairs.py:79) is late, across lost registrations, lost streams and reloads, and no worse.
TrapIsARow ==
    [][LET trap == "calls_not_routed" IN
       trap \notin issues /\ trap \in issues' => refused' >= Threshold]_entryVars

\* What repairs.py:10-12 says, "three consecutive 503 while registered".  It does not hold: a
\* registration lost with the stream is still believed (README, section 4).
TrapWhileRegistered ==
    [][LET trap == "calls_not_routed" IN
       trap \notin issues /\ trap \in issues' => bound]_entryVars

-----------------------------------------------------------------------------
(* Why they hold: the parts of an inductive invariant.                     *)

\* What was counted is in the counter, or in what it was stored with.
CountedOf ==
    /\ {count, stored, counted} \subseteq Nat
    /\ IF stage = "loaded" THEN count = counted ELSE stored = counted

\* What an open left is still there while nothing else has touched it.
DueOf ==
    /\ due \in [Requests -> BOOLEAN]
    /\ credited \in [Opens -> Requests \cup {Default, "unseen"}]
    /\ stash \in Requests \cup {Default}
    /\ \A r \in Requests : due[r] => stage = "loaded" /\ stash = r

\* What is in the stash was asked for, and no event has had it.
TakenOf ==
    /\ \A r \in Requests : asked[r] = "no" => stash # r /\ \A o \in Opens : credited[o] # r
    /\ stash \in Requests => \A o \in Opens : credited[o] # stash
    /\ OriginTakenOnce

\* What is read last of what is on its way is so, and so is what the monitor believes when
\* nothing is.
ToldOf ==
    online =>
       /\ Late \/ known = bound
       /\ \A i \in DOMAIN sent :
             sent[i].kind # "open" /\ (\A j \in (i + 1)..Len(sent) : sent[j].kind = "open")
                => sent[i].is = bound

\* The monitor counts no more refusals than there were in a row.
RowOf ==
    /\ {consecutive, refused} \subseteq Nat
    /\ consecutive <= refused

\* Nothing streams to an entry that is unloaded.
OnlineOf == stage = "unloaded" => ~online

EntryInv == EntryTypeOK /\ OnlineOf /\ CountedOf /\ DueOf /\ TakenOf /\ ToldOf /\ RowOf
=============================================================================
