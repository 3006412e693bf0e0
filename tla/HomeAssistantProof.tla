------------------------- MODULE HomeAssistantProof -------------------------
(***************************************************************************)
(* What the two sides of Home Assistant keep: the integration, of one      *)
(* doorphone, for any number of opens, events, reloads and refused offers; *)
(* the card, for any number of calls, presses and toggles.                 *)
(***************************************************************************)
EXTENDS Integration, CardController, FiniteSetTheorems, TLAPS

(***************************************************************************)
(* The integration.                                                        *)
(***************************************************************************)
(* The counter.                                                            *)

LEMMA CounterKept ==
    ASSUME CountedOf, UNCHANGED <<stage, counter>>
    PROVE  CountedOf'
  BY DEF CountedOf, counter

LEMMA CountedSteps ==
    ASSUME CountedOf, [EntryNext]_entryVars
    PROVE  CountedOf'
  <1>1. CASE SetsUp
    BY <1>1 DEF SetsUp, CountedOf
  <1>2. CASE Restores
    BY <1>2 DEF Restores, CountedOf
  <1>3. CASE Unloads
    BY <1>3 DEF Unloads, CountedOf
  <1>4. CASE StreamUp \/ StreamDown \/ Turns
    BY <1>4, CounterKept DEF StreamUp, StreamDown, Turns
  <1>5. CASE Dispatches
    <2>1. UNCHANGED <<stage, stored>>
      BY <1>5 DEF Dispatches
    <2>2. \/ count' = count + 1 /\ counted' = counted + 1 /\ stage = "loaded"
          \/ UNCHANGED <<count, counted>>
      BY <1>5 DEF Dispatches, Counts, Listening
    <2> QED BY <2>1, <2>2 DEF CountedOf
  <1>6. ASSUME NEW o \in Opens, PanelOpens(o) PROVE CountedOf'
    BY <1>6, CounterKept DEF PanelOpens
  <1>7. ASSUME NEW r \in Requests, Asks(r) \/ Returns(r) PROVE CountedOf'
    BY <1>7, CounterKept DEF Asks, Returns, stream
  <1>8. CASE OfferRefused \/ OfferTaken \/ OfferFailed
    BY <1>8, CounterKept DEF OfferRefused, OfferTaken, OfferFailed, stream
  <1>9. CASE UNCHANGED entryVars
    BY <1>9, CounterKept DEF entryVars, stream
  <1> QED BY <1>1, <1>2, <1>3, <1>4, <1>5, <1>6, <1>7, <1>8, <1>9 DEF EntryNext

-----------------------------------------------------------------------------
(* The origin of an open.                                                  *)

LEMMA DueKept ==
    ASSUME DueOf, UNCHANGED <<stage, stash, due, credited>>
    PROVE  DueOf'
  BY DEF DueOf

LEMMA DueSteps ==
    ASSUME DueOf, [EntryNext]_entryVars
    PROVE  DueOf'
  <1>1. CASE SetsUp
    BY <1>1 DEF SetsUp, DueOf
  <1>2. CASE Restores
    BY <1>2 DEF Restores, DueOf, origin
  <1>3. CASE Unloads
    BY <1>3 DEF Unloads, DueOf
  <1>4. CASE StreamUp \/ StreamDown \/ Turns
    BY <1>4, DueKept DEF StreamUp, StreamDown, Turns, origin
  <1>5. CASE Dispatches
    <2>1. UNCHANGED stage
      BY <1>5 DEF Dispatches
    <2>2. CASE UNCHANGED <<stash, due, credited>>
      BY <2>1, <2>2, DueKept
    <2>3. ASSUME NEW o, Credits(o) PROVE DueOf'
      <3>1. /\ credited' = [credited EXCEPT ![o] = stash] /\ stash' = Default
            /\ due' = [q \in Requests |-> FALSE]
        BY <2>3 DEF Credits
      <3>2. credited' \in [Opens -> Requests \cup {Default, "unseen"}]
        BY <3>1 DEF DueOf
      <3> QED BY <2>1, <3>1, <3>2 DEF DueOf
    <2>4. \/ UNCHANGED <<stash, due, credited>>
          \/ \E o : Credits(o)
      BY <1>5 DEF Dispatches
    <2> QED BY <2>2, <2>3, <2>4
  <1>6. ASSUME NEW o \in Opens, PanelOpens(o) PROVE DueOf'
    BY <1>6, DueKept DEF PanelOpens, origin
  <1>7. ASSUME NEW r \in Requests, Asks(r) PROVE DueOf'
    <2>1. /\ stage = "loaded" /\ UNCHANGED <<stage, credited>> /\ stash' = r
          /\ due' = [q \in Requests |-> q = r]
      BY <1>7 DEF Asks, Stashed, stream
    <2>2. due' \in [Requests -> BOOLEAN] /\ \A q \in Requests : due'[q] => q = r
      BY <2>1
    <2> QED BY <2>1, <2>2 DEF DueOf
  <1>8. ASSUME NEW r \in Requests, Returns(r) PROVE DueOf'
    BY <1>8, DueKept DEF Returns, stream
  <1>9. CASE OfferRefused \/ OfferTaken \/ OfferFailed
    BY <1>9, DueKept DEF OfferRefused, OfferTaken, OfferFailed, stream, origin
  <1>10. CASE UNCHANGED entryVars
    BY <1>10, DueKept DEF entryVars, stream, origin
  <1> QED BY <1>1, <1>2, <1>3, <1>4, <1>5, <1>6, <1>7, <1>8, <1>9, <1>10 DEF EntryNext

-----------------------------------------------------------------------------
LEMMA TakenKept ==
    ASSUME TakenOf, UNCHANGED <<asked, stash, credited>>
    PROVE  TakenOf'
  BY DEF TakenOf, OriginTakenOnce

LEMMA TakenSteps ==
    ASSUME TakenOf, DueOf, asked \in [Requests -> {"no", "sent", "over"}], [EntryNext]_entryVars
    PROVE  TakenOf'
  <1>0. Default \notin Requests
    BY IntegrationAssumption
  <1>1. CASE UNCHANGED <<asked, credited>> /\ stash' = Default
    BY <1>0, <1>1 DEF TakenOf, OriginTakenOnce
  <1>2. CASE SetsUp
    BY <1>1, <1>2 DEF SetsUp
  <1>3. CASE Restores \/ Unloads \/ StreamUp \/ StreamDown \/ Turns
    BY <1>3, TakenKept DEF Restores, Unloads, StreamUp, StreamDown, Turns, origin
  <1>4. CASE Dispatches
    <2>1. UNCHANGED asked
      BY <1>4 DEF Dispatches
    <2>2. CASE UNCHANGED <<stash, due, credited>>
      BY <2>1, <2>2, TakenKept
    <2>3. ASSUME NEW o, Credits(o) PROVE TakenOf'
      <3>1. /\ credited \in [Opens -> Requests \cup {Default, "unseen"}]
            /\ credited' = [credited EXCEPT ![o] = stash] /\ stash' = Default
        BY <2>3 DEF Credits, DueOf
      <3>2. \A q \in Opens : credited'[q] = IF q = o THEN stash ELSE credited[q]
        BY <3>1
      <3>3. OriginTakenOnce'
        BY <3>2 DEF TakenOf, OriginTakenOnce
      <3>4. ASSUME NEW r \in Requests, asked'[r] = "no"
            PROVE  stash' # r /\ \A q \in Opens : credited'[q] # r
        BY <1>0, <2>1, <3>1, <3>2, <3>4 DEF TakenOf
      <3> QED BY <1>0, <3>1, <3>3, <3>4 DEF TakenOf
    <2>4. \/ UNCHANGED <<stash, due, credited>>
          \/ \E o : Credits(o)
      BY <1>4 DEF Dispatches
    <2> QED BY <2>2, <2>3, <2>4
  <1>5. ASSUME NEW o \in Opens, PanelOpens(o) PROVE TakenOf'
    BY <1>5, TakenKept DEF PanelOpens, origin
  <1>6. ASSUME NEW r \in Requests, Asks(r) PROVE TakenOf'
    <2>1. /\ asked[r] = "no" /\ asked' = [asked EXCEPT ![r] = "sent"]
          /\ stash' = r /\ UNCHANGED credited
      BY <1>6 DEF Asks, Stashed
    <2>2. \A q \in Requests : asked'[q] = "no" => asked[q] = "no" /\ q # r
      BY <2>1
    <2> QED BY <2>1, <2>2 DEF TakenOf, OriginTakenOnce
  <1>7. ASSUME NEW r \in Requests, Returns(r) PROVE TakenOf'
    <2>1. asked' = [asked EXCEPT ![r] = "over"] /\ UNCHANGED <<stash, credited>>
      BY <1>7 DEF Returns
    <2>2. \A q \in Requests : asked'[q] = "no" => asked[q] = "no"
      BY <2>1
    <2> QED BY <2>1, <2>2 DEF TakenOf, OriginTakenOnce
  <1>8. CASE OfferRefused \/ OfferTaken \/ OfferFailed
    BY <1>8, TakenKept DEF OfferRefused, OfferTaken, OfferFailed, origin
  <1>9. CASE UNCHANGED entryVars
    BY <1>9, TakenKept DEF entryVars, origin
  <1> QED BY <1>2, <1>3, <1>4, <1>5, <1>6, <1>7, <1>8, <1>9 DEF EntryNext

-----------------------------------------------------------------------------
(* Types.                                                                  *)

LEMMA EventType ==
    /\ \A o \in Opens, b \in BOOLEAN : [kind |-> "open", by |-> o, is |-> b] \in Events
    /\ \A b \in BOOLEAN : \A k \in {"state", "registered", "rejected", "unreleased", "lost"} :
          [kind |-> k, is |-> b] \in Events
    /\ \A e \in Events : e.is \in BOOLEAN /\ (e.kind = "open" => e.by \in Opens)
  BY DEF Events

LEMMA NothingSent == <<>> \in Seq(Events)
  OBVIOUS

LEMMA Bounds == {0} \subseteq 0..MaxTurns /\ {0} \subseteq 0..MaxRefused
  BY IntegrationAssumption

\* What is published is behind what is on its way, if the stream is up.
LEMMA PublishedType ==
    ASSUME EntryTypeOK, OnlineOf, NEW e \in Events, Published(e)
    PROVE  /\ sent' \in Seq(Events)
           /\ stage = "unloaded" \/ ~online => sent' = <<>>
  <1>1. /\ sent \in Seq(Events) /\ sent' = IF online THEN Append(sent, e) ELSE sent
        /\ stage = "unloaded" \/ ~online => sent = <<>> /\ ~online
    BY DEF EntryTypeOK, OnlineOf, Published
  <1>2. Append(sent, e) \in Seq(Events)
    BY <1>1
  <1> QED BY <1>1, <1>2

LEMMA OnlineSteps ==
    ASSUME OnlineOf, [EntryNext]_entryVars
    PROVE  OnlineOf'
  <1>1. CASE SetsUp \/ Restores \/ Unloads \/ StreamUp \/ StreamDown \/ Turns
    BY <1>1 DEF SetsUp, Restores, Unloads, StreamUp, StreamDown, Turns, OnlineOf
  <1>2. CASE UNCHANGED <<stage, online>>
    BY <1>2 DEF OnlineOf
  <1>3. CASE Dispatches \/ OfferRefused \/ OfferTaken \/ OfferFailed \/ UNCHANGED entryVars
    BY <1>2, <1>3 DEF Dispatches, OfferRefused, OfferTaken, OfferFailed, stream, entryVars
  <1>4. ASSUME NEW o \in Opens, PanelOpens(o) PROVE OnlineOf'
    BY <1>2, <1>4 DEF PanelOpens
  <1>5. ASSUME NEW r \in Requests, Asks(r) \/ Returns(r) PROVE OnlineOf'
    BY <1>2, <1>5 DEF Asks, Returns, stream
  <1> QED BY <1>1, <1>3, <1>4, <1>5 DEF EntryNext

-----------------------------------------------------------------------------
(* What the monitor is told.                                               *)

LEMMA ToldKept ==
    ASSUME ToldOf, UNCHANGED <<online, sent, bound, known>>
    PROVE  ToldOf'
  BY DEF ToldOf, Late

\* News of the registration, put behind what is on its way, is read last of it.
LEMMA ToldLast ==
    ASSUME NEW s \in Seq(Events), NEW e \in Events, ToldOf, online' = online,
           known' = known, sent = s,
           sent' = IF online THEN Append(s, e) ELSE s,
           e.kind = "open" => bound' = bound,
           e.kind # "open" => bound' = e.is
    PROVE  ToldOf'
  <1> SUFFICES ASSUME online PROVE
        /\ Late' \/ known = bound'
        /\ \A i \in DOMAIN sent' :
              sent'[i].kind # "open" /\ (\A j \in (i + 1)..Len(sent') : sent'[j].kind = "open")
                 => sent'[i].is = bound'
    BY DEF ToldOf
  <1>1. sent' = Append(s, e) /\ Len(sent') = Len(s) + 1 /\ Len(s) \in Nat
    OBVIOUS
  <1>2. sent'[Len(s) + 1] = e /\ \A i \in 1..Len(s) : sent'[i] = s[i]
    BY <1>1
  <1>3. DOMAIN sent' = 1..(Len(s) + 1) /\ DOMAIN s = 1..Len(s)
    BY <1>1
  <1>4. CASE e.kind # "open"
    <2>1. Late'
      BY <1>1, <1>2, <1>3, <1>4 DEF Late
    <2>2. ASSUME NEW i \in DOMAIN sent',
                 \A j \in (i + 1)..Len(sent') : sent'[j].kind = "open"
          PROVE  i = Len(s) + 1
      BY <1>1, <1>2, <1>3, <1>4, <2>2
    <2> QED BY <1>2, <1>4, <2>1, <2>2
  <1>5. CASE e.kind = "open"
    <2>1. Late => Late'
      BY <1>1, <1>2, <1>3 DEF Late
    <2>2. ASSUME NEW i \in DOMAIN sent', sent'[i].kind # "open",
                 \A j \in (i + 1)..Len(sent') : sent'[j].kind = "open"
          PROVE  sent'[i].is = bound
      <3>1. i \in DOMAIN s /\ sent'[i] = s[i]
        BY <1>2, <1>3, <1>5, <2>2
      <3>2. \A j \in (i + 1)..Len(s) : s[j].kind = "open"
        BY <1>1, <1>2, <1>3, <2>2
      <3> QED BY <2>2, <3>1, <3>2 DEF ToldOf
    <2> QED BY <1>5, <2>1, <2>2 DEF ToldOf
  <1> QED BY <1>4, <1>5

LEMMA ToldSteps ==
    ASSUME EntryTypeOK, OnlineOf, ToldOf, [EntryNext]_entryVars
    PROVE  ToldOf'
  <1>1. CASE SetsUp \/ Unloads \/ StreamDown
    <2>1. ~online'
      BY <1>1 DEF SetsUp, Unloads, StreamDown, OnlineOf
    <2> QED BY <2>1 DEF ToldOf
  <1>2. CASE StreamUp
    <2>1. sent' = <<[kind |-> "state", is |-> bound]>> /\ bound' = bound
      BY <1>2 DEF StreamUp, gateway
    <2>2. DOMAIN sent' = {1} /\ sent'[1].kind = "state" /\ sent'[1].is = bound
      BY <2>1
    <2> QED BY <2>1, <2>2 DEF ToldOf, Late
  <1>3. CASE Turns
    <2>1. PICK k \in {"registered", "rejected", "unreleased", "lost"} :
             bound' = (k = "registered") /\ Published([kind |-> k, is |-> k = "registered"])
      BY <1>3 DEF Turns
    <2>2. [kind |-> k, is |-> k = "registered"] \in Events
      BY EventType
    <2>3. sent \in Seq(Events) /\ UNCHANGED <<online, known>>
      BY <1>3 DEF Turns, EntryTypeOK, repairs
    <2> QED BY <2>1, <2>2, <2>3, ToldLast DEF Published
  <1>4. ASSUME NEW o \in Opens, PanelOpens(o) PROVE ToldOf'
    <2>1. sent \in Seq(Events) /\ UNCHANGED <<online, known, bound>>
      BY <1>4 DEF PanelOpens, EntryTypeOK, repairs
    <2>2. ASSUME NEW b \in BOOLEAN, Published([kind |-> "open", by |-> o, is |-> b])
          PROVE  ToldOf'
      <3>1. [kind |-> "open", by |-> o, is |-> b] \in Events
        BY EventType
      <3> QED BY <2>1, <2>2, <3>1, ToldLast DEF Published
    <2> QED BY <1>4, <2>1, <2>2, ToldKept DEF PanelOpens
  <1>5. CASE Dispatches
    <2>1. /\ sent \in Seq(Events) /\ sent # <<>> /\ sent' = Tail(sent)
          /\ online' = online /\ bound' = bound
      BY <1>5 DEF Dispatches, EntryTypeOK, gateway
    <2>2. /\ Len(sent') = Len(sent) - 1 /\ Len(sent) \in Nat \ {0}
          /\ DOMAIN sent = 1..Len(sent) /\ DOMAIN sent' = 1..(Len(sent) - 1)
      BY <2>1
    <2>3. \A i \in DOMAIN sent' : i + 1 \in DOMAIN sent /\ sent'[i] = sent[i + 1]
      BY <2>1, <2>2
    <2>4. IF Head(sent).kind = "open" THEN known' = known ELSE known' = Head(sent).is
      BY <1>5 DEF Dispatches, Registration, repairs
    <2>5. ASSUME online, ~Late' PROVE known' = bound
      <3>1. \A i \in DOMAIN sent' : sent'[i].kind = "open"
        BY <2>1, <2>5 DEF Late
      <3>2. \A j \in 2..Len(sent) : sent[j].kind = "open"
        <4>1. ASSUME NEW j \in 2..Len(sent) PROVE sent[j].kind = "open"
          <5>1. j - 1 \in DOMAIN sent' /\ (j - 1) + 1 = j
            BY <2>2
          <5> QED BY <2>3, <3>1, <5>1
        <4> QED BY <4>1
      <3>3. 1 \in DOMAIN sent /\ Head(sent) = sent[1]
        BY <2>1, <2>2
      <3>4. CASE Head(sent).kind # "open"
        <4>1. sent[1].is = bound
          BY <2>5, <3>2, <3>3, <3>4 DEF ToldOf
        <4> QED BY <2>4, <3>3, <3>4, <4>1
      <3>5. CASE Head(sent).kind = "open"
        <4>1. \A i \in DOMAIN sent : sent[i].kind = "open"
          BY <2>2, <3>2, <3>3, <3>5
        <4> QED BY <2>4, <2>5, <3>5, <4>1 DEF ToldOf, Late
      <3> QED BY <3>4, <3>5
    <2>6. ASSUME online, NEW i \in DOMAIN sent', sent'[i].kind # "open",
                 \A j \in (i + 1)..Len(sent') : sent'[j].kind = "open"
          PROVE  sent'[i].is = bound
      <3>1. ASSUME NEW j \in (i + 2)..Len(sent) PROVE sent[j].kind = "open"
        <4>1. j - 1 \in (i + 1)..Len(sent') /\ j - 1 \in DOMAIN sent' /\ (j - 1) + 1 = j
          BY <2>2, <2>6
        <4> QED BY <2>3, <2>6, <4>1
      <3>2. i + 1 \in DOMAIN sent /\ sent'[i] = sent[i + 1] /\ (i + 1) + 1 = i + 2
        BY <2>2, <2>3
      <3> QED BY <2>6, <3>1, <3>2 DEF ToldOf
    <2> QED BY <2>1, <2>5, <2>6 DEF ToldOf
  <1>6. ASSUME NEW r \in Requests, Asks(r) \/ Returns(r) PROVE ToldOf'
    BY <1>6, ToldKept DEF Asks, Returns, stream, gateway, repairs
  <1>7. CASE Restores \/ OfferRefused \/ OfferTaken \/ OfferFailed
    BY <1>7, ToldKept DEF Restores, OfferRefused, OfferTaken, OfferFailed, stream, gateway, repairs
  <1>8. CASE UNCHANGED entryVars
    BY <1>8, ToldKept DEF entryVars, stream, gateway, repairs
  <1> QED BY <1>1, <1>2, <1>3, <1>4, <1>5, <1>6, <1>7, <1>8 DEF EntryNext

-----------------------------------------------------------------------------
(* The row of refusals.                                                    *)

\* A refusal the monitor counts is one of the row: what it was told last is so, or overtaken.
LEMMA RefusedCounts ==
    ASSUME EntryTypeOK, ToldOf, OfferRefused
    PROVE  \/ consecutive' = consecutive + 1 /\ refused' = refused + 1
           \/ UNCHANGED <<consecutive, issues>> /\ refused' \in {refused, refused + 1}
  <1>1. known => bound \/ Late
    BY DEF EntryTypeOK, ToldOf, Late
  <1> QED BY <1>1 DEF OfferRefused

LEMMA RowSteps ==
    ASSUME EntryTypeOK, ToldOf, RowOf, [EntryNext]_entryVars
    PROVE  RowOf'
  <1>1. \/ UNCHANGED <<consecutive, refused>>
        \/ consecutive' = 0 /\ refused' \in {0, refused}
        \/ consecutive' = consecutive + 1 /\ refused' = refused + 1
        \/ consecutive' = consecutive /\ refused' \in {refused, refused + 1}
    <2>1. CASE SetsUp
      BY <2>1 DEF SetsUp
    <2>2. CASE Restores \/ Unloads \/ StreamUp \/ StreamDown \/ Turns
      BY <2>2 DEF Restores, Unloads, StreamUp, StreamDown, Turns, repairs
    <2>3. CASE Dispatches
      BY <2>3 DEF Dispatches, repairs
    <2>4. ASSUME NEW o \in Opens, PanelOpens(o)
          PROVE  UNCHANGED <<consecutive, refused>>
      BY <2>4 DEF PanelOpens, repairs
    <2>5. ASSUME NEW r \in Requests, Asks(r) \/ Returns(r)
          PROVE  UNCHANGED <<consecutive, refused>>
      BY <2>5 DEF Asks, Returns, repairs
    <2>6. CASE OfferRefused \/ OfferTaken \/ OfferFailed
      BY <2>6, RefusedCounts DEF OfferTaken, OfferFailed
    <2>7. CASE UNCHANGED entryVars
      BY <2>7 DEF entryVars, repairs
    <2> QED BY <2>1, <2>2, <2>3, <2>4, <2>5, <2>6, <2>7 DEF EntryNext
  <1> QED BY <1>1 DEF RowOf

-----------------------------------------------------------------------------
(* The types of the parts.                                                 *)

StreamTypes ==
    /\ stage \in {"unloaded", "setup", "loaded"} /\ online \in BOOLEAN
    /\ sent \in Seq(Events) /\ (stage = "unloaded" \/ ~online => sent = <<>>)
GatewayTypes ==
    bound \in BOOLEAN /\ turns \in 0..MaxTurns /\ handled \in [Opens -> BOOLEAN]
OriginTypes ==
    /\ asked \in [Requests -> {"no", "sent", "over"}]
    /\ stash \in Requests \cup {Default} /\ due \in [Requests -> BOOLEAN]
    /\ credited \in [Opens -> Requests \cup {Default, "unseen"}]
CounterTypes == count \in Nat /\ stored \in Nat /\ counted \in Nat
RepairsTypes ==
    /\ known \in BOOLEAN /\ consecutive \in 0..MaxRefused /\ refused \in 0..MaxRefused
    /\ issues \subseteq {"unconfirmed_release", "auth_failure", "calls_not_routed"}

LEMMA EntryTypeParts ==
    /\ EntryTypeOK <=> StreamTypes /\ GatewayTypes /\ OriginTypes /\ CounterTypes /\ RepairsTypes
    /\ EntryTypeOK' <=>
          StreamTypes' /\ GatewayTypes' /\ OriginTypes' /\ CounterTypes' /\ RepairsTypes'
  BY DEF EntryTypeOK, StreamTypes, GatewayTypes, OriginTypes, CounterTypes, RepairsTypes

\* A step that leaves a part alone leaves its types.
LEMMA EntryTypesKept ==
    ASSUME EntryTypeOK
    PROVE  /\ UNCHANGED stream => StreamTypes'
           /\ UNCHANGED gateway => GatewayTypes'
           /\ UNCHANGED origin => OriginTypes'
           /\ UNCHANGED counter => CounterTypes'
           /\ UNCHANGED repairs => RepairsTypes'
  BY EntryTypeParts DEF stream, gateway, origin, counter, repairs,
     StreamTypes, GatewayTypes, OriginTypes, CounterTypes, RepairsTypes

\* The monitor counts as many refusals in a row as there were at most.
LEMMA EntryTypeSteps ==
    ASSUME EntryTypeOK, OnlineOf, ToldOf, RowOf, [EntryNext]_entryVars
    PROVE  EntryTypeOK'
  <1> USE EntryTypesKept
  <1>1. StreamTypes /\ GatewayTypes /\ OriginTypes /\ CounterTypes /\ RepairsTypes
    BY EntryTypeParts
  <1>2. 0 \in 0..MaxRefused
    BY Bounds
  <1>3. CASE SetsUp
    <2>1. StreamTypes' /\ GatewayTypes' /\ CounterTypes'
      BY <1>1, <1>3 DEF SetsUp, StreamTypes, CounterTypes
    <2>2. OriginTypes' /\ RepairsTypes'
      BY <1>1, <1>2, <1>3 DEF SetsUp, OriginTypes, RepairsTypes
    <2> QED BY <2>1, <2>2, EntryTypeParts
  <1>4. CASE Restores
    <2>1. StreamTypes' /\ CounterTypes'
      BY <1>1, <1>4 DEF Restores, StreamTypes, CounterTypes
    <2> QED BY <1>4, <2>1, EntryTypeParts DEF Restores
  <1>5. CASE Unloads
    <2>1. StreamTypes' /\ CounterTypes'
      BY <1>1, <1>5, NothingSent DEF Unloads, StreamTypes, CounterTypes
    <2>2. OriginTypes'
      BY <1>1, <1>5 DEF Unloads, OriginTypes
    <2> QED BY <1>5, <2>1, <2>2, EntryTypeParts DEF Unloads
  <1>6. CASE StreamUp
    <2>1. [kind |-> "state", is |-> bound] \in Events
      BY <1>1, EventType DEF GatewayTypes
    <2>2. <<[kind |-> "state", is |-> bound]>> \in Seq(Events)
      BY <2>1
    <2>3. StreamTypes'
      BY <1>1, <1>6, <2>2 DEF StreamUp, StreamTypes
    <2> QED BY <1>6, <2>3, EntryTypeParts DEF StreamUp
  <1>7. CASE StreamDown
    <2>1. StreamTypes'
      BY <1>1, <1>7, NothingSent DEF StreamDown, StreamTypes
    <2> QED BY <1>7, <2>1, EntryTypeParts DEF StreamDown
  <1>8. CASE Turns
    <2>1. PICK k \in {"registered", "rejected", "unreleased", "lost"} :
             bound' = (k = "registered") /\ Published([kind |-> k, is |-> k = "registered"])
      BY <1>8 DEF Turns
    <2>2. [kind |-> k, is |-> k = "registered"] \in Events
      BY EventType
    <2>3. StreamTypes'
      BY <1>1, <1>8, <2>1, <2>2, PublishedType DEF Turns, StreamTypes
    <2>4. GatewayTypes'
      BY <1>1, <1>8, <2>1, IntegrationAssumption DEF Turns, GatewayTypes
    <2> QED BY <1>8, <2>3, <2>4, EntryTypeParts DEF Turns
  <1>9. ASSUME NEW o \in Opens, PanelOpens(o) PROVE EntryTypeOK'
    <2>1. /\ sent' \in Seq(Events) /\ (stage = "unloaded" \/ ~online => sent' = <<>>)
      <3>1. CASE UNCHANGED sent
        BY <1>1, <3>1 DEF StreamTypes
      <3>2. ASSUME NEW b \in BOOLEAN, Published([kind |-> "open", by |-> o, is |-> b])
            PROVE  /\ sent' \in Seq(Events)
                   /\ stage = "unloaded" \/ ~online => sent' = <<>>
        <4>1. [kind |-> "open", by |-> o, is |-> b] \in Events
          BY EventType
        <4> QED BY <3>2, <4>1, PublishedType
      <3> QED BY <1>9, <3>1, <3>2 DEF PanelOpens
    <2>2. StreamTypes' /\ GatewayTypes'
      BY <1>1, <1>9, <2>1 DEF PanelOpens, StreamTypes, GatewayTypes
    <2> QED BY <1>9, <2>2, EntryTypeParts DEF PanelOpens
  <1>10. ASSUME NEW r \in Requests, Asks(r) \/ Returns(r) PROVE EntryTypeOK'
    <2>1. OriginTypes'
      BY <1>1, <1>10 DEF Asks, Returns, Stashed, OriginTypes
    <2> QED BY <1>10, <2>1, EntryTypeParts DEF Asks, Returns
  <1>11. CASE Dispatches
    <2>1. /\ sent \in Seq(Events) /\ sent # <<>> /\ sent' = Tail(sent)
          /\ UNCHANGED <<stage, online, gateway, asked, stored>>
      BY <1>1, <1>11 DEF Dispatches, StreamTypes
    <2>2. StreamTypes' /\ Head(sent) \in Events
      BY <1>1, <2>1 DEF StreamTypes
    <2>3. OriginTypes'
      <3>1. UNCHANGED <<stash, due, credited>> \/ \E o : Credits(o)
        BY <1>11 DEF Dispatches
      <3>2. ASSUME NEW o, Credits(o) PROVE OriginTypes'
        BY <1>1, <2>1, <3>2 DEF Credits, OriginTypes
      <3>3. CASE UNCHANGED <<stash, due, credited>>
        BY <1>1, <2>1, <3>3 DEF OriginTypes
      <3> QED BY <3>1, <3>2, <3>3
    <2>4. CounterTypes'
      <3>1. UNCHANGED <<count, counted>> \/ (count' = count + 1 /\ counted' = counted + 1)
        BY <1>11 DEF Dispatches, Counts
      <3> QED BY <1>1, <2>1, <3>1 DEF CounterTypes
    <2>5. RepairsTypes'
      <3>1. CASE Registration(Head(sent)) /\ UNCHANGED <<consecutive, refused>>
        <4>1. Head(sent).is \in BOOLEAN
          BY <2>2, EventType
        <4> QED BY <1>1, <3>1, <4>1 DEF Registration, RepairsTypes
      <3> QED BY <1>11, <3>1 DEF Dispatches
    <2> QED BY <2>1, <2>2, <2>3, <2>4, <2>5, EntryTypeParts
  <1>12. CASE OfferRefused
    <2>1. refused' \in 0..MaxRefused /\ consecutive' <= refused' /\ consecutive' \in Nat
      BY <1>1, <1>12, RowSteps, IntegrationAssumption DEF OfferRefused, RowOf, RepairsTypes, EntryNext
    <2>2. consecutive' \in 0..MaxRefused
      BY <2>1, IntegrationAssumption
    <2>3. RepairsTypes'
      BY <1>1, <1>12, <2>1, <2>2 DEF OfferRefused, RepairsTypes
    <2> QED BY <1>12, <2>3, EntryTypeParts DEF OfferRefused
  <1>13. CASE OfferTaken \/ OfferFailed
    <2>1. RepairsTypes'
      BY <1>1, <1>2, <1>13 DEF OfferTaken, OfferFailed, RepairsTypes
    <2> QED BY <1>13, <2>1, EntryTypeParts DEF OfferTaken, OfferFailed
  <1>14. CASE UNCHANGED entryVars
    BY <1>14, EntryTypeParts DEF entryVars
  <1> QED BY <1>3, <1>4, <1>5, <1>6, <1>7, <1>8, <1>9, <1>10, <1>11, <1>12, <1>13, <1>14
          DEF EntryNext

-----------------------------------------------------------------------------
(* The theorems.                                                           *)

LEMMA EntryInitially == EntryInit => EntryInv
  <1> SUFFICES ASSUME EntryInit PROVE EntryInv
    OBVIOUS
  <1>1. CountedOf
    BY DEF EntryInit, CountedOf
  <1>2. DueOf
    BY DEF EntryInit, DueOf
  <1>3. RowOf
    BY DEF EntryInit, RowOf
  <1>4. StreamTypes /\ GatewayTypes /\ OnlineOf
    BY NothingSent, Bounds DEF EntryInit, StreamTypes, GatewayTypes, OnlineOf
  <1>5. OriginTypes /\ CounterTypes
    BY DEF EntryInit, OriginTypes, CounterTypes
  <1>6. RepairsTypes
    BY Bounds DEF EntryInit, RepairsTypes
  <1>7. TakenOf
    BY IntegrationAssumption DEF EntryInit, TakenOf, OriginTakenOnce
  <1>8. ToldOf
    BY DEF EntryInit, ToldOf
  <1> QED BY <1>1, <1>2, <1>3, <1>4, <1>5, <1>6, <1>7, <1>8, EntryTypeParts DEF EntryInv

\* The strengthening: while it is unloaded the counter is what was stored, what is due is in
\* the stash, no event has had what the stash holds, what the monitor believes is so unless it
\* is overtaken, and it has counted no refusal that there was not.
THEOREM EntryInductive == EntrySpec => []EntryInv
  <1>1. EntryInv /\ [EntryNext]_entryVars => EntryInv'
    <2>1. EntryInv /\ [EntryNext]_entryVars => TakenOf'
      BY TakenSteps DEF EntryInv, EntryTypeOK
    <2> QED BY <2>1, CountedSteps, DueSteps, ToldSteps, RowSteps, OnlineSteps, EntryTypeSteps
            DEF EntryInv
  <1> QED BY EntryInitially, <1>1, PTL DEF EntrySpec

\* What the entry keeps is of its type, and the row of refusals within its bound.
THEOREM EntryTypes == EntrySpec => []EntryTypeOK
  <1>1. EntryInv => EntryTypeOK
    BY DEF EntryInv
  <1> QED BY EntryInductive, <1>1, PTL

\* No reload loses or repeats an open that the counter was told of (sensor.py:3-5).
THEOREM Unbroken == EntrySpec => []CounterUnbroken
  <1>1. EntryInv => CounterUnbroken
    BY DEF EntryInv, CountedOf, CounterUnbroken
  <1> QED BY EntryInductive, <1>1, PTL

\* What an open leaves labels one event at most (commands.py:44): of opens that overlap, no
\* two are put down to the same request.
THEOREM TakenOnce == EntrySpec => []OriginTakenOnce
  <1>1. EntryInv => OriginTakenOnce
    BY DEF EntryInv, TakenOf
  <1> QED BY EntryInductive, <1>1, PTL

\* The repairs issue of the Route trap stands for a row of refusals (repairs.py:77-83), each
\* met while registered, or before the monitor could know better (repairs.py:79).
THEOREM RowFirst == EntrySpec => TrapIsARow
  <1> DEFINE trap == "calls_not_routed"
             Called == trap \notin issues /\ trap \in issues' => refused' >= Threshold
  <1>1. ASSUME EntryInv, [EntryNext]_entryVars PROVE Called
    <2> SUFFICES ASSUME trap \notin issues, trap \in issues' PROVE refused' >= Threshold
      OBVIOUS
    <2>1. CASE OfferRefused
      <3>1. consecutive + 1 >= Threshold /\ refused' = refused + 1
        BY <1>1, <2>1, RefusedCounts DEF OfferRefused, EntryInv
      <3>2. consecutive \in Nat /\ refused \in Nat /\ consecutive <= refused
        BY <1>1 DEF EntryInv, RowOf
      <3>3. Threshold \in Nat
        BY IntegrationAssumption
      <3> QED BY <3>1, <3>2, <3>3
    <2>2. CASE SetsUp \/ Restores \/ Unloads \/ StreamUp \/ StreamDown \/ Turns
      BY <2>2 DEF SetsUp, Restores, Unloads, StreamUp, StreamDown, Turns, repairs
    <2>3. CASE Dispatches
      <3>1. UNCHANGED issues \/ \E event : Registration(event)
        BY <2>3 DEF Dispatches, repairs
      <3>2. ASSUME NEW event, Registration(event) PROVE trap \notin issues'
        BY <3>2 DEF Registration
      <3> QED BY <3>1, <3>2
    <2>4. ASSUME NEW o \in Opens, PanelOpens(o) PROVE FALSE
      BY <2>4 DEF PanelOpens, repairs
    <2>5. ASSUME NEW r \in Requests, Asks(r) \/ Returns(r) PROVE FALSE
      BY <2>5 DEF Asks, Returns, repairs
    <2>6. CASE OfferTaken \/ OfferFailed
      BY <2>6 DEF OfferTaken, OfferFailed
    <2>7. CASE UNCHANGED entryVars
      BY <2>7 DEF entryVars, repairs
    <2> QED BY <1>1, <2>1, <2>2, <2>3, <2>4, <2>5, <2>6, <2>7 DEF EntryNext
  <1>2. EntryInv /\ [EntryNext]_entryVars => [Called]_entryVars
    BY <1>1
  <1> QED BY EntryInductive, <1>2, PTL DEF EntrySpec, TrapIsARow

\* An open that no other crossed is credited to who asked for it (commands.py:10-12).
THEOREM Credited == EntrySpec => AloneIsCredited
  <1> DEFINE Rightly == \A r \in Requests : credited'[r] # credited[r] /\ due[r] => credited'[r] = r
  <1>1. ASSUME EntryInv, [EntryNext]_entryVars PROVE Rightly
    <2> SUFFICES ASSUME NEW r \in Requests, credited'[r] # credited[r], due[r]
                 PROVE  credited'[r] = r
      OBVIOUS
    <2>1. CASE Dispatches
      <3>1. UNCHANGED credited \/ \E o : Credits(o)
        BY <2>1 DEF Dispatches
      <3>2. ASSUME NEW o, Credits(o) PROVE credited'[r] = r
        <4>1. credited' = [credited EXCEPT ![o] = stash] /\ r \in Opens
          BY <3>2 DEF Credits, Opens
        <4>2. credited'[r] = stash
          BY <4>1 DEF EntryInv, DueOf
        <4>3. stash = r
          BY <1>1 DEF EntryInv, DueOf
        <4> QED BY <4>2, <4>3
      <3> QED BY <3>1, <3>2
    <2>2. CASE SetsUp \/ Restores \/ Unloads \/ StreamUp \/ StreamDown \/ Turns
      BY <2>2 DEF SetsUp, Restores, Unloads, StreamUp, StreamDown, Turns, origin
    <2>3. ASSUME NEW o \in Opens, PanelOpens(o) PROVE FALSE
      BY <2>3 DEF PanelOpens, origin
    <2>4. ASSUME NEW q \in Requests, Asks(q) \/ Returns(q) PROVE FALSE
      BY <2>4 DEF Asks, Returns
    <2>5. CASE OfferRefused \/ OfferTaken \/ OfferFailed
      BY <2>5 DEF OfferRefused, OfferTaken, OfferFailed, origin
    <2>6. CASE UNCHANGED entryVars
      BY <2>6 DEF entryVars, origin
    <2> QED BY <1>1, <2>1, <2>2, <2>3, <2>4, <2>5, <2>6 DEF EntryNext
  <1>2. EntryInv /\ [EntryNext]_entryVars => [Rightly]_entryVars
    BY <1>1
  <1> QED BY EntryInductive, <1>2, PTL DEF EntrySpec, AloneIsCredited

(***************************************************************************)
(* The card: one peer connection, one offer for each gesture, and no       *)
(* session left open at the gateway once its leg was up.                   *)
(***************************************************************************)
\* What the gestures are counted from, and what the links are.
counts == <<linkState, autoStarted, gestures, made>>
links  == <<link, made, sessionId, at, closed, session>>

Core == Counted /\ Linked

-----------------------------------------------------------------------------
(* The gestures.                                                           *)

\* Nothing that waits begins without a gesture.
LEMMA CountedKept ==
    ASSUME Counted, UNCHANGED <<autoStarted, gestures, made>>,
           linkState' = "answering" => linkState = "answering"
    PROVE  Counted'
  BY DEF Counted, OfferPerGesture

LEMMA CountedPress ==
    ASSUME Counted, Presses < MaxGestures, Sends, UNCHANGED <<autoStarted, made>>
    PROVE  Counted'
  BY CardAssumption DEF Counted, OfferPerGesture, Presses, Sends

\* The card's own look is one more, once.
LEMMA CountedLook ==
    ASSUME Counted, ~autoStarted, autoStarted' = TRUE, Sends, UNCHANGED made
    PROVE  Counted'
  BY CardAssumption DEF Counted, OfferPerGesture, Sends

\* The gesture that waited has its link, and there is a number for it.
LEMMA CountedOffer ==
    ASSUME Counted, Waiting, Negotiates
    PROVE  Counted' /\ made + 1 \in Links
  <1>1. made + 1 <= gestures /\ made \in Nat
    BY DEF Counted, OfferPerGesture, Waiting
  <1>2. gestures <= MaxGestures + 1 /\ gestures \in Nat /\ MaxGestures \in Nat
    BY CardAssumption DEF Counted
  <1>3. made + 1 \in Links
    BY <1>1, <1>2 DEF Links
  <1>4. /\ UNCHANGED <<autoStarted, gestures>>
        /\ linkState' = "negotiating" /\ made' = made + 1
    BY DEF Negotiates, press
  <1>5. Counted'
    BY <1>1, <1>4 DEF Counted, OfferPerGesture
  <1> QED BY <1>3, <1>5

-----------------------------------------------------------------------------
(* The links.                                                              *)

LEMMA LinkedKept ==
    ASSUME Linked, UNCHANGED links
    PROVE  Linked'
  BY DEF Linked, links, OnePeer, SessionClosed

\* The link is closed, and its session with it.
LEMMA LinkedTorn ==
    ASSUME Linked, NEW then, Teardown(then), UNCHANGED made,
           at' \in [Links -> {"none", "offering", "posting", "answering", "up", "failed"}],
           \A l \in Links : at'[l] = at[l] \/ (at'[l] = "failed" /\ at[l] # "none")
    PROVE  Linked'
  <1>1. /\ link' = 0 /\ made' = made /\ made \in Links \cup {0} /\ link \in 0..made
        /\ closed' = [l \in Links |-> closed[l] \/ l = link]
        /\ session' = [l \in Links |-> IF l = sessionId THEN "told" ELSE session[l]]
    BY DEF Linked, Teardown, Close
  <1>2. made \in Nat /\ Links \subseteq Nat
    BY <1>1, CardAssumption DEF Links
  <1>3. /\ closed' \in [Links -> BOOLEAN]
        /\ session' \in [Links -> {"none", "open", "told"}]
    BY <1>1 DEF Linked
  <1>4. link' \in 0..made'
    BY <1>1, <1>2
  <1>5. ASSUME NEW l \in Links, l > made' PROVE at'[l] = "none" /\ ~closed'[l]
    <2>1. l # link
      BY <1>1, <1>2, <1>5
    <2>2. at[l] = "none" /\ ~closed[l]
      BY <1>1, <1>5 DEF Linked
    <2> QED BY <1>1, <2>1, <2>2
  <1>6. OnePeer'
    <2> SUFFICES ASSUME NEW l \in 1..made PROVE closed'[l]
      BY <1>1 DEF OnePeer
    <2>1. l \in Links
      BY <1>1, <1>2, CardAssumption DEF Links
    <2>2. closed[l] \/ l = link
      BY DEF Linked, OnePeer
    <2> QED BY <1>1, <2>1, <2>2
  <1>7. ASSUME NEW l \in Links, at'[l] = "up" PROVE closed'[l]
    <2>1. ~(l > made)
      BY <1>5, <1>1, <1>7
    <2>2. l \in 1..made
      BY <1>2, <2>1 DEF Links
    <2>3. closed[l] \/ l = link
      BY <2>2 DEF Linked, OnePeer
    <2> QED BY <1>1, <2>3
  <1>8. SessionClosed'
    <2> SUFFICES ASSUME NEW l \in Links, at'[l] = "up" PROVE session'[l] = "told"
      BY DEF SessionClosed
    <2>1. at[l] = "up"
      OBVIOUS
    <2>2. CASE closed[l]
      BY <1>1, <2>1, <2>2 DEF Linked, SessionClosed
    <2>3. CASE ~closed[l]
      BY <1>1, <2>1, <2>3 DEF Linked
    <2> QED BY <2>2, <2>3
  <1> QED BY <1>1, <1>3, <1>4, <1>5, <1>6, <1>7, <1>8 DEF Linked

LEMMA LinkedOffer ==
    ASSUME Linked, Negotiates, made + 1 \in Links
    PROVE  Linked'
  <1>1. /\ link = 0 /\ made' = made + 1 /\ link' = made + 1
        /\ at' = [at EXCEPT ![made + 1] = "offering"]
        /\ UNCHANGED <<sessionId, session, closed>>
    BY DEF Negotiates, MayOffer, mic
  <1>2. made \in Nat /\ Links \subseteq Nat
    BY CardAssumption DEF Linked, Links
  <1>3. /\ made' \in Links \cup {0} /\ link' \in 0..made'
        /\ at' \in [Links -> {"none", "offering", "posting", "answering", "up", "failed"}]
        /\ closed' \in [Links -> BOOLEAN]
        /\ session' \in [Links -> {"none", "open", "told"}]
    BY <1>1, <1>2 DEF Linked
  <1>4. ~closed'[link']
    <2>1. made + 1 > made
      BY <1>2
    <2> QED BY <1>1, <2>1 DEF Linked
  <1>5. ASSUME NEW l \in Links, l > made' PROVE at'[l] = "none" /\ ~closed'[l]
    <2>1. l > made /\ l # made + 1
      BY <1>1, <1>2, <1>5
    <2> QED BY <1>1, <2>1 DEF Linked
  <1>6. ASSUME NEW l \in Links, at'[l] = "up" PROVE at[l] = "up"
    BY <1>1, <1>6 DEF Linked
  <1>7. \A l \in Links : at'[l] = "up" /\ ~closed'[l] => sessionId' = l
    BY <1>1, <1>6 DEF Linked
  <1>8. SessionClosed'
    BY <1>1, <1>6 DEF Linked, SessionClosed
  <1>9. OnePeer'
    <2> SUFFICES ASSUME NEW l \in 1..made + 1, ~closed[l] PROVE l = made + 1
      BY <1>1 DEF OnePeer
    <2>1. ~(l \in 1..made)
      <3>1. l \in Nat /\ l # 0
        BY <1>2
      <3> QED BY <1>1, <3>1 DEF Linked, OnePeer
    <2> QED BY <1>2, <2>1
  <1> QED BY <1>3, <1>4, <1>5, <1>7, <1>8, <1>9 DEF Linked

\* A connection goes on, short of being up.
LEMMA LinkedMoves ==
    ASSUME Linked, NEW l \in Links, NEW where \in {"posting", "answering"},
           at[l] # "none", at' = [at EXCEPT ![l] = where],
           UNCHANGED <<link, made, sessionId, closed, session>>
    PROVE  Linked'
  <1>1. at' \in [Links -> {"none", "offering", "posting", "answering", "up", "failed"}]
    BY DEF Linked
  <1>2. ASSUME NEW x \in Links, x > made PROVE at'[x] = "none"
    BY <1>2 DEF Linked
  <1>3. ASSUME NEW x \in Links, at'[x] = "up" PROVE at[x] = "up"
    BY <1>3 DEF Linked
  <1>4. OnePeer' /\ SessionClosed'
    BY <1>3 DEF Linked, OnePeer, SessionClosed
  <1> QED BY <1>1, <1>2, <1>3, <1>4 DEF Linked

LEMMA LinkedOpens ==
    ASSUME Linked, NEW l \in Links, GatewayOpens(l)
    PROVE  Linked'
  <1>1. /\ session[l] = "none" /\ session' = [session EXCEPT ![l] = "open"]
        /\ UNCHANGED <<link, made, sessionId, closed, at>>
    BY DEF GatewayOpens, own, mic
  <1>2. OnePeer' /\ SessionClosed'
    BY <1>1 DEF Linked, OnePeer, SessionClosed
  <1>3. session' \in [Links -> {"none", "open", "told"}]
    BY <1>1 DEF Linked
  <1> QED BY <1>1, <1>2, <1>3 DEF Linked

\* The link that comes up is the current one.
LEMMA LinkedUp ==
    ASSUME Linked, NEW l \in Links, Connected(l)
    PROVE  Linked'
  <1>1. /\ at[l] = "answering" /\ ~closed[l] /\ sessionId' = l
        /\ at' = [at EXCEPT ![l] = "up"]
        /\ UNCHANGED <<link, made, closed, session>>
    BY DEF Connected, mic
  <1>2. ASSUME NEW x \in Links, ~closed[x], at[x] # "none" PROVE x = link
    <2>1. ~(x > made)
      BY <1>2 DEF Linked
    <2>2. x \in 1..made
      BY <2>1, CardAssumption DEF Links, Linked
    <2> QED BY <1>2, <2>2 DEF Linked, OnePeer
  <1>3. l = link
    BY <1>1, <1>2
  <1>4. at' \in [Links -> {"none", "offering", "posting", "answering", "up", "failed"}]
    BY <1>1 DEF Linked
  <1>5. ASSUME NEW x \in Links, x > made PROVE at'[x] = "none" /\ ~closed[x]
    <2>1. at[x] = "none" /\ ~closed[x]
      BY <1>5 DEF Linked
    <2> QED BY <1>1, <2>1 DEF Linked
  <1>6. ASSUME NEW x \in Links, at'[x] = "up", ~closed[x] PROVE sessionId' = x
    <2>1. at[x] # "none"
      BY <1>1, <1>6 DEF Linked
    <2> QED BY <1>1, <1>2, <1>3, <1>6, <2>1
  <1>7. OnePeer'
    BY <1>1 DEF Linked, OnePeer
  <1>8. SessionClosed'
    BY <1>1 DEF Linked, SessionClosed
  <1> QED BY <1>1, <1>4, <1>5, <1>6, <1>7, <1>8 DEF Linked

-----------------------------------------------------------------------------
(* The steps.                                                              *)

LEMMA CoreInitially == Init => Core
  <1> SUFFICES ASSUME Init PROVE Core
    OBVIOUS
  <1>1. Links \subseteq Nat \ {0} /\ MaxGestures \in Nat
    BY CardAssumption DEF Links
  <1>2. Counted
    <2>1. linkState = "idle" /\ autoStarted = FALSE /\ gestures = 0 /\ made = 0
      BY DEF Init
    <2>2. /\ (IF linkState = "answering" THEN 1 ELSE 0) = 0
          /\ (IF autoStarted THEN 1 ELSE 0) = 0
      BY <2>1
    <2>3. gestures \in Nat /\ autoStarted \in BOOLEAN /\ made \in Nat
      BY <2>1
    <2>4. OfferPerGesture
      BY <2>1, <2>2 DEF OfferPerGesture
    <2>5. gestures <= MaxGestures + (IF autoStarted THEN 1 ELSE 0)
      BY <1>1, <2>1, <2>2
    <2> QED BY <2>3, <2>4, <2>5 DEF Counted
  <1>3. Linked
    BY <1>1 DEF Init, Linked, OnePeer, SessionClosed
  <1> QED BY <1>2, <1>3 DEF Core

\* An action that concerns neither.
LEMMA Elsewhere ==
    ASSUME Core, UNCHANGED links, UNCHANGED <<autoStarted, gestures>>,
           linkState' = "answering" => linkState = "answering"
    PROVE  Core'
  BY CountedKept, LinkedKept DEF Core, links

\* The card is torn down with its connections where they are.
LEMMA TornDown ==
    ASSUME Core, Teardown("idle"), UNCHANGED <<autoStarted, gestures, made, at>>
    PROVE  Core'
  <1>1. Counted'
    BY CountedKept DEF Core, Teardown
  <1>2. at' \in [Links -> {"none", "offering", "posting", "answering", "up", "failed"}]
    BY DEF Core, Linked
  <1>3. Linked'
    BY <1>2, LinkedTorn DEF Core
  <1> QED BY <1>1, <1>3 DEF Core

LEMMA PushedKeeps ==
    ASSUME Core, NEW calls,
           \/ GivesUp(calls)
           \/ Ready(calls) /\ Negotiates
           \/ Idles(calls)
           \/ Keeps(calls)
    PROVE  Core'
  <1>1. CASE GivesUp(calls) /\ AutoLooks(calls)
    <2>1. /\ ~autoStarted /\ autoStarted' = TRUE /\ Sends /\ Teardown("answering")
          /\ UNCHANGED <<made, at>>
      BY <1>1 DEF GivesUp, AutoLooks
    <2>2. Counted'
      BY <2>1, CountedLook DEF Core
    <2>3. at' \in [Links -> {"none", "offering", "posting", "answering", "up", "failed"}]
      BY <2>1 DEF Core, Linked
    <2>4. Linked'
      BY <2>1, <2>3, LinkedTorn DEF Core
    <2> QED BY <2>2, <2>4 DEF Core
  <1>2. CASE GivesUp(calls) /\ ~AutoLooks(calls)
    <2>1. Teardown("idle") /\ UNCHANGED <<autoStarted, gestures, made, at>>
      BY <1>2 DEF GivesUp, press
    <2> QED BY <2>1, TornDown
  <1>3. CASE Ready(calls) /\ Negotiates
    <2>1. Counted' /\ made + 1 \in Links
      BY <1>3, CountedOffer DEF Core, Ready
    <2>2. Linked'
      BY <1>3, <2>1, LinkedOffer DEF Core
    <2> QED BY <2>1, <2>2 DEF Core
  <1>4. CASE Idles(calls) /\ AutoLooks(calls)
    <2>1. /\ ~autoStarted /\ autoStarted' = TRUE /\ Sends /\ UNCHANGED links
      BY <1>4 DEF Idles, AutoLooks, wire, mic, links
    <2>2. Counted'
      BY <2>1, CountedLook DEF Core, links
    <2> QED BY <2>1, <2>2, LinkedKept DEF Core
  <1>5. CASE Idles(calls) /\ ~AutoLooks(calls)
    <2>1. UNCHANGED <<press, own, wire, mic>>
      BY <1>5 DEF Idles
    <2> QED BY <2>1, Elsewhere DEF press, own, wire, mic, links
  <1>6. CASE Keeps(calls)
    <2>1. /\ UNCHANGED links /\ UNCHANGED <<autoStarted, gestures>>
          /\ linkState' = linkState \/ linkState' = "degraded"
      BY <1>6 DEF Keeps, links, press, wire, mic
    <2> QED BY <2>1, Elsewhere
  <1> QED BY <1>1, <1>2, <1>3, <1>4, <1>5, <1>6

LEMMA PageKeeps == Core /\ Page => Core'
  <1> SUFFICES ASSUME Core, Page PROVE Core'
    OBVIOUS
  <1>1. CASE Connects \/ Subscribes \/ Subscribed
    <2>1. UNCHANGED <<press, own, wire, mic>>
      BY <1>1 DEF Connects, Subscribes, Subscribed
    <2> QED BY <2>1, Elsewhere DEF press, own, wire, mic, links
  <1>2. CASE Disconnects
    BY <1>2, TornDown DEF Disconnects, press
  <1>3. CASE Pushed
    <2> PICK calls \in Frames :
          \/ GivesUp(calls)
          \/ ~Over(calls) /\ Ready(calls) /\ Negotiates
          \/ Idles(calls)
          \/ Keeps(calls)
      BY <1>3 DEF Pushed
    <2> QED BY PushedKeeps
  <1> QED BY <1>1, <1>2, <1>3 DEF Page

LEMMA UserKeeps == Core /\ User => Core'
  <1> SUFFICES ASSUME Core, User PROVE Core'
    OBVIOUS
  <1>1. ASSUME NEW c \in Calls, Answer(c) PROVE Core'
    <2>1. Presses < MaxGestures /\ Sends /\ UNCHANGED autoStarted /\ UNCHANGED links
      BY <1>1 DEF Answer, wire, mic, links
    <2>2. Counted'
      BY <2>1, CountedPress DEF Core, links
    <2> QED BY <2>1, <2>2, LinkedKept DEF Core
  <1>2. CASE Look
    <2>1. Presses < MaxGestures /\ Sends /\ UNCHANGED autoStarted /\ UNCHANGED links
      BY <1>2 DEF Look, wire, mic, links
    <2>2. Counted'
      BY <2>1, CountedPress DEF Core, links
    <2> QED BY <2>1, <2>2, LinkedKept DEF Core
  <1>3. ASSUME NEW c \in Calls, Ignore(c) PROVE Core'
    BY <1>3, Elsewhere DEF Ignore, own, wire, mic, links
  <1>4. CASE HangUp
    BY <1>4, TornDown DEF HangUp, press
  <1>5. CASE CommandDone
    BY <1>5, Elsewhere DEF CommandDone, own, wire, mic, links
  <1>6. CASE CommandFails
    BY <1>6, TornDown DEF CommandFails
  <1> QED BY <1>1, <1>2, <1>3, <1>4, <1>5, <1>6 DEF User

LEMMA JoinsKeep ==
    ASSUME Core, NEW l \in Links, Joins(l) \/ Remote(l)
    PROVE  Core'
  <1>1. CASE Offered(l)
    <2>1. Linked'
      BY <1>1, LinkedMoves DEF Offered, Core, own, mic
    <2> QED BY <1>1, <2>1, CountedKept DEF Offered, Core, press, own
  <1>2. CASE GatewayOpens(l)
    <2>1. Linked'
      BY <1>2, LinkedOpens DEF Core
    <2> QED BY <1>2, <2>1, CountedKept DEF GatewayOpens, Core, press, own
  <1>3. CASE Replied(l)
    <2>1. Linked'
      BY <1>3, LinkedMoves DEF Replied, Core, own, mic
    <2> QED BY <1>3, <2>1, CountedKept DEF Replied, Core, press, own
  <1>4. CASE Connected(l)
    <2>1. Linked'
      BY <1>4, LinkedUp DEF Core
    <2>2. UNCHANGED <<autoStarted, gestures, made>> /\ linkState' # "answering"
      BY <1>4 DEF Connected, press
    <2> QED BY <2>1, <2>2, CountedKept DEF Core
  <1>5. CASE Fails(l)
    <2>1. /\ at[l] # "none" /\ at' = [at EXCEPT ![l] = "failed"] /\ Teardown("idle")
          /\ UNCHANGED <<autoStarted, gestures, made>>
      BY <1>5 DEF Fails, press
    <2>2. /\ at' \in [Links -> {"none", "offering", "posting", "answering", "up", "failed"}]
          /\ \A x \in Links : at'[x] = at[x] \/ (at'[x] = "failed" /\ at[x] # "none")
      BY <2>1 DEF Core, Linked
    <2>3. Linked'
      BY <2>1, <2>2, LinkedTorn DEF Core
    <2>4. Counted'
      BY <2>1, CountedKept DEF Core, Teardown
    <2> QED BY <2>3, <2>4 DEF Core
  <1>6. CASE Remote(l)
    <2>1. UNCHANGED links /\ UNCHANGED <<autoStarted, gestures>>
      BY <1>6 DEF Remote, press, wire, mic, links
    <2>2. linkState' = linkState \/ linkState' = "live"
      BY <1>6 DEF Remote
    <2> QED BY <2>1, <2>2, Elsewhere
  <1> QED BY <1>1, <1>2, <1>3, <1>4, <1>5, <1>6 DEF Joins

\* The talk button concerns the microphone alone.
LEMMA TalksKeep ==
    ASSUME Core, NEW t \in Toggles, Talks(t)
    PROVE  Core'
  <1>1. UNCHANGED links /\ UNCHANGED <<autoStarted, gestures, linkState>>
    <2>1. CASE ToggleTalk(t) \/ Replaced(t) \/ ToggleFails(t)
      BY <2>1 DEF ToggleTalk, Replaced, ToggleFails, press, own, wire, mic, links
    <2>2. CASE Acquired(t)
      BY <2>2 DEF Acquired, press, own, wire, links
    <2>3. CASE MicSet(t)
      BY <2>3 DEF MicSet, press, wire, mic, links
    <2> QED BY <2>1, <2>2, <2>3 DEF Talks
  <1> QED BY <1>1, Elsewhere

LEMMA CoreSteps == Core /\ [Next]_vars => Core'
  <1> SUFFICES ASSUME Core, [Next]_vars PROVE Core'
    OBVIOUS
  <1>1. CASE Page
    BY <1>1, PageKeeps
  <1>2. CASE User
    BY <1>2, UserKeeps
  <1>3. CASE Degraded
    <2>1. UNCHANGED links /\ UNCHANGED <<autoStarted, gestures>> /\ linkState' = "degraded"
      BY <1>3 DEF Degraded, press, wire, mic, links
    <2> QED BY <2>1, Elsewhere
  <1>4. ASSUME NEW l \in Links, Joins(l) \/ Remote(l) PROVE Core'
    BY <1>4, JoinsKeep
  <1>5. ASSUME NEW t \in Toggles, Talks(t) PROVE Core'
    BY <1>5, TalksKeep
  <1>6. CASE UNCHANGED vars
    BY <1>6, Elsewhere DEF vars, press, own, wire, mic, links
  <1> QED BY <1>1, <1>2, <1>3, <1>4, <1>5, <1>6 DEF Next

-----------------------------------------------------------------------------
(* The microphones.                                                        *)

LEMMA SubsetCount ==
    ASSUME NEW S \in SUBSET Toggles
    PROVE  /\ Cardinality(S) \in Nat /\ Cardinality(Toggles) \in Nat
           /\ Cardinality(S) <= Cardinality(Toggles)
           /\ \A R \in SUBSET S : Cardinality(R) \in Nat /\ Cardinality(R) <= Cardinality(S)
           /\ \A x \in S : Cardinality(S \ {x}) = Cardinality(S) - 1
  <1>1. IsFiniteSet(Toggles)
    BY CardAssumption
  <1>2. /\ IsFiniteSet(S) /\ Cardinality(S) <= Cardinality(Toggles)
    BY <1>1, FS_Subset
  <1>3. \A R \in SUBSET S : IsFiniteSet(R) /\ Cardinality(R) <= Cardinality(S)
    BY <1>2, FS_Subset
  <1>4. \A x \in S : Cardinality(S \ {x}) = Cardinality(S) - 1
    BY <1>2, FS_RemoveElement
  <1> QED BY <1>1, <1>2, <1>3, <1>4, FS_CardinalityType

TrackTypes ==
    /\ held \in [Links -> BOOLEAN] /\ live \in [Links -> Nat]
    /\ toggle \in [Toggles -> [at : {"no", "asking", "replacing", "unmuting", "muting"},
                               link : Links \cup {0}]]

LEMMA ToggleType ==
    ASSUME TrackTypes, NEW t \in Toggles
    PROVE  /\ toggle[t].at \in {"no", "asking", "replacing", "unmuting", "muting"}
           /\ toggle[t].link \in Links \cup {0}
  BY DEF TrackTypes

\* The link of the card is closed.
LEMMA MicrophonesClose ==
    ASSUME Linked, TrackTypes, Microphones, Close, UNCHANGED toggle
    PROVE  TrackTypes' /\ Microphones'
  <1>1. /\ closed' = [l \in Links |-> closed[l] \/ l = link]
        /\ live' = [l \in Links |-> IF l = link /\ held[l] THEN live[l] - 1 ELSE live[l]]
        /\ held' = [l \in Links |-> held[l] /\ l # link]
        /\ toggle' = toggle
    BY DEF Close
  <1>2. ASSUME NEW l \in Links
        PROVE  /\ live'[l] \in Nat /\ live'[l] <= live[l]
               /\ held'[l] => live'[l] > 0
               /\ ~held'[l] /\ ~closed'[l] => live'[l] = 0
               /\ live'[l] + Cardinality(Asking(l)) <= Cardinality(Toggles)
    <2>1. /\ live[l] \in Nat
          /\ held[l] => live[l] > 0
          /\ ~held[l] /\ ~closed[l] => live[l] = 0
          /\ live[l] + Cardinality(Asking(l)) <= Cardinality(Toggles)
      BY DEF TrackTypes, Microphones
    <2>2. Cardinality(Asking(l)) \in Nat /\ Cardinality(Toggles) \in Nat
      BY SubsetCount DEF Asking
    <2>3. CASE l = link
      <3>1. /\ live'[l] = IF held[l] THEN live[l] - 1 ELSE live[l]
            /\ ~held'[l] /\ closed'[l]
        BY <1>1, <2>3
      <3> QED BY <2>1, <2>2, <3>1
    <2>4. CASE l # link
      <3>1. live'[l] = live[l] /\ (held'[l] <=> held[l]) /\ (closed'[l] <=> closed[l])
        BY <1>1, <2>4
      <3> QED BY <2>1, <2>2, <3>1
    <2> QED BY <2>3, <2>4
  <1>3. TrackTypes'
    BY <1>1, <1>2 DEF TrackTypes
  <1>4. \A l \in Links : Asking(l)' = Asking(l)
    BY <1>1 DEF Asking
  <1> QED BY <1>1, <1>2, <1>3, <1>4 DEF Microphones

LEMMA MicrophonesKept ==
    ASSUME TrackTypes, Microphones, UNCHANGED <<closed, held, live, toggle>>
    PROVE  TrackTypes' /\ Microphones'
  BY DEF TrackTypes, Microphones, Asking

\* A press of the talk button goes on, or ends, or begins with nothing to ask for.
LEMMA MicrophonesMove ==
    ASSUME TrackTypes, Microphones, UNCHANGED <<closed, held, live>>, NEW t \in Toggles,
           NEW then \in [at : {"no", "replacing", "unmuting", "muting"}, link : Links \cup {0}],
           then.at # "no" => then.link \in Links,
           toggle' = [toggle EXCEPT ![t] = then]
    PROVE  TrackTypes' /\ Microphones'
  <1>1. toggle'[t] = then /\ \A x \in Toggles : x # t => toggle'[x] = toggle[x]
    BY DEF TrackTypes
  <1>2. TrackTypes'
    BY DEF TrackTypes
  <1>3. ASSUME NEW l \in Links
        PROVE  live'[l] + Cardinality(Asking(l)') <= Cardinality(Toggles)
    <2>1. Asking(l)' \subseteq Asking(l) /\ Asking(l) \in SUBSET Toggles
      BY <1>1 DEF Asking
    <2>2. /\ Cardinality(Asking(l)') <= Cardinality(Asking(l))
          /\ Cardinality(Asking(l)') \in Nat /\ Cardinality(Asking(l)) \in Nat
          /\ Cardinality(Toggles) \in Nat
      BY <2>1, SubsetCount
    <2>3. live[l] + Cardinality(Asking(l)) <= Cardinality(Toggles) /\ live[l] \in Nat
      BY DEF Microphones, TrackTypes
    <2> QED BY <2>2, <2>3
  <1> QED BY <1>1, <1>2, <1>3 DEF Microphones

\* The browser is asked for a microphone the open link has not: none is live on it.
LEMMA MicrophonesAsk ==
    ASSUME Linked, TrackTypes, Microphones, UNCHANGED <<closed, held, live>>, NEW t \in Toggles,
           link # 0, ~held[link], toggle[t].at = "no",
           toggle' = [toggle EXCEPT ![t] = [at |-> "asking", link |-> link]]
    PROVE  TrackTypes' /\ Microphones'
  <1>1. link \in Links /\ ~closed[link]
    BY CardAssumption DEF Linked, Links
  <1>2. /\ toggle'[t] = [at |-> "asking", link |-> link]
        /\ \A x \in Toggles : x # t => toggle'[x] = toggle[x]
    BY DEF TrackTypes
  <1>3. TrackTypes'
    BY <1>1 DEF TrackTypes
  <1>4. ASSUME NEW l \in Links
        PROVE  live'[l] + Cardinality(Asking(l)') <= Cardinality(Toggles)
    <2>1. Asking(l)' \in SUBSET Toggles /\ Asking(l) \in SUBSET Toggles
      BY DEF Asking
    <2>2. /\ Cardinality(Asking(l)') <= Cardinality(Toggles)
          /\ Cardinality(Asking(l)') \in Nat /\ Cardinality(Asking(l)) \in Nat
          /\ Cardinality(Toggles) \in Nat
      BY <2>1, SubsetCount
    <2>3. live[l] + Cardinality(Asking(l)) <= Cardinality(Toggles) /\ live[l] \in Nat
      BY DEF Microphones, TrackTypes
    <2>4. CASE l = link
      <3>1. live[l] = 0
        BY <1>1, <2>4 DEF Microphones
      <3> QED BY <2>2, <3>1
    <2>5. CASE l # link
      <3>1. Asking(l)' = Asking(l)
        BY <1>2, <2>5 DEF Asking
      <3> QED BY <2>3, <3>1
    <2> QED BY <2>4, <2>5
  <1> QED BY <1>1, <1>2, <1>3, <1>4 DEF Microphones

LEMMA MicrophonesAcquired ==
    ASSUME Linked, TrackTypes, Microphones, NEW t \in Toggles, Acquired(t)
    PROVE  TrackTypes' /\ Microphones'
  <1>1. PICK m : m = toggle[t].link
    OBVIOUS
  <1>2. /\ m \in Links /\ toggle[t].at = "asking" /\ closed' = closed
        /\ live' = [live EXCEPT ![m] = @ + 1]
        /\ held' = [held EXCEPT ![m] = ~closed[m]]
        /\ toggle' = [toggle EXCEPT ![t] =
              IF closed[m] THEN Rest ELSE [toggle[t] EXCEPT !.at = "replacing"]]
    BY <1>1 DEF Acquired, Microphones
  <1>3. /\ toggle'[t].at # "asking" /\ toggle'[t].link \in Links \cup {0}
        /\ toggle'[t].at # "no" => toggle'[t].link \in Links
        /\ \A x \in Toggles : x # t => toggle'[x] = toggle[x]
    BY <1>1, <1>2 DEF Rest, TrackTypes
  <1>4. TrackTypes'
    BY <1>1, <1>2 DEF Rest, TrackTypes
  <1>5. ASSUME NEW l \in Links
        PROVE  /\ held'[l] => live'[l] > 0
               /\ ~held'[l] /\ ~closed'[l] => live'[l] = 0
               /\ live'[l] + Cardinality(Asking(l)') <= Cardinality(Toggles)
    <2>1. /\ live[l] \in Nat
          /\ held[l] => live[l] > 0
          /\ ~held[l] /\ ~closed[l] => live[l] = 0
          /\ live[l] + Cardinality(Asking(l)) <= Cardinality(Toggles)
      BY DEF Microphones, TrackTypes
    <2>2. Asking(l) \in SUBSET Toggles
      BY DEF Asking
    <2>3. CASE l = m
      <3>1. live'[l] = live[l] + 1 /\ held'[l] = ~closed[l] /\ closed'[l] = closed[l]
        BY <1>2, <2>3 DEF TrackTypes
      <3>2. t \in Asking(l) /\ Asking(l)' = Asking(l) \ {t}
        BY <1>1, <1>2, <1>3, <2>3 DEF Asking
      <3>3. /\ Cardinality(Asking(l)') = Cardinality(Asking(l)) - 1
            /\ Cardinality(Asking(l)) \in Nat /\ Cardinality(Toggles) \in Nat
        BY <2>2, <3>2, SubsetCount
      <3>4. held'[l] => live'[l] > 0
        BY <2>1, <3>1
      <3>5. ~held'[l] /\ ~closed'[l] => live'[l] = 0
        BY <3>1
      <3>6. live'[l] + Cardinality(Asking(l)') <= Cardinality(Toggles)
        BY <2>1, <3>1, <3>3
      <3> QED BY <3>4, <3>5, <3>6
    <2>4. CASE l # m
      <3>1. live'[l] = live[l] /\ held'[l] = held[l] /\ closed'[l] = closed[l]
        BY <1>2, <2>4 DEF TrackTypes
      <3>2. Asking(l)' = Asking(l)
        BY <1>1, <1>3, <2>4 DEF Asking
      <3> QED BY <2>1, <3>1, <3>2
    <2> QED BY <2>3, <2>4
  <1> QED BY <1>3, <1>4, <1>5 DEF Microphones

LEMMA MicrophoneSteps ==
    ASSUME Core, TrackTypes, Microphones, [Next]_vars
    PROVE  TrackTypes' /\ Microphones'
  <1>0. /\ UNCHANGED toggle /\ (UNCHANGED mic \/ Close) => TrackTypes' /\ Microphones'
        /\ Linked
    BY MicrophonesKept, MicrophonesClose DEF Core, mic
  <1>1. CASE Page
    <2>1. CASE Connects \/ Subscribes \/ Subscribed \/ Disconnects
      BY <1>0, <2>1 DEF Connects, Subscribes, Subscribed, Disconnects, Teardown
    <2>2. CASE Pushed
      <3>1. UNCHANGED toggle /\ (UNCHANGED mic \/ Close)
        BY <2>2 DEF Pushed, GivesUp, Negotiates, Idles, Keeps, Teardown
      <3> QED BY <1>0, <3>1
    <2> QED BY <1>1, <2>1, <2>2 DEF Page
  <1>2. CASE User
    <2>1. UNCHANGED toggle /\ (UNCHANGED mic \/ Close)
      BY <1>2 DEF User, Answer, Ignore, Look, HangUp, CommandDone, CommandFails, Teardown
    <2> QED BY <1>0, <2>1
  <1>3. CASE Degraded \/ UNCHANGED vars
    BY <1>0, <1>3 DEF Degraded, vars
  <1>4. ASSUME NEW l \in Links, Joins(l) \/ Remote(l) PROVE TrackTypes' /\ Microphones'
    <2>1. UNCHANGED toggle /\ (UNCHANGED mic \/ Close)
      BY <1>4 DEF Joins, Offered, GatewayOpens, Replied, Connected, Fails, Remote, Teardown
    <2> QED BY <1>0, <2>1
  <1>5. ASSUME NEW t \in Toggles, Talks(t) PROVE TrackTypes' /\ Microphones'
    <2>1. CASE ToggleTalk(t)
      <3>1. UNCHANGED <<closed, held, live>> /\ link # 0 /\ toggle[t].at = "no"
        BY <2>1 DEF ToggleTalk, mic
      <3>2. link \in Links
        BY <1>0, <3>1, CardAssumption DEF Linked, Links
      <3>3. CASE talking \/ held[link]
        <4>1. PICK then : then = [at |-> IF talking THEN "muting" ELSE "unmuting", link |-> link]
          OBVIOUS
        <4>2. toggle' = [toggle EXCEPT ![t] = then]
          BY <2>1, <3>3, <4>1 DEF ToggleTalk, HasMic
        <4>3. /\ then \in [at : {"no", "replacing", "unmuting", "muting"}, link : Links \cup {0}]
              /\ then.link \in Links
          BY <3>2, <4>1
        <4> QED BY <3>1, <4>2, <4>3, MicrophonesMove
      <3>4. CASE ~talking /\ ~held[link]
        <4>1. toggle' = [toggle EXCEPT ![t] = [at |-> "asking", link |-> link]]
          BY <2>1, <3>4 DEF ToggleTalk, HasMic
        <4> QED BY <1>0, <3>1, <3>4, <4>1, MicrophonesAsk
      <3> QED BY <3>3, <3>4
    <2>2. CASE Acquired(t)
      BY <1>0, <2>2, MicrophonesAcquired
    <2>3. CASE Replaced(t)
      <3>1. PICK then : then = [at |-> "unmuting", link |-> toggle[t].link]
        OBVIOUS
      <3>2. UNCHANGED <<closed, held, live>> /\ toggle[t].at = "replacing"
        BY <2>3 DEF Replaced, mic
      <3>3. toggle[t].link \in Links
        BY <3>2 DEF Microphones
      <3>4. toggle' = [toggle EXCEPT ![t] = [toggle[t] EXCEPT !.at = "unmuting"]]
        BY <2>3 DEF Replaced
      <3>5. [toggle[t] EXCEPT !.at = "unmuting"] = [at |-> "unmuting", link |-> toggle[t].link]
        BY DEF TrackTypes
      <3>6. /\ toggle' = [toggle EXCEPT ![t] = then] /\ UNCHANGED <<closed, held, live>>
            /\ toggle[t].link \in Links
        BY <3>2, <3>3, <3>4, <3>5, <3>1
      <3>7. then \in [at : {"no", "replacing", "unmuting", "muting"}, link : Links \cup {0}]
        BY <3>1, <3>6
      <3> QED BY <3>1, <3>6, <3>7, MicrophonesMove
    <2>4. CASE MicSet(t) \/ ToggleFails(t)
      <3>1. PICK then : then = Rest
        OBVIOUS
      <3>2. UNCHANGED <<closed, held, live>> /\ toggle' = [toggle EXCEPT ![t] = then]
        BY <2>4, <3>1 DEF MicSet, ToggleFails, mic
      <3>3. /\ then \in [at : {"no", "replacing", "unmuting", "muting"}, link : Links \cup {0}]
            /\ then.at # "no" => then.link \in Links
        BY <3>1 DEF Rest
      <3> QED BY <3>2, <3>3, MicrophonesMove
    <2> QED BY <1>5, <2>1, <2>2, <2>3, <2>4 DEF Talks
  <1> QED BY <1>1, <1>2, <1>3, <1>4, <1>5 DEF Next

-----------------------------------------------------------------------------
(* Types.                                                                  *)

\* What the user and the gateway set.
PressTypes ==
    /\ seen \in Frames /\ connected \in BOOLEAN /\ sub \in {"none", "subscribing", "on"}
    /\ ignored \in Calls \cup {None}
    /\ gestures \in Nat /\ commands \in 0..gestures

\* What the controller shows.
StateTypes ==
    /\ linkState \in {"idle", "answering", "negotiating", "waiting", "live", "degraded"}
    /\ pending \in Calls \cup {None}
    /\ sessionId \in Links \cup {0}
    /\ connecting \in BOOLEAN /\ hasRemote \in BOOLEAN /\ talking \in BOOLEAN

LEMMA Together ==
    /\ Core /\ TrackTypes /\ Microphones /\ PressTypes /\ StateTypes => TypeOK
    /\ Core' /\ TrackTypes' /\ Microphones' /\ PressTypes' /\ StateTypes' => TypeOK'
  <1>1. ASSUME Core, TrackTypes, Microphones, PressTypes, StateTypes PROVE TypeOK
    <2>1. /\ link \in Links \cup {0} /\ made \in Links \cup {0} /\ autoStarted \in BOOLEAN
          /\ at \in [Links -> {"none", "offering", "posting", "answering", "up", "failed"}]
          /\ closed \in [Links -> BOOLEAN] /\ session \in [Links -> {"none", "open", "told"}]
      BY <1>1, CardAssumption DEF Core, Counted, Linked, Links
    <2>2. ASSUME NEW l \in Links PROVE live[l] \in 0..Cardinality(Toggles)
      <3>1. live[l] \in Nat /\ live[l] + Cardinality(Asking(l)) <= Cardinality(Toggles)
        BY <1>1 DEF TrackTypes, Microphones
      <3>2. Cardinality(Asking(l)) \in Nat /\ Cardinality(Toggles) \in Nat
        BY SubsetCount DEF Asking
      <3> QED BY <3>1, <3>2
    <2>3. live \in [Links -> 0..Cardinality(Toggles)]
      BY <1>1, <2>2 DEF TrackTypes
    <2> QED BY <1>1, <2>1, <2>3 DEF TypeOK, TrackTypes, PressTypes, StateTypes
  <1>2. ASSUME Core', TrackTypes', Microphones', PressTypes', StateTypes' PROVE TypeOK'
    <2>1. /\ link' \in Links \cup {0} /\ made' \in Links \cup {0} /\ autoStarted' \in BOOLEAN
          /\ at' \in [Links -> {"none", "offering", "posting", "answering", "up", "failed"}]
          /\ closed' \in [Links -> BOOLEAN] /\ session' \in [Links -> {"none", "open", "told"}]
      BY <1>2, CardAssumption DEF Core, Counted, Linked, Links
    <2>2. ASSUME NEW l \in Links PROVE live'[l] \in 0..Cardinality(Toggles)
      <3>1. live'[l] \in Nat /\ live'[l] + Cardinality(Asking(l)') <= Cardinality(Toggles)
        BY <1>2 DEF TrackTypes, Microphones
      <3>2. Cardinality(Asking(l)') \in Nat /\ Cardinality(Toggles) \in Nat
        <4>1. Asking(l)' \in SUBSET Toggles
          BY DEF Asking
        <4> QED BY <4>1, SubsetCount
      <3> QED BY <3>1, <3>2
    <2>3. live' \in [Links -> 0..Cardinality(Toggles)]
      BY <1>2, <2>2 DEF TrackTypes
    <2> QED BY <1>2, <2>1, <2>3 DEF TypeOK, TrackTypes, PressTypes, StateTypes
  <1> QED BY <1>1, <1>2

LEMMA Apart == IInv => Core /\ TrackTypes /\ Microphones /\ PressTypes /\ StateTypes
  BY SubsetCount DEF IInv, Core, TypeOK, TrackTypes, PressTypes, StateTypes

LEMMA PressesKept ==
    ASSUME PressTypes, UNCHANGED press
    PROVE  UNCHANGED view => PressTypes'
  BY DEF PressTypes, press, view

LEMMA PressSteps ==
    ASSUME Core, PressTypes, [Next]_vars
    PROVE  PressTypes'
  <1>1. CASE Page
    <2>1. CASE Connects \/ Subscribes \/ Subscribed \/ Disconnects
      BY <2>1 DEF Connects, Subscribes, Subscribed, Disconnects, PressTypes, press
    <2>2. CASE Pushed
      <3>1. seen' \in Frames /\ UNCHANGED <<connected, sub>>
        BY <2>2 DEF Pushed
      <3>2. UNCHANGED press \/ (Sends /\ UNCHANGED ignored)
        BY <2>2 DEF Pushed, GivesUp, Negotiates, Idles, Keeps, press
      <3>3. CASE UNCHANGED press
        BY <3>1, <3>3 DEF PressTypes, press
      <3>4. CASE Sends /\ UNCHANGED ignored
        BY <3>1, <3>4 DEF PressTypes, Sends
      <3> QED BY <3>2, <3>3, <3>4
    <2> QED BY <1>1, <2>1, <2>2 DEF Page
  <1>2. CASE User
    <2>1. ASSUME NEW c \in Calls, Answer(c) \/ Ignore(c) PROVE PressTypes'
      BY <2>1 DEF Answer, Ignore, Sends, PressTypes, view
    <2>2. CASE Look
      BY <2>2 DEF Look, Sends, PressTypes, view
    <2>3. CASE HangUp
      BY <2>3, PressesKept DEF HangUp
    <2>4. CASE CommandDone \/ CommandFails
      <3>1. commands > 0 /\ commands' = commands - 1 /\ UNCHANGED <<view, ignored, gestures>>
        BY <2>4 DEF CommandDone, CommandFails
      <3> QED BY <3>1 DEF PressTypes, view
    <2> QED BY <1>2, <2>1, <2>2, <2>3, <2>4 DEF User
  <1>3. CASE Degraded \/ UNCHANGED vars
    BY <1>3, PressesKept DEF Degraded, vars
  <1>4. ASSUME NEW l \in Links, Joins(l) \/ Remote(l) PROVE PressTypes'
    BY <1>4, PressesKept
       DEF Joins, Offered, GatewayOpens, Replied, Connected, Fails, Remote
  <1>5. ASSUME NEW t \in Toggles, Talks(t) PROVE PressTypes'
    BY <1>5, PressesKept DEF Talks, ToggleTalk, Acquired, Replaced, MicSet, ToggleFails
  <1> QED BY <1>1, <1>2, <1>3, <1>4, <1>5 DEF Next

LEMMA StatesTorn ==
    ASSUME StateTypes, NEW then \in {"idle", "answering"}, Teardown(then)
    PROVE  StateTypes'
  BY DEF StateTypes, Teardown

LEMMA StateSteps ==
    ASSUME Core, StateTypes, [Next]_vars
    PROVE  StateTypes'
  <1>0. Teardown("idle") \/ Teardown("answering") \/ UNCHANGED own => StateTypes'
    BY StatesTorn DEF StateTypes, own
  <1>1. CASE Page
    <2>1. CASE Connects \/ Subscribes \/ Subscribed \/ Disconnects
      BY <1>0, <2>1 DEF Connects, Subscribes, Subscribed, Disconnects
    <2>2. CASE Pushed
      <3>1. PICK calls \in Frames :
               GivesUp(calls) \/ Negotiates \/ Idles(calls) \/ Keeps(calls)
        BY <2>2 DEF Pushed
      <3>2. CASE GivesUp(calls)
        BY <1>0, <3>2 DEF GivesUp
      <3>3. CASE Negotiates
        BY <3>3 DEF Negotiates, StateTypes
      <3>4. CASE Idles(calls)
        BY <1>0, <3>4 DEF Idles, StateTypes
      <3>5. CASE Keeps(calls)
        BY <3>5 DEF Keeps, StateTypes
      <3> QED BY <3>1, <3>2, <3>3, <3>4, <3>5
    <2> QED BY <1>1, <2>1, <2>2 DEF Page
  <1>2. CASE User
    <2>1. ASSUME NEW c \in Calls, Answer(c) PROVE StateTypes'
      BY <2>1 DEF Answer, StateTypes
    <2>2. CASE Look
      BY <2>2 DEF Look, StateTypes
    <2>3. CASE HangUp \/ CommandDone \/ CommandFails \/ \E c \in Calls : Ignore(c)
      BY <1>0, <2>3 DEF HangUp, CommandDone, CommandFails, Ignore
    <2> QED BY <1>2, <2>1, <2>2, <2>3 DEF User
  <1>3. CASE Degraded \/ UNCHANGED vars
    BY <1>0, <1>3 DEF Degraded, vars, StateTypes
  <1>4. ASSUME NEW l \in Links, Joins(l) \/ Remote(l) PROVE StateTypes'
    <2>1. CASE Offered(l) \/ GatewayOpens(l) \/ Replied(l) \/ Fails(l)
      BY <1>0, <2>1 DEF Offered, GatewayOpens, Replied, Fails
    <2>2. CASE Connected(l)
      BY <2>2 DEF Connected, StateTypes
    <2>3. CASE Remote(l)
      BY <2>3 DEF Remote, StateTypes
    <2> QED BY <1>4, <2>1, <2>2, <2>3 DEF Joins
  <1>5. ASSUME NEW t \in Toggles, Talks(t) PROVE StateTypes'
    <2>1. CASE ToggleTalk(t) \/ Acquired(t) \/ Replaced(t) \/ ToggleFails(t)
      BY <1>0, <2>1 DEF ToggleTalk, Acquired, Replaced, ToggleFails
    <2>2. CASE MicSet(t)
      BY <2>2 DEF MicSet, StateTypes
    <2> QED BY <1>5, <2>1, <2>2 DEF Talks
  <1> QED BY <1>1, <1>2, <1>3, <1>4, <1>5 DEF Next

LEMMA Initially == Init => IInv
  <1> SUFFICES ASSUME Init PROVE IInv
    OBVIOUS
  <1>1. Core
    BY CoreInitially
  <1>2. TrackTypes
    BY DEF Init, Rest, TrackTypes
  <1>3. seen \in Frames
    <2>1. seen \in [Calls -> Phases] /\ \A c \in Calls : seen[c] = "absent"
      BY DEF Init, Phases
    <2> QED BY <2>1 DEF Frames, Calls
  <1>4. PressTypes
    <2>1. /\ connected = FALSE /\ sub = "none" /\ ignored = None
          /\ gestures = 0 /\ commands = 0
      BY DEF Init
    <2>2. gestures \in Nat /\ commands \in 0..gestures
      BY <2>1
    <2>3. connected \in BOOLEAN /\ sub \in {"none", "subscribing", "on"}
      BY <2>1
    <2> QED BY <1>3, <2>1, <2>2, <2>3 DEF PressTypes
  <1>5. StateTypes
    BY DEF Init, StateTypes
  <1>6. Microphones
    <2>1. \A t \in Toggles : toggle[t].at = "no"
      BY DEF Init, Rest
    <2>2. ASSUME NEW l \in Links
          PROVE  ~held[l] /\ live[l] = 0 /\ live[l] + Cardinality(Asking(l)) <= Cardinality(Toggles)
      <3>1. ~held[l] /\ live[l] = 0
        BY DEF Init
      <3>2. /\ Cardinality(Asking(l)) <= Cardinality(Toggles)
            /\ Cardinality(Asking(l)) \in Nat /\ Cardinality(Toggles) \in Nat
        BY SubsetCount DEF Asking
      <3> QED BY <3>1, <3>2
    <2> QED BY <2>1, <2>2 DEF Microphones
  <1> QED BY <1>1, <1>2, <1>4, <1>5, <1>6, Together DEF IInv, Core

LEMMA Steps == IInv /\ [Next]_vars => IInv'
  <1> SUFFICES ASSUME IInv, [Next]_vars PROVE IInv'
    OBVIOUS
  <1>1. Core /\ TrackTypes /\ Microphones /\ PressTypes /\ StateTypes
    BY Apart
  <1>2. Core'
    BY <1>1, CoreSteps
  <1>3. TrackTypes' /\ Microphones'
    BY <1>1, MicrophoneSteps
  <1>4. PressTypes' /\ StateTypes'
    BY <1>1, PressSteps, StateSteps
  <1> QED BY <1>2, <1>3, <1>4, Together DEF IInv, Core

-----------------------------------------------------------------------------
(* The theorems.                                                           *)

\* The strengthening: a gesture that waits has not been spent, and the one link that is open
\* is the current one, whose session the card has if it is up.
THEOREM Inductive == Spec => []IInv
  BY Initially, Steps, PTL DEF Spec

\* Everything the card holds is of its type: a link has a number that was made for it, and no
\* link gathers more live microphones than there are presses of the talk button under way
\* (link/webrtc.ts:96-121).
THEOREM CardTypes == Spec => []TypeOK
  <1>1. IInv => TypeOK
    BY DEF IInv
  <1> QED BY Inductive, <1>1, PTL

\* However the presses, the failures and the late answers come, no connection is lost sight
\* of (controller.ts:229).
THEOREM OneLink == Spec => []OnePeer
  <1>1. IInv => OnePeer
    BY DEF IInv, Linked
  <1> QED BY Inductive, <1>1, PTL

\* The card never joins a call on its own (controller.ts:195-197).
THEOREM GestureFirst == Spec => []OfferPerGesture
  <1>1. IInv => OfferPerGesture
    BY DEF IInv, Counted
  <1> QED BY Inductive, <1>1, PTL

\* A leg that was up is closed at the gateway when the card closes it (controller.ts:173-177).
THEOREM LegClosed == Spec => []SessionClosed
  <1>1. IInv => SessionClosed
    BY DEF IInv, Linked
  <1> QED BY Inductive, <1>1, PTL
=============================================================================
