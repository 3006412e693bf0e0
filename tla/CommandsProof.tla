--------------------------- MODULE CommandsProof ---------------------------
(***************************************************************************)
(* What the command path keeps for any number of panels, dialogs, devices  *)
(* and commands under way: only what was meant moves, of a target that is  *)
(* read, and nobody is told of what was not done.                          *)
(***************************************************************************)
EXTENDS Commands, FiniteSetTheorems, TLAPS

RequestInv(r) == AimOf(r) /\ StatusOf(r) /\ ToldOf(r)

\* Dialogs go forward.
Onward ==
    /\ dialog' \in [Calls -> Dialogs]
    /\ \A c \in Calls : Progress[dialog[c]] <= Progress[dialog'[c]]

-----------------------------------------------------------------------------
(* The operators.                                                          *)

\* Whatever is raised is told as a failure.
LEMMA StatusIsError ==
    ASSUME NEW e \in Errors
    PROVE  StatusFor(e) \in {400, 404, 409, 500, 502, 503}
  <1> DEFINE hits == {i \in DOMAIN Table : Table[i].of \in Classes[e]}
             least == CHOOSE i \in hits : \A j \in hits : i <= j
  <1>1. DOMAIN Table = 1..9
    BY DEF Table
  <1>2. \A i \in 1..9 : Table[i].status \in {400, 404, 409, 500, 502, 503}
    BY DEF Table
  <1>3. CASE hits = {}
    BY <1>3 DEF StatusFor
  <1>4. CASE hits # {}
    <2>1. hits \subseteq 1..9
      BY <1>1
    <2>2. \E i \in hits : \A j \in hits : i <= j
      <3> SUFFICES ASSUME \A i \in hits : \E j \in hits : ~(i <= j) PROVE FALSE
        OBVIOUS
      <3> HIDE DEF hits
      <3>1. 1 \notin hits
        BY <2>1
      <3>2. hits \cap 1..3 = {}
        BY <2>1, <3>1
      <3>3. hits \cap 1..6 = {}
        BY <2>1, <3>2
      <3>4. hits \cap 1..9 = {}
        BY <2>1, <3>3
      <3> QED BY <1>4, <2>1, <3>4
    <2>3. least \in hits
      BY <2>2
    <2>4. StatusFor(e) = Table[least].status
      BY <1>4 DEF StatusFor
    <2> QED BY <1>2, <2>1, <2>3, <2>4
  <1> QED BY <1>3, <1>4

LEMMA ErrorsRaised ==
    ASSUME NEW r \in Requests
    PROVE  MayRaise(r) \subseteq Errors
  BY DEF MayRaise, Errors, Classes

\* The progress of a dialog tells where it is.
LEMMA ProgressOf ==
    ASSUME NEW d \in Dialogs, NEW e \in Dialogs
    PROVE  /\ Progress[d] \in Nat
           /\ Progress[d] <= Progress[e] /\ d # "unborn" => e # "unborn"
           /\ Progress[d] <= Progress[e] /\ d # "unborn" /\ ~Live(d) => ~Live(e)
  BY DEF Dialogs, Progress, Live

\* A target that is read, and resolved to a panel, can mean that panel.
LEMMA ResolvedIsMeant ==
    ASSUME TypeOK, NEW t \in Targets, NEW p \in Panels, NEW c, Resolves(t, p), Read(t)
    PROVE  p \in Meant(t, c).panels
  <1>1. /\ t.entry \in Panels \cup {None} /\ t.devices \in Seq(DOMAIN Owned)
        /\ None \notin Panels
    BY CommandsAssumption
  <1>2. CASE t.entry # None
    <2>1. p \in Names(t)
      BY <1>1, <1>2 DEF Resolves, Named, Names
    <2> QED BY <1>2, <2>1 DEF Meant
  <1>3. CASE t.entry = None /\ Len(t.devices) = 0
    <2>1. t.devices = <<>> /\ t.places = {}
      BY <1>1, <1>3 DEF Read
    <2>2. loaded = {p}
      BY <1>3 DEF Resolves, Named
    <2>3. Cardinality(loaded) = 1
      BY <2>2, FS_Singleton
    <2> QED BY <1>3, <2>1, <2>2, <2>3 DEF Meant
  <1>4. CASE t.entry = None /\ Len(t.devices) = 1
    <2>1. 1 \in DOMAIN t.devices /\ t.devices # <<>>
      BY <1>1, <1>4
    <2>2. Owned[t.devices[1]] = {p}
      BY <1>4 DEF Resolves, Named
    <2>3. p \in Names(t)
      BY <2>1, <2>2 DEF Names
    <2> QED BY <2>1, <2>3 DEF Meant
  <1>5. CASE t.entry = None /\ Len(t.devices) \notin {0, 1}
    BY <1>5 DEF Resolves, Named
  <1> QED BY <1>2, <1>3, <1>4, <1>5

-----------------------------------------------------------------------------
(* The steps.                                                              *)

LEMMA Initially == Init => IInv
  <1> SUFFICES ASSUME Init PROVE IInv
    OBVIOUS
  <1>1. TypeOK
    BY DEF Init, TypeOK, Idle, Dialogs
  <1>2. NotAhead
    BY DEF Init, NotAhead, Progress
  <1>3. \A r \in Requests : AimOf(r) /\ StatusOf(r) /\ ToldOf(r)
    BY DEF Init, AimOf, StatusOf, ToldOf
  <1> QED BY <1>1, <1>2, <1>3 DEF IInv

\* A request that a step leaves alone keeps what is true of it.
LEMMA RequestKept ==
    ASSUME IInv, Onward, NEW r \in Requests,
           request'[r] = request[r], served'[r] = served[r], told'[r] = told[r],
           acted'[r] = acted[r], meant'[r] = meant[r]
    PROVE  RequestInv(r)'
  <1> DEFINE c == request[r].call
  <1>1. /\ c \in Calls \cup {None} /\ dialog \in [Calls -> Dialogs]
        /\ AimOf(r) /\ StatusOf(r) /\ ToldOf(r)
    BY DEF IInv, TypeOK
  <1>2. AimOf(r)'
    <2>1. c \in Calls => (dialog[c] # "unborn" => dialog'[c] # "unborn")
      BY <1>1, ProgressOf DEF Onward
    <2> QED BY <1>1, <2>1 DEF AimOf
  <1>3. request[r] # Idle /\ ~Listed(r) => ~Listed(r)'
    <2>1. CASE c = None
      BY <2>1 DEF Listed
    <2>2. CASE c \in Calls
      <3>1. request[r] # Idle => dialog[c] # "unborn"
        BY <1>1, <2>2, CommandsAssumption DEF AimOf
      <3>2. dialog[c] # "unborn" /\ ~Live(dialog[c]) => ~Live(dialog'[c])
        BY <1>1, <2>2, ProgressOf DEF Onward
      <3> QED BY <3>1, <3>2 DEF Listed
    <2> QED BY <1>1, <2>1, <2>2
  <1>4. StatusOf(r)'
    BY <1>1, <1>3 DEF StatusOf, Idle
  <1>5. ToldOf(r)'
    BY <1>1 DEF ToldOf
  <1> QED BY <1>2, <1>4, <1>5 DEF RequestInv

-----------------------------------------------------------------------------
(* What is shown, and where the dialogs are.                               *)

\* Where no command is touched, dialogs only go forward and what is shown stays behind.
LEMMA WorldKept ==
    ASSUME IInv, Onward, loaded' \subseteq Panels, shown' \in [Calls -> Dialogs], NotAhead',
           UNCHANGED <<request, served, told, acted, meant>>
    PROVE  IInv'
  <1>1. TypeOK'
    BY DEF IInv, TypeOK, Onward
  <1>2. ASSUME NEW r \in Requests PROVE RequestInv(r)'
    BY RequestKept
  <1> QED BY <1>1, <1>2 DEF IInv, RequestInv

LEMMA Still ==
    ASSUME IInv, UNCHANGED dialog
    PROVE  Onward
  <1>1. dialog \in [Calls -> Dialogs]
    BY DEF IInv, TypeOK
  <1>2. \A c \in Calls : Progress[dialog[c]] \in Nat
    BY <1>1, ProgressOf
  <1> QED BY <1>1, <1>2 DEF Onward

\* What is shown stays behind when the dialogs go forward without it.
LEMMA StillBehind ==
    ASSUME IInv, Onward, UNCHANGED shown
    PROVE  NotAhead'
  <1> SUFFICES ASSUME NEW c \in Calls
               PROVE  Progress[shown[c]] <= Progress[dialog'[c]]
    BY DEF NotAhead
  <1>1. /\ Progress[shown[c]] \in Nat /\ Progress[dialog[c]] \in Nat
        /\ Progress[dialog'[c]] \in Nat
    BY ProgressOf DEF IInv, TypeOK, Onward
  <1>2. /\ Progress[shown[c]] <= Progress[dialog[c]]
        /\ Progress[dialog[c]] <= Progress[dialog'[c]]
    BY DEF IInv, NotAhead, Onward
  <1> QED BY <1>1, <1>2

LEMMA LoadsKeep ==
    ASSUME IInv, NEW p \in Panels, Loads(p)
    PROVE  IInv'
  <1>1. Onward
    BY Still DEF Loads
  <1>2. shown' \in [Calls -> Dialogs] /\ loaded' \subseteq Panels
    BY DEF Loads, IInv, TypeOK
  <1>3. NotAhead'
    <2> SUFFICES ASSUME NEW c \in Calls
                 PROVE  Progress[shown'[c]] <= Progress[dialog'[c]]
      BY DEF NotAhead
    <2>1. Progress[dialog[c]] \in Nat
      BY ProgressOf DEF IInv, TypeOK
    <2> QED BY <2>1 DEF Loads, IInv, NotAhead
  <1> QED BY <1>1, <1>2, <1>3, WorldKept DEF Loads

LEMMA UnloadsKeep ==
    ASSUME IInv, NEW p \in Panels, Unloads(p)
    PROVE  IInv'
  <1>1. Onward
    BY Still DEF Unloads
  <1>2. shown' \in [Calls -> Dialogs] /\ loaded' \subseteq Panels
    BY DEF Unloads, IInv, TypeOK
  <1>3. NotAhead'
    BY <1>1, StillBehind DEF Unloads
  <1> QED BY <1>1, <1>2, <1>3, WorldKept DEF Unloads

LEMMA ShowsKeep ==
    ASSUME IInv, NEW p \in Panels, Shows(p)
    PROVE  IInv'
  <1>1. Onward
    BY Still DEF Shows
  <1> PICK c \in Calls, d \in Dialogs :
        /\ Progress[d] <= Progress[dialog[c]]
        /\ shown' = [shown EXCEPT ![c] = d]
    BY DEF Shows
  <1>2. shown' \in [Calls -> Dialogs] /\ loaded' \subseteq Panels
    BY DEF Shows, IInv, TypeOK
  <1>3. NotAhead'
    BY DEF Shows, IInv, TypeOK, NotAhead
  <1> QED BY <1>1, <1>2, <1>3, WorldKept DEF Shows

\* A dialog that begins, or that its panel ends.
LEMMA DialogMoves ==
    ASSUME IInv, NEW c \in Calls, NEW d \in Dialogs, Progress[dialog[c]] <= Progress[d],
           dialog' = [dialog EXCEPT ![c] = d]
    PROVE  Onward
  <1>1. dialog \in [Calls -> Dialogs]
    BY DEF IInv, TypeOK
  <1>2. \A x \in Calls : Progress[dialog[x]] \in Nat
    BY <1>1, ProgressOf
  <1> QED BY <1>1, <1>2 DEF Onward

LEMMA RingsKeep ==
    ASSUME IInv, NEW c \in Calls, Rings(c)
    PROVE  IInv'
  <1>1. Progress[dialog[c]] <= Progress["ringing"] /\ "ringing" \in Dialogs
    BY DEF Rings, Progress, Dialogs
  <1>2. Onward
    BY <1>1, DialogMoves DEF Rings
  <1>3. NotAhead'
    BY <1>2, StillBehind DEF Rings
  <1> QED BY <1>2, <1>3, WorldKept DEF Rings, IInv, TypeOK

LEMMA FarEndsKeep ==
    ASSUME IInv, NEW c \in Calls, FarEnds(c)
    PROVE  IInv'
  <1>1. Progress[dialog[c]] <= Progress["over"] /\ "over" \in Dialogs
    BY DEF FarEnds, Progress, Dialogs, Live
  <1>2. Onward
    BY <1>1, DialogMoves DEF FarEnds
  <1>3. NotAhead'
    BY <1>2, StillBehind DEF FarEnds
  <1> QED BY <1>2, <1>3, WorldKept DEF FarEnds, IInv, TypeOK

-----------------------------------------------------------------------------
(* Asking.                                                                 *)

Aims == [panels : SUBSET Panels, calls : SUBSET Calls, read : BOOLEAN]

LEMMA MeantType ==
    ASSUME TypeOK, NEW t, NEW c \in Calls \cup {None},
           t.entry \in Panels \cup {None}, t.devices \in Seq(DOMAIN Owned),
           t.places \subseteq DOMAIN Owned
    PROVE  Meant(t, c) \in Aims
  <1>1. \A i \in DOMAIN t.devices : Owned[t.devices[i]] \subseteq Panels
    BY CommandsAssumption
  <1>2. \A place \in t.places : Owned[place] \subseteq Panels
    BY CommandsAssumption
  <1>3. Names(t) \subseteq Panels
    <2> DEFINE named == {t.devices[i] : i \in DOMAIN t.devices} \cup t.places
    <2>1. \A name \in named : Owned[name] \subseteq Panels
      BY <1>1, <1>2
    <2> HIDE DEF named
    <2>2. UNION {Owned[name] : name \in named} \subseteq Panels
      BY <2>1
    <2> QED BY <2>2 DEF Names, named
  <1>4. loaded \subseteq Panels
    BY DEF TypeOK
  <1>5. Meant(t, c).panels \subseteq Panels
    BY <1>3, <1>4 DEF Meant
  <1>6. Meant(t, c).calls \subseteq Calls
    BY DEF Meant
  <1>7. Meant(t, c).read \in BOOLEAN
    BY DEF Meant, Read
  <1> QED BY <1>5, <1>6, <1>7 DEF Meant, Aims

\* The dialogs a command turns to have been, and can be meant.
LEMMA CandidatesAreMeant ==
    ASSUME IInv, NEW t, NEW what, NEW p \in Panels, NEW named \in Known \cup {None},
           NEW c \in Candidates(what, p, named)
    PROVE  /\ c \in Calls \cup {None}
           /\ p \in Meant(t, named).panels => c \in Meant(t, named).calls \cup {None}
           /\ c # None => dialog[c] # "unborn"
  <1>1. CASE named # None
    BY <1>1 DEF Candidates, Known, Meant
  <1>2. CASE named = None
    <2>1. c = None \/ c \in ShownActive(p)
      BY <1>2 DEF Candidates, ShownActive, SoleRinging, Live
    <2>2. CASE c = None
      BY <2>2
    <2>3. CASE c \in ShownActive(p)
      <3>1. c \in Calls /\ Live(shown[c]) /\ Home[c] = p
        BY <2>3 DEF ShownActive
      <3>2. p \in Meant(t, named).panels => c \in Meant(t, named).calls
        BY <3>1, <1>2 DEF Meant
      <3>3. dialog[c] # "unborn"
        <4>1. /\ shown[c] \in Dialogs /\ dialog[c] \in Dialogs /\ shown[c] # "unborn"
              /\ Progress[shown[c]] <= Progress[dialog[c]]
          BY <3>1 DEF IInv, TypeOK, NotAhead, Live
        <4> QED BY <4>1, ProgressOf
      <3> QED BY <3>1, <3>2, <3>3
    <2> QED BY <2>1, <2>2, <2>3
  <1> QED BY <1>1, <1>2

\* Nothing is known yet of a command that is asked.
LEMMA FreshIs ==
    ASSUME IInv, NEW r \in Requests, Fresh(r)
    PROVE  /\ request[r] = Idle /\ told[r] = "nothing" /\ served[r] = 0 /\ ~acted[r]
           /\ request[r].call = None
  <1>1. StatusOf(r) /\ request[r] = Idle /\ told[r] = "nothing" /\ acted[r] \in BOOLEAN
    BY DEF IInv, TypeOK, Fresh
  <1> QED BY <1>1 DEF StatusOf, Idle

LEMMA Refused ==
    ASSUME IInv, NEW r \in Requests, Fresh(r), NEW aim \in Aims,
           NEW what \in {"refused", "done"}, Tells(r, what),
           meant' = [meant EXCEPT ![r] = aim], UNCHANGED world
    PROVE  IInv'
  <1>1. Onward
    BY Still DEF world
  <1>2. TypeOK'
    BY DEF Tells, IInv, TypeOK, Aims, world
  <1>3. NotAhead'
    BY <1>1, StillBehind DEF world
  <1>4. ASSUME NEW x \in Requests PROVE RequestInv(x)'
    <2>1. CASE x # r
      BY <2>1, <1>1, RequestKept DEF Tells, IInv, TypeOK
    <2>2. CASE x = r
      <3>1. /\ request'[r] = Idle /\ served'[r] = 0 /\ ~acted'[r] /\ told'[r] = what
        BY FreshIs DEF Tells, IInv, TypeOK
      <3> QED BY <2>2, <3>1 DEF RequestInv, AimOf, StatusOf, ToldOf, Idle
    <2> QED BY <2>1, <2>2
  <1> QED BY <1>2, <1>3, <1>4 DEF IInv, RequestInv

LEMMA Sent ==
    ASSUME IInv, NEW r \in Requests, Fresh(r), NEW aim \in Aims, NEW what \in Asked,
           NEW p \in Panels, NEW c \in Calls \cup {None}, c # None => dialog[c] # "unborn",
           aim.read => p \in aim.panels /\ c \in aim.calls \cup {None},
           request' = [request EXCEPT ![r] = [what |-> what, panel |-> p, call |-> c]],
           meant' = [meant EXCEPT ![r] = aim],
           UNCHANGED <<world, served, told, acted>>
    PROVE  IInv'
  <1> DEFINE sent == [what |-> what, panel |-> p, call |-> c]
  <1>1. Onward
    BY Still DEF world
  <1>2. TypeOK'
    <2>1. sent \in [what : Asked \cup {"nothing"}, panel : Panels \cup {None},
                    call : Calls \cup {None}]
      BY DEF Aims
    <2> QED BY <2>1 DEF IInv, TypeOK, Aims, world
  <1>3. NotAhead'
    BY <1>1, StillBehind DEF world
  <1>4. ASSUME NEW x \in Requests PROVE RequestInv(x)'
    <2>1. CASE x # r
      BY <2>1, <1>1, RequestKept DEF IInv, TypeOK
    <2>2. CASE x = r
      <3>1. /\ request'[r] = sent /\ meant'[r] = aim /\ served'[r] = 0 /\ ~acted'[r]
            /\ told'[r] = "nothing" /\ dialog' = dialog
        BY FreshIs DEF IInv, TypeOK, world
      <3>2. AimOf(r)'
        BY <3>1 DEF AimOf
      <3>3. StatusOf(r)' /\ ToldOf(r)'
        BY <3>1 DEF StatusOf, ToldOf
      <3> QED BY <2>2, <3>2, <3>3 DEF RequestInv
    <2> QED BY <2>1, <2>2
  <1> QED BY <1>2, <1>3, <1>4 DEF IInv, RequestInv

LEMMA CommandsKeep ==
    ASSUME IInv, NEW r \in Requests, Fresh(r), NEW t, NEW named \in Known \cup {None},
           Meant(t, named) \in Aims, NEW what \in Asked, NEW p \in Panels,
           Meant(t, named).read => p \in Meant(t, named).panels,
           Commands(r, what, p, named),
           meant' = [meant EXCEPT ![r] = Meant(t, named)], UNCHANGED world
    PROVE  IInv'
  <1> DEFINE aim == Meant(t, named)
  <1>1. ASSUME NEW c \in Candidates(what, p, named),
               request' = [request EXCEPT ![r] = [what |-> what, panel |-> p, call |-> c]],
               UNCHANGED <<served, told, acted>>
        PROVE  IInv'
    <2>1. /\ c \in Calls \cup {None}
          /\ c # None => dialog[c] # "unborn"
          /\ aim.read => p \in aim.panels /\ c \in aim.calls \cup {None}
      BY CandidatesAreMeant
    <2>2. aim \in Aims /\ meant' = [meant EXCEPT ![r] = aim] /\ UNCHANGED world
      OBVIOUS
    <2> HIDE DEF aim
    <2> QED BY <1>1, <2>1, <2>2, Sent
  <1>2. ASSUME NEW did \in {"done", "refused"}, Tells(r, did) PROVE IInv'
    BY <1>2, Refused
  <1>3. \/ \E c \in Candidates(what, p, named) :
              /\ request' = [request EXCEPT ![r] = [what |-> what, panel |-> p, call |-> c]]
              /\ UNCHANGED <<served, told, acted>>
        \/ Tells(r, IF what = "hang_up" THEN "done" ELSE "refused")
    BY DEF Commands
  <1> QED BY <1>1, <1>2, <1>3

LEMMA ActsKeep ==
    ASSUME IInv, NEW r \in Requests, NEW what \in Asked, NEW t \in Targets,
           NEW named \in Known \cup {None}, Acts(r, what, t, named)
    PROVE  IInv'
  <1>1. named \in Calls \cup {None} /\ TypeOK
    BY DEF Known, IInv
  <1>2. Meant(t, named) \in Aims
    BY <1>1, MeantType, CommandsAssumption
  <1>3. Fresh(r) /\ meant' = [meant EXCEPT ![r] = Meant(t, named)] /\ UNCHANGED world
    BY DEF Acts
  <1>4. ASSUME NEW p \in Panels, Resolves(t, p), Commands(r, what, p, named) PROVE IInv'
    <2>1. Meant(t, named).read => p \in Meant(t, named).panels
      BY <1>1, <1>4, ResolvedIsMeant DEF Meant
    <2> QED BY <1>2, <1>3, <1>4, <2>1, CommandsKeep
  <1>5. CASE Tells(r, "refused")
    BY <1>2, <1>3, <1>5, Refused
  <1> QED BY <1>4, <1>5 DEF Acts

\* A button and an offer name their entry.
LEMMA EntryIsMeant ==
    ASSUME TypeOK, NEW p \in Panels, NEW named \in Calls \cup {None}
    PROVE  Meant(Entry(p), named) \in Aims /\ p \in Meant(Entry(p), named).panels
  <1> DEFINE t == Entry(p)
  <1>1. t.entry = p /\ t.devices = <<>> /\ t.places = {} /\ p # None
    BY CommandsAssumption DEF Entry
  <1>2. t.devices \in Seq(DOMAIN Owned) /\ t.places \subseteq DOMAIN Owned
    BY <1>1
  <1> HIDE DEF t
  <1>3. Meant(t, named) \in Aims
    BY <1>1, <1>2, MeantType
  <1>4. p \in Names(t)
    BY <1>1 DEF Names
  <1>5. p \in Meant(t, named).panels
    BY <1>1, <1>4 DEF Meant
  <1> QED BY <1>3, <1>5 DEF t

LEMMA PressesKeep ==
    ASSUME IInv, NEW r \in Requests, NEW what \in Asked, NEW p \in Panels, Presses(r, what, p)
    PROVE  IInv'
  <1> DEFINE t == Entry(p)
  <1>1. Meant(t, None) \in Aims /\ p \in Meant(t, None).panels
    BY EntryIsMeant DEF IInv
  <1>2. /\ Fresh(r) /\ Commands(r, what, p, None)
        /\ meant' = [meant EXCEPT ![r] = Meant(t, None)] /\ UNCHANGED world
    BY DEF Presses
  <1> HIDE DEF t
  <1> QED BY <1>1, <1>2, CommandsKeep

LEMMA OffersKeep ==
    ASSUME IInv, NEW r \in Requests, NEW p \in Panels, NEW named \in Known \cup {None},
           Offers(r, p, named)
    PROVE  IInv'
  <1> DEFINE t == Entry(p)
  <1>1. Meant(t, named) \in Aims /\ p \in Meant(t, named).panels
    BY EntryIsMeant DEF IInv, Known
  <1>2. /\ Fresh(r) /\ (Commands(r, "offer", p, named) \/ Tells(r, "refused"))
        /\ meant' = [meant EXCEPT ![r] = Meant(t, named)] /\ UNCHANGED world
    BY DEF Offers
  <1>3. "offer" \in Asked
    BY DEF Asked, Actions
  <1> HIDE DEF t
  <1>4. CASE Commands(r, "offer", p, named)
    BY <1>1, <1>2, <1>3, <1>4, CommandsKeep
  <1>5. CASE Tells(r, "refused")
    BY <1>1, <1>2, <1>5, Refused
  <1> QED BY <1>2, <1>4, <1>5

-----------------------------------------------------------------------------
(* At the gateway, and back.                                               *)

Good == {201, 204}
Bad  == {400, 404, 409, 500, 502, 503}

\* The gateway serves a command, with a status that stands for what the panel did.
LEMMA Served ==
    ASSUME IInv, Onward, NEW r \in Requests, request[r] # Idle, served[r] = 0,
           NEW status \in Good \cup Bad,
           served' = [served EXCEPT ![r] = status],
           acted' \in [Requests -> BOOLEAN], \A x \in Requests \ {r} : acted'[x] = acted[x],
           StatusOf(r)',
           UNCHANGED <<loaded, shown, request, told, meant>>
    PROVE  IInv'
  <1>1. TypeOK'
    <2>1. served' \in [Requests -> {0, 201, 204, 400, 404, 409, 500, 502, 503}]
      BY DEF IInv, TypeOK, Good, Bad
    <2> QED BY <2>1 DEF IInv, TypeOK, Onward
  <1>2. NotAhead'
    BY StillBehind
  <1>3. ASSUME NEW x \in Requests PROVE RequestInv(x)'
    <2>1. CASE x # r
      BY <2>1, RequestKept DEF IInv, TypeOK
    <2>2. CASE x = r
      <3>1. /\ request'[r] = request[r] /\ meant'[r] = meant[r] /\ told'[r] = told[r]
            /\ served'[r] = status
        BY DEF IInv, TypeOK
      <3>2. AimOf(r)'
        <4>1. AimOf(r) /\ request[r].call \in Calls \cup {None}
          BY DEF IInv, TypeOK
        <4>2. request[r].call \in Calls =>
                 (dialog[request[r].call] # "unborn" => dialog'[request[r].call] # "unborn")
          BY ProgressOf DEF Onward, IInv, TypeOK
        <4> QED BY <3>1, <4>1, <4>2 DEF AimOf
      <3>3. ToldOf(r)'
        BY <3>1 DEF ToldOf, IInv
      <3> QED BY <2>2, <3>2, <3>3 DEF RequestInv
    <2> QED BY <2>1, <2>2
  <1> QED BY <1>1, <1>2, <1>3 DEF IInv, RequestInv

\* The panel did it.
LEMMA Did ==
    ASSUME IInv, Onward, NEW r \in Requests, request[r] # Idle, served[r] = 0,
           NEW status \in Good, Serves(r, status, TRUE)
    PROVE  IInv'
  <1>1. /\ served' = [served EXCEPT ![r] = status] /\ acted' = [acted EXCEPT ![r] = TRUE]
        /\ UNCHANGED <<loaded, shown, request, told, meant>>
    BY DEF Serves
  <1>2. acted \in [Requests -> BOOLEAN] /\ served'[r] = status
    BY <1>1 DEF IInv, TypeOK
  <1>3. /\ acted' \in [Requests -> BOOLEAN] /\ acted'[r]
        /\ \A x \in Requests \ {r} : acted'[x] = acted[x]
    BY <1>1, <1>2
  <1>4. StatusOf(r)'
    BY <1>1, <1>2, <1>3 DEF StatusOf, Good, Bad
  <1>5. status \in Good \cup Bad
    BY DEF Good, Bad
  <1> QED BY <1>1, <1>3, <1>4, <1>5, Served

\* The panel did not, and the status is that of a failure, or there was nothing to hang up.
LEMMA DidNot ==
    ASSUME IInv, Onward, NEW r \in Requests, request[r] # Idle, served[r] = 0,
           NEW status \in Bad \cup {204}, Serves(r, status, FALSE),
           status = 204 => request[r].what = "hang_up" /\ ~Listed(r)'
    PROVE  IInv'
  <1>1. /\ served' = [served EXCEPT ![r] = status] /\ acted' = [acted EXCEPT ![r] = FALSE]
        /\ UNCHANGED <<loaded, shown, request, told, meant>>
    BY DEF Serves
  <1>2. acted \in [Requests -> BOOLEAN] /\ served'[r] = status
    BY <1>1 DEF IInv, TypeOK
  <1>3. /\ acted' \in [Requests -> BOOLEAN] /\ ~acted'[r]
        /\ \A x \in Requests \ {r} : acted'[x] = acted[x]
    BY <1>1, <1>2
  <1>4. StatusOf(r)'
    BY <1>1, <1>2, <1>3 DEF StatusOf, Good, Bad
  <1>5. status \in Good \cup Bad
    BY DEF Good, Bad
  <1> QED BY <1>1, <1>3, <1>4, <1>5, Served

LEMMA AtGatewayIs ==
    ASSUME NEW r, NEW what \in Asked, AtGateway(r, what)
    PROVE  request[r] # Idle /\ served[r] = 0
  <1>1. what # "nothing"
    BY DEF Asked, Actions
  <1>2. Idle.what = "nothing"
    BY DEF Idle
  <1> QED BY <1>1, <1>2 DEF AtGateway

LEMMA OpensKeep ==
    ASSUME IInv, NEW r \in Requests, Opens(r) \/ SetsMicrophone(r) \/ Joins(r)
    PROVE  IInv'
  <1>1. PICK what \in {"open", "microphone", "offer"} : AtGateway(r, what)
    BY DEF Opens, SetsMicrophone, Joins
  <1>2. request[r] # Idle /\ served[r] = 0
    BY <1>1, AtGatewayIs DEF Asked, Actions
  <1>3. Onward
    BY Still DEF Opens, SetsMicrophone, Joins
  <1>4. PICK status \in Good : Serves(r, status, TRUE)
    BY DEF Opens, SetsMicrophone, Joins, Good
  <1> QED BY <1>2, <1>3, <1>4, Did

LEMMA AnswersKeep ==
    ASSUME IInv, NEW r \in Requests, Answers(r)
    PROVE  IInv'
  <1> DEFINE c == request[r].call
  <1>1. request[r] # Idle /\ served[r] = 0
    BY AtGatewayIs DEF Answers, Asked, Actions
  <1>2. c \in Calls \cup {None} /\ Listed(r)
    BY DEF Answers, IInv, TypeOK
  <1>3. /\ c \in Calls /\ dialog[c] = "ringing" /\ Serves(r, 204, TRUE)
        /\ dialog' = [dialog EXCEPT ![c] = "streaming"]
    BY <1>2 DEF Answers, Listed
  <1>4. Progress[dialog[c]] <= Progress["streaming"] /\ "streaming" \in Dialogs
    BY <1>3 DEF Progress, Dialogs
  <1>5. Onward
    <2> HIDE DEF c
    <2> QED BY <1>3, <1>4, DialogMoves
  <1>6. 204 \in Good
    BY DEF Good
  <1> QED BY <1>1, <1>3, <1>5, <1>6, Did

LEMMA HangsUpKeep ==
    ASSUME IInv, NEW r \in Requests, HangsUp(r)
    PROVE  IInv'
  <1> DEFINE c == request[r].call
  <1>1. /\ request[r] # Idle /\ served[r] = 0 /\ request[r].what = "hang_up"
        /\ Serves(r, 204, Listed(r))
    BY AtGatewayIs DEF HangsUp, AtGateway, Asked, Actions
  <1>2. dialog \in [Calls -> Dialogs] /\ c \in Calls \cup {None}
    BY DEF IInv, TypeOK
  <1>3. CASE Listed(r)
    <2>1. c \in Calls /\ dialog' = [dialog EXCEPT ![c] = "over"]
      BY <1>2, <1>3 DEF HangsUp, Listed
    <2>2. Progress[dialog[c]] <= Progress["over"] /\ "over" \in Dialogs
      BY <1>2, <2>1 DEF Progress, Dialogs
    <2>3. Onward
      BY <2>1, <2>2, DialogMoves
    <2>4. Serves(r, 204, TRUE)
      BY <1>1, <1>3 DEF Serves
    <2>5. 204 \in Good
      BY DEF Good
    <2> QED BY <1>1, <2>3, <2>4, <2>5, Did
  <1>4. CASE ~Listed(r)
    <2>1. UNCHANGED dialog
      BY <1>2, <1>4 DEF HangsUp
    <2>2. Onward
      BY <2>1, Still
    <2>3. request'[r] = request[r]
      BY <1>1 DEF Serves
    <2>4. ~Listed(r)'
      BY <1>4, <2>1, <2>3 DEF Listed
    <2>5. Listed(r) = FALSE
      BY <1>4 DEF Listed
    <2>6. Serves(r, 204, FALSE) /\ 204 \in Bad \cup {204}
      BY <1>1, <2>5
    <2> QED BY <1>1, <2>2, <2>4, <2>6, DidNot
  <1> QED BY <1>3, <1>4

\* The monitors that give way are over.
LEMMA UnwatchedIsOnward ==
    ASSUME IInv, NEW p
    PROVE  /\ Unwatched(p) \in [Calls -> Dialogs]
           /\ \A c \in Calls : Progress[dialog[c]] <= Progress[Unwatched(p)[c]]
  <1>1. dialog \in [Calls -> Dialogs]
    BY DEF IInv, TypeOK
  <1>2. \A c \in Calls : Progress[dialog[c]] \in Nat
    BY <1>1, ProgressOf
  <1>3. Unwatched(p) \in [Calls -> Dialogs]
    BY <1>1 DEF Unwatched, Dialogs
  <1>4. ASSUME NEW c \in Calls PROVE Progress[dialog[c]] <= Progress[Unwatched(p)[c]]
    <2>1. Unwatched(p)[c] = dialog[c]
             \/ (Unwatched(p)[c] = "over" /\ dialog[c] = "streaming")
      BY DEF Unwatched
    <2> QED BY <1>2, <2>1 DEF Progress
  <1> QED BY <1>3, <1>4

LEMMA LooksKeep ==
    ASSUME IInv, NEW r \in Requests, Looks(r)
    PROVE  IInv'
  <1> DEFINE rest == Unwatched(request[r].panel)
  <1>1. request[r] # Idle /\ served[r] = 0 /\ Serves(r, 201, TRUE)
    BY AtGatewayIs DEF Looks, Asked, Actions
  <1>2. /\ rest \in [Calls -> Dialogs]
        /\ \A c \in Calls : Progress[dialog[c]] <= Progress[rest[c]]
    BY UnwatchedIsOnward
  <1>3. PICK c \in Outgoing : /\ dialog[c] = "unborn"
                              /\ dialog' = [rest EXCEPT ![c] = "streaming"]
    BY DEF Looks
  <1> HIDE DEF rest
  <1>4. dialog' \in [Calls -> Dialogs]
    BY <1>2, <1>3 DEF Dialogs
  <1>5. ASSUME NEW x \in Calls PROVE Progress[dialog[x]] <= Progress[dialog'[x]]
    <2>1. CASE x = c
      BY <1>2, <1>3, <2>1 DEF Progress
    <2>2. CASE x # c
      BY <1>2, <1>3, <2>2
    <2> QED BY <2>1, <2>2
  <1>6. Onward
    BY <1>4, <1>5 DEF Onward
  <1>7. 201 \in Good
    BY DEF Good
  <1> QED BY <1>1, <1>6, <1>7, Did

LEMMA RaisesKeep ==
    ASSUME IInv, NEW r \in Requests, Raises(r)
    PROVE  IInv'
  <1>1. request[r] # Idle /\ served[r] = 0
    BY DEF Raises
  <1>2. PICK e \in Errors : Serves(r, StatusFor(e), FALSE)
    BY ErrorsRaised DEF Raises
  <1> DEFINE status == StatusFor(e)
  <1>3. status \in Bad /\ Serves(r, status, FALSE)
    BY <1>2, StatusIsError DEF Bad
  <1> HIDE DEF status
  <1>4. Onward
    <2>1. dialog' = Unwatched(request[r].panel) \/ dialog' = dialog
      BY DEF Raises
    <2>2. CASE dialog' = Unwatched(request[r].panel)
      BY <2>2, UnwatchedIsOnward DEF Onward
    <2>3. CASE dialog' = dialog
      BY <2>3, Still
    <2> QED BY <2>1, <2>2, <2>3
  <1>5. status \in Bad \cup {204} /\ status # 204
    BY <1>3 DEF Bad
  <1> QED BY <1>1, <1>3, <1>4, <1>5, DidNot

\* Whoever asked is told what the status says, or that it took too long.
LEMMA ToldKeep ==
    ASSUME IInv, NEW r \in Requests, Returns(r) \/ TimesOut(r)
    PROVE  IInv'
  <1>0. request[r] # Idle /\ UNCHANGED <<world, request, served, acted, meant>>
    BY DEF Returns, TimesOut, Waits, Tells
  <1>1. Onward
    BY <1>0, Still DEF world
  <1>2. NotAhead'
    BY <1>0, <1>1, StillBehind DEF world
  <1>3. PICK what \in {"acknowledged", "unacknowledged", "done", "error"} :
          /\ told' = [told EXCEPT ![r] = what]
          /\ what = "acknowledged" => request[r].what = "open" /\ served[r] = 204
          /\ what = "done" => served[r] # 0 /\ served[r] < 400
    <2>1. CASE Returns(r) /\ request[r].what = "open"
      BY <2>1 DEF Returns, Tells
    <2>2. CASE Returns(r) /\ request[r].what # "open"
      BY <2>2 DEF Returns, Tells, Outcome
    <2>3. CASE TimesOut(r)
      BY <2>3 DEF TimesOut, Tells
    <2> QED BY <2>1, <2>2, <2>3
  <1>4. what = "done" => served[r] \in {201, 204}
    <2>1. served[r] \in {0, 201, 204, 400, 404, 409, 500, 502, 503}
      BY DEF IInv, TypeOK
    <2> QED BY <1>3, <2>1
  <1>5. TypeOK'
    BY <1>0, <1>3 DEF IInv, TypeOK, world
  <1>6. ASSUME NEW x \in Requests PROVE RequestInv(x)'
    <2>1. CASE x # r
      BY <2>1, <1>0, <1>1, <1>3, RequestKept DEF IInv, TypeOK
    <2>2. CASE x = r
      <3>1. /\ request'[r] = request[r] /\ meant'[r] = meant[r] /\ served'[r] = served[r]
            /\ acted'[r] = acted[r] /\ told'[r] = what /\ dialog' = dialog
        BY <1>0, <1>3 DEF IInv, TypeOK, world
      <3>2. AimOf(r)'
        BY <3>1 DEF AimOf, IInv
      <3>3. StatusOf(r)'
        <4>1. StatusOf(r) /\ (Listed(r)' <=> Listed(r))
          BY <3>1 DEF Listed, IInv
        <4> QED BY <3>1, <4>1 DEF StatusOf
      <3>4. ToldOf(r)'
        BY <1>0, <1>3, <1>4, <3>1 DEF ToldOf
      <3> QED BY <2>2, <3>2, <3>3, <3>4 DEF RequestInv
    <2> QED BY <2>1, <2>2
  <1> QED BY <1>2, <1>5, <1>6 DEF IInv, RequestInv

-----------------------------------------------------------------------------
(* The theorems.                                                           *)

LEMMA Stutters ==
    ASSUME IInv, UNCHANGED vars
    PROVE  IInv'
  <1>1. Onward
    BY Still DEF vars, world
  <1>2. NotAhead'
    BY <1>1, StillBehind DEF vars, world
  <1> QED BY <1>1, <1>2, WorldKept DEF vars, world, IInv, TypeOK

LEMMA Steps == IInv /\ [Next]_vars => IInv'
  <1> SUFFICES ASSUME IInv, [Next]_vars PROVE IInv'
    OBVIOUS
  <1>1. ASSUME NEW p \in Panels, Loads(p) \/ Unloads(p) \/ Shows(p) PROVE IInv'
    BY <1>1, LoadsKeep, UnloadsKeep, ShowsKeep
  <1>2. ASSUME NEW c \in Calls, Rings(c) \/ FarEnds(c) PROVE IInv'
    BY <1>2, RingsKeep, FarEndsKeep
  <1>3. ASSUME NEW r \in Requests, Asks(r) PROVE IInv'
    <2>1. PICK what \in Asked :
            \/ \E t \in Targets : Acts(r, what, t, None)
            \/ \E t \in Targets, c \in Known : Acts(r, what, t, c)
            \/ \E p \in Panels : Presses(r, what, p)
            \/ \E p \in Panels, c \in Known \cup {None} : Offers(r, p, c)
      BY <1>3 DEF Asks, Asked, Actions, OfCall
    <2>2. ASSUME NEW t \in Targets, NEW c \in Known \cup {None}, Acts(r, what, t, c)
          PROVE  IInv'
      BY <2>2, ActsKeep
    <2>3. ASSUME NEW p \in Panels, Presses(r, what, p) PROVE IInv'
      BY <2>3, PressesKeep
    <2>4. ASSUME NEW p \in Panels, NEW c \in Known \cup {None}, Offers(r, p, c) PROVE IInv'
      BY <2>4, OffersKeep
    <2> QED BY <2>1, <2>2, <2>3, <2>4
  <1>4. ASSUME NEW r \in Requests, Handles(r) PROVE IInv'
    BY <1>4, OpensKeep, AnswersKeep, HangsUpKeep, LooksKeep, RaisesKeep DEF Handles
  <1>5. ASSUME NEW r \in Requests, Returns(r) \/ TimesOut(r) PROVE IInv'
    BY <1>5, ToldKeep
  <1>6. CASE UNCHANGED vars
    BY <1>6, Stutters
  <1> QED BY <1>1, <1>2, <1>3, <1>4, <1>5, <1>6 DEF Next

\* The strengthening: what is shown is late and never early, a request whose target was read
\* aims at what could be meant, any at a dialog that has been, the status stands for what was done, what is told for
\* the status.
THEOREM Inductive == Spec => []IInv
  BY Initially, Steps, PTL DEF Spec

\* The state has its types: no status but those of the table, no dialog out of nothing.
THEOREM Types == Spec => []TypeOK
  <1>1. IInv => TypeOK
    BY DEF IInv
  <1> QED BY Inductive, <1>1, PTL

\* However late what is shown, the panel that moves and the dialog it moves are ones the
\* command can have meant, if it names no target, an entry or a device (services.py:87-101): a
\* place named alone is not read, and may move another panel.
THEOREM MeantOnly == Spec => []OnlyWhatWasMeant
  <1>1. IInv => OnlyWhatWasMeant
    <2> SUFFICES ASSUME IInv, NEW r \in Requests, acted[r]
                 PROVE  meant[r].read => /\ request[r].panel \in meant[r].panels
                                         /\ request[r].call \in meant[r].calls \cup {None}
      BY DEF OnlyWhatWasMeant
    <2>1. AimOf(r) /\ StatusOf(r)
      BY DEF IInv
    <2>2. request[r] # Idle
      BY <2>1 DEF StatusOf
    <2> QED BY <2>1, <2>2 DEF AimOf
  <1> QED BY Inductive, <1>1, PTL

\* Nobody is told of an open, or of a command, that was not done (commands.py, rest.py,
\* errors.py), and what is refused has moved nothing.
THEOREM ClaimsHold == Spec => []NeverOverclaims
  <1>1. IInv => NeverOverclaims
    <2> SUFFICES ASSUME IInv, NEW r \in Requests
                 PROVE  /\ told[r] = "acknowledged" => acted[r]
                        /\ told[r] = "done" /\ request[r] # Idle =>
                              acted[r] \/ (request[r].what = "hang_up" /\ ~Listed(r))
                        /\ told[r] = "refused" => ~acted[r]
      BY DEF NeverOverclaims
    <2>1. StatusOf(r) /\ ToldOf(r)
      BY DEF IInv
    <2>2. told[r] = "acknowledged" => acted[r]
      BY <2>1 DEF StatusOf, ToldOf
    <2>3. told[r] = "done" /\ request[r] # Idle =>
             acted[r] \/ (request[r].what = "hang_up" /\ ~Listed(r))
      BY <2>1 DEF StatusOf, ToldOf
    <2>4. told[r] = "refused" => ~acted[r]
      BY <2>1 DEF StatusOf, ToldOf
    <2> QED BY <2>2, <2>3, <2>4
  <1> QED BY Inductive, <1>1, PTL
=============================================================================
