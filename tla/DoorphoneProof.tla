--------------------------- MODULE DoorphoneProof ---------------------------
(***************************************************************************)
(* What DoorphoneService keeps for every set of dialogs and of concurrent  *)
(* requests, and whether or not the SDK reports before it returns.         *)
(***************************************************************************)
EXTENDS DoorphoneService, FiniteSetTheorems, TLAPS

-----------------------------------------------------------------------------
(* The book's operations keep its type and touch one entry's presence.     *)

LEMMA RecordBook ==
    ASSUME BookTypeOK, NEW c \in Calls, NEW s \in Live, NEW g \in Sides, Record(c, s, g)
    PROVE  /\ BookTypeOK'
           /\ rang' = rang
           /\ Tracked(c)'
           /\ calls'[c].state = s
           /\ calls'[c].side = SideOf(c, g)
           /\ \A d \in Calls \ {c} : calls'[d] = calls[d]
  BY DEF BookTypeOK, Record, Entry, SideOf, Sides, Live, Tracked

LEMMA MarkIncomingBook ==
    ASSUME BookTypeOK, NEW c \in Calls, MarkIncoming(c)
    PROVE  /\ BookTypeOK'
           /\ rang' = rang \cup {c}
           /\ Tracked(c)' <=> Tracked(c)
           /\ calls'[c].state = calls[c].state
           /\ Tracked(c) => calls'[c].side = "incoming"
           /\ \A d \in Calls \ {c} : calls'[d] = calls[d]
  BY DEF BookTypeOK, MarkIncoming, Entry, Sides, Live, Tracked

LEMMA ForgetBook ==
    ASSUME BookTypeOK, NEW c \in Calls, Forget(c)
    PROVE  /\ BookTypeOK'
           /\ rang' = rang \ {c}
           /\ ~Tracked(c)'
           /\ \A d \in Calls \ {c} : /\ calls'[d].state = calls[d].state
                                     /\ calls'[d].side = calls[d].side
  BY DEF BookTypeOK, Forget, Entry, Absent, Sides, Live, Tracked

\* A refinement records a dialog the book lists, and nothing else.
LEMMA RefineBook ==
    ASSUME BookTypeOK, NEW c \in Calls, NEW g \in Sides, Refine(c, "streaming", g)
    PROVE  /\ BookTypeOK'
           /\ rang' = rang
           /\ Tracked(c)' <=> Tracked(c)
           /\ Tracked(c) => calls'[c].state = "streaming" /\ calls'[c].side = SideOf(c, g)
           /\ \A d \in Calls \ {c} : calls'[d] = calls[d]
  <1>1. CASE Tracked(c) /\ Record(c, "streaming", g)
    BY <1>1, RecordBook DEF Live
  <1>2. CASE ~Tracked(c) /\ UNCHANGED book
    BY <1>2 DEF book, BookTypeOK, Tracked
  <1> QED BY <1>1, <1>2 DEF Refine

-----------------------------------------------------------------------------
(* One coroutine moves at a time, and the INVITEs in flight with it.       *)

LEMMA BecomeRequest ==
    ASSUME TypeOK, NEW r \in Requests, NEW rec \in Request, Become(r, rec)
    PROVE  /\ request' \in [Requests -> Request]
           /\ request'[r] = rec
           /\ \A q \in Requests \ {r} : request'[q] = request[q]
  BY DEF TypeOK, Become

LEMMA BecomeInFlight ==
    ASSUME TypeOK, NEW r \in Requests, NEW rec \in Request, Become(r, rec)
    PROVE  /\ rec.cmd \in Invites => InFlight' = InFlight \cup {r}
           /\ rec.cmd \notin Invites => InFlight' = InFlight \ {r}
  BY BecomeRequest DEF InFlight

LEMMA InFlightFinite == IsFiniteSet(InFlight)
  BY ServiceAssumption, FS_Subset DEF InFlight

LEMMA IdleRequest == Idle \in Request
  BY DEF Idle, Request

LEMMA InvitingUp ==
    ASSUME TypeOK, InvitingInFlight, NEW r \in Requests, request[r].cmd \notin Invites,
           InFlight' = InFlight \cup {r}, inviting' = inviting + 1
    PROVE  InvitingInFlight' /\ inviting' \in Nat
  <1>1. r \notin InFlight
    BY DEF InFlight
  <1>2. Cardinality(InFlight \cup {r}) = Cardinality(InFlight) + 1
    BY <1>1, InFlightFinite, FS_AddElement
  <1> QED BY <1>2 DEF InvitingInFlight, TypeOK

LEMMA InvitingDown ==
    ASSUME TypeOK, InvitingInFlight, NEW r \in Requests, request[r].cmd \in Invites,
           InFlight' = InFlight \ {r}, inviting' = inviting - 1
    PROVE  InvitingInFlight' /\ inviting' \in Nat
  <1>1. r \in InFlight
    BY DEF InFlight
  <1>2. Cardinality(InFlight \ {r}) = Cardinality(InFlight) - 1
    BY <1>1, InFlightFinite, FS_RemoveElement
  <1>3. Cardinality(InFlight \ {r}) \in Nat
    BY InFlightFinite, FS_RemoveElement, FS_CardinalityType
  <1> QED BY <1>2, <1>3 DEF InvitingInFlight, TypeOK

LEMMA InvitingSame ==
    ASSUME TypeOK, InvitingInFlight, InFlight' = InFlight, inviting' = inviting
    PROVE  InvitingInFlight' /\ inviting' \in Nat
  BY DEF InvitingInFlight, TypeOK

-----------------------------------------------------------------------------
(* What a step leaves alone keeps its part of the invariant.               *)

\* No step takes a dialog backwards, or hides one that is up.
Onward == \A c \in Calls :
    /\ dialog[c] # "none" => dialog'[c] # "none"
    /\ dialog[c] = "over" => dialog'[c] = "over"
    /\ Up(c)' /\ Tracked(c) => Tracked(c)'
    /\ c \in Inbound /\ Up(c)' /\ calls[c].state = "streaming"
          => calls'[c].state = "streaming"

LEMMA SameRequest ==
    ASSUME TypeOK, Onward, NEW r \in Requests, RequestOf(r), request'[r] = request[r]
    PROVE  RequestOf(r)'
  <1>1. Inbound \subseteq Calls /\ Outbound \subseteq Calls
    BY ServiceAssumption
  <1>2. \A c \in Calls : Up(c)' /\ dialog[c] # "none" => Up(c)
    BY DEF Onward, Up, TypeOK
  <1> QED BY <1>1, <1>2 DEF RequestOf, Onward

LEMMA OtherRequests ==
    ASSUME IInv, Onward, NEW r \in Requests, NEW rec \in Request, Become(r, rec)
    PROVE  \A q \in Requests \ {r} : RequestOf(q)'
  BY SameRequest, BecomeRequest DEF IInv

LEMMA SameDialog ==
    ASSUME NEW c \in Calls, DialogOf(c),
           dialog'[c] = dialog[c], inbox'[c] = inbox[c],
           calls'[c].state = calls[c].state, calls'[c].side = calls[c].side,
           c \in rang' <=> c \in rang
    PROVE  DialogOf(c)'
  <1>1. Tracked(c)' <=> Tracked(c)
    BY DEF Tracked
  <1>2. ReportsOf(c)'
    BY <1>1 DEF DialogOf, ReportsOf
  <1>3. Up(c)' <=> Up(c)
    BY DEF Up
  <1>4. VisitorOf(c) => VisitorOf(c)'
    BY <1>1 DEF VisitorOf
  <1> QED BY <1>2, <1>3, <1>4 DEF DialogOf

LEMMA StillOnward ==
    ASSUME UNCHANGED <<calls, dialog>>
    PROVE  Onward
  BY DEF Onward, Up, Tracked

\* A step of one coroutine that moves neither the book nor the dialogs.
LEMMA CoroutineStep ==
    ASSUME IInv, NEW r \in Requests, NEW rec \in Request, Become(r, rec),
           UNCHANGED <<calls, rang, dialog, inbox>>,
           queue' \in Seq(Requests), inviting' \in Nat, InvitingInFlight',
           RequestOf(r)'
    PROVE  IInv'
  <1>1. TypeOK'
    BY BecomeRequest DEF IInv, TypeOK, BookTypeOK
  <1>2. \A c \in Calls : DialogOf(c)'
    BY SameDialog DEF IInv
  <1>3. \A q \in Requests : RequestOf(q)'
    BY StillOnward, OtherRequests
  <1> QED BY <1>1, <1>2, <1>3 DEF IInv

-----------------------------------------------------------------------------
(* The SIP stack moves a dialog and reports it.                            *)

\* A report is added at the end, whatever the others are.
LEMMA ReportAdded ==
    ASSUME TypeOK, NEW c \in Calls, NEW s \in Reports, NEW to, Report(c, s), Moves(c, to)
    PROVE  /\ inbox' \in [Calls -> Seq(Reports)]
           /\ inbox'[c] = Append(inbox[c], s)
           /\ dialog'[c] = to
           /\ Len(inbox'[c]) = Len(inbox[c]) + 1
           /\ inbox'[c][Len(inbox[c]) + 1] = s
           /\ \A i \in 1..Len(inbox[c]) : inbox'[c][i] = inbox[c][i]
           /\ \A d \in Calls \ {c} : inbox'[d] = inbox[d] /\ dialog'[d] = dialog[d]
  <1>1. inbox[c] \in Seq(Reports)
    BY DEF TypeOK
  <1>2. inbox'[c] = Append(inbox[c], s)
    BY DEF TypeOK, Report
  <1>3. inbox' \in [Calls -> Seq(Reports)]
    BY <1>1 DEF TypeOK, Report
  <1>4. dialog'[c] = to /\ \A d \in Calls \ {c} : dialog'[d] = dialog[d]
    BY DEF TypeOK, Moves
  <1>5. \A d \in Calls \ {c} : inbox'[d] = inbox[d]
    BY DEF TypeOK, Report
  <1> QED BY <1>1, <1>2, <1>3, <1>4, <1>5

LEMMA EndsDialog ==
    ASSUME TypeOK, NEW c \in Calls, DialogOf(c), Ends(c), UNCHANGED book
    PROVE  /\ dialog' \in [Calls -> {"none", "early", "streaming", "over"}]
           /\ inbox' \in [Calls -> Seq(Reports)]
           /\ DialogOf(c)'
           /\ Up(c) => dialog'[c] = "over"
           /\ ~Up(c) => dialog'[c] = dialog[c]
           /\ \A d \in Calls \ {c} : inbox'[d] = inbox[d] /\ dialog'[d] = dialog[d]
  <1>1. CASE Up(c) /\ Moves(c, "over") /\ Report(c, "over")
    <2>1. /\ inbox' \in [Calls -> Seq(Reports)]
          /\ dialog'[c] = "over"
          /\ Len(inbox'[c]) = Len(inbox[c]) + 1
          /\ inbox'[c][Len(inbox[c]) + 1] = "over"
          /\ \A i \in 1..Len(inbox[c]) : inbox'[c][i] = inbox[c][i]
          /\ \A d \in Calls \ {c} : inbox'[d] = inbox[d] /\ dialog'[d] = dialog[d]
      BY <1>1, ReportAdded DEF Reports
    <2>2. \A i \in 1..Len(inbox[c]) : inbox[c][i] # "over"
      BY <1>1 DEF DialogOf, ReportsOf, Up
    <2>3. Len(inbox[c]) \in Nat
      BY DEF TypeOK
    <2>4. ReportsOf(c)'
      BY <2>1, <2>2, <2>3 DEF ReportsOf
    <2>5. dialog' \in [Calls -> {"none", "early", "streaming", "over"}]
      BY <1>1 DEF TypeOK, Moves
    <2> QED BY <1>1, <2>1, <2>4, <2>5 DEF DialogOf, Up
  <1>2. CASE ~Up(c) /\ UNCHANGED sip
    BY <1>2, SameDialog DEF sip, book, TypeOK
  <1> QED BY <1>1, <1>2 DEF Ends

LEMMA TwoReports ==
    ASSUME NEW s \in Seq(Reports), Len(s) = 2, s[1] = "ring", s[2] = "streaming"
    PROVE  s = <<"ring", "streaming">>
  OBVIOUS

\* A dialog starts to stream: one of ours, or a visitor's that the book lists.
LEMMA StreamsDialog ==
    ASSUME TypeOK, NEW c \in Calls, DialogOf(c), dialog[c] = "early",
           Moves(c, "streaming"), Report(c, "streaming"), UNCHANGED book,
           c \in Outbound \/ Tracked(c)
    PROVE  /\ dialog' \in [Calls -> {"none", "early", "streaming", "over"}]
           /\ inbox' \in [Calls -> Seq(Reports)]
           /\ DialogOf(c)'
           /\ \A d \in Calls \ {c} : inbox'[d] = inbox[d] /\ dialog'[d] = dialog[d]
  <1>1. /\ inbox' \in [Calls -> Seq(Reports)]
        /\ inbox'[c] = Append(inbox[c], "streaming")
        /\ dialog'[c] = "streaming"
        /\ Len(inbox'[c]) = Len(inbox[c]) + 1
        /\ inbox'[c][Len(inbox[c]) + 1] = "streaming"
        /\ \A i \in 1..Len(inbox[c]) : inbox'[c][i] = inbox[c][i]
        /\ \A d \in Calls \ {c} : inbox'[d] = inbox[d] /\ dialog'[d] = dialog[d]
    BY ReportAdded DEF Reports, Live
  <1>2. dialog' \in [Calls -> {"none", "early", "streaming", "over"}]
    BY DEF TypeOK, Moves
  <1>3. Len(inbox[c]) \in Nat
    BY DEF TypeOK
  <1>4. ReportsOf(c)'
    BY <1>1, <1>3 DEF DialogOf, ReportsOf
  <1>5. ASSUME c \in Inbound PROVE VisitorOf(c)'
    <2>1. Tracked(c)
      BY <1>5, ServiceAssumption
    <2>2. VisitorOf(c)
      BY <1>5 DEF DialogOf, Up
    <2>3. inbox[c] \in {<<>>, <<"ring">>}
      BY <2>1, <2>2 DEF VisitorOf
    <2>4. inbox[c] = <<>> => inbox'[c] = <<"streaming">>
      BY <1>1
    <2>5. ASSUME inbox[c] = <<"ring">> PROVE inbox'[c] = <<"ring", "streaming">>
      <3>1. Len(inbox[c]) = 1 /\ inbox[c][1] = "ring"
        BY <2>5
      <3>2. inbox'[c] \in Seq(Reports)
        BY <1>1
      <3>3. Len(inbox'[c]) = 2 /\ inbox'[c][2] = "streaming"
        BY <1>1, <3>1
      <3>4. inbox'[c][1] = "ring"
        BY <1>1, <3>1
      <3> QED BY <3>2, <3>3, <3>4, TwoReports
    <2>6. Tracked(c)' /\ (c \in rang <=> c \in rang') /\ calls' = calls
      BY <2>1 DEF book, Tracked
    <2> QED BY <1>1, <2>1, <2>2, <2>3, <2>4, <2>5, <2>6 DEF VisitorOf
  <1> QED BY <1>1, <1>2, <1>4, <1>5 DEF DialogOf

LEMMA DialsDialog ==
    ASSUME TypeOK, NEW c \in Fresh, DialogOf(c),
           Moves(c, "early"), Report(c, "connecting"), UNCHANGED book
    PROVE  /\ dialog' \in [Calls -> {"none", "early", "streaming", "over"}]
           /\ inbox' \in [Calls -> Seq(Reports)]
           /\ DialogOf(c)'
           /\ \A d \in Calls \ {c} : inbox'[d] = inbox[d] /\ dialog'[d] = dialog[d]
  <1>1. c \in Calls /\ c \notin Inbound /\ dialog[c] = "none"
    BY ServiceAssumption DEF Fresh
  <1>2. /\ inbox' \in [Calls -> Seq(Reports)]
        /\ dialog'[c] = "early"
        /\ Len(inbox'[c]) = Len(inbox[c]) + 1
        /\ inbox'[c][Len(inbox[c]) + 1] = "connecting"
        /\ \A d \in Calls \ {c} : inbox'[d] = inbox[d] /\ dialog'[d] = dialog[d]
    BY <1>1, ReportAdded DEF Reports, Live
  <1>3. dialog' \in [Calls -> {"none", "early", "streaming", "over"}]
    BY DEF TypeOK, Moves
  <1>4. Len(inbox[c]) = 0
    BY <1>1 DEF DialogOf, ReportsOf
  <1>5. ReportsOf(c)'
    BY <1>2, <1>4 DEF ReportsOf
  <1> QED BY <1>1, <1>2, <1>3, <1>5 DEF DialogOf

\* Dialogs that move forward while the book stays as it is.
LEMMA ForwardOnward ==
    ASSUME IInv, UNCHANGED book, NEW c \in Calls, dialog[c] # "over" \/ dialog'[c] = "over",
           dialog[c] = "none" \/ dialog'[c] # "none",
           \A d \in Calls \ {c} : dialog'[d] = dialog[d]
    PROVE  Onward
  BY DEF Onward, book, Tracked

\* A step of one coroutine that moves one dialog and not the book.
LEMMA DialogStep ==
    ASSUME IInv, Onward, UNCHANGED book, NEW c \in Calls, DialogOf(c)',
           dialog' \in [Calls -> {"none", "early", "streaming", "over"}],
           inbox' \in [Calls -> Seq(Reports)],
           \A d \in Calls \ {c} : inbox'[d] = inbox[d] /\ dialog'[d] = dialog[d],
           NEW r \in Requests, NEW rec \in Request, Become(r, rec),
           queue' \in Seq(Requests), inviting' \in Nat, InvitingInFlight',
           RequestOf(r)'
    PROVE  IInv'
  <1>1. TypeOK'
    BY BecomeRequest DEF IInv, TypeOK, BookTypeOK, book
  <1>2. \A d \in Calls : DialogOf(d)'
    BY SameDialog DEF IInv, book
  <1>3. \A q \in Requests : RequestOf(q)'
    BY OtherRequests
  <1> QED BY <1>1, <1>2, <1>3 DEF IInv

-----------------------------------------------------------------------------
(* The coroutines that only submit or wait.                                *)

LEMMA QueueAppend ==
    ASSUME TypeOK, NEW r \in Requests, queue' = Append(queue, r)
    PROVE  queue' \in Seq(Requests)
  BY DEF TypeOK

\* place_call() between two hangups: only calls of ours are hung up.
LEMMA PlaceOnRequest ==
    ASSUME IInv, NEW r \in Requests, request[r].cmd \notin Invites,
           NEW todo \in SUBSET Calls, NEW listed \in [Calls -> Entry], calls' = listed,
           UNCHANGED dialog, PlaceOn(r, todo, listed),
           \A c \in todo : listed[c].state # "absent" => dialog[c] # "none",
           \A c \in Inbound \cap todo :
              /\ dialog[c] # "none"
              /\ Up(c) => listed[c].state = "streaming" /\ listed[c].side = "incoming"
    PROVE  /\ \E rec \in Request : Become(r, rec)
           /\ queue' \in Seq(Requests)
           /\ inviting' \in Nat
           /\ InvitingInFlight'
           /\ RequestOf(r)'
  <1> DEFINE left == {c \in todo : listed[c].state # "absent" /\ listed[c].side = "outgoing"}
             closing(c, rest) == [op |-> "place", cmd |-> "hangup", at |-> "closing", call |-> c,
                                  monitors |-> rest, ok |-> FALSE]
             invite == [op |-> "place", cmd |-> "invite", at |-> "native", call |-> NoCall,
                        monitors |-> {}, ok |-> FALSE]
  <1>1. ASSUME NEW c \in left, NEW rest \in SUBSET todo, CloseLegFirst(r, "place", c, rest)
        PROVE  /\ \E rec \in Request : Become(r, rec)
               /\ queue' \in Seq(Requests)
               /\ inviting' \in Nat
               /\ InvitingInFlight'
               /\ RequestOf(r)'
    <2>1. closing(c, rest) \in Request
      BY DEF Request, Commands
    <2>2. Become(r, closing(c, rest)) /\ UNCHANGED <<queue, inviting>>
      BY <1>1 DEF CloseLegFirst
    <2>3. InFlight' = InFlight \ {r}
      BY <2>1, <2>2, BecomeInFlight DEF IInv, Invites
    <2>4. InFlight' = InFlight
      BY <2>3 DEF InFlight
    <2>5. InvitingInFlight' /\ inviting' \in Nat
      BY <2>2, <2>4, InvitingSame DEF IInv
    <2>6. request'[r] = closing(c, rest)
      BY <2>1, <2>2, BecomeRequest DEF IInv
    <2>7. dialog[c] # "none" /\ (c \in Inbound => dialog[c] = "over")
      BY DEF Up, IInv, TypeOK
    <2>8. RequestOf(r)'
      BY <2>6, <2>7 DEF RequestOf, Up, Invites
    <2> QED BY <2>1, <2>2, <2>5, <2>8 DEF IInv, TypeOK
  <1>2. CASE Submit(r, "place", "invite", NoCall, {}) /\ inviting' = inviting + 1
    <2>1. invite \in Request
      BY DEF Request, Commands
    <2>2. Become(r, invite) /\ queue' = Append(queue, r)
      BY <1>2 DEF Submit
    <2>3. InFlight' = InFlight \cup {r}
      BY <2>1, <2>2, BecomeInFlight DEF IInv, Invites
    <2>4. InvitingInFlight' /\ inviting' \in Nat
      BY <1>2, <2>3, InvitingUp DEF IInv
    <2>5. request'[r] = invite
      BY <2>1, <2>2, BecomeRequest DEF IInv
    <2>6. RequestOf(r)'
      BY <2>5 DEF RequestOf, Invites
    <2> QED BY <2>1, <2>2, <2>4, <2>6, QueueAppend DEF IInv
  <1>3. ASSUME NEW c \in left, NEW passed \in SUBSET (todo \ left),
               CloseLegFirst(r, "place", c, todo \ ({c} \cup passed))
        PROVE  \E rest \in SUBSET todo : CloseLegFirst(r, "place", c, rest)
    BY <1>3
  <1> QED BY <1>1, <1>2, <1>3 DEF PlaceOn

\* A visitor's dialog that is up and streams is listed as such; a listed one exists.
LEMMA ListedDialogs ==
    ASSUME IInv
    PROVE  /\ \A c \in Calls : Tracked(c) => dialog[c] # "none"
           /\ \A c \in Inbound : Up(c) /\ calls[c].state = "streaming"
                                    => calls[c].side = "incoming"
  <1>1. \A c \in Calls : DialogOf(c)
    BY DEF IInv
  <1>2. \A c \in Calls : Tracked(c) => dialog[c] # "none"
    BY <1>1 DEF DialogOf, ReportsOf
  <1>3. \A c \in Inbound : c \in Calls
    BY ServiceAssumption
  <1>4. \A c \in Inbound : Up(c) => VisitorOf(c)
    BY <1>1, <1>3 DEF DialogOf
  <1>5. \A c \in Inbound : Up(c) /\ calls[c].state = "streaming" => calls[c].side = "incoming"
    BY <1>4 DEF VisitorOf, Tracked
  <1> QED BY <1>2, <1>5

LEMMA IdleSubmits ==
    ASSUME IInv, NEW r \in Requests, request[r].at = "idle"
    PROVE  request[r].cmd = "none" /\ request[r].cmd \notin Invites
  BY DEF IInv, RequestOf, Invites

LEMMA PlaceCallStep ==
    ASSUME IInv, NEW r \in Requests, PlaceCall(r)
    PROVE  IInv'
  <1>1. UNCHANGED <<calls, rang, dialog, inbox>> /\ PlaceOn(r, Streaming, calls)
    BY DEF PlaceCall
  <1>2. request[r].cmd \notin Invites
    BY IdleSubmits DEF PlaceCall
  <1>3. Streaming \in SUBSET Calls /\ calls \in [Calls -> Entry]
    BY DEF Streaming, IInv, TypeOK, BookTypeOK
  <1>4. \A c \in Streaming : dialog[c] # "none"
    BY ListedDialogs DEF Streaming, Tracked
  <1>5. \A c \in Inbound \cap Streaming :
           /\ dialog[c] # "none"
           /\ Up(c) => calls[c].state = "streaming" /\ calls[c].side = "incoming"
    BY <1>4, ListedDialogs DEF Streaming
  <1>6. /\ \E rec \in Request : Become(r, rec)
        /\ queue' \in Seq(Requests)
        /\ inviting' \in Nat
        /\ InvitingInFlight'
        /\ RequestOf(r)'
    BY <1>1, <1>2, <1>3, <1>4, <1>5, PlaceOnRequest
  <1> QED BY <1>1, <1>6, CoroutineStep

\* A request that starts, or goes on to, an SDK call that is not an INVITE.
LEMMA SubmitStep ==
    ASSUME IInv, NEW r \in Requests, NEW rec \in Request, Become(r, rec),
           request[r].cmd \notin Invites, rec.cmd \notin Invites,
           UNCHANGED <<calls, rang, dialog, inbox, inviting>>,
           queue' = queue \/ queue' = Append(queue, r),
           RequestOf(r)'
    PROVE  IInv'
  <1>1. InFlight' = InFlight
    BY BecomeInFlight DEF IInv, InFlight
  <1>2. InvitingInFlight' /\ inviting' \in Nat
    BY <1>1, InvitingSame DEF IInv
  <1>3. queue' \in Seq(Requests)
    BY QueueAppend DEF IInv, TypeOK
  <1> QED BY <1>2, <1>3, CoroutineStep

LEMMA HangupStep ==
    ASSUME IInv, NEW r \in Requests, NEW c \in Calls, Hangup(r, c)
    PROVE  IInv'
  <1> DEFINE rec == [op |-> "hangup", cmd |-> "hangup", at |-> "closing", call |-> c,
                     monitors |-> {}, ok |-> FALSE]
  <1>1. rec \in Request /\ rec.cmd \notin Invites
    BY DEF Request, Commands, Invites
  <1>2. Become(r, rec) /\ UNCHANGED <<calls, rang, dialog, inbox, queue, inviting>>
    BY DEF Hangup, CloseLegFirst
  <1>3. request'[r] = rec
    BY <1>1, <1>2, BecomeRequest DEF IInv
  <1>4. dialog[c] # "none"
    BY ListedDialogs DEF Hangup
  <1>5. RequestOf(r)'
    BY <1>2, <1>3, <1>4 DEF RequestOf, Invites
  <1>6. request[r].cmd \notin Invites
    BY IdleSubmits DEF Hangup
  <1> QED BY <1>1, <1>2, <1>5, <1>6, SubmitStep

LEMMA AnswerStep ==
    ASSUME IInv, NEW r \in Requests, NEW c \in Calls, Answer(r, c)
    PROVE  IInv'
  <1> DEFINE rec == [op |-> "answer", cmd |-> "answer", at |-> "native", call |-> c,
                     monitors |-> {}, ok |-> FALSE]
  <1>1. rec \in Request /\ rec.cmd \notin Invites
    BY DEF Request, Commands, Invites
  <1>2. /\ Become(r, rec)
        /\ queue' = Append(queue, r)
        /\ UNCHANGED <<calls, rang, dialog, inbox, inviting>>
    BY DEF Answer, Submit
  <1>3. request'[r] = rec
    BY <1>1, <1>2, BecomeRequest DEF IInv
  <1>4. dialog[c] # "none" /\ Tracked(c)
    BY ListedDialogs DEF Answer
  <1>5. RequestOf(r)'
    BY <1>2, <1>3, <1>4 DEF RequestOf, Invites, Tracked
  <1>6. request[r].cmd \notin Invites
    BY IdleSubmits DEF Answer
  <1> QED BY <1>1, <1>2, <1>5, <1>6, SubmitStep

LEMMA OpenStep ==
    ASSUME IInv, NEW r \in Requests, Open(r)
    PROVE  IInv'
  <1> DEFINE during(c) == [op |-> "open", cmd |-> "open_during", at |-> "native",
                           call |-> c, monitors |-> {}, ok |-> FALSE]
             demand == [op |-> "open", cmd |-> "open_on_demand", at |-> "native",
                        call |-> NoCall, monitors |-> {}, ok |-> FALSE]
  <1>1. request[r].cmd \notin Invites /\ UNCHANGED <<calls, rang, dialog, inbox>>
    BY IdleSubmits DEF Open
  <1>2. ASSUME NEW c \in Calls,
               Submit(r, "open", "open_during", c, {}),
               UNCHANGED inviting
        PROVE  IInv'
    <2>1. Become(r, during(c)) /\ queue' = Append(queue, r)
      BY <1>2 DEF Submit
    <2>2. during(c) \in Request /\ during(c).cmd \notin Invites
      BY DEF Request, Commands, Invites
    <2>3. request'[r] = during(c)
      BY <2>1, <2>2, BecomeRequest DEF IInv
    <2>4. RequestOf(r)'
      BY <2>3 DEF RequestOf, Invites
    <2> QED BY <1>1, <1>2, <2>1, <2>2, <2>4, SubmitStep
  <1>3. CASE /\ Submit(r, "open", "open_on_demand", NoCall, {})
             /\ inviting' = inviting + 1
    <2>1. demand \in Request /\ demand.cmd \in Invites
      BY DEF Request, Commands, Invites
    <2>2. Become(r, demand) /\ queue' = Append(queue, r)
      BY <1>3 DEF Submit
    <2>3. InFlight' = InFlight \cup {r}
      BY <2>1, <2>2, BecomeInFlight DEF IInv
    <2>4. InvitingInFlight' /\ inviting' \in Nat
      BY <1>1, <1>3, <2>3, InvitingUp DEF IInv
    <2>5. request'[r] = demand
      BY <2>1, <2>2, BecomeRequest DEF IInv
    <2>6. RequestOf(r)'
      BY <2>5 DEF RequestOf, Invites
    <2>7. queue' \in Seq(Requests)
      BY <2>2, QueueAppend DEF IInv
    <2> QED BY <1>1, <2>1, <2>2, <2>4, <2>6, <2>7, CoroutineStep
  <1> QED BY <1>2, <1>3 DEF Open

LEMMA LegClosedStep ==
    ASSUME IInv, NEW r \in Requests, LegClosed(r)
    PROVE  IInv'
  <1> DEFINE q == request[r]
             rec == [op |-> q.op, cmd |-> "hangup", at |-> "native", call |-> q.call,
                     monitors |-> q.monitors, ok |-> FALSE]
  <1>1. q \in Request /\ q.at = "closing" /\ q.cmd = "hangup" /\ RequestOf(r)
    BY DEF LegClosed, IInv, TypeOK, RequestOf
  <1>2. rec \in Request /\ rec.cmd \notin Invites /\ q.cmd \notin Invites
    BY <1>1 DEF Request, Commands, Invites
  <1>3. /\ Become(r, rec)
        /\ queue' = Append(queue, r)
        /\ UNCHANGED <<calls, rang, dialog, inbox, inviting>>
    BY DEF LegClosed, Submit
  <1>4. request'[r] = rec
    BY <1>2, <1>3, BecomeRequest DEF IInv
  <1>5. RequestOf(r)'
    BY <1>1, <1>3, <1>4 DEF RequestOf, Invites, Up
  <1> QED BY <1>2, <1>3, <1>5, SubmitStep

-----------------------------------------------------------------------------
(* The worker thread.                                                      *)

\* A coroutine whose command is the same: the INVITEs in flight do not change.
LEMMA SameCommand ==
    ASSUME IInv, NEW r \in Requests, NEW rec \in Request, Become(r, rec),
           rec.cmd = request[r].cmd, UNCHANGED inviting
    PROVE  InvitingInFlight' /\ inviting' \in Nat
  <1>1. InFlight' = InFlight
    BY BecomeInFlight DEF IInv, InFlight
  <1> QED BY <1>1, InvitingSame DEF IInv

\* What the end of an SDK call owes the invariant, apart from what the call did.
LEMMA ReturnsRequest ==
    ASSUME IInv, Onward, UNCHANGED book, NEW r \in Requests, NEW ok \in BOOLEAN,
           queue # <<>>, Returns(r, ok),
           request[r].at \in {"native", "dialled", "streamed"},
           request[r].cmd = "hangup" /\ ok => dialog'[request[r].call] = "over",
           request[r].cmd = "invite" /\ ok => request[r].call \in Outbound
    PROVE  /\ \E rec \in Request : Become(r, rec)
           /\ queue' \in Seq(Requests)
           /\ inviting' \in Nat
           /\ InvitingInFlight'
           /\ RequestOf(r)'
  <1> DEFINE q == request[r]
             rec == [q EXCEPT !.at = "returned", !.ok = ok]
  <1>1. q \in Request /\ RequestOf(r)
    BY DEF IInv, TypeOK
  <1>2. rec \in Request /\ rec.cmd = q.cmd
    BY <1>1 DEF Request
  <1>3. Become(r, rec) /\ queue' = Tail(queue) /\ UNCHANGED inviting
    BY DEF Returns
  <1>4. queue' \in Seq(Requests)
    BY <1>3 DEF IInv, TypeOK
  <1>5. InvitingInFlight' /\ inviting' \in Nat
    BY <1>2, <1>3, SameCommand
  <1>6. request'[r] = rec
    BY <1>2, <1>3, BecomeRequest DEF IInv
  <1>7. /\ rec.op = q.op /\ rec.call = q.call /\ rec.monitors = q.monitors
        /\ rec.at = "returned" /\ rec.ok = ok
    BY <1>1 DEF Request
  <1>8. \A c \in Calls : Up(c)' /\ dialog[c] # "none" => Up(c)
    BY DEF Onward, Up, IInv, TypeOK
  <1>9. RequestOf(r)'
    BY <1>1, <1>2, <1>6, <1>7, <1>8, ServiceAssumption
    DEF RequestOf, Onward, Invites
  <1> QED BY <1>2, <1>3, <1>4, <1>5, <1>9

\* An SDK call ends without having moved a dialog.
LEMMA QuietReturn ==
    ASSUME IInv, NEW r \in Requests, NEW ok \in BOOLEAN, queue # <<>>, Returns(r, ok),
           UNCHANGED sip,
           request[r].at \in {"native", "dialled", "streamed"},
           request[r].cmd = "hangup" => ~ok,
           request[r].cmd = "invite" /\ ok => request[r].call \in Outbound
    PROVE  IInv'
  <1>1. UNCHANGED <<calls, rang, dialog, inbox>> /\ UNCHANGED book
    BY DEF Returns, sip, book
  <1> QED BY <1>1, StillOnward, ReturnsRequest, CoroutineStep

\* An SDK call ends and releases the dialog it named.
LEMMA EndingReturn ==
    ASSUME IInv, NEW r \in Requests, NEW ok \in BOOLEAN, queue # <<>>, Returns(r, ok),
           NEW c \in Calls, c = request[r].call, dialog[c] # "none", Ends(c),
           request[r].at \in {"native", "dialled", "streamed"},
           request[r].cmd = "invite" => ~ok
    PROVE  IInv'
  <1>1. UNCHANGED book
    BY DEF Returns, book
  <1>2. DialogOf(c) /\ TypeOK
    BY DEF IInv
  <1>3. /\ dialog' \in [Calls -> {"none", "early", "streaming", "over"}]
        /\ inbox' \in [Calls -> Seq(Reports)]
        /\ DialogOf(c)'
        /\ Up(c) => dialog'[c] = "over"
        /\ ~Up(c) => dialog'[c] = dialog[c]
        /\ \A d \in Calls \ {c} : inbox'[d] = inbox[d] /\ dialog'[d] = dialog[d]
    BY <1>1, <1>2, EndsDialog
  <1>4. dialog'[c] = "over"
    BY <1>2, <1>3 DEF Up, TypeOK
  <1>5. Onward
    BY <1>1, <1>3, <1>4, ForwardOnward
  <1>6. /\ \E rec \in Request : Become(r, rec)
        /\ queue' \in Seq(Requests)
        /\ inviting' \in Nat
        /\ InvitingInFlight'
        /\ RequestOf(r)'
    BY <1>1, <1>4, <1>5, ReturnsRequest
  <1> QED BY <1>1, <1>3, <1>5, <1>6, DialogStep

LEMMA InviteCall ==
    ASSUME IInv, NEW r \in Requests, request[r].cmd \in Invites,
           request[r].at \in {"dialled", "streamed"}
    PROVE  request[r].call \in Outbound /\ request[r].call \in Calls
  BY ServiceAssumption DEF IInv, RequestOf

LEMMA ViewReturnsStep ==
    ASSUME IInv, NEW r \in Requests, ViewReturns(r)
    PROVE  IInv'
  BY QuietReturn, InviteCall DEF ViewReturns, Running, Invites

LEMMA NativeOpenDuringStep ==
    ASSUME IInv, NEW r \in Requests, NativeOpenDuring(r)
    PROVE  IInv'
  BY QuietReturn DEF NativeOpenDuring, Running

LEMMA NativeHangupStep ==
    ASSUME IInv, NEW r \in Requests, NativeHangup(r)
    PROVE  IInv'
  <1>1. request[r].call \in Calls /\ dialog[request[r].call] # "none"
    BY DEF IInv, RequestOf, NativeHangup, Running
  <1>2. CASE Ends(request[r].call) /\ Returns(r, TRUE)
    BY <1>1, <1>2, EndingReturn DEF NativeHangup, Running
  <1>3. CASE UNCHANGED sip /\ Returns(r, FALSE)
    BY <1>3, QuietReturn DEF NativeHangup, Running
  <1> QED BY <1>2, <1>3 DEF NativeHangup

LEMMA OnDemandReturnsStep ==
    ASSUME IInv, NEW r \in Requests, OnDemandReturns(r)
    PROVE  IInv'
  <1>1. PICK at \in {"dialled", "streamed"}, ok \in BOOLEAN :
           /\ Running(r, "open_on_demand", at)
           /\ Ends(request[r].call)
           /\ Returns(r, ok)
    BY DEF OnDemandReturns
  <1>2. request[r].call \in Calls
    BY <1>1, InviteCall DEF Running, Invites
  <1>3. dialog[request[r].call] # "none"
    BY <1>1 DEF IInv, RequestOf, Running, Invites
  <1> QED BY <1>1, <1>2, <1>3, EndingReturn DEF Running

LEMMA InviteFailsStep ==
    ASSUME IInv, NEW r \in Requests, InviteFails(r)
    PROVE  IInv'
  <1>1. ASSUME NEW cmd \in Invites, Running(r, cmd, "native"), Returns(r, FALSE), UNCHANGED sip
        PROVE  IInv'
    BY <1>1, QuietReturn DEF Running, Invites
  <1>2. CASE Running(r, "invite", "dialled") /\ Ends(request[r].call) /\ Returns(r, FALSE)
    <2>1. request[r].call \in Calls
      BY <1>2, InviteCall DEF Running, Invites
    <2>2. dialog[request[r].call] # "none"
      BY <1>2 DEF IInv, RequestOf, Running, Invites
    <2> QED BY <1>2, <2>1, <2>2, EndingReturn DEF Running
  <1> QED BY <1>1, <1>2 DEF InviteFails

LEMMA NativeAnswerStep ==
    ASSUME IInv, NEW r \in Requests, NativeAnswer(r)
    PROVE  IInv'
  <1>1. request[r].at = "native" /\ request[r].cmd = "answer" /\ queue # <<>>
    BY DEF NativeAnswer, Running
  <1>2. PICK c \in Calls : c = request[r].call
    BY <1>1 DEF IInv, RequestOf
  <1>3. Up(c) => Tracked(c)
    BY <1>1, <1>2 DEF IInv, RequestOf
  <1>4. CASE /\ dialog[c] = "early"
             /\ Moves(c, "streaming")
             /\ Report(c, "streaming")
             /\ Returns(r, TRUE)
    <2>1. UNCHANGED book /\ TypeOK /\ DialogOf(c)
      BY <1>4 DEF Returns, book, IInv
    <2>2. /\ dialog' \in [Calls -> {"none", "early", "streaming", "over"}]
          /\ inbox' \in [Calls -> Seq(Reports)]
          /\ DialogOf(c)'
          /\ \A d \in Calls \ {c} : inbox'[d] = inbox[d] /\ dialog'[d] = dialog[d]
      BY <1>3, <1>4, <2>1, StreamsDialog DEF Up
    <2>3. dialog'[c] = "streaming"
      BY <1>4, <2>1 DEF Moves, TypeOK
    <2>4. Onward
      BY <1>4, <2>1, <2>2, <2>3, ForwardOnward
    <2>5. /\ \E rec \in Request : Become(r, rec)
          /\ queue' \in Seq(Requests)
          /\ inviting' \in Nat
          /\ InvitingInFlight'
          /\ RequestOf(r)'
      BY <1>1, <1>4, <2>1, <2>4, ReturnsRequest
    <2> QED BY <2>1, <2>2, <2>4, <2>5, DialogStep
  <1>5. CASE UNCHANGED sip /\ Returns(r, FALSE)
    BY <1>1, <1>5, QuietReturn
  <1> QED BY <1>2, <1>4, <1>5 DEF NativeAnswer

\* An INVITE on the worker goes one stage further.
LEMMA AdvancesRequest ==
    ASSUME IInv, Onward, NEW r \in Requests, NEW c \in Outbound,
           NEW at \in {"dialled", "streamed"}, request[r].cmd \in Invites,
           request[r].at \in {"native", "dialled"},
           dialog'[c] # "none", Advances(r, c, at)
    PROVE  /\ \E rec \in Request : Become(r, rec)
           /\ UNCHANGED book
           /\ queue' \in Seq(Requests)
           /\ inviting' \in Nat
           /\ InvitingInFlight'
           /\ RequestOf(r)'
  <1> DEFINE q == request[r]
             rec == [q EXCEPT !.at = at, !.call = c]
  <1>1. q \in Request /\ RequestOf(r) /\ c \in Calls
    BY ServiceAssumption DEF IInv, TypeOK
  <1>2. rec \in Request /\ rec.cmd = q.cmd
    BY <1>1 DEF Request
  <1>3. Become(r, rec) /\ UNCHANGED <<book, queue, inviting>>
    BY DEF Advances, book
  <1>4. InvitingInFlight' /\ inviting' \in Nat
    BY <1>2, <1>3, SameCommand
  <1>5. request'[r] = rec
    BY <1>2, <1>3, BecomeRequest DEF IInv
  <1>6. /\ rec.op = q.op /\ rec.call = c /\ rec.monitors = q.monitors /\ rec.at = at
    BY <1>1 DEF Request
  <1>7. \A d \in Calls : Up(d)' /\ dialog[d] # "none" => Up(d)
    BY DEF Onward, Up, IInv, TypeOK
  <1>8. RequestOf(r)'
    BY <1>1, <1>2, <1>5, <1>6, <1>7, ServiceAssumption DEF RequestOf, Onward, Invites
  <1> QED BY <1>2, <1>3, <1>4, <1>8 DEF IInv, TypeOK

LEMMA DialsStep ==
    ASSUME IInv, NEW r \in Requests, Dials(r)
    PROVE  IInv'
  <1>1. PICK cmd \in Invites, c \in Fresh :
           /\ Running(r, cmd, "native")
           /\ Moves(c, "early")
           /\ Report(c, "connecting")
           /\ Advances(r, c, "dialled")
    BY DEF Dials
  <1>2. c \in Outbound /\ c \in Calls /\ dialog[c] = "none" /\ TypeOK /\ DialogOf(c)
    BY ServiceAssumption DEF Fresh, IInv
  <1>3. UNCHANGED book
    BY <1>1 DEF Advances, book
  <1>4. /\ dialog' \in [Calls -> {"none", "early", "streaming", "over"}]
        /\ inbox' \in [Calls -> Seq(Reports)]
        /\ DialogOf(c)'
        /\ \A d \in Calls \ {c} : inbox'[d] = inbox[d] /\ dialog'[d] = dialog[d]
    BY <1>1, <1>2, <1>3, DialsDialog
  <1>5. dialog'[c] = "early"
    BY <1>1, <1>2 DEF Moves, TypeOK
  <1>6. Onward
    BY <1>2, <1>3, <1>4, <1>5, ForwardOnward
  <1>7. /\ \E rec \in Request : Become(r, rec)
        /\ queue' \in Seq(Requests)
        /\ inviting' \in Nat
        /\ InvitingInFlight'
        /\ RequestOf(r)'
    BY <1>1, <1>2, <1>5, <1>6, AdvancesRequest DEF Running
  <1> QED BY <1>2, <1>3, <1>4, <1>6, <1>7, DialogStep

LEMMA StreamsStep ==
    ASSUME IInv, NEW r \in Requests, Streams(r)
    PROVE  IInv'
  <1>1. PICK cmd \in Invites : Running(r, cmd, "dialled")
    BY DEF Streams
  <1>2. PICK c \in Outbound : c = request[r].call
    BY <1>1, InviteCall DEF Running
  <1>3. /\ dialog[c] = "early"
        /\ Moves(c, "streaming")
        /\ Report(c, "streaming")
        /\ Advances(r, c, "streamed")
    BY <1>2 DEF Streams
  <1>4. c \in Calls /\ TypeOK /\ DialogOf(c) /\ UNCHANGED book
    BY <1>3, ServiceAssumption DEF IInv, Advances, book
  <1>5. /\ dialog' \in [Calls -> {"none", "early", "streaming", "over"}]
        /\ inbox' \in [Calls -> Seq(Reports)]
        /\ DialogOf(c)'
        /\ \A d \in Calls \ {c} : inbox'[d] = inbox[d] /\ dialog'[d] = dialog[d]
    BY <1>3, <1>4, StreamsDialog
  <1>6. dialog'[c] = "streaming"
    BY <1>3, <1>4 DEF Moves, TypeOK
  <1>7. Onward
    BY <1>3, <1>4, <1>5, <1>6, ForwardOnward
  <1>8. /\ \E rec \in Request : Become(r, rec)
        /\ queue' \in Seq(Requests)
        /\ inviting' \in Nat
        /\ InvitingInFlight'
        /\ RequestOf(r)'
    BY <1>1, <1>3, <1>6, <1>7, AdvancesRequest DEF Running
  <1> QED BY <1>4, <1>5, <1>7, <1>8, DialogStep

-----------------------------------------------------------------------------
(* The far end, and the callbacks.                                         *)

\* A step no coroutine takes.
LEMMA OutsideStep ==
    ASSUME IInv, Onward, UNCHANGED <<queue, request, inviting>>, BookTypeOK',
           dialog' \in [Calls -> {"none", "early", "streaming", "over"}],
           inbox' \in [Calls -> Seq(Reports)],
           NEW c \in Calls, DialogOf(c)',
           \A d \in Calls \ {c} : /\ inbox'[d] = inbox[d] /\ dialog'[d] = dialog[d]
                                  /\ calls'[d].state = calls[d].state
                                  /\ calls'[d].side = calls[d].side
                                  /\ d \in rang' <=> d \in rang
    PROVE  IInv'
  <1>1. TypeOK'
    BY DEF IInv, TypeOK
  <1>2. InvitingInFlight'
    BY DEF IInv, InvitingInFlight, InFlight
  <1>3. \A d \in Calls : DialogOf(d)'
    BY SameDialog DEF IInv
  <1>4. \A q \in Requests : RequestOf(q)'
    BY SameRequest DEF IInv
  <1> QED BY <1>1, <1>2, <1>3, <1>4 DEF IInv

LEMMA FarEndsStep ==
    ASSUME IInv, NEW c \in Calls, FarEnds(c)
    PROVE  IInv'
  <1>1. Up(c) /\ UNCHANGED book /\ TypeOK /\ DialogOf(c) /\ Ends(c)
    BY DEF FarEnds, book, IInv
  <1>2. /\ dialog' \in [Calls -> {"none", "early", "streaming", "over"}]
        /\ inbox' \in [Calls -> Seq(Reports)]
        /\ DialogOf(c)'
        /\ dialog'[c] = "over"
        /\ \A d \in Calls \ {c} : inbox'[d] = inbox[d] /\ dialog'[d] = dialog[d]
    BY <1>1, EndsDialog
  <1>3. Onward
    BY <1>1, <1>2, ForwardOnward
  <1>4. BookTypeOK'
    BY <1>1 DEF book, TypeOK, BookTypeOK
  <1> QED BY <1>1, <1>2, <1>3, <1>4, OutsideStep DEF FarEnds, book

LEMMA RingsStep ==
    ASSUME IInv, NEW c \in Calls, Rings(c)
    PROVE  IInv'
  <1>1. PICK first \in {<<"ring", "ringing">>, <<"ringing", "ring">>} :
           inbox' = [inbox EXCEPT ![c] = first]
    BY DEF Rings
  <1>2. /\ c \in Inbound /\ dialog[c] = "none" /\ Moves(c, "early")
        /\ UNCHANGED <<calls, rang, queue, request, inviting>>
        /\ TypeOK /\ DialogOf(c)
    BY DEF Rings, IInv
  <1>3. first \in Seq(Reports) /\ Len(first) = 2 /\ \A i \in 1..2 : first[i] # "over"
    BY DEF Reports, Live
  <1>4. /\ inbox' \in [Calls -> Seq(Reports)]
        /\ inbox'[c] = first
        /\ \A d \in Calls \ {c} : inbox'[d] = inbox[d]
    BY <1>1, <1>2, <1>3 DEF TypeOK
  <1>5. /\ dialog' \in [Calls -> {"none", "early", "streaming", "over"}]
        /\ dialog'[c] = "early"
        /\ \A d \in Calls \ {c} : dialog'[d] = dialog[d]
    BY <1>2 DEF TypeOK, Moves
  <1>6. ~Tracked(c) /\ c \notin rang
    BY <1>2 DEF DialogOf, ReportsOf
  <1>7. ReportsOf(c)'
    BY <1>3, <1>4, <1>5 DEF ReportsOf
  <1>8. VisitorOf(c)'
    BY <1>2, <1>4, <1>5, <1>6 DEF VisitorOf, Tracked
  <1>9. DialogOf(c)' /\ BookTypeOK' /\ Onward
    BY <1>2, <1>5, <1>7, <1>8, ForwardOnward DEF DialogOf, book, TypeOK, BookTypeOK
  <1> QED BY <1>2, <1>4, <1>5, <1>9, OutsideStep

\* A callback takes the first report.
LEMMA FirstReportTaken ==
    ASSUME TypeOK, NEW c \in Calls, inbox[c] # <<>>, Arrives(c)
    PROVE  /\ inbox' \in [Calls -> Seq(Reports)]
           /\ inbox'[c] = Tail(inbox[c])
           /\ Len(inbox[c]) \in Nat \ {0}
           /\ Len(inbox'[c]) = Len(inbox[c]) - 1
           /\ \A i \in 1..Len(inbox'[c]) : inbox'[c][i] = inbox[c][i + 1]
           /\ \A d \in Calls \ {c} : inbox'[d] = inbox[d]
           /\ Head(inbox[c]) = inbox[c][1]
           /\ Head(inbox[c]) \in Reports
  <1>1. inbox[c] \in Seq(Reports)
    BY DEF TypeOK
  <1>2. inbox'[c] = Tail(inbox[c]) /\ \A d \in Calls \ {c} : inbox'[d] = inbox[d]
    BY DEF TypeOK, Arrives
  <1>3. inbox' \in [Calls -> Seq(Reports)]
    BY <1>1 DEF TypeOK, Arrives
  <1>4. /\ Len(inbox[c]) \in Nat \ {0}
        /\ Len(inbox'[c]) = Len(inbox[c]) - 1
        /\ \A i \in 1..Len(inbox'[c]) : inbox'[c][i] = inbox[c][i + 1]
        /\ Head(inbox[c]) = inbox[c][1]
        /\ Head(inbox[c]) \in Reports
    BY <1>1, <1>2
  <1> QED BY <1>2, <1>3, <1>4

LEMMA RingArrivedStep ==
    ASSUME IInv, NEW c \in Calls, RingArrived(c)
    PROVE  IInv'
  <1>1. /\ inbox[c] # <<>> /\ Head(inbox[c]) = "ring" /\ MarkIncoming(c) /\ Arrives(c)
        /\ UNCHANGED <<dialog, queue, request, inviting>>
        /\ TypeOK /\ BookTypeOK /\ DialogOf(c)
    BY DEF RingArrived, IInv, TypeOK
  <1>2. /\ BookTypeOK'
        /\ rang' = rang \cup {c}
        /\ Tracked(c)' <=> Tracked(c)
        /\ calls'[c].state = calls[c].state
        /\ Tracked(c) => calls'[c].side = "incoming"
        /\ \A d \in Calls \ {c} : calls'[d] = calls[d]
    BY <1>1, MarkIncomingBook
  <1>3. /\ inbox' \in [Calls -> Seq(Reports)]
        /\ inbox'[c] = Tail(inbox[c])
        /\ Len(inbox[c]) \in Nat \ {0}
        /\ Len(inbox'[c]) = Len(inbox[c]) - 1
        /\ \A i \in 1..Len(inbox'[c]) : inbox'[c][i] = inbox[c][i + 1]
        /\ \A d \in Calls \ {c} : inbox'[d] = inbox[d]
        /\ inbox[c][1] = "ring"
    BY <1>1, FirstReportTaken
  <1>4. ReportsOf(c)'
    BY <1>1, <1>2, <1>3 DEF DialogOf, ReportsOf
  <1>5. ASSUME c \in Inbound, Up(c) PROVE VisitorOf(c)'
    <2>1. VisitorOf(c)
      BY <1>1, <1>5 DEF DialogOf
    <2>2. CASE ~Tracked(c) /\ inbox[c] = <<"ring", "ringing">> /\ dialog[c] = "early"
      <3>1. inbox'[c] = <<"ringing">>
        BY <1>3, <2>2
      <3> QED BY <1>1, <1>2, <2>2, <3>1 DEF VisitorOf
    <2>3. CASE Tracked(c) /\ inbox[c] = <<"ring">>
      <3>1. inbox'[c] = <<>>
        BY <1>3, <2>3
      <3> QED BY <1>2, <2>3, <3>1 DEF VisitorOf
    <2>4. CASE Tracked(c) /\ inbox[c] = <<"ring", "streaming">> /\ dialog[c] = "streaming"
      <3>1. inbox'[c] = <<"streaming">>
        BY <1>3, <2>4
      <3> QED BY <1>1, <1>2, <2>4, <3>1 DEF VisitorOf
    <2>5. inbox[c] \notin {<<>>, <<"ringing", "ring">>, <<"ringing">>, <<"streaming">>}
      <3>1. <<"ringing", "ring">>[1] = "ringing" /\ <<"ringing">>[1] = "ringing"
        OBVIOUS
      <3>2. <<"streaming">>[1] = "streaming" /\ Len(<<>>) = 0
        OBVIOUS
      <3> QED BY <1>3, <3>1, <3>2
    <2>6. \/ ~Tracked(c) /\ dialog[c] = "early" /\ inbox[c] = <<"ring", "ringing">>
          \/ Tracked(c) /\ inbox[c] = <<"ring">>
          \/ Tracked(c) /\ inbox[c] = <<"ring", "streaming">> /\ dialog[c] = "streaming"
      BY <2>1, <2>5, Zenon DEF VisitorOf
    <2> QED BY <2>2, <2>3, <2>4, <2>6
  <1>6. DialogOf(c)'
    BY <1>1, <1>4, <1>5 DEF DialogOf, Up
  <1>7. Onward
    BY <1>1, <1>2 DEF Onward, Up, Tracked
  <1>8. dialog' \in [Calls -> {"none", "early", "streaming", "over"}]
    BY <1>1 DEF TypeOK
  <1> QED BY <1>1, <1>2, <1>3, <1>6, <1>7, <1>8, OutsideStep

\* The three places a visitor's dialog can be in when a state of it reaches the loop.
LEMMA VisitorReports ==
    ASSUME NEW c \in Calls, VisitorOf(c), inbox[c] # <<>>, Head(inbox[c]) # "ring"
    PROVE  \/ ~Tracked(c) /\ inbox[c] = <<"ringing", "ring">> /\ c \notin rang
           \/ ~Tracked(c) /\ inbox[c] = <<"ringing">> /\ c \in rang
           \/ /\ Tracked(c) /\ inbox[c] = <<"streaming">> /\ c \in rang
              /\ dialog[c] = "streaming"
  <1>1. Head(<<"ring", "ringing">>) = "ring" /\ Head(<<"ring">>) = "ring"
    OBVIOUS
  <1>2. Head(<<"ring", "streaming">>) = "ring"
    OBVIOUS
  <1>3. inbox[c] \notin {<<>>, <<"ring", "ringing">>, <<"ring">>, <<"ring", "streaming">>}
    BY <1>1, <1>2
  <1> QED BY <1>3, Zenon DEF VisitorOf

LEMMA CallStateArrivedStep ==
    ASSUME IInv, NEW c \in Calls, CallStateArrived(c)
    PROVE  IInv'
  <1>1. /\ inbox[c] # <<>> /\ Head(inbox[c]) # "ring" /\ Arrives(c)
        /\ UNCHANGED <<dialog, queue, request, inviting>>
        /\ TypeOK /\ BookTypeOK /\ DialogOf(c)
    BY DEF CallStateArrived, IInv, TypeOK
  <1>2. /\ inbox' \in [Calls -> Seq(Reports)]
        /\ inbox'[c] = Tail(inbox[c])
        /\ Len(inbox[c]) \in Nat \ {0}
        /\ Len(inbox'[c]) = Len(inbox[c]) - 1
        /\ \A i \in 1..Len(inbox'[c]) : inbox'[c][i] = inbox[c][i + 1]
        /\ \A d \in Calls \ {c} : inbox'[d] = inbox[d]
        /\ Head(inbox[c]) = inbox[c][1]
        /\ Head(inbox[c]) \in Reports
    BY <1>1, FirstReportTaken
  <1>3. dialog' \in [Calls -> {"none", "early", "streaming", "over"}]
    BY <1>1 DEF TypeOK
  <1>4. CASE Head(inbox[c]) = "over"
    <2>1. Forget(c)
      BY <1>4 DEF CallStateArrived
    <2>2. /\ BookTypeOK'
          /\ rang' = rang \ {c}
          /\ ~Tracked(c)'
          /\ \A d \in Calls \ {c} : /\ calls'[d].state = calls[d].state
                                    /\ calls'[d].side = calls[d].side
      BY <1>1, <2>1, ForgetBook
    <2>3. dialog[c] = "over" /\ Len(inbox[c]) = 1
      <3> DEFINE n == Len(inbox[c])
      <3>1. n \in Nat \ {0} /\ inbox[c][1] = "over"
        BY <1>2, <1>4
      <3>2. dialog[c] # "over" => \A i \in 1..n : inbox[c][i] # "over"
        BY <1>1 DEF DialogOf, ReportsOf
      <3>3. dialog[c] = "over"
        BY <3>1, <3>2
      <3>4. \A i \in 1..n-1 : inbox[c][i] # "over"
        BY <1>1, <3>1, <3>3 DEF DialogOf, ReportsOf
      <3>5. 1 \notin 1..n-1
        BY <3>1, <3>4
      <3>6. ASSUME NEW k \in Nat \ {0}, 1 \notin 1..k-1 PROVE k = 1
        BY <3>6
      <3>7. n = 1
        BY <3>1, <3>5, <3>6
      <3> QED BY <3>3, <3>7
    <2>4. DialogOf(c)'
      BY <1>1, <1>2, <2>2, <2>3 DEF DialogOf, ReportsOf, Up
    <2>5. Onward
      BY <1>1, <2>2, <2>3 DEF Onward, Up, Tracked
    <2> QED BY <1>1, <1>2, <1>3, <2>2, <2>4, <2>5, OutsideStep
  <1>5. CASE Head(inbox[c]) # "over"
    <2> DEFINE s == inbox[c][1]
    <2>1. s \in Live
      BY <1>1, <1>2, <1>5 DEF Reports
    <2>2. Record(c, s, Guess) /\ Guess \in Sides
      BY <1>2, <1>5 DEF CallStateArrived, Guess, Sides
    <2>3. /\ BookTypeOK'
          /\ rang' = rang
          /\ Tracked(c)'
          /\ calls'[c].state = s
          /\ calls'[c].side = SideOf(c, Guess)
          /\ \A d \in Calls \ {c} : calls'[d] = calls[d]
      <3>1. ASSUME NEW st \in Live, NEW g \in Sides, Record(c, st, g)
            PROVE  /\ BookTypeOK'
                   /\ rang' = rang
                   /\ Tracked(c)'
                   /\ calls'[c].state = st
                   /\ calls'[c].side = SideOf(c, g)
                   /\ \A d \in Calls \ {c} : calls'[d] = calls[d]
        BY <1>1, <3>1, RecordBook
      <3> QED BY <2>1, <2>2, <3>1
    <2>4. ReportsOf(c)'
      BY <1>1, <1>2, <1>5, <2>3 DEF DialogOf, ReportsOf
    <2>5. ASSUME c \in Inbound, Up(c)
          PROVE  VisitorOf(c)' /\ (calls[c].state = "streaming" => s = "streaming")
      <3>1. VisitorOf(c)
        BY <1>1, <2>5 DEF DialogOf
      <3>2. CASE ~Tracked(c) /\ inbox[c] = <<"ringing", "ring">> /\ c \notin rang
        <4>1. inbox'[c] = <<"ring">> /\ s = "ringing"
          BY <1>2, <3>2
        <4> QED BY <2>3, <3>2, <4>1 DEF VisitorOf, Tracked
      <3>3. CASE ~Tracked(c) /\ inbox[c] = <<"ringing">> /\ c \in rang
        <4>1. inbox'[c] = <<>> /\ SideOf(c, Guess) = "incoming"
          BY <1>2, <3>3 DEF SideOf
        <4> QED BY <2>3, <3>3, <4>1 DEF VisitorOf, Tracked
      <3>4. CASE Tracked(c) /\ inbox[c] = <<"streaming">> /\ c \in rang
        <4>1. inbox'[c] = <<>> /\ SideOf(c, Guess) = "incoming" /\ s = "streaming"
          BY <1>2, <3>4 DEF SideOf
        <4> QED BY <2>3, <3>4, <4>1 DEF VisitorOf, Tracked
      <3> QED BY <1>1, <3>1, <3>2, <3>3, <3>4, VisitorReports
    <2>6. Up(c)' <=> Up(c)
      BY <1>1 DEF Up
    <2>7. DialogOf(c)'
      BY <2>4, <2>5, <2>6 DEF DialogOf
    <2>8. Onward
      BY <1>1, <2>3, <2>5 DEF Onward, Up, Tracked
    <2> QED BY <1>1, <1>2, <1>3, <2>3, <2>7, <2>8, OutsideStep
  <1> QED BY <1>4, <1>5

-----------------------------------------------------------------------------
(* The continuations.                                                      *)

LEMMA ContinuationStep ==
    ASSUME IInv, Onward, UNCHANGED <<dialog, inbox>>, BookTypeOK',
           NEW c \in Calls, DialogOf(c)',
           \A d \in Calls \ {c} : /\ calls'[d].state = calls[d].state
                                  /\ calls'[d].side = calls[d].side
                                  /\ d \in rang' <=> d \in rang,
           NEW r \in Requests, NEW rec \in Request, Become(r, rec),
           queue' \in Seq(Requests), inviting' \in Nat, InvitingInFlight',
           RequestOf(r)'
    PROVE  IInv'
  <1>1. TypeOK'
    BY BecomeRequest DEF IInv, TypeOK
  <1>2. \A d \in Calls : DialogOf(d)'
    BY SameDialog DEF IInv
  <1>3. \A q \in Requests : RequestOf(q)'
    BY OtherRequests
  <1> QED BY <1>1, <1>2, <1>3 DEF IInv

\* A coroutine that has nothing left to do.
LEMMA IdleAfter ==
    ASSUME IInv, NEW r \in Requests, Become(r, Idle)
    PROVE  /\ Idle \in Request
           /\ RequestOf(r)'
           /\ request[r].cmd \notin Invites /\ UNCHANGED inviting
                 => InvitingInFlight' /\ inviting' \in Nat
           /\ request[r].cmd \in Invites /\ inviting' = inviting - 1
                 => InvitingInFlight' /\ inviting' \in Nat
  <1>1. request'[r] = Idle
    BY IdleRequest, BecomeRequest DEF IInv
  <1>2. RequestOf(r)'
    BY <1>1 DEF RequestOf, Idle, Invites
  <1>3. InFlight' = InFlight \ {r}
    BY IdleRequest, BecomeInFlight DEF IInv, Idle, Invites
  <1>4. ASSUME request[r].cmd \notin Invites, UNCHANGED inviting
        PROVE  InvitingInFlight' /\ inviting' \in Nat
    <2>1. InFlight' = InFlight
      BY <1>3, <1>4 DEF InFlight
    <2> QED BY <1>4, <2>1, InvitingSame DEF IInv
  <1>5. ASSUME request[r].cmd \in Invites, inviting' = inviting - 1
        PROVE  InvitingInFlight' /\ inviting' \in Nat
    BY <1>3, <1>5, InvitingDown DEF IInv
  <1> QED BY <1>2, <1>4, <1>5, IdleRequest

LEMMA OpenReturnedStep ==
    ASSUME IInv, NEW r \in Requests, OpenReturned(r)
    PROVE  IInv'
  <1>1. /\ Become(r, Idle)
        /\ UNCHANGED <<calls, rang, dialog, inbox, queue>>
        /\ queue' \in Seq(Requests)
    BY DEF OpenReturned, book, IInv, TypeOK
  <1>2. InvitingInFlight' /\ inviting' \in Nat
    BY <1>1, IdleAfter DEF OpenReturned, Continues, Invites
  <1> QED BY <1>1, <1>2, IdleAfter, CoroutineStep

\* A command that sharpens the entry of a dialog: one of ours, or one it answered.
LEMMA RefineDialog ==
    ASSUME IInv, NEW c \in Calls, NEW g \in Sides, Refine(c, "streaming", g),
           UNCHANGED <<dialog, inbox>>,
           c \in Outbound \/ g = "incoming"
    PROVE  /\ BookTypeOK'
           /\ DialogOf(c)'
           /\ Onward
           /\ \A d \in Calls \ {c} : /\ calls'[d].state = calls[d].state
                                     /\ calls'[d].side = calls[d].side
                                     /\ d \in rang' <=> d \in rang
  <1>1. BookTypeOK /\ DialogOf(c)
    BY DEF IInv, TypeOK
  <1>2. /\ BookTypeOK'
        /\ rang' = rang
        /\ Tracked(c)' <=> Tracked(c)
        /\ Tracked(c) => calls'[c].state = "streaming" /\ calls'[c].side = SideOf(c, g)
        /\ \A d \in Calls \ {c} : calls'[d] = calls[d]
    BY <1>1, RefineBook
  <1>3. ReportsOf(c)'
    BY <1>1, <1>2 DEF DialogOf, ReportsOf
  <1>4. ASSUME c \in Inbound, Up(c) PROVE VisitorOf(c)'
    <2>1. VisitorOf(c) /\ SideOf(c, g) = "incoming"
      BY <1>1, <1>4, ServiceAssumption DEF DialogOf, SideOf
    <2>2. CASE Tracked(c)
      BY <1>2, <2>1, <2>2 DEF VisitorOf
    <2>3. CASE ~Tracked(c)
      BY <1>2, <2>1, <2>3 DEF VisitorOf
    <2> QED BY <2>2, <2>3
  <1>5. DialogOf(c)'
    BY <1>3, <1>4 DEF DialogOf, Up
  <1>6. Onward
    BY <1>2 DEF Onward, Up, Tracked
  <1> QED BY <1>2, <1>5, <1>6

LEMMA PlaceReturnedStep ==
    ASSUME IInv, NEW r \in Requests, PlaceReturned(r)
    PROVE  IInv'
  <1>1. /\ Become(r, Idle) /\ inviting' = inviting - 1
        /\ request[r].cmd = "invite" /\ request[r].at = "returned"
        /\ UNCHANGED <<dialog, inbox, queue>> /\ queue' \in Seq(Requests)
    BY DEF PlaceReturned, Continues, IInv, TypeOK
  <1>2. InvitingInFlight' /\ inviting' \in Nat
    BY <1>1, IdleAfter DEF Invites
  <1>3. CASE ~request[r].ok
    BY <1>1, <1>2, <1>3, IdleAfter, CoroutineStep DEF PlaceReturned, book
  <1>4. CASE request[r].ok
    <2>1. PICK c \in Outbound : c = request[r].call
      BY <1>1, <1>4 DEF IInv, RequestOf
    <2>2. c \in Calls /\ Refine(c, "streaming", "outgoing")
      BY <1>4, <2>1, ServiceAssumption DEF PlaceReturned
    <2>3. /\ BookTypeOK'
          /\ DialogOf(c)'
          /\ Onward
          /\ \A d \in Calls \ {c} : /\ calls'[d].state = calls[d].state
                                    /\ calls'[d].side = calls[d].side
                                    /\ d \in rang' <=> d \in rang
      BY <1>1, <2>2, RefineDialog DEF Sides
    <2> QED BY <1>1, <1>2, <2>2, <2>3, IdleAfter, ContinuationStep
  <1> QED BY <1>3, <1>4

LEMMA AnswerReturnedStep ==
    ASSUME IInv, NEW r \in Requests, AnswerReturned(r)
    PROVE  IInv'
  <1>1. /\ Become(r, Idle)
        /\ request[r].cmd = "answer"
        /\ UNCHANGED <<dialog, inbox, queue, inviting>> /\ queue' \in Seq(Requests)
    BY DEF AnswerReturned, Continues, IInv, TypeOK
  <1>2. InvitingInFlight' /\ inviting' \in Nat
    BY <1>1, IdleAfter DEF Invites
  <1>3. CASE ~request[r].ok
    BY <1>1, <1>2, <1>3, IdleAfter, CoroutineStep DEF AnswerReturned, book
  <1>4. CASE request[r].ok
    <2>1. PICK c \in Calls : c = request[r].call
      BY <1>1 DEF IInv, RequestOf
    <2>2. Refine(c, "streaming", "incoming")
      BY <1>4, <2>1 DEF AnswerReturned
    <2>3. /\ BookTypeOK'
          /\ DialogOf(c)'
          /\ Onward
          /\ \A d \in Calls \ {c} : /\ calls'[d].state = calls[d].state
                                    /\ calls'[d].side = calls[d].side
                                    /\ d \in rang' <=> d \in rang
      BY <1>1, <2>2, RefineDialog DEF Sides
    <2> QED BY <1>1, <1>2, <2>3, IdleAfter, ContinuationStep
  <1> QED BY <1>3, <1>4

\* hangup() after the SDK: the dialog it ended leaves the book, and a place_call()
\* goes on to the next of its monitors.
LEMMA HangupReturnedStep ==
    ASSUME IInv, NEW r \in Requests, HangupReturned(r)
    PROVE  IInv'
  <1>1. /\ request[r].cmd = "hangup" /\ request[r].at = "returned"
        /\ request[r].cmd \notin Invites
        /\ UNCHANGED <<dialog, inbox>>
        /\ RequestOf(r) /\ BookTypeOK /\ calls \in [Calls -> Entry]
        /\ request[r] \in Request
    BY DEF HangupReturned, Continues, IInv, TypeOK, BookTypeOK, Invites
  <1>2. CASE ~request[r].ok
    <2>1. /\ Become(r, Idle) /\ UNCHANGED <<calls, rang, queue, inviting>>
          /\ queue' \in Seq(Requests)
      BY <1>2 DEF HangupReturned, book, IInv, TypeOK
    <2> QED BY <1>1, <2>1, IdleAfter, CoroutineStep
  <1>3. CASE request[r].ok
    <2>1. PICK c \in Calls : c = request[r].call /\ dialog[c] = "over"
      BY <1>1, <1>3 DEF RequestOf
    <2>2. Forget(c)
      BY <1>3, <2>1 DEF HangupReturned
    <2>3. /\ BookTypeOK'
          /\ rang' = rang \ {c}
          /\ ~Tracked(c)'
          /\ \A d \in Calls \ {c} : /\ calls'[d].state = calls[d].state
                                    /\ calls'[d].side = calls[d].side
      BY <1>1, <2>2, ForgetBook
    <2>4. DialogOf(c)'
      BY <1>1, <2>1, <2>3 DEF IInv, DialogOf, ReportsOf, Up
    <2>5. Onward
      BY <1>1, <2>1, <2>3 DEF Onward, Up, Tracked
    <2>6. CASE request[r].op # "place"
      <3>1. /\ Become(r, Idle) /\ UNCHANGED <<queue, inviting>>
            /\ queue' \in Seq(Requests)
        BY <1>3, <2>6 DEF HangupReturned, IInv, TypeOK
      <3> QED BY <1>1, <2>3, <2>4, <2>5, <3>1, IdleAfter, ContinuationStep
    <2>7. CASE request[r].op = "place"
      <3> DEFINE todo == request[r].monitors
      <3>1. PlaceOn(r, todo, calls')
        BY <1>3, <2>7 DEF HangupReturned
      <3>2. todo \in SUBSET Calls /\ calls' \in [Calls -> Entry]
        BY <1>1, <2>3 DEF Request, BookTypeOK
      <3>3. \A d \in todo : calls'[d].state # "absent" => dialog[d] # "none"
        BY <2>1, <2>3, <3>2, ListedDialogs DEF Tracked
      <3>4. \A d \in Inbound \cap todo :
               /\ dialog[d] # "none"
               /\ Up(d) => calls[d].state = "streaming" /\ calls[d].side = "incoming"
        BY <1>1, ListedDialogs DEF RequestOf
      <3>5. \A d \in Inbound \cap todo :
               Up(d) => calls'[d].state = "streaming" /\ calls'[d].side = "incoming"
        BY <2>1, <2>3, <3>2, <3>4 DEF Up
      <3>6. /\ \E rec \in Request : Become(r, rec)
            /\ queue' \in Seq(Requests)
            /\ inviting' \in Nat
            /\ InvitingInFlight'
            /\ RequestOf(r)'
        BY <1>1, <3>1, <3>2, <3>3, <3>4, <3>5, PlaceOnRequest
      <3> QED BY <1>1, <2>3, <2>4, <2>5, <3>6, ContinuationStep
    <2> QED BY <2>6, <2>7
  <1> QED BY <1>2, <1>3

-----------------------------------------------------------------------------
(* The inductive invariant.                                                *)

LEMMA InitIInv == Init => IInv
  <1> SUFFICES ASSUME Init PROVE IInv
    OBVIOUS
  <1>1. TypeOK
    BY IdleRequest DEF Init, TypeOK, BookInit, BookTypeOK, Entry, Absent, Sides
  <1>2. InFlight = {}
    BY DEF Init, InFlight, Idle, Invites
  <1>3. InvitingInFlight
    BY <1>2, FS_EmptySet DEF Init, InvitingInFlight
  <1>4. ASSUME NEW c \in Calls PROVE DialogOf(c)
    <2>1. dialog[c] = "none" /\ inbox[c] = <<>> /\ ~Tracked(c) /\ c \notin rang
      BY DEF Init, BookInit, Tracked, Absent
    <2>2. Len(inbox[c]) = 0
      BY <2>1
    <2> QED BY <2>1, <2>2 DEF DialogOf, ReportsOf, Up
  <1>5. \A r \in Requests : RequestOf(r)
    BY DEF Init, RequestOf, Idle, Invites
  <1> QED BY <1>1, <1>3, <1>4, <1>5 DEF IInv

LEMMA StutterIInv ==
    ASSUME IInv, UNCHANGED vars
    PROVE  IInv'
  <1>1. TypeOK' /\ InvitingInFlight'
    BY DEF IInv, vars, TypeOK, BookTypeOK, InvitingInFlight, InFlight
  <1>2. \A c \in Calls : DialogOf(c)'
    BY SameDialog DEF IInv, vars
  <1>3. \A r \in Requests : RequestOf(r)'
    BY StillOnward, SameRequest DEF IInv, vars
  <1> QED BY <1>1, <1>2, <1>3 DEF IInv

\* One line per action: each keeps the whole invariant.
LEMMA StepIInv == IInv /\ [Next]_vars => IInv'
  <1> SUFFICES ASSUME IInv, [Next]_vars PROVE IInv'
    OBVIOUS
  <1>1. ASSUME NEW r \in Requests, Client(r) PROVE IInv'
    BY <1>1, PlaceCallStep, OpenStep, HangupStep, AnswerStep DEF Client
  <1>2. ASSUME NEW r \in Requests, Worker(r) PROVE IInv'
    BY <1>2, DialsStep, StreamsStep, ViewReturnsStep, OnDemandReturnsStep, InviteFailsStep,
       NativeHangupStep, NativeAnswerStep, NativeOpenDuringStep DEF Worker
  <1>3. ASSUME NEW r \in Requests, Resumes(r) PROVE IInv'
    BY <1>3, LegClosedStep, HangupReturnedStep, PlaceReturnedStep, AnswerReturnedStep,
       OpenReturnedStep DEF Resumes
  <1>4. ASSUME NEW c \in Calls, Rings(c) \/ FarEnds(c) \/ Callback(c) PROVE IInv'
    BY <1>4, RingsStep, FarEndsStep, RingArrivedStep, CallStateArrivedStep DEF Callback
  <1>5. CASE UNCHANGED vars
    BY <1>5, StutterIInv
  <1> QED BY <1>1, <1>2, <1>3, <1>4, <1>5 DEF Next

\* The doorphone service keeps the invariant: its types, the INVITE counter, where each
\* dialog's reports stand and what each request may rely on.
THEOREM Inductive == Spec => []IInv
  BY InitIInv, StepIInv, PTL DEF Spec

\* The book, the worker's queue, the requests and the counter keep their types: no
\* report and no continuation leaves a half-made entry (calls.py, service.py).
THEOREM TypeCorrect == Spec => []TypeOK
  <1>1. IInv => TypeOK
    BY DEF IInv
  <1> QED BY <1>1, Inductive, PTL

\* _inviting is the number of INVITEs in flight, however many requests run at once and
\* however each INVITE came back (service.py, the two finally clauses).
THEOREM CounterIsExact == Spec => []InvitingInFlight
  <1>1. IInv => InvitingInFlight
    BY DEF IInv
  <1> QED BY <1>1, Inductive, PTL

\* A dialog whose last report has run is never listed again (calls.py, refine_only).
THEOREM NoEntryReturns == Spec => []NoResurrection
  <1>1. IInv => NoResurrection
    <2> SUFFICES ASSUME IInv, NEW c \in Calls, dialog[c] = "over", inbox[c] = <<>>
                 PROVE  ~Tracked(c)
      BY DEF NoResurrection
    <2>1. ReportsOf(c) /\ Len(inbox[c]) = 0
      BY DEF IInv, DialogOf
    <2> QED BY <2>1 DEF ReportsOf
  <1> QED BY <1>1, Inductive, PTL

\* place_call() never hangs a visitor up (service.py, _hangup_monitors).
THEOREM VisitorStays == Spec => []VisitorKept
  <1>1. IInv => VisitorKept
    BY DEF IInv, RequestOf, VisitorKept
  <1> QED BY <1>1, Inductive, PTL

-----------------------------------------------------------------------------
(* Leaving the book: a property of steps.                                  *)

\* An entry goes only with the terminal report, or after a hangup that did not raise.
LEMMA LeavesStep ==
    ASSUME IInv, [Next]_vars, NEW c \in Calls, Tracked(c), ~Tracked(c)'
    PROVE  dialog[c] = "over"
  <1>1. calls' # calls
    BY DEF Tracked
  <1>2. ASSUME NEW r \in Requests, HangupReturned(r) PROVE dialog[c] = "over"
    <2>1. request[r].ok /\ Forget(request[r].call)
      BY <1>1, <1>2 DEF HangupReturned, book
    <2>2. PICK d \in Calls : d = request[r].call /\ dialog[d] = "over"
      BY <1>2, <2>1 DEF HangupReturned, Continues, IInv, RequestOf
    <2>3. \A e \in Calls \ {d} : calls'[e].state = calls[e].state
      BY <2>1, <2>2, ForgetBook DEF IInv, TypeOK
    <2> QED BY <2>2, <2>3 DEF Tracked
  <1>3. ASSUME NEW r \in Requests, PlaceReturned(r) \/ AnswerReturned(r) PROVE FALSE
    <2>1. PICK g \in Sides : Refine(request[r].call, "streaming", g)
      BY <1>1, <1>3 DEF PlaceReturned, AnswerReturned, book, Sides
    <2>2. request[r].ok /\ request[r].call \in Calls
      <3>1. request[r].ok
        BY <1>1, <1>3 DEF PlaceReturned, AnswerReturned, book
      <3> QED BY <1>3, <3>1, ServiceAssumption
          DEF PlaceReturned, AnswerReturned, Continues, IInv, RequestOf
    <2>3. PICK d \in Calls : d = request[r].call
      BY <2>2
    <2>4. Tracked(d)' <=> Tracked(d)
      BY <2>1, <2>3, RefineBook DEF IInv, TypeOK
    <2>5. \A e \in Calls \ {d} : calls'[e] = calls[e]
      BY <2>1, <2>3, RefineBook DEF IInv, TypeOK
    <2> QED BY <2>4, <2>5 DEF Tracked
  <1>4. ASSUME NEW d \in Calls, RingArrived(d) PROVE FALSE
    <2>1. (Tracked(d)' <=> Tracked(d)) /\ \A e \in Calls \ {d} : calls'[e] = calls[e]
      BY <1>4, MarkIncomingBook DEF RingArrived, IInv, TypeOK
    <2> QED BY <2>1 DEF Tracked
  <1>5. ASSUME NEW d \in Calls, CallStateArrived(d) PROVE dialog[c] = "over"
    <2>1. BookTypeOK /\ TypeOK /\ DialogOf(d) /\ inbox[d] # <<>>
      BY <1>5 DEF IInv, TypeOK, CallStateArrived
    <2>2. Len(inbox[d]) \in Nat \ {0} /\ Head(inbox[d]) = inbox[d][1]
          /\ Head(inbox[d]) \in Reports
      BY <1>5, <2>1, FirstReportTaken DEF CallStateArrived
    <2>3. CASE Head(inbox[d]) = "over"
      <3>1. Forget(d)
        BY <1>5, <2>3 DEF CallStateArrived
      <3>2. \A e \in Calls \ {d} : calls'[e].state = calls[e].state
        BY <2>1, <3>1, ForgetBook
      <3>3. c = d
        BY <3>2 DEF Tracked
      <3>4. dialog[d] # "over" => \A i \in 1..Len(inbox[d]) : inbox[d][i] # "over"
        BY <2>1 DEF DialogOf, ReportsOf
      <3> QED BY <2>2, <2>3, <3>3, <3>4
    <2>4. CASE Head(inbox[d]) # "over"
      <3>1. PICK s \in Live, g \in Sides : Record(d, s, g)
        BY <1>5, <2>2, <2>4 DEF CallStateArrived, Reports, Guess, Sides
      <3>2. Tracked(d)' /\ \A e \in Calls \ {d} : calls'[e] = calls[e]
        BY <2>1, <3>1, RecordBook
      <3> QED BY <3>2 DEF Tracked
    <2> QED BY <2>3, <2>4
  <1>6. \/ \E r \in Requests : HangupReturned(r)
        \/ \E r \in Requests : PlaceReturned(r) \/ AnswerReturned(r)
        \/ \E d \in Calls : RingArrived(d)
        \/ \E d \in Calls : CallStateArrived(d)
    <2>1. ASSUME NEW r \in Requests, Client(r) PROVE UNCHANGED calls
      BY <2>1 DEF Client, PlaceCall, Open, Hangup, Answer
    <2>2. ASSUME NEW r \in Requests, Worker(r) PROVE UNCHANGED calls
      BY <2>2 DEF Worker, Dials, Streams, ViewReturns, OnDemandReturns, InviteFails,
         NativeHangup, NativeAnswer, NativeOpenDuring, Returns, Advances
    <2>3. ASSUME NEW r \in Requests, LegClosed(r) \/ OpenReturned(r) PROVE UNCHANGED calls
      BY <2>3 DEF LegClosed, OpenReturned, book
    <2>4. ASSUME NEW d \in Calls, Rings(d) \/ FarEnds(d) PROVE UNCHANGED calls
      BY <2>4 DEF Rings, FarEnds
    <2> QED BY <1>1, <2>1, <2>2, <2>3, <2>4 DEF Next, vars, Resumes, Callback
  <1> QED BY <1>2, <1>3, <1>4, <1>5, <1>6

\* No step takes a dialog that is up out of the book (service.py, hangup; calls.py, forget).
THEOREM EntriesLeaveLate == Spec => LeavesOnlyWhenOver
  <1>1. IInv /\ [Next]_vars
           => [\A c \in Calls : Tracked(c) /\ ~Tracked(c)' => dialog[c] = "over"]_vars
    BY LeavesStep
  <1> QED BY <1>1, Inductive, PTL DEF Spec, LeavesOnlyWhenOver
=============================================================================
