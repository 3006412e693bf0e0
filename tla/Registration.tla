---------------------------- MODULE Registration ----------------------------
(***************************************************************************)
(* The registration of the gateway with the vendor's cloud: the supervisor *)
(* loop (sip/supervision.py), the one SDK worker it shares with the users' *)
(* commands (sip/worker.py), the holder that swaps the client on a rebuild *)
(* (sip/holder.py), the microphone state the service owns across rebuilds  *)
(* (usecases/service.py) and the ordered shutdown (runtime.py).            *)
(*                                                                         *)
(* What the SDK has is modelled from how this code uses it.  A job on the  *)
(* worker takes effect when it ends.  The loop runs continuations in the   *)
(* order the worker finished their jobs.  Delays are left out: a sleep     *)
(* ends at any moment.                                                     *)
(***************************************************************************)
EXTENDS Naturals, Sequences, FiniteSets

CONSTANTS Clients,   \* the SIP clients that can be told apart at once
          Requests,  \* user commands that can be in progress at once
          NoClient,  \* None
          First      \* the client built before the port opens

ASSUME RegistrationAssumption ==
    /\ First \in Clients
    /\ NoClient \notin Clients
    /\ Requests \cap {"supervisor", "stop", "nobody"} = {}

VARIABLES
    current,   \* ClientHolder: the client commands are resolved against
    stack,     \* what the SDK has: has each client been started, and stopped
    bound,     \* what the registrar has: is each client registered
    mic,       \* what the panel can hear through each client
    supervisor,\* where the supervise loop is
    client,    \* RegistrationSupervisor._client
    queue,     \* the worker's jobs, the running one first
    returned,  \* jobs that ended and whose continuation is still to run
    request,   \* what each user command awaits
    muted,     \* DoorphoneService._mic_muted
    asked,     \* the value of the last user's mic request that was answered
    told,      \* the last registration event: was it registered
    shutdown   \* where GatewayRuntime.shutdown() is

sdk  == <<stack, bound, mic>>
vars == <<current, stack, bound, mic, supervisor, client, queue, returned, request,
          muted, asked, told, shutdown>>

Mic      == {"open", "muted"}
Commands == Mic \cup {"call"}                   \* set_mic_muted, or any other
Owners   == Requests \cup {"supervisor", "stop", "nobody"}
Outcomes == {"ok", "urmet_error", "other_error"}

Calls    == Commands \cup {"start", "stop", "skip"}

Job    == [who : Owners, cmd : Calls, on : Clients]
Result == [who : Owners, cmd : Calls, out : Outcomes]

TypeOK ==
    /\ current \in Clients
    /\ stack \in [Clients -> {"new", "up", "down"}]
    /\ bound \in [Clients -> BOOLEAN]
    /\ mic \in [Clients -> Mic]
    /\ supervisor \in {"boot", "start", "hook", "hold", "refresh", "release", "backoff",
                       "died", "cancelled"}
    /\ client \in Clients \cup {NoClient}
    /\ queue \in Seq(Job)
    /\ returned \in Seq(Result)
    /\ request \in [Requests -> Commands \cup {"none"}]
    /\ muted \in Mic
    /\ asked \in Mic
    /\ told \in BOOLEAN
    /\ shutdown \in {"no", "sessions", "cancelled", "release", "joining", "done", "raised"}

Init ==
    /\ current = First
    /\ stack = [k \in Clients |-> "new"]
    /\ bound = [k \in Clients |-> FALSE]
    /\ mic = [k \in Clients |-> "open"]
    /\ supervisor = "boot"
    /\ client = NoClient
    /\ queue = <<>>
    /\ returned = <<>>
    /\ request = [r \in Requests |-> "none"]
    /\ muted = "muted"
    /\ asked = "muted"
    /\ told = FALSE
    /\ shutdown = "no"

-----------------------------------------------------------------------------
(* The worker.                                                             *)

Submit(who, cmd, k) == queue' = Append(queue, [who |-> who, cmd |-> cmd, on |-> k])

\* SdkWorker.busy, as the supervisor reads it between two attempts.
Busy == \E r \in Requests : request[r] # "none"

\* start() brings a fresh client up with the microphone open, and registers it unless
\* it raises; on a client that is up it only registers again.
Started(k, out) ==
    /\ stack' = [stack EXCEPT ![k] = "up"]
    /\ bound' = [bound EXCEPT ![k] = out = "ok"]
    /\ UNCHANGED mic

\* stop() lets go of the client, whether or not the registrar confirms it.
Stopped(k) ==
    /\ stack' = [stack EXCEPT ![k] = "down"]
    /\ bound' = [bound EXCEPT ![k] = FALSE]
    /\ UNCHANGED mic

\* A command on a client that is not up raises.
Commanded(k, cmd, out) ==
    /\ out = "ok" => stack[k] = "up"
    /\ mic' = IF out = "ok" /\ cmd \in Mic THEN [mic EXCEPT ![k] = cmd] ELSE mic
    /\ UNCHANGED <<stack, bound>>

\* The running job ends.
Runs(out) ==
    LET j == Head(queue) IN
    /\ queue # <<>>
    /\ \/ j.cmd = "start" /\ Started(j.on, out)
       \/ j.cmd = "stop" /\ Stopped(j.on)
       \/ j.cmd \in Commands /\ Commanded(j.on, j.cmd, out)
       \/ j.cmd = "skip" /\ UNCHANGED sdk
    /\ queue' = Tail(queue)
    /\ returned' = IF j.who = "nobody" THEN returned
                   ELSE Append(returned, [who |-> j.who, cmd |-> j.cmd, out |-> out])
    /\ UNCHANGED <<current, supervisor, client, request, muted, asked, told, shutdown>>

\* The next continuation on the loop is this one's.
Continues(who, out) ==
    /\ returned # <<>>
    /\ Head(returned).who = who
    /\ Head(returned).out = out
    /\ returned' = Tail(returned)

\* Nobody waits for a continuation that was cancelled.
Discards ==
    /\ returned # <<>> /\ Head(returned).who = "nobody"
    /\ returned' = Tail(returned)
    /\ UNCHANGED <<current, stack, bound, mic, supervisor, client, queue, request, muted,
                   asked, told, shutdown>>

\* Cancelling an await makes the worker skip a job that is queued, and leaves one that
\* runs to its end with nobody waiting for it.
Cancel(who) ==
    /\ queue' = [i \in 1..Len(queue) |->
                    IF queue[i].who \notin who THEN queue[i]
                    ELSE [who |-> "nobody", on |-> queue[i].on,
                          cmd |-> IF i = 1 THEN queue[i].cmd ELSE "skip"]]
    /\ returned' = [i \in 1..Len(returned) |->
                       IF returned[i].who \notin who THEN returned[i]
                       ELSE [returned[i] EXCEPT !.who = "nobody"]]

\* The registrar drops the binding, or the line does.
Drops(k) ==
    /\ bound[k]
    /\ bound' = [bound EXCEPT ![k] = FALSE]
    /\ UNCHANGED <<current, stack, mic, supervisor, client, queue, returned, request,
                   muted, asked, told, shutdown>>

-----------------------------------------------------------------------------
(* The supervise loop.  Each action runs from one await to the next.       *)

\* A client is built, the holder points at it and its REGISTER is submitted.
Attempt(k) ==
    /\ supervisor' = "start"
    /\ client' = k
    /\ current' = k
    /\ Submit("supervisor", "start", k)

\* The first pass takes the client that was built at boot.
Boot ==
    /\ supervisor = "boot"
    /\ Attempt(First)
    /\ UNCHANGED <<stack, bound, mic, returned, request, muted, asked, told, shutdown>>

\* Faulty variant of Releases: a refused client is thrown away without being stopped.
FaultyReleases ==
    /\ supervisor' = "backoff"
    /\ told' = FALSE
    /\ UNCHANGED queue

Releases ==
    /\ supervisor' = "release"
    /\ told' = FALSE
    /\ Submit("supervisor", "stop", client)

StartReturned(out) ==
    /\ supervisor = "start"
    /\ Continues("supervisor", out)
    /\ IF out = "ok"
       THEN /\ told' = TRUE
            /\ supervisor' = "hook"
            /\ Submit("supervisor", muted, current)     \* realign()
       ELSE Releases
    /\ UNCHANGED <<current, stack, bound, mic, client, request, muted, asked, shutdown>>

\* realign() is outside every try: what it raises ends the loop.
HookReturned(out) ==
    /\ supervisor = "hook"
    /\ Continues("supervisor", out)
    /\ IF out = "ok"
       THEN supervisor' = "hold" /\ muted' = Head(returned).cmd
       ELSE supervisor' = "died" /\ UNCHANGED muted
    /\ UNCHANGED <<current, stack, bound, mic, client, queue, request, asked, told, shutdown>>

Refresh ==
    /\ supervisor = "hold"
    /\ supervisor' = "refresh"
    /\ Submit("supervisor", "start", client)
    /\ UNCHANGED <<current, stack, bound, mic, client, returned, request, muted, asked,
                   told, shutdown>>

RefreshReturned(out) ==
    /\ supervisor = "refresh"
    /\ Continues("supervisor", out)
    /\ IF out = "ok" /\ bound[client]
       THEN supervisor' = "hold" /\ told' = TRUE /\ UNCHANGED queue
       ELSE Releases
    /\ UNCHANGED <<current, stack, bound, mic, client, request, muted, asked, shutdown>>

\* Faulty variant of ReleaseReturned: a release that was not confirmed ends the loop.
FaultyReleaseReturned(out) ==
    /\ supervisor = "release"
    /\ Continues("supervisor", out)
    /\ supervisor' = IF out = "ok" THEN "backoff" ELSE "cancelled"
    /\ told' = FALSE
    /\ UNCHANGED <<current, stack, bound, mic, client, queue, request, muted, asked, shutdown>>

\* A release that raises anything but an UrmetError ends the loop too.
ReleaseReturned(out) ==
    /\ supervisor = "release"
    /\ Continues("supervisor", out)
    /\ IF out = "other_error"
       THEN supervisor' = "died" /\ UNCHANGED told
       ELSE supervisor' = "backoff" /\ told' = FALSE
    /\ UNCHANGED <<current, stack, bound, mic, client, queue, request, muted, asked, shutdown>>

\* Clients nothing refers to any more, reused for the ones to be built.
Unused == {k \in Clients \ {current} :
              stack[k] # "up" /\ \A i \in 1..Len(queue) : queue[i].on # k}

\* Faulty variant of Retry: the worker is not looked at before the rebuild.
FaultyRetry(k) ==
    /\ supervisor = "backoff"
    /\ k \in Unused
    /\ stack' = [stack EXCEPT ![k] = "new"]
    /\ mic' = [mic EXCEPT ![k] = "open"]
    /\ Attempt(k)
    /\ UNCHANGED <<bound, returned, request, muted, asked, told, shutdown>>

\* A delay ends while the worker is free: the client is rebuilt.  One that ends while
\* it is busy is waited for again.
Retry(k) ==
    /\ supervisor = "backoff"
    /\ ~Busy
    /\ k \in Unused
    /\ stack' = [stack EXCEPT ![k] = "new"]
    /\ mic' = [mic EXCEPT ![k] = "open"]
    /\ Attempt(k)
    /\ UNCHANGED <<bound, returned, request, muted, asked, told, shutdown>>

-----------------------------------------------------------------------------
(* The users' commands.                                                    *)

Asks(r, cmd) ==
    /\ shutdown = "no"
    /\ request[r] = "none"
    /\ request' = [request EXCEPT ![r] = cmd]
    /\ Submit(r, cmd, current)
    /\ UNCHANGED <<current, stack, bound, mic, supervisor, client, returned, muted, asked,
                   told, shutdown>>

\* Faulty variant of Answered: the owned state is set whatever the SDK said.
FaultyAnswered(r, out) ==
    /\ Continues(r, out)
    /\ request' = [request EXCEPT ![r] = "none"]
    /\ muted' = IF request[r] \in Mic THEN request[r] ELSE muted
    /\ asked' = IF out = "ok" /\ request[r] \in Mic THEN request[r] ELSE asked
    /\ UNCHANGED <<current, stack, bound, mic, supervisor, client, queue, told, shutdown>>

\* set_mic_muted() sets the state it owns once the SDK has obeyed.
Answered(r, out) ==
    LET obeyed == out = "ok" /\ request[r] \in Mic IN
    /\ Continues(r, out)
    /\ request' = [request EXCEPT ![r] = "none"]
    /\ muted' = IF obeyed THEN request[r] ELSE muted
    /\ asked' = IF obeyed THEN request[r] ELSE asked
    /\ UNCHANGED <<current, stack, bound, mic, supervisor, client, queue, told, shutdown>>

-----------------------------------------------------------------------------
(* The shutdown, in its order.                                             *)

\* The server has stopped: the commands still in progress are cancelled, and the
\* browser legs are closed first.
ShutsDown ==
    /\ shutdown = "no"
    /\ shutdown' = "sessions"
    /\ request' = [r \in Requests |-> "none"]
    /\ Cancel(Requests)
    /\ UNCHANGED <<current, stack, bound, mic, supervisor, client, muted, asked, told>>

\* Faulty variant of StopsLoop: the release is not protected from the loop.
FaultyStopsLoop ==
    /\ shutdown = "sessions"
    /\ shutdown' = IF supervisor = "died" THEN "raised" ELSE "cancelled"
    /\ UNCHANGED <<current, stack, bound, mic, client, request, muted, asked, told,
                   supervisor, queue, returned>>

\* supervisor.stop() cancels the loop.  Awaiting a loop that died raises what it
\* died of, and the shutdown goes no further.
StopsLoop ==
    /\ shutdown = "sessions"
    /\ IF supervisor = "died"
       THEN shutdown' = "raised" /\ UNCHANGED <<supervisor, queue, returned>>
       ELSE /\ shutdown' = "cancelled"
            /\ supervisor' = "cancelled"
            /\ Cancel({"supervisor"})
    /\ UNCHANGED <<current, stack, bound, mic, client, request, muted, asked, told>>

\* Faulty variant of StopsClient: there is always a client to stop.
FaultyStopsClient ==
    /\ shutdown = "cancelled"
    /\ client' = NoClient
    /\ shutdown' = "release"
    /\ Submit("stop", "stop", client)
    /\ UNCHANGED <<current, stack, bound, mic, supervisor, returned, request, muted, asked, told>>

\* The client the loop had last is stopped, even if the loop had stopped it already.
StopsClient ==
    /\ shutdown = "cancelled"
    /\ client' = NoClient
    /\ IF client = NoClient
       THEN shutdown' = "joining" /\ UNCHANGED queue
       ELSE shutdown' = "release" /\ Submit("stop", "stop", client)
    /\ UNCHANGED <<current, stack, bound, mic, supervisor, returned, request, muted, asked, told>>

StopReturned(out) ==
    /\ shutdown = "release"
    /\ Continues("stop", out)
    /\ IF out = "other_error"
       THEN shutdown' = "raised" /\ UNCHANGED told
       ELSE shutdown' = "joining" /\ told' = FALSE
    /\ UNCHANGED <<current, stack, bound, mic, supervisor, client, queue, request, muted, asked>>

\* SdkWorker.aclose(): the running job is waited for.
Joins ==
    /\ shutdown = "joining"
    /\ queue = <<>>
    /\ shutdown' = "done"
    /\ UNCHANGED <<current, stack, bound, mic, supervisor, client, queue, returned,
                   request, muted, asked, told>>

\* The process has ended.
Ended == shutdown \in {"done", "raised"} /\ queue = <<>> /\ UNCHANGED vars

-----------------------------------------------------------------------------
Loop ==
    \/ Boot \/ Refresh \/ \E k \in Clients : Retry(k)
    \/ \E out \in Outcomes : \/ StartReturned(out) \/ HookReturned(out)
                             \/ RefreshReturned(out) \/ ReleaseReturned(out)

Shutdown == \/ StopsLoop \/ StopsClient \/ Joins
            \/ \E out \in Outcomes : StopReturned(out)

Worker == \E out \in Outcomes : Runs(out)
User(r) == \E out \in Outcomes : Answered(r, out)

Next ==
    \/ Loop \/ Worker \/ Discards \/ ShutsDown \/ Shutdown \/ Ended
    \/ \E k \in Clients : Drops(k)
    \/ \E r \in Requests : User(r) \/ \E cmd \in Commands : Asks(r, cmd)

Spec == Init /\ [][Next]_vars

(***************************************************************************)
(* Every SDK call is bounded by a timeout, the loop runs what it holds and *)
(* a sleep ends.  Nobody has to ask for anything, nor to stop the gateway. *)
(***************************************************************************)
FairSpec ==
    /\ Spec
    /\ WF_vars(Worker) /\ WF_vars(Discards) /\ WF_vars(Loop) /\ WF_vars(Shutdown)
    /\ \A r \in Requests : WF_vars(User(r))

-----------------------------------------------------------------------------
\* A client is told to stop before another is started: the stack is one per process,
\* and the registrar sees one binding, through every refusal, loss and shutdown.
OneStack == Cardinality({k \in Clients : stack[k] = "up"}) <= 1

\* A command runs on the client the holder points at: none is caught by a rebuild
\* between the moment it chose its client and the moment the worker runs it.
CommandMeetsNoRebuild ==
    \A i \in 1..Len(queue) : queue[i].who \in Requests => queue[i].on = current

\* No mic command is under way.
MicSettled ==
    /\ shutdown = "no"
    /\ supervisor = "hold"
    /\ \A i \in 1..Len(queue) : queue[i].cmd \notin Mic
    /\ \A i \in 1..Len(returned) : returned[i].cmd \notin Mic

\* Once the loop holds a binding, what the interface shows of the microphone is what
\* the panel hears, however commands, refusals and rebuilds interleaved before.
MicIsWhatIsShown == MicSettled => mic[current] = muted

\* A shutdown that came to its end left no client up, and said so.
NothingLeftUp ==
    shutdown = "done" => told = FALSE /\ \A k \in Clients : stack[k] # "up"

\* While users leave the worker free often enough, a binding that is lost is fought
\* for: a REGISTER is sent again, unless the loop died or the gateway stops.
KeepsTrying ==
    <>[]~Busy =>
        (~bound[current] ~> \/ bound[current]
                            \/ supervisor \in {"start", "refresh", "died"}
                            \/ shutdown # "no")

(* What the comments say and the code does not keep.                       *)

\* supervision.py: "a reconnect can never open the panel's near end behind the owner's
\* back".  Once the loop holds a binding, the panel does not hear an owner whose last
\* request, answered with success, was to be muted.
NeverOpenBehindOwner == MicSettled /\ asked = "muted" => mic[current] = "muted"

-----------------------------------------------------------------------------
(* Why they hold: the parts of an inductive invariant.                     *)

\* Whoever waits, waits for one job, which is queued or has ended.
Once(jobs, results) ==
    /\ \A i, j \in 1..Len(jobs) :
          jobs[i].who # "nobody" /\ jobs[i].who = jobs[j].who => i = j
    /\ \A i, j \in 1..Len(results) :
          results[i].who # "nobody" /\ results[i].who = results[j].who => i = j
    /\ \A i \in 1..Len(jobs), j \in 1..Len(results) :
          jobs[i].who # "nobody" => jobs[i].who # results[j].who

\* What the loop may have on the worker where it stands.
Awaited ==
    IF supervisor \in {"start", "refresh"} THEN {"start"}
    ELSE IF supervisor = "hook" THEN Mic
    ELSE IF supervisor = "release" THEN {"stop"}
    ELSE {}

\* A job is on the current client, but for what was cancelled of a user's command.
Placed(j) ==
    \/ j.who \in Requests /\ j.cmd = request[j.who] /\ j.on = current
    \/ j.who = "supervisor" /\ j.cmd \in Awaited /\ j.on = current
    \/ j.who = "stop" /\ j.cmd = "stop" /\ j.on = current /\ shutdown = "release"
    \/ /\ j.who = "nobody" /\ shutdown # "no"
       /\ j.cmd \in Commands \cup {"skip"} \/ (supervisor = "cancelled" /\ j.on = current)

Due(x) ==
    \/ x.who \in Requests /\ x.cmd = request[x.who]
    \/ x.who = "supervisor" /\ x.cmd \in Awaited
    \/ x.who = "stop" /\ shutdown = "release"
    \/ x.who = "nobody" /\ shutdown # "no"

JobsOf ==
    /\ Once(queue, returned)
    /\ \A i \in 1..Len(queue) : Placed(queue[i])
    /\ \A i \in 1..Len(returned) : Due(returned[i])

\* No client is up, nor about to be.
Quiet ==
    /\ \A k \in Clients : stack[k] # "up"
    /\ \A i \in 1..Len(queue) : queue[i].cmd # "start"

\* The client that is up is the current one, and is down before there is another.
StackOf ==
    /\ client \in {current, NoClient}
    /\ supervisor = "boot" =>
          client = NoClient /\ current = First /\ shutdown \in {"no", "sessions"}
    /\ client = NoClient => supervisor \in {"boot", "cancelled"}
    /\ \A k \in Clients : stack[k] = "up" => k = current
    /\ supervisor = "backoff" => Quiet
    /\ supervisor = "release" /\ (\E i \in 1..Len(returned) : returned[i].who = "supervisor")
          => stack[current] # "up"

\* The release comes after whatever the loop had started.
ReleaseOf ==
    /\ shutdown \in {"cancelled", "release", "joining", "done"} => supervisor = "cancelled"
    /\ client = NoClient /\ shutdown \in {"no", "sessions", "cancelled"} => Quiet /\ ~told
    /\ shutdown = "release" =>
          \/ \E i \in 1..Len(queue) :
                /\ queue[i].who = "stop"
                /\ \A j \in 1..Len(queue) : queue[j].cmd = "start" => j < i
          \/ Quiet
    /\ shutdown \in {"joining", "done"} => Quiet /\ ~told

\* Since the hook was obeyed, the state that is owned becomes what the panel hears once
\* the answers on their way have been read.
Obeyed(x) == x.out = "ok" /\ x.cmd \in Mic

Aligned ==
    \/ supervisor \in {"hold", "refresh"}
    \/ supervisor = "hook" /\ \E i \in 1..Len(returned) :
                                 returned[i].who = "supervisor" /\ returned[i].out = "ok"

Tells(results, heard, owned) ==
    \/ heard = owned /\ \A i \in 1..Len(results) : ~Obeyed(results[i])
    \/ \E i \in 1..Len(results) :
          /\ Obeyed(results[i]) /\ results[i].cmd = heard
          /\ \A j \in 1..Len(results) : i < j => ~Obeyed(results[j])

MicOf == shutdown = "no" /\ Aligned => Tells(returned, mic[current], muted)

IInv == TypeOK /\ JobsOf /\ StackOf /\ ReleaseOf /\ MicOf
=============================================================================
