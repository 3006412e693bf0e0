-------------------------- MODULE RegistrationProof --------------------------
(***************************************************************************)
(* The theorems about Registration.tla, for every set of clients and of    *)
(* commands in progress.                                                   *)
(*                                                                         *)
(* Three parts of the invariant are about the worker: who waits, waits for *)
(* one job (Once); a job is on the current client and is what its owner    *)
(* awaits (Placed, Due).  From where the loop stands they give what can    *)
(* run next, and so which client can be up (StackOf, ReleaseOf) and what   *)
(* the panel hears (MicOf).                                                *)
(***************************************************************************)
EXTENDS Registration, FiniteSetTheorems, TLAPS

USE RegistrationAssumption

(* Sequences.                                                              *)

LEMMA Appended ==
    ASSUME NEW S, NEW q \in Seq(S), NEW j \in S
    PROVE  /\ Append(q, j) \in Seq(S) /\ Len(Append(q, j)) = Len(q) + 1
           /\ Len(q) \in Nat
           /\ \A i \in 1..Len(q) : Append(q, j)[i] = q[i] /\ i \in 1..Len(Append(q, j))
           /\ Append(q, j)[Len(q) + 1] = j
           /\ \A i \in 1..Len(Append(q, j)) : i \in 1..Len(q) \/ i = Len(q) + 1
  OBVIOUS

LEMMA Tailed ==
    ASSUME NEW S, NEW q \in Seq(S), q # <<>>
    PROVE  /\ Tail(q) \in Seq(S) /\ Len(Tail(q)) = Len(q) - 1
           /\ Len(q) \in Nat /\ Len(q) > 0 /\ Head(q) = q[1] /\ 1 \in 1..Len(q) /\ q[1] \in S
           /\ \A i \in 1..Len(Tail(q)) : Tail(q)[i] = q[i + 1] /\ i + 1 \in 1..Len(q)
           /\ \A i \in 1..Len(q) : i = 1 \/ i - 1 \in 1..Len(Tail(q))
  OBVIOUS

-----------------------------------------------------------------------------
(* One job for each who waits.                                             *)

\* Who has nothing on the worker submits a job.
LEMMA OnceSubmits ==
    ASSUME NEW q \in Seq(Job), NEW r \in Seq(Result), Once(q, r), NEW j \in Job,
           \A i \in 1..Len(q) : q[i].who # j.who,
           \A i \in 1..Len(r) : r[i].who # j.who
    PROVE  Once(Append(q, j), r)
  <1> DEFINE p == Append(q, j)
  <1>1. /\ Len(q) \in Nat
        /\ \A i \in 1..Len(q) : p[i] = q[i]
        /\ p[Len(q) + 1] = j
        /\ \A i \in 1..Len(p) : i \in 1..Len(q) \/ i = Len(q) + 1
    BY Appended
  <1> HIDE DEF p
  <1>2. ASSUME NEW i \in 1..Len(p), NEW k \in 1..Len(p),
               p[i].who # "nobody", p[i].who = p[k].who
        PROVE  i = k
    BY <1>1, <1>2 DEF Once
  <1>3. ASSUME NEW i \in 1..Len(p), NEW k \in 1..Len(r), p[i].who # "nobody"
        PROVE  p[i].who # r[k].who
    BY <1>1, <1>3 DEF Once
  <1>4. Once(p, r)
    BY <1>2, <1>3 DEF Once
  <1> QED BY <1>4 DEF p

\* A job ends: its owner's continuation is due, or nobody's is.
LEMMA OnceEnds ==
    ASSUME NEW q \in Seq(Job), NEW r \in Seq(Result), Once(q, r), q # <<>>,
           NEW x \in Result, x.who = q[1].who
    PROVE  Once(Tail(q), r) /\ Once(Tail(q), Append(r, x))
  <1> DEFINE p == Tail(q)
             s == Append(r, x)
  <1>1. /\ \A i \in 1..Len(p) : p[i] = q[i + 1] /\ i + 1 \in 1..Len(q)
        /\ 1 \in 1..Len(q)
    BY Tailed
  <1>2. /\ Len(r) \in Nat
        /\ \A i \in 1..Len(r) : s[i] = r[i]
        /\ s[Len(r) + 1] = x
        /\ \A i \in 1..Len(s) : i \in 1..Len(r) \/ i = Len(r) + 1
    BY Appended
  <1> HIDE DEF p, s
  <1>3. ASSUME NEW i \in 1..Len(p), NEW k \in 1..Len(p),
               p[i].who # "nobody", p[i].who = p[k].who
        PROVE  i = k
    <2>1. /\ i + 1 \in 1..Len(q) /\ k + 1 \in 1..Len(q)
          /\ q[i + 1].who # "nobody" /\ q[i + 1].who = q[k + 1].who
      BY <1>1, <1>3
    <2>2. i + 1 = k + 1
      BY <2>1 DEF Once
    <2> QED BY <2>2
  <1>4. ASSUME NEW i \in 1..Len(s), NEW k \in 1..Len(s),
               s[i].who # "nobody", s[i].who = s[k].who
        PROVE  i = k
    BY <1>1, <1>2, <1>4 DEF Once
  <1>5. ASSUME NEW i \in 1..Len(p), p[i].who # "nobody"
        PROVE  p[i].who # q[1].who /\ \A k \in 1..Len(r) : p[i].who # r[k].who
    <2>1. i + 1 # 1
      OBVIOUS
    <2> QED BY <1>1, <1>5, <2>1 DEF Once
  <1>6. Once(p, r)
    BY <1>3, <1>5 DEF Once
  <1>7. ASSUME NEW i \in 1..Len(p), NEW k \in 1..Len(s), p[i].who # "nobody"
        PROVE  p[i].who # s[k].who
    BY <1>2, <1>5, <1>7
  <1>8. Once(p, s)
    BY <1>3, <1>4, <1>7 DEF Once
  <1> QED BY <1>6, <1>8 DEF p, s

\* A continuation runs: its owner has nothing else on the worker.
LEMMA OnceReads ==
    ASSUME NEW q \in Seq(Job), NEW r \in Seq(Result), Once(q, r), r # <<>>
    PROVE  /\ Once(q, Tail(r))
           /\ Head(r).who # "nobody" =>
                 /\ \A i \in 1..Len(q) : q[i].who # Head(r).who
                 /\ \A i \in 1..Len(Tail(r)) : Tail(r)[i].who # Head(r).who
  <1> DEFINE s == Tail(r)
  <1>1. /\ \A i \in 1..Len(s) : s[i] = r[i + 1] /\ i + 1 \in 1..Len(r)
        /\ 1 \in 1..Len(r) /\ Head(r) = r[1]
    BY Tailed
  <1> HIDE DEF s
  <1>2. ASSUME NEW i \in 1..Len(s), NEW k \in 1..Len(s),
               s[i].who # "nobody", s[i].who = s[k].who
        PROVE  i = k
    <2>1. i + 1 = k + 1
      BY <1>1, <1>2 DEF Once
    <2> QED BY <2>1
  <1>3. Once(q, s)
    BY <1>1, <1>2 DEF Once
  <1>4. ASSUME Head(r).who # "nobody", NEW i \in 1..Len(s)
        PROVE  s[i].who # Head(r).who
    <2>1. i + 1 # 1
      OBVIOUS
    <2> QED BY <1>1, <1>4, <2>1 DEF Once
  <1>5. ASSUME Head(r).who # "nobody", NEW i \in 1..Len(q)
        PROVE  q[i].who # Head(r).who
    BY <1>1, <1>5 DEF Once
  <1> QED BY <1>3, <1>4, <1>5 DEF s

\* What a cancel leaves on the worker.
LEMMA Cancelled ==
    ASSUME TypeOK, NEW who, Cancel(who)
    PROVE  /\ queue' \in Seq(Job) /\ Len(queue') = Len(queue)
           /\ returned' \in Seq(Result) /\ Len(returned') = Len(returned)
           /\ \A i \in 1..Len(queue) :
                 /\ queue[i].who \notin who => queue'[i] = queue[i]
                 /\ queue[i].who \in who =>
                       /\ queue'[i].who = "nobody" /\ queue'[i].on = queue[i].on
                       /\ queue'[i].cmd \in {queue[i].cmd, "skip"}
           /\ \A i \in 1..Len(returned) :
                 /\ returned[i].who \notin who => returned'[i] = returned[i]
                 /\ returned[i].who \in who => returned'[i].who = "nobody"
  <1>1. /\ queue \in Seq(Job) /\ Len(queue) \in Nat
        /\ returned \in Seq(Result) /\ Len(returned) \in Nat
    BY DEF TypeOK
  <1>2. ASSUME NEW i \in 1..Len(queue)
        PROVE  /\ queue'[i] \in Job
               /\ queue[i].who \notin who => queue'[i] = queue[i]
               /\ queue[i].who \in who =>
                     /\ queue'[i].who = "nobody" /\ queue'[i].on = queue[i].on
                     /\ queue'[i].cmd \in {queue[i].cmd, "skip"}
    <2>1. queue[i] \in Job
      BY <1>1
    <2>2. queue'[i] = IF queue[i].who \notin who THEN queue[i]
                      ELSE [who |-> "nobody", on |-> queue[i].on,
                            cmd |-> IF i = 1 THEN queue[i].cmd ELSE "skip"]
      BY <1>1 DEF Cancel
    <2> QED BY <2>1, <2>2 DEF Job, Owners, Calls
  <1>3. ASSUME NEW i \in 1..Len(returned)
        PROVE  /\ returned'[i] \in Result
               /\ returned[i].who \notin who => returned'[i] = returned[i]
               /\ returned[i].who \in who => returned'[i].who = "nobody"
    <2>1. returned[i] \in Result
      BY <1>1
    <2>2. returned'[i] = IF returned[i].who \notin who THEN returned[i]
                         ELSE [returned[i] EXCEPT !.who = "nobody"]
      BY <1>1 DEF Cancel
    <2> QED BY <2>1, <2>2 DEF Result, Owners
  <1>4. queue' \in Seq(Job) /\ Len(queue') = Len(queue)
    <2>1. queue' = [i \in 1..Len(queue) |-> queue'[i]]
      BY DEF Cancel
    <2> QED BY <1>1, <1>2, <2>1
  <1>5. returned' \in Seq(Result) /\ Len(returned') = Len(returned)
    <2>1. returned' = [i \in 1..Len(returned) |-> returned'[i]]
      BY DEF Cancel
    <2> QED BY <1>1, <1>3, <2>1
  <1> QED BY <1>2, <1>3, <1>4, <1>5

LEMMA OnceCancelled ==
    ASSUME TypeOK, NEW who, Cancel(who), Once(queue, returned)
    PROVE  Once(queue', returned')
  <1>1. /\ Len(queue') = Len(queue) /\ Len(returned') = Len(returned)
        /\ \A i \in 1..Len(queue) : queue'[i].who \in {queue[i].who, "nobody"}
        /\ \A i \in 1..Len(returned) : returned'[i].who \in {returned[i].who, "nobody"}
    BY Cancelled
  <1> QED BY <1>1 DEF Once

-----------------------------------------------------------------------------
(* What the invariant says of the heads of the two queues.                 *)

\* The running job, what is behind it, and what its end leaves.
LEMMA RunningJob ==
    ASSUME TypeOK, JobsOf, queue # <<>>
    PROVE  /\ Head(queue) = queue[1] /\ queue[1] \in Job /\ Placed(queue[1])
           /\ 1 \in 1..Len(queue) /\ Tail(queue) \in Seq(Job)
           /\ \A i \in 1..Len(Tail(queue)) :
                 Tail(queue)[i] = queue[i + 1] /\ i + 1 \in 1..Len(queue)
           /\ \A i \in 1..Len(queue) : i = 1 \/ i - 1 \in 1..Len(Tail(queue))
  <1>1. queue \in Seq(Job)
    BY DEF TypeOK
  <1> QED BY <1>1, Tailed DEF JobsOf

LEMMA NextResult ==
    ASSUME TypeOK, JobsOf, NEW who, NEW out, Continues(who, out)
    PROVE  /\ Head(returned) = returned[1] /\ returned[1] \in Result /\ Due(returned[1])
           /\ returned[1].who = who /\ returned[1].out = out
           /\ 1 \in 1..Len(returned) /\ returned' = Tail(returned)
           /\ returned' \in Seq(Result)
           /\ \A i \in 1..Len(returned') :
                 returned'[i] = returned[i + 1] /\ i + 1 \in 1..Len(returned)
           /\ \A i \in 1..Len(returned) : i = 1 \/ i - 1 \in 1..Len(returned')
           /\ Once(queue, returned')
           /\ who # "nobody" =>
                 /\ \A i \in 1..Len(queue) : queue[i].who # who
                 /\ \A i \in 1..Len(returned') : returned'[i].who # who
  <1>1. /\ returned \in Seq(Result) /\ queue \in Seq(Job) /\ returned # <<>>
        /\ Head(returned).who = who /\ Head(returned).out = out
        /\ returned' = Tail(returned) /\ Once(queue, returned)
    BY DEF TypeOK, Continues, JobsOf
  <1>2. /\ Head(returned) = returned[1] /\ 1 \in 1..Len(returned) /\ returned[1] \in Result
        /\ returned' \in Seq(Result)
        /\ \A i \in 1..Len(returned') :
              returned'[i] = returned[i + 1] /\ i + 1 \in 1..Len(returned)
        /\ \A i \in 1..Len(returned) : i = 1 \/ i - 1 \in 1..Len(returned')
    BY <1>1, Tailed
  <1>3. Due(returned[1])
    BY <1>2 DEF JobsOf
  <1>4. /\ Once(queue, returned')
        /\ who # "nobody" =>
              /\ \A i \in 1..Len(queue) : queue[i].who # who
              /\ \A i \in 1..Len(returned') : returned'[i].who # who
    BY <1>1, OnceReads
  <1> QED BY <1>1, <1>2, <1>3, <1>4

\* What the worker appends to the continuations.
LEMMA EndedJob ==
    ASSUME TypeOK, JobsOf, NEW out \in Outcomes, Runs(out)
    PROVE  /\ queue # <<>> /\ queue' = Tail(queue)
           /\ queue[1].who = "nobody" => returned' = returned
           /\ queue[1].who # "nobody" =>
                 returned' = Append(returned, [who |-> queue[1].who, cmd |-> queue[1].cmd,
                                               out |-> out])
           /\ [who |-> queue[1].who, cmd |-> queue[1].cmd, out |-> out] \in Result
           /\ UNCHANGED <<current, supervisor, client, request, muted, told, shutdown>>
  <1>1. queue # <<>>
    BY DEF Runs
  <1>2. Head(queue) = queue[1] /\ queue[1] \in Job
    BY <1>1, RunningJob
  <1> QED BY <1>1, <1>2 DEF Runs, Job, Result

\* A job goes to the end of the queue.
LEMMA Submitted ==
    ASSUME TypeOK, NEW who \in Owners, NEW cmd \in Calls, NEW k \in Clients,
           Submit(who, cmd, k)
    PROVE  /\ queue' \in Seq(Job) /\ Len(queue) \in Nat /\ Len(queue') = Len(queue) + 1
           /\ \A i \in 1..Len(queue) : queue'[i] = queue[i] /\ i \in 1..Len(queue')
           /\ \A i \in 1..Len(queue') : i \in 1..Len(queue) \/ i = Len(queue) + 1
           /\ queue'[Len(queue) + 1].who = who /\ queue'[Len(queue) + 1].cmd = cmd
           /\ queue'[Len(queue) + 1].on = k
  <1> DEFINE j == [who |-> who, cmd |-> cmd, on |-> k]
  <1>1. j \in Job /\ queue \in Seq(Job) /\ queue' = Append(queue, j)
    BY DEF Job, TypeOK, Submit
  <1> QED BY <1>1, Appended

LEMMA SubmittedOnce ==
    ASSUME TypeOK, JobsOf, NEW who \in Owners, NEW cmd \in Calls, NEW k \in Clients,
           Submit(who, cmd, k), NEW results \in Seq(Result), Once(queue, results),
           \A i \in 1..Len(queue) : queue[i].who # who,
           \A i \in 1..Len(results) : results[i].who # who
    PROVE  Once(queue', results)
  <1> DEFINE j == [who |-> who, cmd |-> cmd, on |-> k]
  <1>1. j \in Job /\ j.who = who /\ queue \in Seq(Job) /\ queue' = Append(queue, j)
    BY DEF Job, TypeOK, Submit
  <1> QED BY <1>1, OnceSubmits

-----------------------------------------------------------------------------
(* Types.                                                                  *)

LEMMA TypeSteps ==
    ASSUME TypeOK, JobsOf, StackOf, [Next]_vars
    PROVE  TypeOK'
  <1>1. CASE UNCHANGED vars
    BY <1>1 DEF TypeOK, vars
  <1>2. CASE Boot
    BY <1>2 DEF TypeOK, Boot, Attempt, Submit, Job, Owners, Calls
  <1>3. CASE Refresh
    <2>1. client \in Clients
      BY <1>3 DEF Refresh, StackOf, TypeOK
    <2> QED BY <1>3, <2>1 DEF TypeOK, Refresh, Submit, Job, Owners, Calls
  <1>4. ASSUME NEW k \in Clients, Retry(k)
        PROVE  TypeOK'
    BY <1>4 DEF TypeOK, Retry, Attempt, Submit, Job, Owners, Calls, Mic
  <1>5. ASSUME NEW out \in Outcomes, StartReturned(out)
        PROVE  TypeOK'
    <2>1. client \in Clients /\ returned' \in Seq(Result)
      BY <1>5, NextResult DEF StartReturned, StackOf, TypeOK
    <2>2. "supervisor" \in Owners /\ muted \in Calls /\ "stop" \in Calls /\ current \in Clients
      BY DEF TypeOK, Owners, Calls, Commands
    <2>3. queue' \in Seq(Job)
      BY <1>5, <2>1, <2>2, Submitted DEF StartReturned, Releases
    <2> QED BY <1>5, <2>1, <2>3 DEF TypeOK, StartReturned, Releases
  <1>6. ASSUME NEW out \in Outcomes, HookReturned(out)
        PROVE  TypeOK'
    <2>1. /\ Head(returned).cmd \in Mic /\ returned' \in Seq(Result)
      BY <1>6, NextResult DEF HookReturned, Due, Awaited
    <2> QED BY <1>6, <2>1 DEF TypeOK, HookReturned
  <1>7. ASSUME NEW out \in Outcomes, RefreshReturned(out)
        PROVE  TypeOK'
    <2>1. client \in Clients /\ returned' \in Seq(Result)
      BY <1>7, NextResult DEF RefreshReturned, StackOf, TypeOK
    <2>2. "supervisor" \in Owners /\ "stop" \in Calls
      BY DEF Owners, Calls
    <2>3. queue' \in Seq(Job)
      BY <1>7, <2>1, <2>2, Submitted DEF RefreshReturned, Releases, TypeOK
    <2> QED BY <1>7, <2>1, <2>3 DEF TypeOK, RefreshReturned, Releases
  <1>8. ASSUME NEW out \in Outcomes, ReleaseReturned(out)
        PROVE  TypeOK'
    <2>1. returned' \in Seq(Result)
      BY <1>8, NextResult DEF ReleaseReturned
    <2> QED BY <1>8, <2>1 DEF TypeOK, ReleaseReturned
  <1>9. ASSUME NEW out \in Outcomes, Runs(out)
        PROVE  TypeOK'
    <2>1. queue' \in Seq(Job)
      BY <1>9, EndedJob, RunningJob
    <2>5. returned' \in Seq(Result)
      <3> DEFINE x == [who |-> queue[1].who, cmd |-> queue[1].cmd, out |-> out]
      <3>1. x \in Result /\ (returned' = returned \/ returned' = Append(returned, x))
        BY <1>9, EndedJob
      <3>2. returned \in Seq(Result)
        BY DEF TypeOK
      <3> QED BY <3>1, <3>2, Appended
    <2>2. Head(queue) \in Job
      BY <1>9, EndedJob, RunningJob
    <2>3. stack' \in [Clients -> {"new", "up", "down"}] /\ bound' \in [Clients -> BOOLEAN]
      BY <1>9, <2>2 DEF TypeOK, Runs, Started, Stopped, Commanded, sdk, Job
    <2>4. mic' \in [Clients -> Mic]
      BY <1>9, <2>2 DEF TypeOK, Runs, Started, Stopped, Commanded, sdk, Job
    <2> QED BY <1>9, <2>1, <2>3, <2>4, <2>5 DEF TypeOK, Runs
  <1>10. CASE Discards
    BY <1>10, Tailed DEF TypeOK, Discards
  <1>11. CASE ShutsDown
    <2>1. queue' \in Seq(Job) /\ returned' \in Seq(Result)
      BY <1>11, Cancelled DEF ShutsDown
    <2> QED BY <1>11, <2>1 DEF TypeOK, ShutsDown
  <1>12. CASE StopsLoop
    <2>1. queue' \in Seq(Job) /\ returned' \in Seq(Result)
      BY <1>12, Cancelled DEF StopsLoop, TypeOK
    <2> QED BY <1>12, <2>1 DEF TypeOK, StopsLoop
  <1>13. CASE StopsClient
    <2>1. "stop" \in Owners /\ "stop" \in Calls
      BY DEF Owners, Calls
    <2>2. queue' \in Seq(Job)
      BY <1>13, <2>1, Submitted DEF StopsClient, TypeOK
    <2> QED BY <1>13, <2>2 DEF TypeOK, StopsClient
  <1>14. CASE Joins
    BY <1>14 DEF TypeOK, Joins
  <1>15. ASSUME NEW out \in Outcomes, StopReturned(out)
         PROVE  TypeOK'
    <2>1. returned' \in Seq(Result)
      BY <1>15, NextResult DEF StopReturned
    <2> QED BY <1>15, <2>1 DEF TypeOK, StopReturned
  <1>16. ASSUME NEW k \in Clients, Drops(k)
         PROVE  TypeOK'
    BY <1>16 DEF TypeOK, Drops
  <1>17. ASSUME NEW r \in Requests, NEW out \in Outcomes, Answered(r, out)
         PROVE  TypeOK'
    <2>1. returned' \in Seq(Result)
      BY <1>17, NextResult DEF Answered
    <2> QED BY <1>17, <2>1 DEF TypeOK, Answered
  <1>18. ASSUME NEW r \in Requests, NEW cmd \in Commands, Asks(r, cmd)
         PROVE  TypeOK'
    BY <1>18 DEF TypeOK, Asks, Submit, Job, Owners, Calls
  <1> QED BY <1>1, <1>2, <1>3, <1>4, <1>5, <1>6, <1>7, <1>8, <1>9, <1>10, <1>11, <1>12,
             <1>13, <1>14, <1>15, <1>16, <1>17, <1>18
          DEF Next, Loop, Worker, Shutdown, User, Ended

-----------------------------------------------------------------------------
(* Who has something on the worker.                                        *)

LEMMA NothingAwaited ==
    ASSUME JobsOf, supervisor \notin {"start", "refresh", "hook", "release"}
    PROVE  /\ \A i \in 1..Len(queue) : queue[i].who # "supervisor"
           /\ \A i \in 1..Len(returned) : returned[i].who # "supervisor"
  <1>1. Awaited = {}
    BY DEF Awaited
  <1> QED BY <1>1 DEF JobsOf, Placed, Due

LEMMA NothingReleased ==
    ASSUME JobsOf, shutdown # "release"
    PROVE  /\ \A i \in 1..Len(queue) : queue[i].who # "stop"
           /\ \A i \in 1..Len(returned) : returned[i].who # "stop"
  BY DEF JobsOf, Placed, Due

LEMMA NothingAsked ==
    ASSUME TypeOK, JobsOf, NEW r \in Requests, request[r] = "none"
    PROVE  /\ \A i \in 1..Len(queue) : queue[i].who # r
           /\ \A i \in 1..Len(returned) : returned[i].who # r
  <1>1. ASSUME NEW i \in 1..Len(queue) PROVE queue[i].who # r
    <2>1. queue[i] \in Job
      BY DEF TypeOK
    <2>2. queue[i].cmd # "none"
      BY <2>1 DEF Job, Calls, Commands, Mic
    <2> QED BY <2>2 DEF JobsOf, Placed
  <1>2. ASSUME NEW i \in 1..Len(returned) PROVE returned[i].who # r
    <2>1. returned[i] \in Result
      BY DEF TypeOK
    <2>2. returned[i].cmd # "none"
      BY <2>1 DEF Result, Calls, Commands, Mic
    <2> QED BY <2>2 DEF JobsOf, Due
  <1> QED BY <1>1, <1>2

\* Only the loop starts a client, and only where it stands at a REGISTER.
LEMMA NothingStarts ==
    ASSUME JobsOf, TypeOK, supervisor \notin {"start", "refresh", "cancelled"},
           NEW i \in 1..Len(queue)
    PROVE  queue[i].cmd # "start"
  <1>1. "start" \notin Awaited
    BY DEF Awaited, Mic
  <1>2. "start" \notin Commands
    BY DEF Commands, Mic
  <1>3. queue[i].who \in Requests => request[queue[i].who] # "start"
    BY <1>2 DEF TypeOK
  <1> QED BY <1>1, <1>2, <1>3 DEF JobsOf, Placed

-----------------------------------------------------------------------------
(* The jobs of the worker.                                                 *)

\* The loop submits a job from where it stands.
LEMMA LoopSubmits ==
    ASSUME TypeOK, JobsOf, ReleaseOf,
           NEW cmd \in Calls, Submit("supervisor", cmd, current'), cmd \in Awaited',
           current' = current, current \in Clients,
           supervisor # "cancelled", UNCHANGED <<request, shutdown>>,
           NEW results \in Seq(Result), returned' = results, Once(queue, results),
           \A i \in 1..Len(results) : results[i].who # "supervisor" /\ Due(results[i]),
           \A i \in 1..Len(queue) : queue[i].who # "supervisor"
    PROVE  JobsOf'
  <1>1. "supervisor" \in Owners
    BY DEF Owners
  <1>2. Once(queue', returned')
    BY <1>1, SubmittedOnce
  <1>3. ASSUME NEW i \in 1..Len(queue')
        PROVE  Placed(queue[i])'
    <2>1. CASE i \in 1..Len(queue)
      <3>1. queue'[i] = queue[i] /\ queue[i].who # "supervisor" /\ Placed(queue[i])
        BY <1>1, <2>1, Submitted DEF JobsOf
      <3> QED BY <3>1 DEF Placed
    <2>2. CASE i \notin 1..Len(queue)
      <3>1. /\ queue'[i].who = "supervisor" /\ queue'[i].cmd = cmd
            /\ queue'[i].on = current
        BY <1>1, <1>3, <2>2, Submitted
      <3> QED BY <3>1 DEF Placed
    <2> QED BY <2>1, <2>2
  <1>4. ASSUME NEW i \in 1..Len(returned')
        PROVE  Due(returned[i])'
    BY <1>4 DEF Due
  <1> QED BY <1>2, <1>3, <1>4 DEF JobsOf

\* The loop goes on without one, after the answer it awaited.
LEMMA LoopReads ==
    ASSUME TypeOK, JobsOf, NEW out, Continues("supervisor", out),
           UNCHANGED <<queue, current, request, shutdown>>, supervisor # "cancelled"
    PROVE  JobsOf'
  <1>1. Once(queue', returned')
    BY NextResult
  <1>2. ASSUME NEW i \in 1..Len(queue')
        PROVE  Placed(queue[i])'
    <2>1. Placed(queue[i]) /\ queue[i].who # "supervisor" /\ queue'[i] = queue[i]
      BY <1>2, NextResult DEF JobsOf
    <2> QED BY <2>1 DEF Placed
  <1>3. ASSUME NEW i \in 1..Len(returned')
        PROVE  Due(returned[i])'
    <2>1. /\ Due(returned[i + 1]) /\ returned'[i] = returned[i + 1]
          /\ returned'[i].who # "supervisor"
      BY <1>3, NextResult DEF JobsOf
    <2> QED BY <2>1 DEF Due
  <1> QED BY <1>1, <1>2, <1>3 DEF JobsOf

LEMMA LoopJobs ==
    ASSUME TypeOK, JobsOf, StackOf, ReleaseOf, Loop
    PROVE  JobsOf'
  <1>1. CASE Boot
    <2>1. /\ "start" \in Calls /\ current' = current /\ current \in Clients
          /\ Submit("supervisor", "start", current')
      BY <1>1 DEF Boot, Attempt, StackOf, Calls, TypeOK
    <2>2. "start" \in Awaited' /\ UNCHANGED <<request, shutdown>> /\ supervisor # "cancelled"
      BY <1>1 DEF Boot, Attempt, Awaited
    <2>3. returned \in Seq(Result) /\ returned' = returned /\ Once(queue, returned)
      BY <1>1 DEF Boot, TypeOK, JobsOf
    <2>4. /\ \A i \in 1..Len(queue) : queue[i].who # "supervisor"
          /\ \A i \in 1..Len(returned) : returned[i].who # "supervisor" /\ Due(returned[i])
      BY <1>1, NothingAwaited DEF Boot, JobsOf
    <2> QED BY <2>1, <2>2, <2>3, <2>4, LoopSubmits
  <1>2. CASE Refresh
    <2>1. /\ "start" \in Calls /\ current' = current /\ current \in Clients
          /\ Submit("supervisor", "start", current')
      BY <1>2 DEF Refresh, StackOf, Calls, TypeOK
    <2>2. "start" \in Awaited' /\ UNCHANGED <<request, shutdown>> /\ supervisor # "cancelled"
      BY <1>2 DEF Refresh, Awaited
    <2>3. returned \in Seq(Result) /\ returned' = returned /\ Once(queue, returned)
      BY <1>2 DEF Refresh, TypeOK, JobsOf
    <2>4. /\ \A i \in 1..Len(queue) : queue[i].who # "supervisor"
          /\ \A i \in 1..Len(returned) : returned[i].who # "supervisor" /\ Due(returned[i])
      BY <1>2, NothingAwaited DEF Refresh, JobsOf
    <2> QED BY <2>1, <2>2, <2>3, <2>4, LoopSubmits
  <1>3. ASSUME NEW k \in Clients, Retry(k)
        PROVE  JobsOf'
    <2>1. /\ supervisor = "backoff" /\ supervisor' = "start" /\ current' = k
          /\ UNCHANGED <<returned, request, shutdown>> /\ Submit("supervisor", "start", k)
          /\ \A r \in Requests : request[r] = "none"
      BY <1>3 DEF Retry, Attempt, Busy
    <2>2. "supervisor" \in Owners /\ "start" \in Calls /\ Awaited' = {"start"}
      BY <2>1 DEF Owners, Calls, Awaited
    <2>3. /\ \A i \in 1..Len(queue) : queue[i].who # "supervisor"
          /\ \A i \in 1..Len(returned) : returned[i].who # "supervisor"
      BY <2>1, NothingAwaited
    <2>4. Once(queue', returned')
      BY <2>1, <2>2, <2>3, SubmittedOnce DEF JobsOf, TypeOK
    <2>5. ASSUME NEW i \in 1..Len(queue')
          PROVE  Placed(queue[i])'
      <3>1. CASE i \in 1..Len(queue)
        <4>1. queue'[i] = queue[i] /\ Placed(queue[i])
          BY <2>1, <2>2, <3>1, Submitted DEF JobsOf
        <4>2. queue[i].who \notin Requests /\ queue[i].who # "supervisor"
          BY <2>1, <2>3, <3>1, NothingAsked
        <4>3. queue[i].who # "stop"
          BY <2>1, <3>1, NothingReleased DEF ReleaseOf
        <4> QED BY <2>1, <4>1, <4>2, <4>3 DEF Placed
      <3>2. CASE i \notin 1..Len(queue)
        <4>1. /\ queue'[i].who = "supervisor" /\ queue'[i].cmd = "start"
              /\ queue'[i].on = k
          BY <2>1, <2>2, <2>5, <3>2, <1>3, Submitted
        <4> QED BY <2>1, <2>2, <4>1 DEF Placed
      <3> QED BY <3>1, <3>2
    <2>6. ASSUME NEW i \in 1..Len(returned')
          PROVE  Due(returned[i])'
      BY <2>1, <2>3, <2>6 DEF JobsOf, Due
    <2> QED BY <2>4, <2>5, <2>6 DEF JobsOf
  <1>4. ASSUME NEW out \in Outcomes, NEW cmd \in Calls, Continues("supervisor", out),
               supervisor \notin {"cancelled", "boot"},
               Submit("supervisor", cmd, current), cmd \in Awaited',
               UNCHANGED <<current, request, shutdown>>
        PROVE  JobsOf'
    <2>1. /\ returned' \in Seq(Result) /\ Once(queue, returned')
          /\ \A i \in 1..Len(queue) : queue[i].who # "supervisor"
          /\ \A i \in 1..Len(returned') : returned'[i].who # "supervisor"
      BY <1>4, NextResult
    <2>2. \A i \in 1..Len(returned') : Due(returned'[i])
      BY <1>4, NextResult DEF JobsOf
    <2>3. current \in Clients /\ Submit("supervisor", cmd, current')
      BY <1>4 DEF TypeOK, Submit
    <2> QED BY <1>4, <2>1, <2>2, <2>3, LoopSubmits
  <1>5. ASSUME NEW out \in Outcomes, StartReturned(out)
        PROVE  JobsOf'
    <2>1. /\ Continues("supervisor", out) /\ supervisor \notin {"cancelled", "boot"}
          /\ UNCHANGED <<current, request, shutdown>> /\ client = current
      BY <1>5 DEF StartReturned, StackOf
    <2>2. CASE out = "ok"
      <3>1. muted \in Calls /\ Submit("supervisor", muted, current) /\ muted \in Awaited'
        BY <1>5, <2>2 DEF StartReturned, TypeOK, Calls, Commands, Awaited
      <3> QED BY <1>4, <2>1, <3>1
    <2>3. CASE out # "ok"
      <3>1. "stop" \in Calls /\ Submit("supervisor", "stop", current) /\ "stop" \in Awaited'
        BY <1>5, <2>1, <2>3 DEF StartReturned, Releases, Calls, Awaited
      <3> QED BY <1>4, <2>1, <3>1
    <2> QED BY <2>2, <2>3
  <1>6. ASSUME NEW out \in Outcomes, HookReturned(out)
        PROVE  JobsOf'
    BY <1>6, LoopReads DEF HookReturned
  <1>7. ASSUME NEW out \in Outcomes, RefreshReturned(out)
        PROVE  JobsOf'
    <2>1. /\ Continues("supervisor", out) /\ supervisor \notin {"cancelled", "boot"}
          /\ UNCHANGED <<current, request, shutdown>> /\ client = current
      BY <1>7 DEF RefreshReturned, StackOf
    <2>2. CASE UNCHANGED queue
      BY <2>1, <2>2, LoopReads
    <2>3. CASE Releases
      <3>1. "stop" \in Calls /\ Submit("supervisor", "stop", current) /\ "stop" \in Awaited'
        BY <2>1, <2>3 DEF Releases, Calls, Awaited
      <3> QED BY <1>4, <2>1, <3>1
    <2> QED BY <1>7, <2>2, <2>3 DEF RefreshReturned
  <1>8. ASSUME NEW out \in Outcomes, ReleaseReturned(out)
        PROVE  JobsOf'
    BY <1>8, LoopReads DEF ReleaseReturned
  <1> QED BY <1>1, <1>2, <1>3, <1>5, <1>6, <1>7, <1>8 DEF Loop

LEMMA WorkerJobs ==
    ASSUME TypeOK, JobsOf, NEW out \in Outcomes, Runs(out)
    PROVE  JobsOf'
  <1> DEFINE x == [who |-> queue[1].who, cmd |-> queue[1].cmd, out |-> out]
  <1>1. /\ queue \in Seq(Job) /\ returned \in Seq(Result) /\ queue # <<>>
        /\ queue' = Tail(queue) /\ x \in Result /\ x.who = queue[1].who
        /\ x.who = "nobody" => returned' = returned
        /\ x.who # "nobody" => returned' = Append(returned, x)
        /\ UNCHANGED <<current, supervisor, request, shutdown>>
    BY EndedJob DEF TypeOK
  <1>2. Once(queue', returned')
    BY <1>1, OnceEnds DEF JobsOf
  <1>3. Awaited' = Awaited
    BY <1>1 DEF Awaited
  <1>4. ASSUME NEW i \in 1..Len(queue')
        PROVE  Placed(queue[i])'
    <2>1. Placed(queue[i + 1]) /\ queue'[i] = queue[i + 1]
      BY <1>1, <1>4, RunningJob DEF JobsOf
    <2> QED BY <1>1, <1>3, <2>1 DEF Placed
  <1>5. Due(x)
    BY <1>1, RunningJob DEF Placed, Due
  <1>6. ASSUME NEW i \in 1..Len(returned')
        PROVE  Due(returned[i])'
    <2>1. Due(returned'[i])
      <3>1. CASE returned' = returned
        BY <1>6, <3>1 DEF JobsOf
      <3>2. CASE returned' = Append(returned, x)
        BY <1>1, <1>5, <1>6, <3>2, Appended DEF JobsOf
      <3> QED BY <1>1, <3>1, <3>2
    <2> QED BY <1>1, <1>3, <2>1 DEF Due
  <1> QED BY <1>2, <1>4, <1>6 DEF JobsOf

\* What is on the worker is what it was, or belongs to nobody any more.
LEMMA JobsStay ==
    ASSUME JobsOf, UNCHANGED <<current, supervisor, request, queue>>,
           shutdown = "release" => shutdown' = "release"
                \/ \A i \in 1..Len(queue) : queue[i].who # "stop",
           shutdown # "no" => shutdown' # "no", NEW i \in 1..Len(queue')
    PROVE  Placed(queue[i])'
  <1>1. Placed(queue[i]) /\ queue'[i] = queue[i] /\ Awaited' = Awaited
    BY DEF JobsOf, Awaited
  <1> QED BY <1>1 DEF Placed

LEMMA DiscardsJobs ==
    ASSUME TypeOK, JobsOf, Discards
    PROVE  JobsOf'
  <1>1. /\ queue \in Seq(Job) /\ returned \in Seq(Result) /\ returned # <<>>
        /\ returned' = Tail(returned)
        /\ UNCHANGED <<current, supervisor, request, queue, shutdown>>
    BY DEF TypeOK, Discards
  <1>2. Once(queue', returned')
    BY <1>1, OnceReads DEF JobsOf
  <1>3. \A i \in 1..Len(queue') : Placed(queue[i])'
    BY <1>1, JobsStay
  <1>4. ASSUME NEW i \in 1..Len(returned')
        PROVE  Due(returned[i])'
    <2>1. Due(returned[i + 1]) /\ returned'[i] = returned[i + 1] /\ Awaited' = Awaited
      BY <1>1, <1>4, Tailed DEF JobsOf, Awaited
    <2> QED BY <1>1, <2>1 DEF Due
  <1> QED BY <1>2, <1>3, <1>4 DEF JobsOf

LEMMA ShutsDownJobs ==
    ASSUME TypeOK, JobsOf, ShutsDown
    PROVE  JobsOf'
  <1>1. /\ shutdown = "no" /\ shutdown' = "sessions" /\ Cancel(Requests)
        /\ UNCHANGED <<current, supervisor>>
    BY DEF ShutsDown
  <1>2. Once(queue', returned')
    BY <1>1, OnceCancelled DEF JobsOf
  <1>3. Awaited' = Awaited
    BY <1>1 DEF Awaited
  <1>4. ASSUME NEW i \in 1..Len(queue')
        PROVE  Placed(queue[i])'
    <2>1. i \in 1..Len(queue) /\ Placed(queue[i]) /\ queue[i] \in Job
      BY <1>1, <1>4, Cancelled DEF JobsOf, TypeOK
    <2>2. CASE queue[i].who \in Requests
      <3>1. queue[i].cmd = request[queue[i].who] /\ queue[i].cmd # "none"
        BY <2>1, <2>2 DEF Placed, Job, Calls, Commands, Mic
      <3>2. queue[i].cmd \in Commands
        BY <2>2, <3>1 DEF TypeOK
      <3>3. queue'[i].who = "nobody" /\ queue'[i].cmd \in {queue[i].cmd, "skip"}
        BY <1>1, <2>1, <2>2, Cancelled
      <3> QED BY <1>1, <3>2, <3>3 DEF Placed
    <2>3. CASE queue[i].who \notin Requests
      <3>1. queue'[i] = queue[i]
        BY <1>1, <2>1, <2>3, Cancelled
      <3> QED BY <1>1, <1>3, <2>1, <2>3, <3>1 DEF Placed
    <2> QED BY <2>2, <2>3
  <1>5. ASSUME NEW i \in 1..Len(returned')
        PROVE  Due(returned[i])'
    <2>1. i \in 1..Len(returned) /\ Due(returned[i])
      BY <1>1, <1>5, Cancelled DEF JobsOf
    <2>2. \/ returned'[i].who = "nobody"
          \/ returned[i].who \notin Requests /\ returned'[i] = returned[i]
      BY <1>1, <2>1, Cancelled
    <2> QED BY <1>1, <1>3, <2>1, <2>2 DEF Due
  <1> QED BY <1>2, <1>4, <1>5 DEF JobsOf

LEMMA StopsLoopJobs ==
    ASSUME TypeOK, JobsOf, ReleaseOf, StopsLoop
    PROVE  JobsOf'
  <1>1. CASE supervisor = "died"
    <2>1. /\ UNCHANGED <<current, supervisor, request, queue, returned>>
          /\ shutdown = "sessions" /\ shutdown' # "no"
      BY <1>1 DEF StopsLoop
    <2>2. \A i \in 1..Len(queue') : Placed(queue[i])'
      BY <2>1, JobsStay
    <2>3. ASSUME NEW i \in 1..Len(returned')
          PROVE  Due(returned[i])'
      <3>1. Due(returned[i]) /\ Awaited' = Awaited /\ returned'[i] = returned[i]
        BY <2>1, <2>3 DEF JobsOf, Awaited
      <3> QED BY <2>1, <3>1 DEF Due
    <2> QED BY <2>1, <2>2, <2>3 DEF JobsOf
  <1>2. CASE supervisor # "died"
    <2>1. /\ Cancel({"supervisor"}) /\ UNCHANGED <<current, request>>
          /\ shutdown = "sessions" /\ shutdown' = "cancelled" /\ supervisor' = "cancelled"
      BY <1>2 DEF StopsLoop
    <2>2. Once(queue', returned')
      BY <2>1, OnceCancelled DEF JobsOf
    <2>3. ASSUME NEW i \in 1..Len(queue')
          PROVE  Placed(queue[i])'
      <3>1. i \in 1..Len(queue) /\ Placed(queue[i])
        BY <2>1, <2>3, Cancelled DEF JobsOf
      <3>2. CASE queue[i].who = "supervisor"
        <4>1. queue'[i].who = "nobody" /\ queue'[i].on = queue[i].on
          BY <2>1, <3>1, <3>2, Cancelled
        <4>2. queue[i].on = current
          BY <3>1, <3>2 DEF Placed
        <4> QED BY <2>1, <4>1, <4>2 DEF Placed
      <3>3. CASE queue[i].who # "supervisor"
        <4>1. queue'[i] = queue[i]
          BY <2>1, <3>1, <3>3, Cancelled
        <4> QED BY <2>1, <3>1, <3>3, <4>1 DEF Placed
      <3> QED BY <3>2, <3>3
    <2>4. ASSUME NEW i \in 1..Len(returned')
          PROVE  Due(returned[i])'
      <3>1. i \in 1..Len(returned) /\ Due(returned[i])
        BY <2>1, <2>4, Cancelled DEF JobsOf
      <3>2. \/ returned'[i].who = "nobody"
            \/ returned[i].who # "supervisor" /\ returned'[i] = returned[i]
        BY <2>1, <3>1, Cancelled
      <3> QED BY <2>1, <3>1, <3>2 DEF Due
    <2> QED BY <2>2, <2>3, <2>4 DEF JobsOf
  <1> QED BY <1>1, <1>2

LEMMA StopsClientJobs ==
    ASSUME TypeOK, JobsOf, StackOf, StopsClient
    PROVE  JobsOf'
  <1>1. /\ shutdown = "cancelled" /\ shutdown' \in {"joining", "release"}
        /\ UNCHANGED <<current, supervisor, request, returned>> /\ returned \in Seq(Result)
        /\ Awaited' = Awaited
    BY DEF StopsClient, TypeOK, Awaited
  <1>2. /\ \A i \in 1..Len(queue) : queue[i].who # "stop"
        /\ \A i \in 1..Len(returned) : returned[i].who # "stop"
    BY <1>1, NothingReleased
  <1>3. ASSUME NEW i \in 1..Len(returned')
        PROVE  Due(returned[i])'
    <2>1. Due(returned[i]) /\ returned'[i] = returned[i]
      BY <1>1, <1>3 DEF JobsOf
    <2> QED BY <1>1, <1>2, <2>1 DEF Due
  <1>4. CASE client = NoClient
    <2>1. UNCHANGED queue
      BY <1>4 DEF StopsClient
    <2>2. \A i \in 1..Len(queue') : Placed(queue[i])'
      BY <1>1, <2>1, JobsStay
    <2> QED BY <1>1, <1>3, <2>1, <2>2 DEF JobsOf
  <1>5. CASE client # NoClient
    <2>1. /\ Submit("stop", "stop", current) /\ shutdown' = "release"
          /\ "stop" \in Owners /\ "stop" \in Calls /\ current \in Clients
      BY <1>5 DEF StopsClient, StackOf, TypeOK, Owners, Calls
    <2>2. Once(queue', returned')
      BY <1>1, <1>2, <2>1, SubmittedOnce DEF JobsOf
    <2>3. ASSUME NEW i \in 1..Len(queue')
          PROVE  Placed(queue[i])'
      <3>1. CASE i \in 1..Len(queue)
        <4>1. queue'[i] = queue[i] /\ Placed(queue[i]) /\ queue[i].who # "stop"
          BY <1>2, <2>1, <3>1, Submitted DEF JobsOf
        <4> QED BY <1>1, <4>1 DEF Placed
      <3>2. CASE i \notin 1..Len(queue)
        <4>1. /\ queue'[i].who = "stop" /\ queue'[i].cmd = "stop"
              /\ queue'[i].on = current
          BY <2>1, <2>3, <3>2, Submitted
        <4> QED BY <1>1, <2>1, <4>1 DEF Placed
      <3> QED BY <3>1, <3>2
    <2> QED BY <1>3, <2>2, <2>3 DEF JobsOf
  <1> QED BY <1>4, <1>5

LEMMA StopReturnedJobs ==
    ASSUME TypeOK, JobsOf, NEW out \in Outcomes, StopReturned(out)
    PROVE  JobsOf'
  <1>1. /\ Continues("stop", out) /\ shutdown = "release" /\ shutdown' # "no"
        /\ UNCHANGED <<current, supervisor, request, queue>> /\ Awaited' = Awaited
    BY DEF StopReturned, Awaited
  <1>2. Once(queue', returned')
    BY <1>1, NextResult
  <1>3. \A i \in 1..Len(queue') : Placed(queue[i])'
    BY <1>1, NextResult, JobsStay
  <1>4. ASSUME NEW i \in 1..Len(returned')
        PROVE  Due(returned[i])'
    <2>1. /\ Due(returned[i + 1]) /\ returned'[i] = returned[i + 1]
          /\ returned'[i].who # "stop"
      BY <1>1, <1>4, NextResult DEF JobsOf
    <2> QED BY <1>1, <2>1 DEF Due
  <1> QED BY <1>2, <1>3, <1>4 DEF JobsOf

LEMMA AnsweredJobs ==
    ASSUME TypeOK, JobsOf, NEW r \in Requests, NEW out \in Outcomes, Answered(r, out)
    PROVE  JobsOf'
  <1>1. /\ Continues(r, out) /\ UNCHANGED <<current, supervisor, queue, shutdown>>
        /\ \A s \in Requests : s # r => request'[s] = request[s]
        /\ r # "nobody" /\ Awaited' = Awaited
    BY DEF Answered, TypeOK, Awaited
  <1>2. Once(queue', returned')
    BY <1>1, NextResult
  <1>3. ASSUME NEW i \in 1..Len(queue')
        PROVE  Placed(queue[i])'
    <2>1. Placed(queue[i]) /\ queue[i].who # r /\ queue'[i] = queue[i]
      BY <1>1, <1>3, NextResult DEF JobsOf
    <2> QED BY <1>1, <2>1 DEF Placed
  <1>4. ASSUME NEW i \in 1..Len(returned')
        PROVE  Due(returned[i])'
    <2>1. Due(returned[i + 1]) /\ returned'[i] = returned[i + 1] /\ returned'[i].who # r
      BY <1>1, <1>4, NextResult DEF JobsOf
    <2> QED BY <1>1, <2>1 DEF Due
  <1> QED BY <1>2, <1>3, <1>4 DEF JobsOf

LEMMA AsksJobs ==
    ASSUME TypeOK, JobsOf, NEW r \in Requests, NEW cmd \in Commands, Asks(r, cmd)
    PROVE  JobsOf'
  <1>1. /\ Submit(r, cmd, current) /\ request[r] = "none" /\ current \in Clients
        /\ UNCHANGED <<current, supervisor, returned, shutdown>> /\ returned \in Seq(Result)
        /\ \A s \in Requests : s # r => request'[s] = request[s]
        /\ request'[r] = cmd /\ r \in Owners /\ cmd \in Calls /\ Awaited' = Awaited
    BY DEF Asks, TypeOK, Owners, Calls, Awaited
  <1>2. /\ \A i \in 1..Len(queue) : queue[i].who # r
        /\ \A i \in 1..Len(returned) : returned[i].who # r
    BY <1>1, NothingAsked
  <1>3. Once(queue', returned')
    BY <1>1, <1>2, SubmittedOnce DEF JobsOf
  <1>4. ASSUME NEW i \in 1..Len(queue')
        PROVE  Placed(queue[i])'
    <2>1. CASE i \in 1..Len(queue)
      <3>1. queue'[i] = queue[i] /\ Placed(queue[i]) /\ queue[i].who # r
        BY <1>1, <1>2, <2>1, Submitted DEF JobsOf
      <3> QED BY <1>1, <3>1 DEF Placed
    <2>2. CASE i \notin 1..Len(queue)
      <3>1. queue'[i].who = r /\ queue'[i].cmd = cmd /\ queue'[i].on = current
        BY <1>1, <1>4, <2>2, Submitted
      <3> QED BY <1>1, <3>1 DEF Placed
    <2> QED BY <2>1, <2>2
  <1>5. ASSUME NEW i \in 1..Len(returned')
        PROVE  Due(returned[i])'
    <2>1. Due(returned[i]) /\ returned'[i] = returned[i] /\ returned[i].who # r
      BY <1>1, <1>2, <1>5 DEF JobsOf
    <2> QED BY <1>1, <2>1 DEF Due
  <1> QED BY <1>3, <1>4, <1>5 DEF JobsOf

LEMMA JobsSteps ==
    ASSUME TypeOK, JobsOf, StackOf, ReleaseOf, [Next]_vars
    PROVE  JobsOf'
  <1>1. ASSUME UNCHANGED <<current, supervisor, request, queue, returned>>,
               shutdown' = shutdown \/ (shutdown = "joining" /\ shutdown' = "done")
        PROVE  JobsOf'
    <2>1. \A i \in 1..Len(queue') : Placed(queue[i])'
      BY <1>1, JobsStay
    <2>2. ASSUME NEW i \in 1..Len(returned')
          PROVE  Due(returned[i])'
      <3>1. Due(returned[i]) /\ returned'[i] = returned[i] /\ Awaited' = Awaited
        BY <1>1, <2>2 DEF JobsOf, Awaited
      <3> QED BY <1>1, <3>1 DEF Due
    <2> QED BY <1>1, <2>1, <2>2 DEF JobsOf
  <1>2. CASE UNCHANGED vars
    BY <1>1, <1>2 DEF vars
  <1>3. CASE Joins
    BY <1>1, <1>3 DEF Joins
  <1>4. ASSUME NEW k \in Clients, Drops(k) PROVE JobsOf'
    BY <1>1, <1>4 DEF Drops
  <1> QED
    BY <1>2, <1>3, <1>4, LoopJobs, WorkerJobs, DiscardsJobs, ShutsDownJobs, StopsLoopJobs,
       StopsClientJobs, StopReturnedJobs, AnsweredJobs, AsksJobs
    DEF Next, Worker, Shutdown, User, Ended

-----------------------------------------------------------------------------
(* Which client can be up.                                                 *)

\* A step that neither moves the loop nor touches the stack, and that starts nothing.
LEMMA StackStays ==
    ASSUME StackOf, UNCHANGED <<current, stack, client, supervisor>>,
           supervisor = "boot" => shutdown' \in {"no", "sessions"},
           \A i \in 1..Len(queue') : queue'[i].cmd = "start" =>
               \E j \in 1..Len(queue) : queue[j].cmd = "start",
           \A i \in 1..Len(returned') : returned'[i].who = "supervisor" =>
               \E j \in 1..Len(returned) : returned[j].who = "supervisor"
    PROVE  StackOf'
  <1>1. Quiet => Quiet'
    BY DEF Quiet
  <1> QED BY <1>1 DEF StackOf

\* The loop steps on, to where it has not released the client.
LEMMA StackMoves ==
    ASSUME StackOf, UNCHANGED <<current, stack, client>>, client # NoClient,
           supervisor' \notin {"boot", "backoff"},
           \A i \in 1..Len(returned') : returned'[i].who # "supervisor"
    PROVE  StackOf'
  BY DEF StackOf

LEMMA LoopStack ==
    ASSUME TypeOK, JobsOf, StackOf, Loop
    PROVE  StackOf'
  <1>1. ASSUME NEW k \in Clients, Attempt(k), \A c \in Clients : stack'[c] = "up" => c = k
        PROVE  StackOf'
    BY <1>1 DEF StackOf, Attempt
  <1>2. CASE Boot
    <2>1. \A c \in Clients : stack'[c] = "up" => c = First
      BY <1>2 DEF Boot, StackOf
    <2> QED BY <1>1, <1>2, <2>1 DEF Boot
  <1>3. ASSUME NEW k \in Clients, Retry(k)
        PROVE  StackOf'
    <2>1. \A c \in Clients : stack'[c] # "up"
      BY <1>3 DEF Retry, StackOf, Quiet, TypeOK
    <2> QED BY <1>1, <1>3, <2>1 DEF Retry
  <1>4. CASE Refresh
    <2>1. \A i \in 1..Len(returned) : returned[i].who # "supervisor"
      BY <1>4, NothingAwaited DEF Refresh
    <2>2. client # NoClient
      BY <1>4 DEF Refresh, StackOf
    <2> QED BY <1>4, <2>1, <2>2, StackMoves DEF Refresh
  <1>5. ASSUME NEW out \in Outcomes, StartReturned(out)
        PROVE  StackOf'
    <2>1. /\ \A i \in 1..Len(returned') : returned'[i].who # "supervisor"
          /\ client # NoClient
      BY <1>5, NextResult DEF StartReturned, StackOf
    <2>2. supervisor' \notin {"boot", "backoff"}
      BY <1>5 DEF StartReturned, Releases
    <2> QED BY <1>5, <2>1, <2>2, StackMoves DEF StartReturned
  <1>6. ASSUME NEW out \in Outcomes, HookReturned(out)
        PROVE  StackOf'
    <2>1. /\ \A i \in 1..Len(returned') : returned'[i].who # "supervisor"
          /\ client # NoClient
      BY <1>6, NextResult DEF HookReturned, StackOf
    <2>2. supervisor' \notin {"boot", "backoff"}
      BY <1>6 DEF HookReturned
    <2> QED BY <1>6, <2>1, <2>2, StackMoves DEF HookReturned
  <1>7. ASSUME NEW out \in Outcomes, RefreshReturned(out)
        PROVE  StackOf'
    <2>1. /\ \A i \in 1..Len(returned') : returned'[i].who # "supervisor"
          /\ client # NoClient
      BY <1>7, NextResult DEF RefreshReturned, StackOf
    <2>2. supervisor' \notin {"boot", "backoff"}
      BY <1>7 DEF RefreshReturned, Releases
    <2> QED BY <1>7, <2>1, <2>2, StackMoves DEF RefreshReturned
  <1>8. ASSUME NEW out \in Outcomes, ReleaseReturned(out)
        PROVE  StackOf'
    <2>1. /\ supervisor = "release" /\ Continues("supervisor", out)
          /\ supervisor' \in {"died", "backoff"}
          /\ UNCHANGED <<current, stack, client, queue>>
      BY <1>8 DEF ReleaseReturned
    <2>2. returned[1].who = "supervisor" /\ 1 \in 1..Len(returned)
      BY <2>1, NextResult
    <2>3. stack[current] # "up"
      BY <2>1, <2>2 DEF StackOf
    <2>4. \A i \in 1..Len(queue) : queue[i].cmd # "start"
      BY <2>1, NothingStarts
    <2>5. Quiet'
      BY <2>1, <2>3, <2>4 DEF StackOf, Quiet
    <2> QED BY <2>1, <2>5 DEF StackOf
  <1> QED BY <1>2, <1>3, <1>4, <1>5, <1>6, <1>7, <1>8 DEF Loop

\* What the end of a job does to the stack: only the current client is touched.
LEMMA Ran ==
    ASSUME TypeOK, JobsOf, NEW out \in Outcomes, Runs(out)
    PROVE  /\ \A k \in Clients : stack'[k] = "up" /\ stack[k] # "up" =>
                                     queue[1].cmd = "start" /\ k = current
           /\ queue[1].cmd = "stop" /\ queue[1].on = current => stack'[current] = "down"
  <1>1. /\ queue # <<>> /\ Head(queue) = queue[1] /\ queue[1] \in Job /\ Placed(queue[1])
        /\ stack \in [Clients -> {"new", "up", "down"}]
    BY EndedJob, RunningJob DEF TypeOK
  <1>2. "start" \notin Commands /\ "stop" \notin Commands
    BY DEF Commands, Mic
  <1>3. ASSUME queue[1].cmd = "start"
        PROVE  queue[1].on = current
    <2>1. queue[1].who \in Requests => request[queue[1].who] # "start"
      BY <1>2 DEF TypeOK
    <2> QED BY <1>1, <1>2, <1>3, <2>1 DEF Placed
  <1>4. \/ queue[1].cmd = "start" /\ stack' = [stack EXCEPT ![queue[1].on] = "up"]
        \/ queue[1].cmd = "stop" /\ stack' = [stack EXCEPT ![queue[1].on] = "down"]
        \/ queue[1].cmd \notin {"start", "stop"} /\ stack' = stack
    BY <1>1, <1>2 DEF Runs, Started, Stopped, Commanded, sdk
  <1> QED BY <1>1, <1>3, <1>4 DEF Job

LEMMA QuietRuns ==
    ASSUME TypeOK, JobsOf, NEW out \in Outcomes, Runs(out), Quiet
    PROVE  Quiet'
  <1>1. queue # <<>> /\ queue' = Tail(queue)
    BY EndedJob
  <1>2. ASSUME NEW i \in 1..Len(queue')
        PROVE  queue'[i].cmd # "start"
    BY <1>1, <1>2, RunningJob DEF Quiet
  <1>3. queue[1].cmd # "start"
    BY <1>1, RunningJob DEF Quiet
  <1> QED BY <1>2, <1>3, Ran DEF Quiet

LEMMA WorkerStack ==
    ASSUME TypeOK, JobsOf, StackOf, NEW out \in Outcomes, Runs(out)
    PROVE  StackOf'
  <1>1. /\ queue # <<>> /\ Placed(queue[1])
        /\ UNCHANGED <<current, client, supervisor, shutdown>>
    BY EndedJob, RunningJob
  <1>2. \A k \in Clients : stack'[k] = "up" => k = current
    BY Ran DEF StackOf
  <1>3. ASSUME supervisor = "release", NEW i \in 1..Len(returned'),
               returned'[i].who = "supervisor"
        PROVE  stack'[current] # "up"
    <2>1. queue[1].cmd # "start"
      BY <1>1, <1>3, NothingStarts, RunningJob
    <2>2. CASE \E j \in 1..Len(returned) : returned[j].who = "supervisor"
      BY <1>3, <2>1, <2>2, Ran DEF StackOf, TypeOK
    <2>3. CASE \A j \in 1..Len(returned) : returned[j].who # "supervisor"
      <3> DEFINE x == [who |-> queue[1].who, cmd |-> queue[1].cmd, out |-> out]
      <3>1. /\ returned' = returned \/ returned' = Append(returned, x)
            /\ x \in Result /\ returned \in Seq(Result)
        BY EndedJob DEF TypeOK
      <3>2. returned' = Append(returned, x)
        BY <1>3, <2>3, <3>1
      <3>3. x.who = "supervisor"
        BY <1>3, <2>3, <3>1, <3>2, Appended
      <3>4. queue[1].cmd = "stop" /\ queue[1].on = current
        BY <1>1, <1>3, <3>3 DEF Placed, Awaited
      <3> QED BY <3>4, Ran
    <2> QED BY <2>2, <2>3
  <1>4. supervisor = "backoff" => Quiet'
    BY QuietRuns DEF StackOf
  <1> QED BY <1>1, <1>2, <1>3, <1>4 DEF StackOf

LEMMA StackSteps ==
    ASSUME TypeOK, JobsOf, StackOf, ReleaseOf, [Next]_vars
    PROVE  StackOf'
  <1>1. CASE UNCHANGED vars
    BY <1>1, StackStays DEF vars, StackOf
  <1>2. CASE Discards
    <2>1. /\ UNCHANGED <<current, stack, client, supervisor, queue, shutdown>>
          /\ returned' = Tail(returned) /\ returned # <<>> /\ returned \in Seq(Result)
      BY <1>2 DEF Discards, TypeOK
    <2>2. \A i \in 1..Len(returned') : i + 1 \in 1..Len(returned) /\ returned'[i] = returned[i + 1]
      BY <2>1, Tailed
    <2>3. supervisor = "boot" => shutdown' \in {"no", "sessions"}
      BY <2>1 DEF StackOf
    <2> QED BY <2>1, <2>2, <2>3, StackStays
  <1>3. CASE ShutsDown
    <2>1. /\ UNCHANGED <<current, stack, client, supervisor>> /\ shutdown' = "sessions"
          /\ Cancel(Requests)
      BY <1>3 DEF ShutsDown
    <2>2. ASSUME NEW i \in 1..Len(queue'), queue'[i].cmd = "start"
          PROVE  i \in 1..Len(queue) /\ queue[i].cmd = "start"
      BY <2>1, <2>2, Cancelled
    <2>3. ASSUME NEW i \in 1..Len(returned'), returned'[i].who = "supervisor"
          PROVE  i \in 1..Len(returned) /\ returned[i].who = "supervisor"
      BY <2>1, <2>3, Cancelled
    <2> QED BY <2>1, <2>2, <2>3, StackStays
  <1>4. CASE StopsLoop
    <2>1. CASE supervisor = "died"
      BY <1>4, <2>1, StackStays DEF StopsLoop
    <2>2. CASE supervisor # "died"
      BY <1>4, <2>2 DEF StopsLoop, StackOf
    <2> QED BY <2>1, <2>2
  <1>5. CASE StopsClient
    <2>1. supervisor = "cancelled"
      BY <1>5 DEF StopsClient, ReleaseOf
    <2> QED BY <1>5, <2>1 DEF StopsClient, StackOf
  <1>6. CASE Joins
    <2>1. supervisor # "boot"
      BY <1>6 DEF Joins, ReleaseOf
    <2> QED BY <1>6, <2>1, StackStays DEF Joins
  <1>7. ASSUME NEW out \in Outcomes, StopReturned(out)
        PROVE  StackOf'
    <2>1. supervisor = "cancelled"
      BY <1>7 DEF StopReturned, ReleaseOf
    <2> QED BY <1>7, <2>1 DEF StopReturned, StackOf
  <1>8. ASSUME NEW k \in Clients, Drops(k)
        PROVE  StackOf'
    BY <1>8, StackStays DEF Drops, StackOf
  <1>9. ASSUME NEW r \in Requests, NEW out \in Outcomes, Answered(r, out)
        PROVE  StackOf'
    <2>1. /\ UNCHANGED <<current, stack, client, supervisor, queue, shutdown>>
          /\ Continues(r, out)
      BY <1>9 DEF Answered
    <2>2. \A i \in 1..Len(returned') : i + 1 \in 1..Len(returned) /\ returned'[i] = returned[i + 1]
      BY <2>1, NextResult
    <2>3. supervisor = "boot" => shutdown' \in {"no", "sessions"}
      BY <2>1 DEF StackOf
    <2> QED BY <2>1, <2>2, <2>3, StackStays
  <1>10. ASSUME NEW r \in Requests, NEW cmd \in Commands, Asks(r, cmd)
         PROVE  StackOf'
    <2>1. /\ UNCHANGED <<current, stack, client, supervisor, returned, shutdown>>
          /\ Submit(r, cmd, current) /\ r \in Owners /\ cmd \in Calls /\ current \in Clients
          /\ cmd # "start"
      BY <1>10 DEF Asks, Owners, Calls, Commands, Mic, TypeOK
    <2>2. ASSUME NEW i \in 1..Len(queue'), queue'[i].cmd = "start"
          PROVE  i \in 1..Len(queue) /\ queue[i].cmd = "start"
      BY <2>1, <2>2, Submitted
    <2>3. supervisor = "boot" => shutdown' \in {"no", "sessions"}
      BY <2>1 DEF StackOf
    <2> QED BY <2>1, <2>2, <2>3, StackStays
  <1> QED BY <1>1, <1>2, <1>3, <1>4, <1>5, <1>6, <1>7, <1>8, <1>9, <1>10, LoopStack,
             WorkerStack
          DEF Next, Worker, Shutdown, User, Ended

-----------------------------------------------------------------------------
(* What the shutdown finds.                                                *)

\* A step that leaves the shutdown and the worker's queue where they are.
LEMMA ReleaseStays ==
    ASSUME ReleaseOf, UNCHANGED <<stack, supervisor, client, queue, told, shutdown>>
    PROVE  ReleaseOf'
  BY DEF ReleaseOf, Quiet

LEMMA LoopRelease ==
    ASSUME TypeOK, JobsOf, StackOf, ReleaseOf, Loop
    PROVE  ReleaseOf'
  <1>1. supervisor # "cancelled" /\ client' # NoClient /\ UNCHANGED shutdown
    <2>1. CASE Boot
      BY <2>1 DEF Boot, Attempt
    <2>2. ASSUME NEW k \in Clients, Retry(k)
          PROVE  supervisor # "cancelled" /\ client' # NoClient /\ UNCHANGED shutdown
      BY <2>2 DEF Retry, Attempt
    <2>3. CASE Refresh
      BY <2>3 DEF Refresh, StackOf
    <2>4. ASSUME NEW out \in Outcomes, StartReturned(out)
          PROVE  supervisor # "cancelled" /\ client' # NoClient /\ UNCHANGED shutdown
      BY <2>4 DEF StartReturned, StackOf
    <2>5. ASSUME NEW out \in Outcomes, HookReturned(out)
          PROVE  supervisor # "cancelled" /\ client' # NoClient /\ UNCHANGED shutdown
      BY <2>5 DEF HookReturned, StackOf
    <2>6. ASSUME NEW out \in Outcomes, RefreshReturned(out)
          PROVE  supervisor # "cancelled" /\ client' # NoClient /\ UNCHANGED shutdown
      BY <2>6 DEF RefreshReturned, StackOf
    <2>7. ASSUME NEW out \in Outcomes, ReleaseReturned(out)
          PROVE  supervisor # "cancelled" /\ client' # NoClient /\ UNCHANGED shutdown
      BY <2>7 DEF ReleaseReturned, StackOf
    <2> QED BY <2>1, <2>2, <2>3, <2>4, <2>5, <2>6, <2>7 DEF Loop
  <1> QED BY <1>1 DEF ReleaseOf, TypeOK

\* The stop the shutdown waits for leaves nothing that could start again behind it.
LEMMA WorkerRelease ==
    ASSUME TypeOK, JobsOf, StackOf, ReleaseOf, NEW out \in Outcomes, Runs(out)
    PROVE  ReleaseOf'
  <1>1. /\ queue # <<>> /\ queue' = Tail(queue) /\ Placed(queue[1])
        /\ UNCHANGED <<current, client, supervisor, told, shutdown>>
    BY EndedJob, RunningJob
  <1>2. Quiet => Quiet'
    BY QuietRuns
  <1>3. ASSUME shutdown = "release", ~Quiet
        PROVE  \/ \E i \in 1..Len(queue') :
                     /\ queue'[i].who = "stop"
                     /\ \A j \in 1..Len(queue') : queue'[j].cmd = "start" => j < i
               \/ Quiet'
    <2>1. PICK n \in 1..Len(queue) :
             /\ queue[n].who = "stop"
             /\ \A j \in 1..Len(queue) : queue[j].cmd = "start" => j < n
      BY <1>3 DEF ReleaseOf
    <2>2. CASE n = 1
      <3>1. \A j \in 1..Len(queue) : queue[j].cmd # "start"
        BY <2>1, <2>2
      <3>2. \A j \in 1..Len(queue') : queue'[j].cmd # "start"
        BY <1>1, <3>1, RunningJob
      <3>3. queue[1].cmd = "stop" /\ queue[1].on = current
        BY <1>1, <2>1, <2>2 DEF Placed
      <3>4. stack'[current] = "down" /\ \A k \in Clients : stack'[k] = "up" => k = current
        BY <3>3, Ran DEF StackOf
      <3> QED BY <3>2, <3>4 DEF Quiet
    <2>3. CASE n # 1
      <3>1. n - 1 \in 1..Len(queue') /\ queue'[n - 1] = queue[n]
        <4>1. n - 1 \in 1..Len(queue')
          BY <1>1, <2>3, RunningJob
        <4>2. queue'[n - 1] = queue[(n - 1) + 1] /\ (n - 1) + 1 = n
          BY <1>1, <4>1, RunningJob
        <4> QED BY <4>1, <4>2
      <3>2. ASSUME NEW j \in 1..Len(queue'), queue'[j].cmd = "start"
            PROVE  j < n - 1
        <4>1. j + 1 \in 1..Len(queue) /\ queue[j + 1].cmd = "start"
          BY <1>1, <3>2, RunningJob
        <4>2. j + 1 < n
          BY <2>1, <4>1
        <4> QED BY <4>2
      <3> QED BY <2>1, <3>1, <3>2
    <2> QED BY <2>2, <2>3
  <1> QED BY <1>1, <1>2, <1>3 DEF ReleaseOf

LEMMA QuietCancelled ==
    ASSUME TypeOK, NEW who, Cancel(who), UNCHANGED stack, Quiet
    PROVE  Quiet'
  <1>1. ASSUME NEW i \in 1..Len(queue') PROVE queue'[i].cmd # "start"
    <2>1. i \in 1..Len(queue) /\ queue'[i].cmd \in {queue[i].cmd, "skip"}
      BY <1>1, Cancelled
    <2> QED BY <2>1 DEF Quiet
  <1> QED BY <1>1 DEF Quiet

LEMMA StopsClientRelease ==
    ASSUME TypeOK, JobsOf, StackOf, ReleaseOf, StopsClient
    PROVE  ReleaseOf'
  <1>1. supervisor = "cancelled" /\ UNCHANGED <<stack, supervisor, told>>
    BY DEF StopsClient, ReleaseOf
  <1>2. CASE client = NoClient
    BY <1>1, <1>2 DEF StopsClient, ReleaseOf, Quiet
  <1>3. CASE client # NoClient
    <2>1. /\ Submit("stop", "stop", current) /\ shutdown' = "release"
          /\ "stop" \in Owners /\ "stop" \in Calls /\ current \in Clients
      BY <1>3 DEF StopsClient, StackOf, TypeOK, Owners, Calls
    <2>2. /\ Len(queue) + 1 \in 1..Len(queue') /\ Len(queue) \in Nat
          /\ queue'[Len(queue) + 1].who = "stop" /\ queue'[Len(queue) + 1].cmd = "stop"
          /\ \A i \in 1..Len(queue') : i \in 1..Len(queue) \/ i = Len(queue) + 1
      BY <2>1, Submitted
    <2>3. ASSUME NEW j \in 1..Len(queue'), queue'[j].cmd = "start"
          PROVE  j < Len(queue) + 1
      BY <2>2, <2>3
    <2> QED BY <1>1, <2>1, <2>2, <2>3 DEF ReleaseOf
  <1> QED BY <1>2, <1>3

LEMMA ReleaseSteps ==
    ASSUME TypeOK, JobsOf, StackOf, ReleaseOf, [Next]_vars
    PROVE  ReleaseOf'
  <1>1. CASE UNCHANGED vars
    BY <1>1, ReleaseStays DEF vars
  <1>2. CASE Discards
    BY <1>2, ReleaseStays DEF Discards
  <1>3. CASE ShutsDown
    <2>1. Quiet => Quiet'
      BY <1>3, QuietCancelled DEF ShutsDown
    <2> QED BY <1>3, <2>1 DEF ShutsDown, ReleaseOf
  <1>4. CASE StopsLoop
    <2>1. CASE supervisor = "died"
      BY <1>4, <2>1 DEF StopsLoop, ReleaseOf
    <2>2. CASE supervisor # "died"
      <3>1. Quiet => Quiet'
        BY <1>4, <2>2, QuietCancelled DEF StopsLoop
      <3> QED BY <1>4, <2>2, <3>1 DEF StopsLoop, ReleaseOf
    <2> QED BY <2>1, <2>2
  <1>5. CASE Joins
    BY <1>5 DEF Joins, ReleaseOf, Quiet
  <1>6. ASSUME NEW out \in Outcomes, StopReturned(out)
        PROVE  ReleaseOf'
    <2>1. \A i \in 1..Len(queue) : queue[i].who # "stop"
      BY <1>6, NextResult DEF StopReturned
    <2>2. Quiet'
      BY <1>6, <2>1 DEF StopReturned, ReleaseOf, Quiet
    <2> QED BY <1>6, <2>2 DEF StopReturned, ReleaseOf
  <1>7. ASSUME NEW k \in Clients, Drops(k)
        PROVE  ReleaseOf'
    BY <1>7, ReleaseStays DEF Drops
  <1>8. ASSUME NEW r \in Requests, NEW out \in Outcomes, Answered(r, out)
        PROVE  ReleaseOf'
    BY <1>8, ReleaseStays DEF Answered
  <1>9. ASSUME NEW r \in Requests, NEW cmd \in Commands, Asks(r, cmd)
        PROVE  ReleaseOf'
    <2>1. /\ UNCHANGED <<stack, supervisor, client, told, shutdown>> /\ shutdown = "no"
          /\ Submit(r, cmd, current) /\ r \in Owners /\ cmd \in Calls /\ current \in Clients
          /\ cmd # "start"
      BY <1>9 DEF Asks, Owners, Calls, Commands, Mic, TypeOK
    <2>2. ASSUME NEW i \in 1..Len(queue'), queue'[i].cmd = "start"
          PROVE  i \in 1..Len(queue) /\ queue[i].cmd = "start"
      BY <2>1, <2>2, Submitted
    <2>3. Quiet => Quiet'
      BY <2>1, <2>2 DEF Quiet
    <2> QED BY <2>1, <2>3 DEF ReleaseOf
  <1> QED BY <1>1, <1>2, <1>3, <1>4, <1>5, <1>6, <1>7, <1>8, <1>9, LoopRelease,
             WorkerRelease, StopsClientRelease
          DEF Next, Worker, Shutdown, User, Ended

-----------------------------------------------------------------------------
(* What the panel hears.                                                   *)

\* An answer is read: the owner takes it for its state, if the SDK obeyed.
LEMMA TellsRead ==
    ASSUME NEW r \in Seq(Result), r # <<>>, NEW heard, NEW owned, Tells(r, heard, owned)
    PROVE  Tells(Tail(r), heard, IF Obeyed(r[1]) THEN r[1].cmd ELSE owned)
  <1> DEFINE s == Tail(r)
             now == IF Obeyed(r[1]) THEN r[1].cmd ELSE owned
  <1>1. /\ \A i \in 1..Len(s) : s[i] = r[i + 1] /\ i + 1 \in 1..Len(r)
        /\ \A i \in 1..Len(r) : i = 1 \/ i - 1 \in 1..Len(s)
        /\ 1 \in 1..Len(r)
    BY Tailed
  <1> HIDE DEF s
  <1>2. CASE heard = owned /\ \A i \in 1..Len(r) : ~Obeyed(r[i])
    <2>1. now = owned
      BY <1>1, <1>2
    <2>2. \A i \in 1..Len(s) : ~Obeyed(s[i])
      BY <1>1, <1>2
    <2> QED BY <1>2, <2>1, <2>2 DEF Tells, s
  <1>3. ASSUME NEW n \in 1..Len(r), Obeyed(r[n]), r[n].cmd = heard,
               \A j \in 1..Len(r) : n < j => ~Obeyed(r[j])
        PROVE  Tells(s, heard, now)
    <2>1. CASE n = 1
      <3>1. now = heard
        BY <1>3, <2>1
      <3>2. ASSUME NEW i \in 1..Len(s) PROVE ~Obeyed(s[i])
        <4>1. i + 1 \in 1..Len(r) /\ n < i + 1
          BY <1>1, <2>1, <3>2
        <4> QED BY <1>1, <1>3, <4>1
      <3> QED BY <3>1, <3>2 DEF Tells
    <2>2. CASE n # 1
      <3>1. n - 1 \in 1..Len(s)
        BY <1>1, <2>2
      <3>2. s[n - 1] = r[(n - 1) + 1] /\ (n - 1) + 1 = n
        BY <1>1, <3>1
      <3>3. ASSUME NEW j \in 1..Len(s), n - 1 < j PROVE ~Obeyed(s[j])
        <4>1. j + 1 \in 1..Len(r) /\ n < j + 1
          BY <1>1, <3>3
        <4> QED BY <1>1, <1>3, <4>1
      <3> QED BY <1>3, <3>1, <3>2, <3>3 DEF Tells
    <2> QED BY <2>1, <2>2
  <1> QED BY <1>2, <1>3 DEF Tells, s

\* A job has ended: the panel hears otherwise if it was obeyed.
LEMMA TellsEnded ==
    ASSUME NEW r \in Seq(Result), NEW x \in Result, NEW heard, NEW owned
    PROVE  /\ Obeyed(x) => Tells(Append(r, x), x.cmd, owned)
           /\ ~Obeyed(x) /\ Tells(r, heard, owned) => Tells(Append(r, x), heard, owned)
  <1> DEFINE s == Append(r, x)
  <1>1. /\ Len(r) \in Nat /\ Len(s) = Len(r) + 1 /\ s[Len(r) + 1] = x
        /\ \A i \in 1..Len(r) : s[i] = r[i] /\ i \in 1..Len(s)
        /\ \A i \in 1..Len(s) : i \in 1..Len(r) \/ i = Len(r) + 1
    BY Appended
  <1> HIDE DEF s
  <1>2. ASSUME Obeyed(x)
        PROVE  Tells(s, x.cmd, owned)
    <2>1. Len(r) + 1 \in 1..Len(s) /\ \A j \in 1..Len(s) : ~(Len(r) + 1 < j)
      BY <1>1
    <2> QED BY <1>1, <1>2, <2>1 DEF Tells
  <1>3. ASSUME ~Obeyed(x), Tells(r, heard, owned)
        PROVE  Tells(s, heard, owned)
    <2>1. \A i \in 1..Len(s) : (i \in 1..Len(r) /\ s[i] = r[i]) \/ s[i] = x
      BY <1>1
    <2>2. CASE heard = owned /\ \A i \in 1..Len(r) : ~Obeyed(r[i])
      <3>1. \A i \in 1..Len(s) : ~Obeyed(s[i])
        BY <1>3, <2>1, <2>2
      <3> QED BY <2>2, <3>1 DEF Tells
    <2>3. ASSUME NEW n \in 1..Len(r), Obeyed(r[n]), r[n].cmd = heard,
                 \A j \in 1..Len(r) : n < j => ~Obeyed(r[j])
          PROVE  Tells(s, heard, owned)
      <3>1. n \in 1..Len(s) /\ s[n] = r[n]
        BY <1>1, <2>3
      <3>2. \A j \in 1..Len(s) : n < j => ~Obeyed(s[j])
        BY <1>3, <2>1, <2>3
      <3> QED BY <2>3, <3>1, <3>2 DEF Tells
    <2> QED BY <1>3, <2>2, <2>3 DEF Tells
  <1> QED BY <1>2, <1>3 DEF s

\* While the loop holds a binding, an answer read keeps what is owned on its way to what
\* the panel hears.
LEMMA ReadMic ==
    ASSUME TypeOK, JobsOf, MicOf, NEW who, NEW out, Continues(who, out),
           UNCHANGED <<current, mic>>, shutdown' = shutdown,
           shutdown = "no" /\ Aligned' => Aligned,
           muted' = IF Obeyed(returned[1]) THEN returned[1].cmd ELSE muted
    PROVE  MicOf'
  <1> SUFFICES ASSUME shutdown = "no", Aligned'
               PROVE  Tells(returned', mic'[current'], muted')
    BY DEF MicOf
  <1>1. returned \in Seq(Result) /\ returned # <<>> /\ returned' = Tail(returned)
    BY DEF TypeOK, Continues
  <1>2. Tells(returned, mic[current], muted)
    BY DEF MicOf
  <1> QED BY <1>1, <1>2, TellsRead

LEMMA LoopMic ==
    ASSUME TypeOK, JobsOf, MicOf, Loop
    PROVE  MicOf'
  <1>1. CASE Boot
    BY <1>1 DEF Boot, Attempt, MicOf, Aligned
  <1>2. ASSUME NEW k \in Clients, Retry(k)
        PROVE  MicOf'
    BY <1>2 DEF Retry, Attempt, MicOf, Aligned
  <1>3. CASE Refresh
    BY <1>3 DEF Refresh, MicOf, Aligned
  <1>4. ASSUME NEW out \in Outcomes, StartReturned(out)
        PROVE  MicOf'
    <2>1. \A i \in 1..Len(returned') : returned'[i].who # "supervisor"
      BY <1>4, NextResult DEF StartReturned
    <2>2. supervisor' \in {"hook", "release"}
      BY <1>4 DEF StartReturned, Releases
    <2> QED BY <2>1, <2>2 DEF MicOf, Aligned
  <1>5. ASSUME NEW out \in Outcomes, HookReturned(out)
        PROVE  MicOf'
    <2>1. CASE out = "ok"
      <3>1. /\ Continues("supervisor", out) /\ UNCHANGED <<current, mic, shutdown>>
            /\ supervisor = "hook" /\ muted' = Head(returned).cmd
        BY <1>5, <2>1 DEF HookReturned
      <3>2. /\ Head(returned) = returned[1] /\ 1 \in 1..Len(returned)
            /\ returned[1].who = "supervisor" /\ returned[1].out = "ok" /\ Due(returned[1])
        BY <2>1, <3>1, NextResult
      <3>3. Obeyed(returned[1]) /\ Aligned
        BY <3>1, <3>2 DEF Due, Awaited, Obeyed, Aligned
      <3> QED BY <3>1, <3>2, <3>3, ReadMic
    <2>2. CASE out # "ok"
      BY <1>5, <2>2 DEF HookReturned, MicOf, Aligned
    <2> QED BY <2>1, <2>2
  <1>6. ASSUME NEW out \in Outcomes, RefreshReturned(out)
        PROVE  MicOf'
    <2>1. /\ Continues("supervisor", out) /\ UNCHANGED <<current, mic, shutdown, muted>>
          /\ supervisor = "refresh"
      BY <1>6 DEF RefreshReturned
    <2>2. returned[1].cmd = "start"
      BY <2>1, NextResult DEF Due, Awaited
    <2>3. ~Obeyed(returned[1]) /\ Aligned
      BY <2>1, <2>2 DEF Obeyed, Mic, Aligned
    <2> QED BY <2>1, <2>3, ReadMic
  <1>7. ASSUME NEW out \in Outcomes, ReleaseReturned(out)
        PROVE  MicOf'
    BY <1>7 DEF ReleaseReturned, MicOf, Aligned
  <1> QED BY <1>1, <1>2, <1>3, <1>4, <1>5, <1>6, <1>7 DEF Loop

LEMMA WorkerMic ==
    ASSUME TypeOK, JobsOf, MicOf, NEW out \in Outcomes, Runs(out)
    PROVE  MicOf'
  <1> DEFINE x == [who |-> queue[1].who, cmd |-> queue[1].cmd, out |-> out]
  <1> SUFFICES ASSUME shutdown = "no", Aligned'
               PROVE  Tells(returned', mic'[current], muted)
    BY EndedJob DEF MicOf
  <1>1. /\ queue # <<>> /\ x \in Result /\ returned \in Seq(Result) /\ current \in Clients
        /\ Head(queue) = queue[1] /\ queue[1] \in Job /\ Placed(queue[1])
        /\ supervisor' = supervisor /\ mic \in [Clients -> Mic]
    BY EndedJob, RunningJob DEF TypeOK
  <1>2. queue[1].who # "nobody" /\ queue[1].on = current
    BY <1>1 DEF Placed
  <1>3. returned' = Append(returned, x)
    BY <1>2, EndedJob
  <1>4. CASE Obeyed(x)
    <2>1. queue[1].cmd \in Mic /\ out = "ok"
      BY <1>4 DEF Obeyed
    <2>2. queue[1].cmd \notin {"start", "stop", "skip"}
      BY <2>1 DEF Mic
    <2>3. mic' = [mic EXCEPT ![current] = queue[1].cmd]
      BY <1>1, <1>2, <2>1, <2>2 DEF Runs, Commanded
    <2>4. mic'[current] = x.cmd
      BY <1>1, <2>3
    <2> QED BY <1>1, <1>3, <1>4, <2>4, TellsEnded
  <1>5. CASE ~Obeyed(x)
    <2>1. mic' = mic
      <3>1. ~(out = "ok" /\ queue[1].cmd \in Mic)
        BY <1>5 DEF Obeyed
      <3> QED BY <1>1, <3>1 DEF Runs, Started, Stopped, Commanded, sdk
    <2>2. Aligned
      <3>1. CASE supervisor \in {"hold", "refresh"}
        BY <3>1 DEF Aligned
      <3>2. CASE supervisor \notin {"hold", "refresh"}
        <4>1. supervisor = "hook"
          BY <1>1, <3>2 DEF Aligned
        <4>2. PICK n \in 1..Len(returned') :
                 returned'[n].who = "supervisor" /\ returned'[n].out = "ok"
          BY <1>1, <3>2 DEF Aligned
        <4>3. returned'[n] # x
          BY <1>1, <1>5, <4>1, <4>2 DEF Placed, Awaited, Obeyed
        <4>4. n \in 1..Len(returned) /\ returned'[n] = returned[n]
          BY <1>1, <1>3, <4>2, <4>3, Appended
        <4> QED BY <4>1, <4>2, <4>4 DEF Aligned
      <3> QED BY <3>1, <3>2
    <2>3. Tells(returned, mic[current], muted)
      BY <2>2 DEF MicOf
    <2> QED BY <1>1, <1>3, <1>5, <2>1, <2>3, TellsEnded
  <1> QED BY <1>4, <1>5

LEMMA MicSteps ==
    ASSUME TypeOK, JobsOf, MicOf, [Next]_vars
    PROVE  MicOf'
  <1>1. ASSUME UNCHANGED <<current, mic, supervisor, returned, muted, shutdown>>
        PROVE  MicOf'
    BY <1>1 DEF MicOf, Aligned
  <1>2. CASE UNCHANGED vars
    BY <1>1, <1>2 DEF vars
  <1>3. CASE Discards
    <2>1. returned[1].who = "nobody" /\ Due(returned[1])
      BY <1>3, Tailed DEF Discards, JobsOf, TypeOK
    <2>2. shutdown' # "no"
      BY <1>3, <2>1 DEF Discards, Due
    <2> QED BY <2>2 DEF MicOf
  <1>4. CASE ShutsDown \/ Shutdown
    <2>1. shutdown' # "no"
      BY <1>4 DEF ShutsDown, Shutdown, StopsLoop, StopsClient, Joins, StopReturned
    <2> QED BY <2>1 DEF MicOf
  <1>5. ASSUME NEW k \in Clients, Drops(k)
        PROVE  MicOf'
    BY <1>1, <1>5 DEF Drops
  <1>6. ASSUME NEW r \in Requests, NEW out \in Outcomes, Answered(r, out)
        PROVE  MicOf'
    <2>1. /\ Continues(r, out) /\ UNCHANGED <<current, mic, supervisor, shutdown>>
          /\ muted' = IF out = "ok" /\ request[r] \in Mic THEN request[r] ELSE muted
      BY <1>6 DEF Answered
    <2>2. returned[1].out = out /\ returned[1].cmd = request[r]
      BY <2>1, NextResult DEF Due
    <2>3. muted' = IF Obeyed(returned[1]) THEN returned[1].cmd ELSE muted
      BY <2>1, <2>2 DEF Obeyed
    <2>4. Aligned' => Aligned
      <3>1. \A i \in 1..Len(returned') :
               i + 1 \in 1..Len(returned) /\ returned'[i] = returned[i + 1]
        BY <2>1, NextResult
      <3> QED BY <2>1, <3>1 DEF Aligned
    <2> QED BY <2>1, <2>3, <2>4, ReadMic
  <1>7. ASSUME NEW r \in Requests, NEW cmd \in Commands, Asks(r, cmd)
        PROVE  MicOf'
    BY <1>1, <1>7 DEF Asks
  <1> QED BY <1>2, <1>3, <1>4, <1>5, <1>6, <1>7, LoopMic, WorkerMic
          DEF Next, Worker, User, Ended

-----------------------------------------------------------------------------
(* The theorems.                                                           *)

LEMMA Initially == Init => IInv
  <1> SUFFICES ASSUME Init PROVE IInv
    OBVIOUS
  <1>1. TypeOK
    <2>1. queue \in Seq(Job) /\ returned \in Seq(Result)
      BY DEF Init
    <2>2. stack \in [Clients -> {"new", "up", "down"}] /\ bound \in [Clients -> BOOLEAN]
      BY DEF Init
    <2>3. mic \in [Clients -> Mic] /\ request \in [Requests -> Commands \cup {"none"}]
      BY DEF Init, Mic
    <2> QED BY <2>1, <2>2, <2>3 DEF Init, TypeOK, Mic
  <1>2. JobsOf
    BY DEF Init, JobsOf, Once
  <1>3. Quiet
    BY DEF Init, Quiet
  <1>4. StackOf
    BY <1>3 DEF Init, StackOf
  <1>5. ReleaseOf
    BY <1>3 DEF Init, ReleaseOf
  <1>6. MicOf
    BY DEF Init, MicOf, Aligned
  <1> QED BY <1>1, <1>2, <1>4, <1>5, <1>6 DEF IInv

\* Whatever the worker, the users, the line and the shutdown do in between, what is on the
\* worker belongs to who waits for it and runs on the client the holder points at, or is
\* what a cancel left.  It is what each theorem below comes from.
THEOREM Inductive == Spec => []IInv
  <1>1. IInv /\ [Next]_vars => IInv'
    BY TypeSteps, JobsSteps, StackSteps, ReleaseSteps, MicSteps DEF IInv
  <1> QED BY <1>1, Initially, PTL DEF Spec

\* Every variable keeps its type.
THEOREM Types == Spec => []TypeOK
  <1>1. IInv => TypeOK
    BY DEF IInv
  <1> QED BY <1>1, Inductive, PTL

\* supervision.py stops a client before it builds the next, and runtime.py stops the last
\* one: no two clients are ever up in the one process.
THEOREM OneAtATime == Spec => []OneStack
  <1>1. ASSUME IInv PROVE OneStack
    <2> DEFINE ups == {k \in Clients : stack[k] = "up"}
    <2>1. ups \subseteq {current}
      BY <1>1 DEF IInv, StackOf
    <2>2. IsFiniteSet({current}) /\ Cardinality({current}) = 1
      BY FS_Singleton
    <2>3. IsFiniteSet(ups) /\ Cardinality(ups) <= Cardinality({current})
      BY <2>1, <2>2, FS_Subset
    <2> QED BY <2>2, <2>3 DEF OneStack
  <1> QED BY <1>1, Inductive, PTL

\* supervision.py looks at worker.busy before it rebuilds: a user's command runs on the
\* client it was asked of.
THEOREM NoneCaught == Spec => []CommandMeetsNoRebuild
  <1>1. ASSUME IInv PROVE CommandMeetsNoRebuild
    BY <1>1 DEF IInv, JobsOf, Placed, CommandMeetsNoRebuild
  <1> QED BY <1>1, Inductive, PTL

\* service.py sets the state it owns after the SDK has obeyed, and realign() sends it to a
\* fresh client: while a binding is held and no mic command is under way, it is what the
\* panel hears.
THEOREM Heard == Spec => []MicIsWhatIsShown
  <1>1. ASSUME IInv, MicSettled PROVE mic[current] = muted
    <2>1. Tells(returned, mic[current], muted)
      BY <1>1 DEF IInv, MicOf, MicSettled, Aligned
    <2>2. \A i \in 1..Len(returned) : ~Obeyed(returned[i])
      BY <1>1 DEF MicSettled, Obeyed
    <2> QED BY <2>1, <2>2 DEF Tells
  <1>2. IInv => MicIsWhatIsShown
    BY <1>1 DEF MicIsWhatIsShown
  <1> QED BY <1>2, Inductive, PTL

\* runtime.py cancels the loop, stops the client it had last and joins the worker: once
\* that is done no client is up, whatever the loop had on the worker, and the last event
\* said so.
THEOREM Released == Spec => []NothingLeftUp
  <1>1. ASSUME IInv PROVE NothingLeftUp
    BY <1>1 DEF IInv, ReleaseOf, Quiet, NothingLeftUp
  <1> QED BY <1>1, Inductive, PTL
=============================================================================
