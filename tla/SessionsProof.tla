----------------------------- MODULE SessionsProof -----------------------------
(***************************************************************************)
(* What the media sessions keep for any number of calls, legs and          *)
(* requests: no tap is left armed on a call that no leg is listed on, but  *)
(* that of an arm that slipped.                                            *)
(*                                                                         *)
(* The argument is about one line: what the worker has handed back and     *)
(* nobody has read, then what it has still to do.  A task has at most one  *)
(* place in it, so that a step is a change of the few places of its leg    *)
(* (Moves, Stays), and a leg whose teardown has passed a tap has that tap  *)
(* out, or somebody behind in the line who owes it.                        *)
(***************************************************************************)
EXTENDS MediaSessions, FiniteSetTheorems, TLAPS

USE SessionsAssumption

-----------------------------------------------------------------------------
(* Sequences.                                                              *)

LEMMA Appended ==
    ASSUME NEW S, NEW q \in Seq(S), NEW j \in S
    PROVE  /\ Append(q, j) \in Seq(S) /\ Len(Append(q, j)) = Len(q) + 1
           /\ Len(q) \in Nat
           /\ \A i \in 1..Len(q) : Append(q, j)[i] = q[i] /\ i \in 1..Len(Append(q, j))
           /\ Append(q, j)[Len(q) + 1] = j
           /\ \A i \in 1..Len(Append(q, j)) : i \in 1..Len(q) \/ i = Len(q) + 1
  OBVIOUS

LEMMA Tailed ==
    ASSUME NEW S, NEW q \in Seq(S), q # <<>>
    PROVE  /\ Tail(q) \in Seq(S) /\ Len(Tail(q)) = Len(q) - 1
           /\ Len(q) \in Nat /\ Len(q) > 0 /\ Head(q) = q[1] /\ 1 \in 1..Len(q) /\ q[1] \in S
           /\ \A i \in 1..Len(Tail(q)) : Tail(q)[i] = q[i + 1] /\ i + 1 \in 1..Len(q)
           /\ \A i \in 1..Len(q) : i = 1 \/ i - 1 \in 1..Len(Tail(q))
  OBVIOUS

\* What Without() leaves: the elements at the other places, in their order.
LEMMA Removed ==
    ASSUME NEW S, NEW q \in Seq(S), NEW at, at \subseteq 1..Len(q)
    PROVE  /\ Without(q, at) \in Seq(S) /\ Len(q) \in Nat
           /\ at = {} => Without(q, at) = q
           /\ at # {} => \E m \in at :
                 /\ m \in 1..Len(q)
                 /\ Len(Without(q, at)) = Len(q) - 1
                 /\ \A k \in 1..Len(Without(q, at)) :
                       /\ k \in 1..Len(q) /\ k + 1 \in 1..Len(q)
                       /\ Without(q, at)[k] = IF k < m THEN q[k] ELSE q[k + 1]
  <1>1. Len(q) \in Nat
    OBVIOUS
  <1>2. CASE at = {}
    BY <1>1, <1>2 DEF Without
  <1>3. CASE at # {}
    <2> DEFINE m == CHOOSE i \in at : TRUE
               u == [k \in 1..(Len(q) - 1) |-> IF k < m THEN q[k] ELSE q[k + 1]]
    <2>1. m \in at
      BY <1>3
    <2>2. m \in 1..Len(q)
      BY <2>1
    <2>3. Without(q, at) = u
      BY <1>3 DEF Without
    <2> HIDE DEF m
    <2>4. ASSUME NEW k \in 1..(Len(q) - 1)
          PROVE  /\ k \in 1..Len(q) /\ k + 1 \in 1..Len(q)
                 /\ (IF k < m THEN q[k] ELSE q[k + 1]) \in S
      BY <1>1, <2>2
    <2>5. u \in Seq(S) /\ Len(u) = Len(q) - 1
      <3>1. u \in [1..(Len(q) - 1) -> S]
        BY <2>4
      <3>2. Len(q) - 1 \in Nat
        BY <1>1, <2>2
      <3> QED BY <3>1, <3>2
    <2>6. \A k \in 1..Len(u) : u[k] = IF k < m THEN q[k] ELSE q[k + 1]
      BY <2>5
    <2> QED BY <1>1, <1>3, <2>1, <2>2, <2>3, <2>4, <2>5, <2>6
  <1> QED BY <1>2, <1>3

-----------------------------------------------------------------------------
(* The line of what is under way.                                          *)

LEMMA Places_ ==
    ASSUME NEW r \in Seq(Result), NEW q \in Seq(Job)
    PROVE  /\ Len(r) \in Nat /\ Len(q) \in Nat
           /\ \A k \in 1..Len(r) : k \in Places(r, q) /\ Item(r, q, k) = r[k]
           /\ \A k \in 1..Len(q) : /\ Len(r) + k \in Places(r, q)
                                   /\ Item(r, q, Len(r) + k) = q[k]
           /\ \A k \in Places(r, q) :
                 /\ k \in Nat
                 /\ \/ k \in 1..Len(r) /\ Item(r, q, k) = r[k]
                    \/ k - Len(r) \in 1..Len(q) /\ Item(r, q, k) = q[k - Len(r)]
  BY DEF Places, Item

\* Something is gone from place m of the line.
LEMMA Leaves ==
    ASSUME NEW r \in Seq(Result), NEW q \in Seq(Job), NEW p \in Seq(Result), NEW u \in Seq(Job),
           NEW m \in Places(r, q), OnceIn(r, q),
           Len(p) + Len(u) = Len(r) + Len(q) - 1,
           \A k \in Places(p, u) :
              Item(p, u, k) = IF k < m THEN Item(r, q, k) ELSE Item(r, q, k + 1)
    PROVE  /\ OnceIn(p, u)
           /\ \A b, t : Has(p, u, b, t) => Has(r, q, b, t)
           /\ \A b, t : Has(r, q, b, t) => Has(p, u, b, t) \/ IsOf(Item(r, q, m), b, t)
           /\ \A b, t : t # Nobody /\ IsOf(Item(r, q, m), b, t) => ~Has(p, u, b, t)
           /\ \A a, b, t : Ahead(r, q, a, b, t) =>
                 \/ Ahead(p, u, a, b, t)
                 \/ IsOf(Item(r, q, m), a, t) \/ IsOf(Item(r, q, m), b, t)
  <1> DEFINE n    == Len(r) + Len(q)
             o(k) == IF k < m THEN k ELSE k + 1
             w(k) == IF k < m THEN k ELSE k - 1
  <1>1. n \in Nat /\ m \in 1..n /\ Places(r, q) = 1..n /\ Places(p, u) = 1..(n - 1)
    BY DEF Places
  <1> HIDE DEF n
  <1>2. ASSUME NEW k \in Places(p, u)
        PROVE  o(k) \in Places(r, q) /\ o(k) # m /\ Item(p, u, k) = Item(r, q, o(k))
    BY <1>1
  <1>3. ASSUME NEW k \in Places(r, q), k # m
        PROVE  w(k) \in Places(p, u) /\ Item(p, u, w(k)) = Item(r, q, k)
    <2>1. w(k) \in Places(p, u) /\ (IF w(k) < m THEN w(k) ELSE w(k) + 1) = k
      BY <1>1, <1>3
    <2> QED BY <2>1
  <1>4. \A i, k \in Places(r, q) : i < k /\ i # m /\ k # m => w(i) < w(k)
    BY <1>1
  <1>5. \A i, k \in Places(p, u) : o(i) = o(k) => i = k
    BY <1>1
  <1> HIDE DEF o, w
  <1>6. OnceIn(p, u)
    BY <1>2, <1>5 DEF OnceIn, IsOf
  <1>7. \A b, t : Has(p, u, b, t) => Has(r, q, b, t)
    BY <1>2 DEF Has
  <1>8. \A b, t : Has(r, q, b, t) => Has(p, u, b, t) \/ IsOf(Item(r, q, m), b, t)
    BY <1>3 DEF Has
  <1>9. ASSUME NEW b, NEW t, t # Nobody, IsOf(Item(r, q, m), b, t), Has(p, u, b, t)
        PROVE  FALSE
    <2>1. PICK k \in Places(p, u) : IsOf(Item(p, u, k), b, t)
      BY <1>9 DEF Has
    <2>2. o(k) \in Places(r, q) /\ o(k) # m /\ IsOf(Item(r, q, o(k)), b, t)
      BY <1>2, <2>1
    <2> QED BY <1>9, <2>2 DEF OnceIn, IsOf
  <1>10. ASSUME NEW a, NEW b, NEW t, Ahead(r, q, a, b, t),
                ~IsOf(Item(r, q, m), a, t), ~IsOf(Item(r, q, m), b, t)
         PROVE  Ahead(p, u, a, b, t)
    <2>1. PICK i \in Places(r, q), k \in Places(r, q) :
             i < k /\ IsOf(Item(r, q, i), a, t) /\ IsOf(Item(r, q, k), b, t)
      BY <1>10 DEF Ahead
    <2>2. i # m /\ k # m
      BY <1>10, <2>1
    <2> QED BY <1>3, <1>4, <2>1, <2>2 DEF Ahead
  <1> QED BY <1>6, <1>7, <1>8, <1>9, <1>10

\* What a step does to the line, as the leg `s` sees it: what is gone of its own and what
\* is new, behind everything else.
Moves(r, q, p, u, s, gone, new) ==
    /\ OnceIn(p, u)
    /\ \A t \in Legs : \A b \in Owners :
          /\ Has(p, u, b, t) => Has(r, q, b, t) \/ (t = s /\ b \in new)
          /\ Has(r, q, b, t) => Has(p, u, b, t) \/ (t = s /\ b \in gone)
          /\ Queued(q, b, t) => Queued(u, b, t) \/ (t = s /\ b \in gone)
          /\ t = s /\ b \in new => Has(p, u, b, t) /\ Queued(u, b, t)
    /\ \A t \in Legs : \A a, b \in Owners :
          /\ Ahead(r, q, a, b, t) => Ahead(p, u, a, b, t) \/ (t = s /\ {a, b} \cap gone # {})
          /\ t = s /\ b \in new /\ a \notin new /\ Has(p, u, a, t) => Ahead(p, u, a, b, t)
    /\ \A t \in Legs : Armed(r, t) => Armed(p, t) \/ (t = s /\ "wait" \in gone)

\* Every element of a sequence is one of another.
Among(u, q) == \A k \in 1..Len(u) : \E i \in 1..Len(q) : u[k] = q[i]

\* The continuation that is due runs.
LEMMA Reads ==
    ASSUME NEW r \in Seq(Result), NEW q \in Seq(Job), OnceIn(r, q), r # <<>>,
           NEW b \in Owners, NEW s, IsOf(r[1], b, s)
    PROVE  /\ Tail(r) \in Seq(Result) /\ Among(Tail(r), r)
           /\ r[1] = Head(r) /\ r[1] \in Result /\ 1 \in 1..Len(r)
           /\ Moves(r, q, Tail(r), q, s, {b}, {})
           /\ Has(r, q, b, s)
           /\ s # Nobody => ~Has(Tail(r), q, b, s)
           /\ s # Nobody => \A a : ~Ahead(r, q, a, b, s)
           /\ s # Nobody /\ b = "wait" /\ Armed(r, s) => r[1].out = "ok"
  <1> DEFINE p == Tail(r)
  <1>1. /\ p \in Seq(Result) /\ Len(p) = Len(r) - 1 /\ Len(r) \in Nat /\ Len(q) \in Nat
        /\ Head(r) = r[1] /\ 1 \in 1..Len(r) /\ r[1] \in Result
        /\ \A i \in 1..Len(p) : p[i] = r[i + 1] /\ i + 1 \in 1..Len(r)
        /\ \A i \in 1..Len(r) : i = 1 \/ i - 1 \in 1..Len(p)
    BY Tailed
  <1> HIDE DEF p
  <1>2. Len(p) + Len(q) = Len(r) + Len(q) - 1 /\ 1 \in Places(r, q) /\ Item(r, q, 1) = r[1]
    BY <1>1, Places_
  <1>3. \A k \in Places(p, q) :
           Item(p, q, k) = IF k < 1 THEN Item(r, q, k) ELSE Item(r, q, k + 1)
    <2>1. ASSUME NEW k \in Places(p, q)
          PROVE  k \in Nat /\ k >= 1 /\ Item(p, q, k) = Item(r, q, k + 1)
      <3>1. k \in Nat /\ k >= 1
        BY <1>1 DEF Places
      <3>2. CASE k <= Len(p)
        BY <1>1, <3>1, <3>2 DEF Item
      <3>3. CASE ~(k <= Len(p))
        <4>1. k - Len(p) = (k + 1) - Len(r) /\ ~(k + 1 <= Len(r))
          BY <1>1, <3>1, <3>3
        <4> QED BY <3>1, <3>3, <4>1 DEF Item
      <3> QED BY <3>1, <3>2, <3>3
    <2> QED BY <2>1
  <1>4. /\ OnceIn(p, q)
        /\ \A a, t : Has(p, q, a, t) => Has(r, q, a, t)
        /\ \A a, t : Has(r, q, a, t) => Has(p, q, a, t) \/ IsOf(r[1], a, t)
        /\ \A a, t : t # Nobody /\ IsOf(r[1], a, t) => ~Has(p, q, a, t)
        /\ \A a, c, t : Ahead(r, q, a, c, t) =>
              Ahead(p, q, a, c, t) \/ IsOf(r[1], a, t) \/ IsOf(r[1], c, t)
    <2>1. /\ OnceIn(p, q)
          /\ \A a, t : Has(p, q, a, t) => Has(r, q, a, t)
          /\ \A a, t : Has(r, q, a, t) => Has(p, q, a, t) \/ IsOf(Item(r, q, 1), a, t)
          /\ \A a, t : t # Nobody /\ IsOf(Item(r, q, 1), a, t) => ~Has(p, q, a, t)
          /\ \A a, c, t : Ahead(r, q, a, c, t) =>
                \/ Ahead(p, q, a, c, t)
                \/ IsOf(Item(r, q, 1), a, t) \/ IsOf(Item(r, q, 1), c, t)
      BY ONLY r \in Seq(Result), q \in Seq(Job), OnceIn(r, q), <1>1, <1>2, <1>3, Leaves
    <2> QED BY <1>2, <2>1
  <1>5. \A a, t : IsOf(r[1], a, t) => a = b /\ t = s
    BY DEF IsOf
  <1>6. \A t : Armed(r, t) => Armed(p, t) \/ (IsOf(r[1], "wait", t) /\ r[1].out = "ok")
    <2>1. ASSUME NEW t, NEW k \in 1..Len(r), IsOf(r[k], "wait", t), r[k].out = "ok",
                 ~(IsOf(r[1], "wait", t) /\ r[1].out = "ok")
          PROVE  Armed(p, t)
      <3>1. k - 1 \in 1..Len(p) /\ (k - 1) + 1 = k
        BY <1>1, <2>1
      <3>2. p[k - 1] = r[k]
        BY <1>1, <3>1
      <3> QED BY <2>1, <3>1, <3>2 DEF Armed
    <2> QED BY <2>1 DEF Armed
  <1>7. Moves(r, q, p, q, s, {b}, {})
    BY <1>4, <1>5, <1>6 DEF Moves
  <1>8. Has(r, q, b, s)
    BY <1>2 DEF Has
  <1>9. ASSUME s # Nobody, NEW a, Ahead(r, q, a, b, s)
        PROVE  FALSE
    <2>1. PICK i \in Places(r, q), k \in Places(r, q) : i < k /\ IsOf(Item(r, q, k), b, s)
      BY <1>9 DEF Ahead
    <2>2. k = 1
      BY <1>2, <1>9, <2>1 DEF OnceIn, IsOf
    <2> QED BY <2>1, <2>2 DEF Places
  <1>10. ASSUME s # Nobody, b = "wait", Armed(r, s)
         PROVE  r[1].out = "ok"
    <2>1. PICK k \in 1..Len(r) : IsOf(r[k], "wait", s) /\ r[k].out = "ok"
      BY <1>10 DEF Armed
    <2>2. k \in Places(r, q) /\ Item(r, q, k) = r[k]
      BY Places_
    <2>3. k = 1
      BY <1>2, <1>10, <2>1, <2>2 DEF OnceIn, IsOf
    <2> QED BY <2>1, <2>3
  <1>11. Among(p, r)
    BY <1>1 DEF Among
  <1>12. s # Nobody => ~Has(p, q, b, s)
    BY <1>4
  <1> QED BY <1>1, <1>7, <1>8, <1>9, <1>10, <1>11, <1>12 DEF p

\* A cancelled task's job leaves the queue, unless it runs.
LEMMA Drops_ ==
    ASSUME NEW r \in Seq(Result), NEW q \in Seq(Job), OnceIn(r, q),
           NEW b \in Owners, NEW s,
           NEW at, at = {i \in 2..Len(q) : q[i].by = b /\ q[i].leg = s}
    PROVE  /\ Without(q, at) \in Seq(Job) /\ Among(Without(q, at), q)
           /\ Moves(r, q, r, Without(q, at), s, {b}, {})
  <1> DEFINE u == Without(q, at)
  <1>1. at \subseteq 1..Len(q) /\ \A i \in at : IsOf(q[i], b, s)
    BY DEF IsOf
  <1>2. /\ u \in Seq(Job) /\ Len(q) \in Nat
        /\ at = {} => u = q
        /\ at # {} => \E m \in at :
              /\ m \in 1..Len(q) /\ Len(u) = Len(q) - 1
              /\ \A k \in 1..Len(u) :
                    /\ k \in 1..Len(q) /\ k + 1 \in 1..Len(q)
                    /\ u[k] = IF k < m THEN q[k] ELSE q[k + 1]
    <2> HIDE DEF u
    <2>1. ASSUME NEW w, w = Without(q, at)
          PROVE  /\ w \in Seq(Job) /\ Len(q) \in Nat
                 /\ at = {} => w = q
                 /\ at # {} => \E m \in at :
                       /\ m \in 1..Len(q) /\ Len(w) = Len(q) - 1
                       /\ \A k \in 1..Len(w) :
                             /\ k \in 1..Len(q) /\ k + 1 \in 1..Len(q)
                             /\ w[k] = IF k < m THEN q[k] ELSE q[k + 1]
      BY ONLY q \in Seq(Job), <1>1, <2>1, Removed, ZenonT(30)
    <2> QED BY <2>1 DEF u
  <1>3. Len(r) \in Nat
    BY Places_
  <1> HIDE DEF u
  <1>4. CASE at = {}
    <2>1. Among(q, q)
      BY DEF Among
    <2> QED BY <1>2, <1>4, <2>1 DEF Moves, u
  <1>5. CASE at # {}
    <2>1. PICK m \in at :
             /\ m \in 1..Len(q) /\ Len(u) = Len(q) - 1
             /\ \A k \in 1..Len(u) :
                   /\ k \in 1..Len(q) /\ k + 1 \in 1..Len(q)
                   /\ u[k] = IF k < m THEN q[k] ELSE q[k + 1]
      BY <1>2, <1>5
    <2> DEFINE n == Len(r) + m
    <2>2. n \in Places(r, q) /\ Item(r, q, n) = q[m]
      BY <2>1, Places_
    <2>3. Len(r) + Len(u) = Len(r) + Len(q) - 1
      BY <1>2, <1>3, <2>1
    <2>4. \A k \in Places(r, u) :
             Item(r, u, k) = IF k < n THEN Item(r, q, k) ELSE Item(r, q, k + 1)
      <3>1. ASSUME NEW k \in Places(r, u), k <= Len(r)
            PROVE  k < n /\ Item(r, u, k) = Item(r, q, k)
        BY <1>3, <2>1, <3>1 DEF Item, Places
      <3>2. ASSUME NEW k \in Places(r, u), ~(k <= Len(r))
            PROVE  Item(r, u, k) = IF k < n THEN Item(r, q, k) ELSE Item(r, q, k + 1)
        <4>1. /\ k \in Nat /\ k - Len(r) \in 1..Len(u) /\ ~(k + 1 <= Len(r))
              /\ (k + 1) - Len(r) = (k - Len(r)) + 1
              /\ k < n <=> k - Len(r) < m
          BY <1>2, <1>3, <2>1, <3>2 DEF Places
        <4>2. u[k - Len(r)] = IF k - Len(r) < m THEN q[k - Len(r)] ELSE q[(k - Len(r)) + 1]
          BY <2>1, <4>1
        <4>3. /\ Item(r, u, k) = u[k - Len(r)] /\ Item(r, q, k) = q[k - Len(r)]
              /\ Item(r, q, k + 1) = q[(k + 1) - Len(r)]
          BY <3>2, <4>1 DEF Item
        <4> HIDE DEF n
        <4> QED BY <4>1, <4>2, <4>3
      <3> QED BY <3>1, <3>2
    <2>5. IsOf(q[m], b, s)
      BY <1>1
    <2> HIDE DEF n
    <2>6. /\ OnceIn(r, u)
          /\ \A a, t : Has(r, u, a, t) => Has(r, q, a, t)
          /\ \A a, t : Has(r, q, a, t) => Has(r, u, a, t) \/ IsOf(q[m], a, t)
          /\ \A a, c, t : Ahead(r, q, a, c, t) =>
                Ahead(r, u, a, c, t) \/ IsOf(q[m], a, t) \/ IsOf(q[m], c, t)
      BY <1>2, <2>2, <2>3, <2>4, Leaves
    <2>7. \A a, t : IsOf(q[m], a, t) => a = b /\ t = s
      BY <2>5 DEF IsOf
    <2>8. ASSUME NEW a, NEW t, Queued(q, a, t), ~IsOf(q[m], a, t)
          PROVE  Queued(u, a, t)
      <3>1. PICK k \in 1..Len(q) : IsOf(q[k], a, t)
        BY <2>8 DEF Queued
      <3>2. k # m
        BY <2>8, <3>1
      <3>3. CASE k < m
        <4>1. k \in 1..Len(u)
          BY <1>2, <2>1, <3>3
        <4> QED BY <2>1, <3>1, <3>3, <4>1 DEF Queued
      <3>4. CASE ~(k < m)
        <4>1. k - 1 \in 1..Len(u) /\ ~(k - 1 < m) /\ (k - 1) + 1 = k
          BY <1>2, <2>1, <3>2, <3>4
        <4>2. u[k - 1] = q[k]
          BY <2>1, <4>1
        <4> QED BY <3>1, <4>1, <4>2 DEF Queued
      <3> QED BY <3>3, <3>4
    <2>9. Moves(r, q, r, u, s, {b}, {})
      BY <2>6, <2>7, <2>8 DEF Moves
    <2>10. Among(u, q)
      BY <2>1 DEF Among
    <2> QED BY <1>2, <2>9, <2>10 DEF u
  <1> QED BY <1>4, <1>5

\* A job is submitted by who has nothing under way.
LEMMA Adds ==
    ASSUME NEW r \in Seq(Result), NEW q \in Seq(Job), OnceIn(r, q), NEW j \in Job,
           j.leg # Nobody => ~Has(r, q, j.by, j.leg)
    PROVE  /\ Append(q, j) \in Seq(Job)
           /\ \A k \in 1..Len(Append(q, j)) :
                 Append(q, j)[k] = j \/ \E i \in 1..Len(q) : Append(q, j)[k] = q[i]
           /\ Moves(r, q, r, Append(q, j), j.leg, {}, {j.by})
  <1> DEFINE u == Append(q, j)
             n == Len(r) + Len(q)
  <1>1. /\ u \in Seq(Job) /\ Len(u) = Len(q) + 1
        /\ \A i \in 1..Len(q) : u[i] = q[i] /\ i \in 1..Len(u)
        /\ u[Len(q) + 1] = j
        /\ \A i \in 1..Len(u) : i \in 1..Len(q) \/ i = Len(q) + 1
    BY Appended
  <1>2. Len(r) \in Nat /\ Len(q) \in Nat
    BY Places_
  <1> HIDE DEF u
  <1>3. /\ n \in Nat /\ Places(r, q) = 1..n /\ Places(r, u) = 1..(n + 1)
        /\ Item(r, u, n + 1) = j
    <2>1. ~(n + 1 <= Len(r)) /\ (n + 1) - Len(r) = Len(q) + 1
      BY <1>2
    <2> QED BY <1>1, <1>2, <2>1 DEF Places, Item
  <1>4. ASSUME NEW k \in Places(r, q) PROVE Item(r, u, k) = Item(r, q, k)
    BY <1>1, <1>2 DEF Places, Item
  <1> HIDE DEF n
  <1>5. \A k \in Places(r, u) : k \in Places(r, q) \/ k = n + 1
    BY <1>3
  <1>6. \A k \in Places(r, q) : k \in Places(r, u) /\ k < n + 1
    BY <1>3
  <1>7. ASSUME j.leg # Nobody, NEW k \in Places(r, q) PROVE ~IsOf(Item(r, q, k), j.by, j.leg)
    BY <1>7 DEF Has
  <1>8. OnceIn(r, u)
    <2>1. ASSUME NEW i \in Places(r, u), NEW k \in Places(r, u),
                 Item(r, u, i).leg # Nobody,
                 IsOf(Item(r, u, k), Item(r, u, i).by, Item(r, u, i).leg)
          PROVE  i = k
      <3>1. CASE i \in Places(r, q) /\ k \in Places(r, q)
        BY <1>4, <2>1, <3>1 DEF OnceIn
      <3>2. CASE i = n + 1 /\ k \in Places(r, q)
        BY <1>3, <1>4, <1>7, <2>1, <3>2
      <3>3. CASE k = n + 1 /\ i \in Places(r, q)
        BY <1>3, <1>4, <1>7, <2>1, <3>3 DEF IsOf
      <3> QED BY <1>5, <3>1, <3>2, <3>3
    <2> QED BY <2>1 DEF OnceIn
  <1>9. \A a, t : IsOf(j, a, t) <=> a = j.by /\ t = j.leg
    BY DEF IsOf
  <1>10. n + 1 \in Places(r, u)
    BY <1>3
  <1>11. \A a, t : Has(r, u, a, t) <=> Has(r, q, a, t) \/ IsOf(j, a, t)
    BY <1>3, <1>4, <1>5, <1>6, <1>10 DEF Has
  <1>12. Len(q) + 1 \in 1..Len(u)
    BY <1>1, <1>2
  <1>13. \A a, t : Queued(u, a, t) <=> Queued(q, a, t) \/ IsOf(j, a, t)
    BY <1>1, <1>12 DEF Queued
  <1>14. \A a, b, t : Ahead(r, q, a, b, t) => Ahead(r, u, a, b, t)
    BY <1>4, <1>6 DEF Ahead
  <1>15. \A a, b, t : Has(r, q, a, t) /\ IsOf(j, b, t) => Ahead(r, u, a, b, t)
    BY <1>3, <1>4, <1>6, <1>10 DEF Has, Ahead
  <1>16. Moves(r, q, r, u, j.leg, {}, {j.by})
    BY <1>8, <1>9, <1>11, <1>13, <1>14, <1>15 DEF Moves
  <1> QED BY <1>1, <1>16 DEF u

\* The running job ends, and what it did is for the task that asked for it.
LEMMA Ends ==
    ASSUME NEW r \in Seq(Result), NEW q \in Seq(Job), OnceIn(r, q), q # <<>>,
           NEW x \in Result, IsOf(x, q[1].by, q[1].leg)
    PROVE  /\ Append(r, x) \in Seq(Result) /\ Tail(q) \in Seq(Job)
           /\ Among(Tail(q), q) /\ q[1] = Head(q) /\ q[1] \in Job /\ 1 \in 1..Len(q)
           /\ \A k \in 1..Len(Append(r, x)) :
                 Append(r, x)[k] = x \/ \E i \in 1..Len(r) : Append(r, x)[k] = r[i]
           /\ OnceIn(Append(r, x), Tail(q))
           /\ \A b, t : Has(Append(r, x), Tail(q), b, t) <=> Has(r, q, b, t)
           /\ \A a, b, t : Ahead(r, q, a, b, t) => Ahead(Append(r, x), Tail(q), a, b, t)
           /\ \A b, t : Queued(q, b, t) => Queued(Tail(q), b, t) \/ IsOf(x, b, t)
           /\ \A t : Armed(r, t) => Armed(Append(r, x), t)
           /\ \A t : IsOf(x, "wait", t) /\ x.out = "ok" => Armed(Append(r, x), t)
           /\ \A a, b, t : t # Nobody /\ a # b /\ IsOf(x, a, t) /\ Ahead(r, q, a, b, t) =>
                 Queued(Tail(q), b, t)
  <1> DEFINE p == Append(r, x)
             u == Tail(q)
  <1>1. /\ u \in Seq(Job) /\ Len(u) = Len(q) - 1 /\ Len(q) \in Nat
        /\ Head(q) = q[1] /\ 1 \in 1..Len(q) /\ q[1] \in Job
        /\ \A i \in 1..Len(u) : u[i] = q[i + 1] /\ i + 1 \in 1..Len(q)
        /\ \A i \in 1..Len(q) : i = 1 \/ i - 1 \in 1..Len(u)
    BY Tailed
  <1>2. /\ p \in Seq(Result) /\ Len(p) = Len(r) + 1 /\ Len(r) \in Nat
        /\ \A i \in 1..Len(r) : p[i] = r[i] /\ i \in 1..Len(p)
        /\ p[Len(r) + 1] = x
        /\ \A i \in 1..Len(p) : i \in 1..Len(r) \/ i = Len(r) + 1
    BY Appended
  <1> HIDE DEF p, u
  <1>3. Places(p, u) = Places(r, q)
    BY <1>1, <1>2 DEF Places
  <1>4. ASSUME NEW k \in Places(r, q)
        PROVE  Item(p, u, k).by = Item(r, q, k).by /\ Item(p, u, k).leg = Item(r, q, k).leg
    <2>1. CASE k <= Len(r)
      <3>1. k \in 1..Len(r) /\ k <= Len(p)
        BY <1>2, <2>1 DEF Places
      <3> QED BY <1>2, <2>1, <3>1 DEF Item
    <2>2. CASE k = Len(r) + 1
      <3>1. k <= Len(p) /\ ~(k <= Len(r)) /\ k - Len(r) = 1
        BY <1>2, <2>2
      <3>2. Item(p, u, k) = x /\ Item(r, q, k) = q[1]
        BY <1>2, <2>2, <3>1 DEF Item
      <3> QED BY <3>2 DEF IsOf
    <2>3. CASE k > Len(r) + 1
      <3>1. /\ ~(k <= Len(p)) /\ ~(k <= Len(r))
            /\ k - Len(p) \in 1..Len(u) /\ (k - Len(p)) + 1 = k - Len(r)
        BY <1>1, <1>2, <2>3 DEF Places
      <3>2. u[k - Len(p)] = q[k - Len(r)]
        BY <1>1, <3>1
      <3> QED BY <3>1, <3>2 DEF Item
    <2>4. k \in Int /\ Len(r) \in Nat
      BY <1>2 DEF Places
    <2> QED BY <2>1, <2>2, <2>3, <2>4
  <1>5. \A b, t : \A k \in Places(r, q) : IsOf(Item(p, u, k), b, t) <=> IsOf(Item(r, q, k), b, t)
    BY <1>4 DEF IsOf
  <1>6. OnceIn(p, u)
    BY <1>3, <1>4, <1>5 DEF OnceIn
  <1>7. /\ \A b, t : Has(p, u, b, t) <=> Has(r, q, b, t)
        /\ \A a, b, t : Ahead(r, q, a, b, t) => Ahead(p, u, a, b, t)
    BY <1>3, <1>5 DEF Has, Ahead
  <1>8. ASSUME NEW b, NEW t, Queued(q, b, t), ~IsOf(x, b, t)
        PROVE  Queued(u, b, t)
    <2>1. PICK k \in 1..Len(q) : IsOf(q[k], b, t)
      BY <1>8 DEF Queued
    <2>2. k # 1
      BY <1>8, <2>1 DEF IsOf
    <2>3. k - 1 \in 1..Len(u) /\ (k - 1) + 1 = k
      BY <1>1, <2>1, <2>2
    <2>4. u[k - 1] = q[k]
      BY <1>1, <2>3
    <2> QED BY <2>1, <2>3, <2>4 DEF Queued
  <1>9. Len(r) + 1 \in 1..Len(p)
    BY <1>2
  <1>10. /\ \A t : Armed(r, t) => Armed(p, t)
         /\ \A t : IsOf(x, "wait", t) /\ x.out = "ok" => Armed(p, t)
    BY <1>2, <1>9 DEF Armed
  <1>11. ASSUME NEW a, NEW b, NEW t, t # Nobody, a # b, IsOf(x, a, t), Ahead(r, q, a, b, t)
         PROVE  Queued(u, b, t)
    <2>1. PICK i \in Places(r, q), k \in Places(r, q) :
             i < k /\ IsOf(Item(r, q, i), a, t) /\ IsOf(Item(r, q, k), b, t)
      BY <1>11 DEF Ahead
    <2>2. Len(r) + 1 \in Places(r, q) /\ Item(r, q, Len(r) + 1) = q[1]
      BY <1>1, Places_
    <2>3. IsOf(q[1], a, t)
      BY <1>11 DEF IsOf
    <2>4. i = Len(r) + 1
      BY <1>11, <2>1, <2>2, <2>3 DEF OnceIn, IsOf
    <2>5. k - Len(r) \in 1..Len(q) /\ Item(r, q, k) = q[k - Len(r)] /\ k - Len(r) # 1
      <3>1. k \in Places(r, q) /\ i < k
        BY <2>1
      <3>2. k \in Nat /\ ~(k \in 1..Len(r))
        BY <1>2, <2>4, <3>1 DEF Places
      <3> QED BY <1>2, <2>4, <3>1, <3>2, Places_
    <2>6. Queued(q, b, t)
      BY <2>1, <2>5 DEF Queued
    <2>7. ~IsOf(x, b, t)
      BY <1>11 DEF IsOf
    <2> QED BY <1>8, <2>6, <2>7
  <1>12. Among(u, q)
    BY <1>1 DEF Among
  <1>13. \A k \in 1..Len(p) : p[k] = x \/ \E i \in 1..Len(r) : p[k] = r[i]
    BY <1>2
  <1> QED BY <1>1, <1>2, <1>6, <1>7, <1>8, <1>10, <1>11, <1>12, <1>13 DEF p, u

\* What is gone, then what is new.
LEMMA Follows ==
    ASSUME NEW r, NEW q, NEW p, NEW u, NEW v, NEW w, NEW s, NEW g, NEW h, NEW new,
           Moves(r, q, p, u, s, g, {}), Moves(p, u, v, w, s, h, new)
    PROVE  Moves(r, q, v, w, s, g \cup h, new)
  <1>1. OnceIn(v, w)
    BY DEF Moves
  <1>2. ASSUME NEW t \in Legs, NEW b \in Owners
        PROVE  /\ Has(v, w, b, t) => Has(r, q, b, t) \/ (t = s /\ b \in new)
               /\ Has(r, q, b, t) => Has(v, w, b, t) \/ (t = s /\ b \in g \cup h)
               /\ Queued(q, b, t) => Queued(w, b, t) \/ (t = s /\ b \in g \cup h)
               /\ t = s /\ b \in new => Has(v, w, b, t) /\ Queued(w, b, t)
    BY DEF Moves
  <1>3. ASSUME NEW t \in Legs, NEW a \in Owners, NEW b \in Owners
        PROVE  /\ Ahead(r, q, a, b, t) => Ahead(v, w, a, b, t) \/ (t = s /\ {a, b} \cap (g \cup h) # {})
               /\ t = s /\ b \in new /\ a \notin new /\ Has(v, w, a, t) => Ahead(v, w, a, b, t)
    BY DEF Moves
  <1>4. ASSUME NEW t \in Legs
        PROVE  Armed(r, t) => Armed(v, t) \/ (t = s /\ "wait" \in g \cup h)
    BY DEF Moves
  <1> QED BY <1>1, <1>2, <1>3, <1>4 DEF Moves

LEMMA Stays ==
    ASSUME NEW r, NEW q, NEW s, NEW gone, OnceIn(r, q)
    PROVE  Moves(r, q, r, q, s, gone, {})
  BY DEF Moves

-----------------------------------------------------------------------------
(* Types.                                                                  *)

LEMMA LegType ==
    ASSUME NEW l \in [Legs -> Leg], NEW s \in Legs
    PROVE  /\ l[s] \in Leg /\ l[s].call \in Calls
           /\ l[s].offer \in {"none", "replacing", "attaching", "undoing", "negotiating",
                              "failing", "ended"}
           /\ l[s].close \in {"no", "video", "unwatching", "pipeline", "audio", "peer", "done"}
           /\ l[s].wait \in {"none", "asleep", "arming", "undoing", "slipped"}
           /\ l[s].pipe \in {"none", "up", "killed", "gone"}
           /\ l[s].awaited.by \in {"nobody", "offer", "user"}
           /\ l[s].awaited.leg \in Legs \cup {Nobody}
  BY DEF Leg

LEMMA TaskType ==
    ASSUME NEW by \in Owners, NEW s \in Legs \cup {Nobody}, NEW c \in Calls,
           NEW cmd \in {"attach", "detach", "open_video", "close_video", "hangup"}
    PROVE  /\ Task(by, s, c, cmd) \in Job
           /\ Task(by, s, c, cmd).by = by /\ Task(by, s, c, cmd).leg = s
           /\ Task(by, s, c, cmd).call = c /\ Task(by, s, c, cmd).cmd = cmd
  BY DEF Task, Job

-----------------------------------------------------------------------------
(* What a step may leave of the invariant.                                 *)

LEMMA NobodyIsNoLeg == Nobody \notin Legs
  BY DEF Nobody, Legs

\* What is under way for a leg is still what the leg is at.
Bears(b, l, m) ==
    /\ m.call = l.call
    /\ b = "offer" => m.offer = l.offer
    /\ b = "close" => m.close = l.close
    /\ b = "wait" => m.offer \notin Unarmed /\ m.wait \in {l.wait, "none"}
    /\ b = "watchdog" => m.pipe \in {"killed", "gone"}

\* The line of a step that runs nothing on the worker.
LEMMA LineKept ==
    ASSUME TypeOK, LineOf, OnceIn(returned', queue'),
           returned' \in Seq(Result), queue' \in Seq(Job), Among(returned', returned), NEW j,
           \A k \in 1..Len(queue') :
              \/ \E i \in 1..Len(queue) : queue'[k] = queue[i]
              \/ queue'[k] = j /\ Placed(j)',
           \A t \in Legs : \A b \in Owners :
              Has(returned', queue, b, t) /\ DueOf(b, leg[t]) => Bears(b, leg[t], leg'[t])
    PROVE  LineOf'
  <1>1. /\ returned \in Seq(Result) /\ queue \in Seq(Job)
    BY DEF TypeOK
  <1>2. ASSUME NEW x, Due(x), x.leg \in Legs => Bears(x.by, leg[x.leg], leg'[x.leg])
        PROVE  Due(x)'
    BY <1>2 DEF Due, DueOf, Bears
  <1>3. ASSUME NEW x, Placed(x), x.leg \in Legs => Bears(x.by, leg[x.leg], leg'[x.leg])
        PROVE  Placed(x)'
    <2>1. Due(x)' /\ Due(x)
      BY <1>2, <1>3 DEF Placed
    <2>2. x.leg \in Legs \/ x.by \in {"user", "reap"}
      BY <2>1 DEF Due
    <2>3. CASE x.leg \in Legs
      <3>1. x.by = "wait" => leg'[x.leg].wait \in {leg[x.leg].wait, "none"}
        BY <1>3, <2>3 DEF Bears
      <3>2. /\ x.by = "offer" => leg'[x.leg].offer = leg[x.leg].offer
            /\ x.by = "close" => leg'[x.leg].close = leg[x.leg].close
        BY <1>3, <2>3 DEF Bears
      <3> QED BY <1>3, <2>1, <3>1, <3>2 DEF Placed
    <2>4. CASE x.by \in {"user", "reap"}
      BY <1>3, <2>1, <2>4 DEF Placed
    <2> QED BY <2>2, <2>3, <2>4
  <1>4. ASSUME NEW k \in 1..Len(returned'), NEW x, x = returned'[k]
        PROVE  Due(x)'
    <2>1. PICK i \in 1..Len(returned) : x = returned[i]
      BY <1>4 DEF Among
    <2>2. Due(x) /\ x \in Result
      BY <1>1, <2>1 DEF LineOf
    <2>3. Has(returned', queue, x.by, x.leg)
      <3>1. k \in Places(returned', queue) /\ Item(returned', queue, k) = x
        BY <1>1, <1>4, Places_
      <3> QED BY <3>1 DEF Has, IsOf
    <2>4. x.by \in Owners
      BY <2>2 DEF Result
    <2>5. x.leg \in Legs => DueOf(x.by, leg[x.leg])
      BY <2>2, NobodyIsNoLeg DEF Due
    <2> QED BY <1>2, <2>2, <2>3, <2>4, <2>5
  <1>5. ASSUME NEW k \in 1..Len(queue'), NEW x, x = queue'[k]
        PROVE  Placed(x)'
    <2>1. CASE \E i \in 1..Len(queue) : x = queue[i]
      <3>1. PICK i \in 1..Len(queue) : x = queue[i]
        BY <2>1
      <3>2. Placed(x) /\ x \in Job
        BY <1>1, <3>1 DEF LineOf
      <3>3. Has(returned', queue, x.by, x.leg)
        <4>1. /\ Len(returned') + i \in Places(returned', queue)
              /\ Item(returned', queue, Len(returned') + i) = x
          BY <1>1, <3>1, Places_
        <4> QED BY <4>1 DEF Has, IsOf
      <3>4. x.by \in Owners
        BY <3>2 DEF Job
      <3>5. x.leg \in Legs => DueOf(x.by, leg[x.leg])
        BY <3>2, NobodyIsNoLeg DEF Due, Placed
      <3> QED BY <1>3, <3>2, <3>3, <3>4, <3>5
    <2>2. CASE x = j /\ Placed(j)'
      BY <2>2
    <2> QED BY <1>5, <2>1, <2>2
  <1> QED BY <1>4, <1>5 DEF LineOf

\* A leg nothing happened to.
LEMMA Elsewhere ==
    ASSUME NEW s, NEW gone, NEW new, NEW t \in Legs, t # s,
           Moves(returned, queue, returned', queue', s, gone, new),
           leg'[t] = leg[t], FreshOf(t), ClosingOf(t)
    PROVE  FreshOf(t)' /\ ClosingOf(t)'
  <1>1. FreshOf(t)'
    BY DEF FreshOf
  <1>2. /\ \A b \in Owners : Has(returned', queue', b, t) <=> Has(returned, queue, b, t)
        /\ \A a, b \in Owners :
              Ahead(returned, queue, a, b, t) => Ahead(returned', queue', a, b, t)
    BY DEF Moves
  <1>3. {"offer", "close", "wait"} \subseteq Owners
    BY DEF Owners
  <1>4. ClosingOf(t)'
    BY <1>2, <1>3 DEF ClosingOf
  <1> QED BY <1>1, <1>4

\* The waits for a leg, after a step that starts none but of an offer for its own leg.
LEMMA AwaitedKept ==
    ASSUME \A t \in Legs : AwaitedOf(t), leg \in [Legs -> Leg], leg' \in [Legs -> Leg], NEW s,
           \A t \in Legs : t # s => leg'[t] = leg[t],
           s \in Legs =>
              /\ leg[s].offer \in {"replacing", "failing"} => leg'[s].offer = leg[s].offer
              /\ \/ leg'[s].awaited = leg[s].awaited
                 \/ leg'[s].awaited.by # "offer"
                 \/ /\ leg'[s].awaited = [by |-> "offer", leg |-> s]
                    /\ leg'[s].offer = "failing" /\ leg[s].offer \notin {"replacing", "failing"}
    PROVE  \A t \in Legs : AwaitedOf(t)'
  <1>1. ASSUME NEW t \in Legs, leg'[t].awaited.by = "offer"
        PROVE  /\ leg'[t].awaited.leg \in Legs
               /\ leg'[leg'[t].awaited.leg].offer =
                     IF leg'[t].awaited.leg = t THEN "failing" ELSE "replacing"
               /\ \A u \in Legs : leg'[u].awaited = leg'[t].awaited => u = t
    <2>1. CASE leg'[t].awaited = leg[t].awaited
      <3>1. /\ leg[t].awaited.leg \in Legs
            /\ leg[leg[t].awaited.leg].offer =
                  (IF leg[t].awaited.leg = t THEN "failing" ELSE "replacing")
            /\ \A u \in Legs : leg[u].awaited = leg[t].awaited => u = t
        BY <1>1, <2>1 DEF AwaitedOf
      <3>2. ASSUME NEW u \in Legs, leg'[u].awaited = leg'[t].awaited, u # t
            PROVE  FALSE
        <4>1. leg'[u].awaited # leg[u].awaited
          BY <2>1, <3>1, <3>2
        <4>2. u = s /\ s \in Legs
          BY <4>1
        <4>3. leg[t].awaited.leg = s /\ leg[s].offer \notin {"replacing", "failing"}
          BY <1>1, <2>1, <3>2, <4>1, <4>2
        <4> QED BY <3>1, <4>3
      <3> QED BY <2>1, <3>1, <3>2
    <2>2. CASE leg'[t].awaited # leg[t].awaited
      <3>1. /\ t = s /\ leg'[s].awaited = [by |-> "offer", leg |-> s]
            /\ leg'[s].offer = "failing" /\ leg[s].offer \notin {"replacing", "failing"}
        BY <1>1, <2>2
      <3>2. ASSUME NEW u \in Legs, leg'[u].awaited = leg'[t].awaited, u # t
            PROVE  FALSE
        <4>1. leg[u].awaited = [by |-> "offer", leg |-> s]
          BY <3>1, <3>2
        <4>2. leg[u].awaited.by = "offer" /\ leg[u].awaited.leg = s
          BY <4>1
        <4>3. leg[s].offer \in {"replacing", "failing"}
          BY <4>2 DEF AwaitedOf
        <4> QED BY <3>1, <4>3
      <3> QED BY <3>1, <3>2
    <2> QED BY <2>1, <2>2
  <1> QED BY <1>1 DEF AwaitedOf

\* What is owed to a call whose tap is of a leg nothing happened to.
LEMMA OwedKept ==
    ASSUME TypeOK, NEW s, NEW gone, NEW new, UNCHANGED <<audio, video>>,
           Moves(returned, queue, returned', queue', s, gone, new),
           NEW c \in Calls
    PROVE  /\ /\ AudioOwed(c)
              /\ audio[c] \in Legs => audio[c] # s /\ leg'[audio[c]] = leg[audio[c]]
              => AudioOwed(c)'
           /\ /\ VideoOwed(c)
              /\ video[c] \in Legs => video[c] # s /\ leg'[video[c]] = leg[video[c]]
              => VideoOwed(c)'
  <1>1. /\ audio[c] \in Legs \cup {Nobody} /\ video[c] \in Legs \cup {Nobody}
        /\ {"close", "wait"} \subseteq Owners
    BY DEF TypeOK, Owners
  <1>2. ASSUME AudioOwed(c),
               audio[c] \in Legs => audio[c] # s /\ leg'[audio[c]] = leg[audio[c]]
        PROVE  AudioOwed(c)'
    <2>1. audio[c] \in Legs /\ Queued(queue, "close", audio[c]) => Queued(queue', "close", audio[c])
      BY <1>1, <1>2 DEF Moves
    <2> QED BY <1>1, <1>2, <2>1 DEF AudioOwed
  <1>3. ASSUME VideoOwed(c),
               video[c] \in Legs => video[c] # s /\ leg'[video[c]] = leg[video[c]]
        PROVE  VideoOwed(c)'
    <2>1. video[c] \in Legs =>
             /\ Queued(queue, "close", video[c]) => Queued(queue', "close", video[c])
             /\ Queued(queue, "wait", video[c]) => Queued(queue', "wait", video[c])
             /\ Armed(returned, video[c]) => Armed(returned', video[c])
      BY <1>1, <1>3 DEF Moves
    <2> QED BY <1>1, <1>3, <2>1 DEF VideoOwed
  <1> QED BY <1>2, <1>3

\* A step of one leg, or of none: what is left to show.
LEMMA OneLeg ==
    ASSUME IInv, NEW s \in Legs \cup {Nobody}, NEW gone, NEW new,
           Moves(returned, queue, returned', queue', s, gone, new),
           TypeOK', LineOf', UNCHANGED <<audio, video, sessions>>,
           \A t \in Legs : t # s => leg'[t] = leg[t],
           s \in Legs =>
              /\ leg[s].offer \in {"replacing", "failing"} => leg'[s].offer = leg[s].offer
              /\ \/ leg'[s].awaited = leg[s].awaited
                 \/ leg'[s].awaited.by # "offer"
                 \/ /\ leg'[s].awaited = [by |-> "offer", leg |-> s]
                    /\ leg'[s].offer = "failing" /\ leg[s].offer \notin {"replacing", "failing"}
              /\ leg[s].offer \in Unmade <=> leg'[s].offer \in Unmade
              /\ leg[s].close = "done" => leg'[s].close = "done"
              /\ FreshOf(s)' /\ ClosingOf(s)'
              /\ \A c \in Calls : audio[c] = s => AudioOwed(c)'
              /\ \A c \in Calls : video[c] = s => VideoOwed(c)'
    PROVE  IInv'
  <1>1. /\ TypeOK /\ leg \in [Legs -> Leg] /\ leg' \in [Legs -> Leg]
        /\ audio \in [Calls -> Legs \cup {Nobody}] /\ video \in [Calls -> Legs \cup {Nobody}]
    BY DEF IInv, TypeOK
  <1>2. ASSUME NEW t \in Legs
        PROVE  BookOf(t)' /\ FreshOf(t)' /\ ClosingOf(t)'
    <2>1. BookOf(t) /\ FreshOf(t) /\ ClosingOf(t)
      BY DEF IInv
    <2>2. BookOf(t)'
      BY <2>1 DEF BookOf, Listed
    <2>3. FreshOf(t)' /\ ClosingOf(t)'
      BY <2>1, Elsewhere
    <2> QED BY <2>2, <2>3
  <1>3. \A t \in Legs : AwaitedOf(t)'
    BY <1>1, AwaitedKept DEF IInv
  <1>4. ASSUME NEW c \in Calls
        PROVE  AudioOwed(c)' /\ VideoOwed(c)'
    <2>1. AudioOwed(c) /\ VideoOwed(c)
      BY DEF IInv
    <2>2. audio[c] \in Legs \cup {Nobody} /\ video[c] \in Legs \cup {Nobody}
      BY <1>1
    <2>3. AudioOwed(c)'
      BY <1>1, <2>1, <2>2, OwedKept
    <2>4. VideoOwed(c)'
      BY <1>1, <2>1, <2>2, OwedKept
    <2> QED BY <2>3, <2>4
  <1> QED BY <1>2, <1>3, <1>4 DEF IInv

LEMMA AmongSelf == \A q : Among(q, q)
  BY DEF Among

LEMMA QueuedHas ==
    ASSUME NEW r \in Seq(Result), NEW q \in Seq(Job), NEW b, NEW t, Queued(q, b, t)
    PROVE  Has(r, q, b, t)
  BY Places_ DEF Queued, Has

\* What is under way for a leg is what the leg is at.
LEMMA HasDue ==
    ASSUME TypeOK, LineOf, NEW b \in Owners, NEW t \in Legs, Has(returned, queue, b, t)
    PROVE  DueOf(b, leg[t])
  <1>1. returned \in Seq(Result) /\ queue \in Seq(Job)
    BY DEF TypeOK
  <1>2. PICK k \in Places(returned, queue) : IsOf(Item(returned, queue, k), b, t)
    BY DEF Has
  <1>3. ASSUME NEW x, Due(x), IsOf(x, b, t)
        PROVE  DueOf(b, leg[t])
    BY <1>3, NobodyIsNoLeg DEF Due, IsOf
  <1>4. CASE k \in 1..Len(returned) /\ Item(returned, queue, k) = returned[k]
    <2>1. Due(returned[k])
      BY <1>4 DEF LineOf
    <2> QED BY <1>2, <1>3, <1>4, <2>1
  <1>5. CASE k - Len(returned) \in 1..Len(queue) /\ Item(returned, queue, k) = queue[k - Len(returned)]
    <2>1. Due(queue[k - Len(returned)])
      BY <1>5 DEF LineOf, Placed
    <2> QED BY <1>2, <1>3, <1>5, <2>1
  <1> QED BY <1>1, <1>4, <1>5, Places_

\* The continuation of a task.
LEMMA Continued ==
    ASSUME TypeOK, LineOf, NEW b \in Owners, NEW s \in Legs \cup {Nobody}, NEW out,
           Continues(b, s, out)
    PROVE  /\ returned' \in Seq(Result) /\ Among(returned', returned)
           /\ Moves(returned, queue, returned', queue, s, {b}, {})
           /\ returned[1] = Head(returned) /\ returned[1] \in Result
           /\ Due(returned[1]) /\ IsOf(returned[1], b, s) /\ returned[1].out = out
           /\ OnceIn(returned', queue)
           /\ s \in Legs =>
                 /\ Has(returned, queue, b, s) /\ ~Has(returned', queue, b, s)
                 /\ ~Queued(queue, b, s)
                 /\ \A a : ~Ahead(returned, queue, a, b, s)
                 /\ b = "wait" /\ Armed(returned, s) => out = "ok"
  <1>1. /\ returned \in Seq(Result) /\ queue \in Seq(Job) /\ returned # <<>>
        /\ OnceIn(returned, queue) /\ returned' = Tail(returned)
        /\ Head(returned).by = b /\ Head(returned).leg = s /\ Head(returned).out = out
    BY DEF TypeOK, LineOf, Continues
  <1>2. Head(returned) = returned[1] /\ 1 \in 1..Len(returned)
    BY <1>1
  <1>3. IsOf(returned[1], b, s)
    BY <1>1, <1>2 DEF IsOf
  <1>4. /\ Tail(returned) \in Seq(Result) /\ Among(Tail(returned), returned)
        /\ returned[1] \in Result
        /\ Moves(returned, queue, Tail(returned), queue, s, {b}, {})
        /\ Has(returned, queue, b, s)
        /\ s # Nobody => ~Has(Tail(returned), queue, b, s)
        /\ s # Nobody => \A a : ~Ahead(returned, queue, a, b, s)
        /\ s # Nobody /\ b = "wait" /\ Armed(returned, s) => returned[1].out = "ok"
    BY <1>1, <1>3, Reads
  <1>5. Due(returned[1])
    BY <1>2 DEF LineOf
  <1>6. OnceIn(returned', queue)
    BY <1>1, <1>4 DEF Moves
  <1>7. s # Nobody => ~Queued(queue, b, s)
    BY <1>1, <1>4, QueuedHas
  <1> QED BY <1>1, <1>2, <1>3, <1>4, <1>5, <1>6, <1>7, NobodyIsNoLeg

\* A task is cancelled, and another job of its leg is submitted.
LEMMA KeptAdds ==
    ASSUME queue \in Seq(Job), NEW r \in Seq(Result), OnceIn(r, queue),
           NEW b \in Owners, NEW s \in Legs, NEW j \in Job, j.leg = s,
           ~Has(r, queue, j.by, s), queue' = Append(Kept(b, s), j)
    PROVE  /\ queue' \in Seq(Job)
           /\ \A k \in 1..Len(queue') :
                 queue'[k] = j \/ \E i \in 1..Len(queue) : queue'[k] = queue[i]
           /\ Moves(r, queue, r, queue', s, {b}, {j.by})
  <1> DEFINE at == {i \in 2..Len(queue) : queue[i].by = b /\ queue[i].leg = s}
  <1>1. Kept(b, s) = Without(queue, at)
    BY DEF Kept
  <1>2. PICK u : u = Without(queue, at)
    OBVIOUS
  <1> HIDE DEF at
  <1>3. /\ u \in Seq(Job) /\ Among(u, queue) /\ Moves(r, queue, r, u, s, {b}, {})
    BY <1>2, Drops_ DEF at
  <1>4. OnceIn(r, u) /\ j.by \in Owners /\ ~Has(r, u, j.by, s)
    BY <1>3 DEF Moves, Job
  <1>5. /\ Append(u, j) \in Seq(Job)
        /\ \A k \in 1..Len(Append(u, j)) :
              Append(u, j)[k] = j \/ \E i \in 1..Len(u) : Append(u, j)[k] = u[i]
        /\ Moves(r, u, r, Append(u, j), s, {}, {j.by})
    BY <1>4, <1>3, Adds
  <1>6. queue' = Append(u, j)
    BY <1>1, <1>2
  <1>7. Moves(r, queue, r, queue', s, {b} \cup {}, {j.by})
    BY <1>3, <1>5, <1>6, Follows
  <1>8. {b} \cup {} = {b}
    OBVIOUS
  <1> QED BY <1>3, <1>5, <1>6, <1>7, <1>8 DEF Among

-----------------------------------------------------------------------------
(* A teardown begins.                                                      *)

\* The leg that aclose() is called on, whether or not its offer fails with it.
LEMMA ClosedLeg ==
    ASSUME TypeOK, LineOf, NEW s \in Legs, NEW l \in [Legs -> Leg],
           FreshOf(s), leg[s].close = "no",
           l[s].offer \notin Unmade, l[s].offer \notin Unarmed \/ l[s].offer = leg[s].offer,
           l[s].call = leg[s].call, l[s].wait = leg[s].wait, l[s].pipe = leg[s].pipe,
           returned' \in Seq(Result), NEW gone,
           Moves(returned, queue, returned', queue, s, gone, {}),
           NEW by \in {"nobody", "offer", "user"}, NEW waiter \in Legs \cup {Nobody},
           Closes(l, s, by, waiter)
    PROVE  /\ queue' \in Seq(Job)
           /\ \E j \in Job : /\ Placed(j)'
                             /\ \A k \in 1..Len(queue') :
                                   queue'[k] = j \/ \E i \in 1..Len(queue) : queue'[k] = queue[i]
           /\ Moves(returned, queue, returned', queue', s, gone \cup {"wait"}, {"close"})
           /\ leg' \in [Legs -> Leg] /\ \A t \in Legs : t # s => leg'[t] = l[t]
           /\ leg'[s].call = leg[s].call /\ leg'[s].offer = l[s].offer
           /\ leg'[s].close = "video" /\ leg'[s].awaited = [by |-> by, leg |-> waiter]
           /\ FreshOf(s)' /\ ClosingOf(s)'
           /\ \A c \in Calls : audio'[c] = s /\ audio[c] = s /\ AudioOwed(c) => AudioOwed(c)'
           /\ \A c \in Calls : video'[c] = s /\ video[c] = s /\ VideoOwed(c) => VideoOwed(c)'
           /\ \A b \in Owners :
                 /\ Has(returned', queue, b, s) /\ DueOf(b, leg[s])
                 /\ l[s].offer = leg[s].offer \/ ~Has(returned', queue, "offer", s)
                 => Bears(b, leg[s], leg'[s])
  <1> DEFINE j == Task("close", s, l[s].call, "close_video")
  <1>1. /\ queue \in Seq(Job) /\ returned \in Seq(Result) /\ leg \in [Legs -> Leg]
        /\ leg[s] \in Leg /\ l[s] \in Leg /\ l[s].call \in Calls
    BY LegType DEF TypeOK
  <1>2. /\ {"close", "wait", "offer", "watchdog"} \subseteq Owners
        /\ OnceIn(returned', queue)
    BY DEF Owners, Moves
  <1>3. j \in Job /\ j.by = "close" /\ j.leg = s /\ j.call = leg[s].call /\ j.cmd = "close_video"
    BY <1>1, <1>2, TaskType
  <1>4. ~Has(returned', queue, "close", s)
    <2>1. ~DueOf("close", leg[s])
      BY DEF DueOf
    <2>2. ~Has(returned, queue, "close", s)
      BY <1>2, <2>1, HasDue
    <2> QED BY <1>2, <2>2 DEF Moves
  <1>5. queue' = Append(Kept("wait", s), j)
    BY DEF Closes
  <1> HIDE DEF j
  <1>6. /\ queue' \in Seq(Job)
        /\ \A k \in 1..Len(queue') :
              queue'[k] = j \/ \E i \in 1..Len(queue) : queue'[k] = queue[i]
        /\ Moves(returned', queue, returned', queue', s, {"wait"}, {"close"})
    <2>1. "wait" \in Owners /\ ~Has(returned', queue, j.by, s)
      BY <1>2, <1>3, <1>4
    <2>2. /\ queue' \in Seq(Job)
          /\ \A k \in 1..Len(queue') :
                queue'[k] = j \/ \E i \in 1..Len(queue) : queue'[k] = queue[i]
          /\ Moves(returned', queue, returned', queue', s, {"wait"}, {j.by})
      BY <1>1, <1>2, <1>3, <1>5, <2>1, KeptAdds, ZenonT(60)
    <2> QED BY <1>3, <2>2
  <1>7. Moves(returned, queue, returned', queue', s, gone \cup {"wait"}, {"close"})
    BY <1>6, Follows
  <1>8. /\ leg' = [l EXCEPT ![s].close = "video", ![s].wait = "none",
                            ![s].awaited = [by |-> by, leg |-> waiter]]
        /\ leg'[s] = [call |-> l[s].call, offer |-> l[s].offer, close |-> "video",
                      awaited |-> [by |-> by, leg |-> waiter], wait |-> "none",
                      pipe |-> l[s].pipe]
    BY <1>1 DEF Closes, Leg
  <1>9. leg' \in [Legs -> Leg] /\ \A t \in Legs : t # s => leg'[t] = l[t]
    BY <1>1, <1>8 DEF Leg
  <1>10. /\ leg'[s].call = leg[s].call /\ leg'[s].offer = l[s].offer
         /\ leg'[s].close = "video" /\ leg'[s].awaited = [by |-> by, leg |-> waiter]
         /\ leg'[s].wait = "none" /\ leg'[s].pipe = leg[s].pipe
    BY <1>8
  <1>11. Placed(j)'
    BY <1>3, <1>10 DEF Placed, Due, DueOf
  <1>12. FreshOf(s)'
    BY <1>10 DEF FreshOf, Unarmed
  <1>13. /\ Has(returned', queue', "close", s) /\ Queued(queue', "close", s)
         /\ \A a \in Owners : a # "close" /\ Has(returned', queue', a, s) =>
               Ahead(returned', queue', a, "close", s)
    BY <1>2, <1>7 DEF Moves
  <1>14. ClosingOf(s)'
    BY <1>2, <1>10, <1>13 DEF ClosingOf
  <1>15. \A c \in Calls : audio'[c] = s /\ audio[c] = s /\ AudioOwed(c) => AudioOwed(c)'
    BY <1>10 DEF AudioOwed
  <1>16. \A c \in Calls : video'[c] = s /\ video[c] = s /\ VideoOwed(c) => VideoOwed(c)'
    BY <1>10, <1>13 DEF VideoOwed
  <1>17. ASSUME NEW b \in Owners, Has(returned', queue, b, s), DueOf(b, leg[s]),
                l[s].offer = leg[s].offer \/ ~Has(returned', queue, "offer", s)
         PROVE  Bears(b, leg[s], leg'[s])
    BY <1>4, <1>10, <1>17 DEF Bears, DueOf, Unarmed
  <1> QED BY <1>3, <1>6, <1>7, <1>9, <1>10, <1>11, <1>12, <1>14, <1>15, <1>16, <1>17

\* A leg that is in the book is closed, by who is no offer.
LEMMA ClosesStep ==
    ASSUME IInv, NEW s \in Legs, leg[s].close = "no", leg[s].offer \notin Unmade,
           NEW by \in {"nobody", "user"}, Closes(leg, s, by, Nobody),
           UNCHANGED <<audio, video, sessions, returned>>,
           up' \in SUBSET Calls, reports' \in SUBSET Calls, calls' \in SUBSET Calls,
           graces' \in [Calls -> Nat], hanging' \in [Calls -> {"no", "closing", "native"}]
    PROVE  IInv'
  <1>1. /\ TypeOK /\ LineOf /\ FreshOf(s) /\ leg \in [Legs -> Leg] /\ OnceIn(returned, queue)
        /\ returned' = returned /\ returned \in Seq(Result)
    BY DEF IInv, TypeOK, LineOf
  <1>2. Moves(returned, queue, returned', queue, s, {}, {})
    BY <1>1, Stays
  <1>3. returned' \in Seq(Result) /\ by \in {"nobody", "offer", "user"} /\ Nobody \in Legs \cup {Nobody}
    BY <1>1
  <1>4. /\ queue' \in Seq(Job)
        /\ \E j \in Job : /\ Placed(j)'
                          /\ \A k \in 1..Len(queue') :
                                queue'[k] = j \/ \E i \in 1..Len(queue) : queue'[k] = queue[i]
        /\ Moves(returned, queue, returned', queue', s, {} \cup {"wait"}, {"close"})
        /\ leg' \in [Legs -> Leg] /\ \A t \in Legs : t # s => leg'[t] = leg[t]
        /\ leg'[s].call = leg[s].call /\ leg'[s].offer = leg[s].offer
        /\ leg'[s].close = "video" /\ leg'[s].awaited = [by |-> by, leg |-> Nobody]
        /\ FreshOf(s)' /\ ClosingOf(s)'
        /\ \A c \in Calls : audio'[c] = s /\ audio[c] = s /\ AudioOwed(c) => AudioOwed(c)'
        /\ \A c \in Calls : video'[c] = s /\ video[c] = s /\ VideoOwed(c) => VideoOwed(c)'
        /\ \A b \in Owners :
              /\ Has(returned', queue, b, s) /\ DueOf(b, leg[s])
              /\ leg[s].offer = leg[s].offer \/ ~Has(returned', queue, "offer", s)
              => Bears(b, leg[s], leg'[s])
    BY <1>1, <1>2, <1>3, ClosedLeg, ZenonT(60)
  <1>5. TypeOK'
    BY <1>1, <1>4 DEF TypeOK
  <1>6. LineOf'
    <2>1. \A t \in Legs : \A b \in Owners :
             Has(returned', queue, b, t) /\ DueOf(b, leg[t]) => Bears(b, leg[t], leg'[t])
      BY <1>4 DEF Bears, DueOf
    <2>2. OnceIn(returned', queue') /\ Among(returned', returned)
      BY <1>1, <1>4, AmongSelf DEF Moves
    <2>3. PICK j \in Job : /\ Placed(j)'
                           /\ \A k \in 1..Len(queue') :
                                 queue'[k] = j \/ \E i \in 1..Len(queue) : queue'[k] = queue[i]
      BY <1>4
    <2> QED BY <1>1, <1>3, <1>4, <2>1, <2>2, <2>3, LineKept
  <1>7. \A c \in Calls : AudioOwed(c) /\ VideoOwed(c)
    BY DEF IInv
  <1>8. leg'[s].awaited.by # "offer"
    BY <1>4
  <1>9. \A c \in Calls : audio[c] = s => AudioOwed(c)'
    BY <1>4, <1>7
  <1>10. \A c \in Calls : video[c] = s => VideoOwed(c)'
    BY <1>4, <1>7
  <1>11. s \in Legs \cup {Nobody}
    OBVIOUS
  <1> QED BY <1>4, <1>5, <1>6, <1>8, <1>9, <1>10, <1>11, OneLeg

-----------------------------------------------------------------------------
(* The offer.                                                              *)

LEMMA Attending ==
    ASSUME IInv, NEW s \in Legs
    PROVE  /\ TypeOK /\ LineOf /\ leg \in [Legs -> Leg] /\ leg[s] \in Leg /\ leg[s].call \in Calls
           /\ BookOf(s) /\ AwaitedOf(s) /\ FreshOf(s) /\ ClosingOf(s)
           /\ OnceIn(returned, queue) /\ returned \in Seq(Result) /\ queue \in Seq(Job)
           /\ {"offer", "close", "wait", "watchdog"} \subseteq Owners
           /\ s \in Legs \cup {Nobody}
           /\ \A c \in Calls : AudioOwed(c) /\ VideoOwed(c)
           /\ \A b \in Owners : Has(returned, queue, b, s) => DueOf(b, leg[s])
  BY LegType, HasDue DEF IInv, TypeOK, LineOf, Owners

\* An offer that cannot be answered, once nothing of it is on the worker.
LEMMA FailsStep ==
    ASSUME IInv, NEW s \in Legs, leg[s].offer \in {"attaching", "undoing", "negotiating"},
           returned' \in Seq(Result), Among(returned', returned),
           Moves(returned, queue, returned', queue, s, {"offer"}, {}),
           ~Has(returned', queue, "offer", s), Fails(leg, s),
           UNCHANGED <<up, audio, video, reports, calls, sessions, graces, hanging>>
    PROVE  IInv'
  <1>1. /\ TypeOK /\ LineOf /\ leg \in [Legs -> Leg] /\ leg[s] \in Leg /\ leg[s].call \in Calls
        /\ FreshOf(s) /\ ClosingOf(s) /\ queue \in Seq(Job) /\ s \in Legs \cup {Nobody}
        /\ {"offer", "close", "wait", "watchdog"} \subseteq Owners
        /\ \A c \in Calls : AudioOwed(c) /\ VideoOwed(c)
    BY Attending
  <1>2. CASE leg[s].close = "no" /\ Closes([leg EXCEPT ![s].offer = "failing"], s, "offer", s)
    <2>1. PICK l : l = [leg EXCEPT ![s].offer = "failing"]
      OBVIOUS
    <2>2. /\ l \in [Legs -> Leg] /\ \A t \in Legs : t # s => l[t] = leg[t]
          /\ l[s] = [call |-> leg[s].call, offer |-> "failing", close |-> leg[s].close,
                     awaited |-> leg[s].awaited, wait |-> leg[s].wait, pipe |-> leg[s].pipe]
      BY <1>1, <2>1 DEF Leg
    <2>3. /\ l[s].offer \notin Unmade /\ l[s].offer \notin Unarmed /\ l[s].offer = "failing"
          /\ l[s].call = leg[s].call /\ l[s].wait = leg[s].wait /\ l[s].pipe = leg[s].pipe
      BY <2>2 DEF Unmade, Unarmed
    <2>4. Closes(l, s, "offer", s) /\ leg[s].close = "no"
      BY <1>2, <2>1
    <2>5. "offer" \in {"nobody", "offer", "user"}
      OBVIOUS
    <2>6. /\ queue' \in Seq(Job)
          /\ \E j \in Job : /\ Placed(j)'
                            /\ \A k \in 1..Len(queue') :
                                  queue'[k] = j \/ \E i \in 1..Len(queue) : queue'[k] = queue[i]
          /\ Moves(returned, queue, returned', queue', s, {"offer"} \cup {"wait"}, {"close"})
          /\ leg' \in [Legs -> Leg] /\ \A t \in Legs : t # s => leg'[t] = l[t]
          /\ leg'[s].call = leg[s].call /\ leg'[s].offer = l[s].offer
          /\ leg'[s].close = "video" /\ leg'[s].awaited = [by |-> "offer", leg |-> s]
          /\ FreshOf(s)' /\ ClosingOf(s)'
          /\ \A c \in Calls : audio'[c] = s /\ audio[c] = s /\ AudioOwed(c) => AudioOwed(c)'
          /\ \A c \in Calls : video'[c] = s /\ video[c] = s /\ VideoOwed(c) => VideoOwed(c)'
          /\ \A b \in Owners :
                /\ Has(returned', queue, b, s) /\ DueOf(b, leg[s])
                /\ l[s].offer = leg[s].offer \/ ~Has(returned', queue, "offer", s)
                => Bears(b, leg[s], leg'[s])
      BY <1>1, <2>2, <2>3, <2>4, <2>5, ClosedLeg, ZenonT(60)
    <2>7. TypeOK'
      BY <1>1, <2>6 DEF TypeOK
    <2>8. LineOf'
      <3>1. \A t \in Legs : \A b \in Owners :
               Has(returned', queue, b, t) /\ DueOf(b, leg[t]) => Bears(b, leg[t], leg'[t])
        BY <2>2, <2>6 DEF Bears, DueOf
      <3>2. OnceIn(returned', queue')
        BY <2>6 DEF Moves
      <3>3. PICK j \in Job : /\ Placed(j)'
                             /\ \A k \in 1..Len(queue') :
                                   queue'[k] = j \/ \E i \in 1..Len(queue) : queue'[k] = queue[i]
        BY <2>6
      <3> QED BY <1>1, <2>6, <3>1, <3>2, <3>3, LineKept
    <2>9. \A c \in Calls : audio[c] = s => AudioOwed(c)'
      BY <1>1, <2>6
    <2>10. \A c \in Calls : video[c] = s => VideoOwed(c)'
      BY <1>1, <2>6
    <2>11. /\ leg[s].offer \notin {"replacing", "failing"} /\ leg[s].offer \notin Unmade
           /\ leg'[s].offer = "failing" /\ leg'[s].offer \notin Unmade
           /\ \A t \in Legs : t # s => leg'[t] = leg[t]
      BY <2>2, <2>3, <2>6 DEF Unmade
    <2> QED BY <1>1, <2>4, <2>6, <2>7, <2>8, <2>9, <2>10, <2>11, OneLeg
  <1>3. CASE leg[s].close # "no" /\ leg' = [leg EXCEPT ![s].offer = "ended"] /\ UNCHANGED queue
    <2>1. /\ leg' \in [Legs -> Leg] /\ \A t \in Legs : t # s => leg'[t] = leg[t]
          /\ leg'[s] = [call |-> leg[s].call, offer |-> "ended", close |-> leg[s].close,
                        awaited |-> leg[s].awaited, wait |-> leg[s].wait, pipe |-> leg[s].pipe]
      BY <1>1, <1>3 DEF Leg
    <2>2. /\ leg'[s].call = leg[s].call /\ leg'[s].offer = "ended"
          /\ leg'[s].close = leg[s].close /\ leg'[s].awaited = leg[s].awaited
          /\ leg'[s].wait = leg[s].wait /\ leg'[s].pipe = leg[s].pipe
      BY <2>1
    <2>3. TypeOK'
      BY <1>1, <1>3, <2>1 DEF TypeOK
    <2>4. Moves(returned, queue, returned', queue', s, {"offer"}, {})
      BY <1>3
    <2>5. LineOf'
      <3>1. \A t \in Legs : \A b \in Owners :
               Has(returned', queue, b, t) /\ DueOf(b, leg[t]) => Bears(b, leg[t], leg'[t])
        BY <2>1, <2>2 DEF Bears, DueOf, Unarmed, Unmade
      <3>2. OnceIn(returned', queue')
        BY <2>4 DEF Moves
      <3>3. \A k \in 1..Len(queue') : \E i \in 1..Len(queue) : queue'[k] = queue[i]
        BY <1>3
      <3> QED BY <1>1, <1>3, <3>1, <3>2, <3>3, LineKept
    <2>6. FreshOf(s)'
      BY <1>1, <2>2 DEF FreshOf, Unarmed, Unmade
    <2>7. ClosingOf(s)'
      BY <1>1, <2>2, <2>4 DEF ClosingOf, Moves
    <2>8. \A c \in Calls : audio[c] = s => AudioOwed(c)'
      BY <1>1, <1>3, <2>2 DEF AudioOwed, Unmade
    <2>9. \A c \in Calls : video[c] = s => VideoOwed(c)'
      BY <1>1, <1>3, <2>2, <2>4 DEF VideoOwed, Unmade, Moves
    <2>10. /\ leg[s].offer \notin {"replacing", "failing"} /\ leg[s].offer \notin Unmade
           /\ leg'[s].offer \notin Unmade
      BY <2>2 DEF Unmade
    <2> QED BY <1>1, <2>1, <2>2, <2>3, <2>4, <2>5, <2>6, <2>7, <2>8, <2>9, <2>10, OneLeg
  <1> QED BY <1>2, <1>3 DEF Fails

LEMMA UndoReturnedStep ==
    ASSUME IInv, NEW s \in Legs, UndoReturned(s)
    PROVE  IInv'
  <1>1. /\ TypeOK /\ LineOf /\ "offer" \in Owners /\ s \in Legs \cup {Nobody}
    BY Attending
  <1>2. /\ returned' \in Seq(Result) /\ Among(returned', returned)
        /\ Moves(returned, queue, returned', queue, s, {"offer"}, {})
        /\ ~Has(returned', queue, "offer", s)
    BY <1>1, Continued DEF UndoReturned
  <1> QED BY <1>2, FailsStep DEF UndoReturned

LEMMA NegotiatedStep ==
    ASSUME IInv, NEW s \in Legs, Negotiated(s)
    PROVE  IInv'
  <1>1. /\ TypeOK /\ LineOf /\ leg \in [Legs -> Leg] /\ leg[s] \in Leg
        /\ FreshOf(s) /\ ClosingOf(s) /\ queue \in Seq(Job) /\ returned \in Seq(Result)
        /\ OnceIn(returned, queue) /\ s \in Legs \cup {Nobody} /\ "offer" \in Owners
        /\ \A c \in Calls : AudioOwed(c) /\ VideoOwed(c)
        /\ Has(returned, queue, "offer", s) => DueOf("offer", leg[s])
    BY Attending
  <1>2. /\ leg[s].offer = "negotiating" /\ returned' = returned /\ Among(returned', returned)
        /\ ~Has(returned, queue, "offer", s)
    BY <1>1, AmongSelf DEF Negotiated, DueOf
  <1>3. Moves(returned, queue, returned', queue, s, {"offer"}, {})
    BY <1>1, <1>2, Stays
  <1>4. CASE Fails(leg, s)
    <2>1. returned' \in Seq(Result) /\ ~Has(returned', queue, "offer", s)
      BY <1>1, <1>2
    <2> QED BY <1>2, <1>3, <1>4, <2>1, FailsStep DEF Negotiated
  <1>5. CASE leg' = [leg EXCEPT ![s].offer = "ended"] /\ UNCHANGED queue
    <2>1. /\ leg' \in [Legs -> Leg] /\ \A t \in Legs : t # s => leg'[t] = leg[t]
          /\ leg'[s] = [call |-> leg[s].call, offer |-> "ended", close |-> leg[s].close,
                        awaited |-> leg[s].awaited, wait |-> leg[s].wait, pipe |-> leg[s].pipe]
      BY <1>1, <1>5 DEF Leg
    <2>2. /\ leg'[s].call = leg[s].call /\ leg'[s].offer = "ended"
          /\ leg'[s].close = leg[s].close /\ leg'[s].awaited = leg[s].awaited
          /\ leg'[s].wait = leg[s].wait /\ leg'[s].pipe = leg[s].pipe
      BY <2>1
    <2>3. TypeOK' /\ UNCHANGED <<audio, video, sessions, queue>>
      BY <1>1, <1>2, <1>5, <2>1 DEF TypeOK, Negotiated
    <2>4. Moves(returned, queue, returned', queue', s, {"offer"}, {})
      BY <1>3, <2>3
    <2>5. LineOf'
      <3>1. \A t \in Legs : \A b \in Owners :
               Has(returned', queue, b, t) /\ DueOf(b, leg[t]) => Bears(b, leg[t], leg'[t])
        BY <1>2, <2>1, <2>2 DEF Bears, DueOf, Unarmed, Unmade
      <3>2. OnceIn(returned', queue')
        BY <2>4 DEF Moves
      <3>3. \A k \in 1..Len(queue') : \E i \in 1..Len(queue) : queue'[k] = queue[i]
        BY <2>3
      <3> QED BY <1>1, <1>2, <2>3, <3>1, <3>2, <3>3, LineKept
    <2>6. FreshOf(s)'
      BY <1>1, <2>2 DEF FreshOf, Unarmed, Unmade
    <2>7. ClosingOf(s)'
      BY <1>1, <1>2, <2>2, <2>3 DEF ClosingOf
    <2>8. \A c \in Calls : audio[c] = s => AudioOwed(c)'
      BY <1>1, <2>2, <2>3 DEF AudioOwed, Unmade
    <2>9. \A c \in Calls : video[c] = s => VideoOwed(c)'
      BY <1>1, <1>2, <2>2, <2>3 DEF VideoOwed, Unmade
    <2>10. /\ leg[s].offer \notin {"replacing", "failing"} /\ leg[s].offer \notin Unmade
           /\ leg'[s].offer \notin Unmade
      BY <1>2, <2>2 DEF Unmade
    <2> QED BY <1>1, <2>1, <2>2, <2>3, <2>4, <2>5, <2>6, <2>7, <2>8, <2>9, <2>10, OneLeg
  <1> QED BY <1>4, <1>5 DEF Negotiated

\* A task goes on with another job of its own, or with the first one of its teardown.
LEMMA ContinuedAdds ==
    ASSUME TypeOK, returned' \in Seq(Result), OnceIn(returned', queue), NEW s \in Legs,
           NEW gone, Moves(returned, queue, returned', queue, s, gone, {}),
           NEW j \in Job, j.leg = s, ~Has(returned', queue, j.by, s), queue' = Append(queue, j)
    PROVE  /\ queue' \in Seq(Job) /\ OnceIn(returned', queue')
           /\ \A k \in 1..Len(queue') :
                 queue'[k] = j \/ \E i \in 1..Len(queue) : queue'[k] = queue[i]
           /\ Moves(returned, queue, returned', queue', s, gone, {j.by})
  <1>1. queue \in Seq(Job)
    BY DEF TypeOK
  <1>2. /\ Append(queue, j) \in Seq(Job)
        /\ \A k \in 1..Len(Append(queue, j)) :
              Append(queue, j)[k] = j \/ \E i \in 1..Len(queue) : Append(queue, j)[k] = queue[i]
        /\ Moves(returned', queue, returned', Append(queue, j), s, {}, {j.by})
    BY <1>1, Adds
  <1>3. Moves(returned, queue, returned', queue', s, gone \cup {}, {j.by})
    BY <1>2, Follows
  <1>4. gone \cup {} = gone
    OBVIOUS
  <1> QED BY <1>2, <1>3, <1>4 DEF Moves

LEMMA AttachReturnedStep ==
    ASSUME IInv, NEW s \in Legs, NEW out \in Outcomes, AttachReturned(s, out)
    PROVE  IInv'
  <1>1. /\ TypeOK /\ LineOf /\ leg \in [Legs -> Leg] /\ leg[s] \in Leg /\ leg[s].call \in Calls
        /\ FreshOf(s) /\ ClosingOf(s) /\ queue \in Seq(Job)
        /\ s \in Legs \cup {Nobody} /\ {"offer", "close", "wait", "watchdog"} \subseteq Owners
        /\ \A c \in Calls : AudioOwed(c) /\ VideoOwed(c)
        /\ \A b \in Owners : Has(returned, queue, b, s) => DueOf(b, leg[s])
    BY Attending
  <1>2. Continues("offer", s, out) /\ leg[s].offer = "attaching"
    BY DEF AttachReturned
  <1>3. /\ returned' \in Seq(Result) /\ Among(returned', returned) /\ OnceIn(returned', queue)
        /\ Moves(returned, queue, returned', queue, s, {"offer"}, {})
        /\ Has(returned, queue, "offer", s) /\ ~Has(returned', queue, "offer", s)
    BY <1>1, <1>2, Continued
  <1>4. /\ leg[s].wait = "none" /\ leg[s].pipe = "none"
        /\ leg[s].close # "no" => leg[s].close = "video"
        /\ leg[s].close = "video" => Has(returned, queue, "close", s)
    BY <1>1, <1>2, <1>3 DEF FreshOf, ClosingOf, Unarmed
  <1>5. /\ \A b \in Owners : Has(returned', queue, b, s) => Has(returned, queue, b, s)
        /\ Has(returned, queue, "close", s) => Has(returned', queue, "close", s)
        /\ Queued(queue, "close", s) => Queued(queue, "close", s)
    BY <1>1, <1>3 DEF Moves
  <1>6. CASE /\ out = "ok" /\ UNCHANGED queue
             /\ leg' = [leg EXCEPT ![s].offer = "negotiating", ![s].pipe = "up", ![s].wait = "asleep"]
    <2>1. /\ leg' \in [Legs -> Leg] /\ \A t \in Legs : t # s => leg'[t] = leg[t]
          /\ leg'[s] = [call |-> leg[s].call, offer |-> "negotiating", close |-> leg[s].close,
                        awaited |-> leg[s].awaited, wait |-> "asleep", pipe |-> "up"]
      BY <1>1, <1>6 DEF Leg
    <2>2. /\ leg'[s].call = leg[s].call /\ leg'[s].offer = "negotiating"
          /\ leg'[s].close = leg[s].close /\ leg'[s].awaited = leg[s].awaited
          /\ leg'[s].wait = "asleep" /\ leg'[s].pipe = "up"
      BY <2>1
    <2>3. TypeOK' /\ UNCHANGED <<audio, video, sessions, queue>>
      BY <1>1, <1>3, <1>6, <2>1 DEF TypeOK, AttachReturned
    <2>4. Moves(returned, queue, returned', queue', s, {"offer"}, {})
      BY <1>3, <2>3
    <2>5. LineOf'
      <3>1. \A t \in Legs : \A b \in Owners :
               Has(returned', queue, b, t) /\ DueOf(b, leg[t]) => Bears(b, leg[t], leg'[t])
        BY <1>2, <1>3, <1>4, <2>1, <2>2 DEF Bears, DueOf, Unarmed, Unmade
      <3>2. \A k \in 1..Len(queue') : \E i \in 1..Len(queue) : queue'[k] = queue[i]
        BY <2>3
      <3> QED BY <1>1, <1>3, <2>3, <3>1, <3>2, LineKept
    <2>6. FreshOf(s)'
      BY <2>2 DEF FreshOf, Unarmed, Unmade
    <2>7. ClosingOf(s)'
      BY <1>4, <1>5, <2>2, <2>3 DEF ClosingOf
    <2>8. \A c \in Calls : audio[c] = s => AudioOwed(c)'
      BY <1>1, <2>2, <2>3 DEF AudioOwed, Unmade
    <2>9. \A c \in Calls : video[c] = s => VideoOwed(c)'
      BY <1>1, <1>4, <2>2, <2>3 DEF VideoOwed, Unmade
    <2>10. /\ leg[s].offer \notin {"replacing", "failing"} /\ leg[s].offer \notin Unmade
           /\ leg'[s].offer \notin Unmade
      BY <1>2, <2>2 DEF Unmade
    <2> QED BY <1>1, <2>1, <2>2, <2>3, <2>4, <2>5, <2>6, <2>7, <2>8, <2>9, <2>10, OneLeg
  <1>7. CASE /\ leg' = [leg EXCEPT ![s].offer = "undoing"]
             /\ Submits(Task("offer", s, leg[s].call, "detach"))
    <2>1. /\ leg' \in [Legs -> Leg] /\ \A t \in Legs : t # s => leg'[t] = leg[t]
          /\ leg'[s] = [call |-> leg[s].call, offer |-> "undoing", close |-> leg[s].close,
                        awaited |-> leg[s].awaited, wait |-> leg[s].wait, pipe |-> leg[s].pipe]
      BY <1>1, <1>7 DEF Leg
    <2>2. /\ leg'[s].call = leg[s].call /\ leg'[s].offer = "undoing"
          /\ leg'[s].close = leg[s].close /\ leg'[s].awaited = leg[s].awaited
          /\ leg'[s].wait = "none" /\ leg'[s].pipe = "none"
      BY <1>4, <2>1
    <2>3. PICK j : j = Task("offer", s, leg[s].call, "detach")
      OBVIOUS
    <2>4. j \in Job /\ j.by = "offer" /\ j.leg = s /\ j.call = leg[s].call /\ j.cmd = "detach"
      BY <1>1, <2>3, TaskType
    <2>5. queue' = Append(queue, j) /\ ~Has(returned', queue, j.by, s)
      BY <1>3, <1>7, <2>3, <2>4 DEF Submits
    <2>6. /\ queue' \in Seq(Job) /\ OnceIn(returned', queue')
          /\ \A k \in 1..Len(queue') :
                queue'[k] = j \/ \E i \in 1..Len(queue) : queue'[k] = queue[i]
          /\ Moves(returned, queue, returned', queue', s, {"offer"}, {j.by})
      BY <1>1, <1>3, <2>4, <2>5, ContinuedAdds, ZenonT(60)
    <2>7. TypeOK' /\ UNCHANGED <<audio, video, sessions>>
      BY <1>1, <1>3, <2>1, <2>6 DEF TypeOK, AttachReturned
    <2>8. LineOf'
      <3>1. \A t \in Legs : \A b \in Owners :
               Has(returned', queue, b, t) /\ DueOf(b, leg[t]) => Bears(b, leg[t], leg'[t])
        BY <1>2, <1>3, <1>4, <2>1, <2>2 DEF Bears, DueOf, Unarmed, Unmade
      <3>2. Placed(j)'
        BY <2>2, <2>4 DEF Placed, Due, DueOf
      <3> QED BY <1>1, <1>3, <2>6, <3>1, <3>2, LineKept
    <2>9. FreshOf(s)'
      BY <2>2 DEF FreshOf, Unarmed, Unmade
    <2>10. /\ Has(returned, queue, "close", s) => Has(returned', queue', "close", s)
           /\ Queued(queue, "close", s) => Queued(queue', "close", s)
      BY <1>1, <2>6 DEF Moves
    <2>11. ClosingOf(s)'
      BY <1>4, <2>2, <2>10 DEF ClosingOf
    <2>12. \A c \in Calls : audio[c] = s => AudioOwed(c)'
      BY <1>1, <2>2, <2>7, <2>10 DEF AudioOwed, Unmade
    <2>13. \A c \in Calls : video[c] = s => VideoOwed(c)'
      BY <1>1, <1>4, <2>2, <2>7, <2>10 DEF VideoOwed, Unmade
    <2>14. /\ leg[s].offer \notin {"replacing", "failing"} /\ leg[s].offer \notin Unmade
           /\ leg'[s].offer \notin Unmade
      BY <1>2, <2>2 DEF Unmade
    <2> QED BY <1>1, <2>1, <2>2, <2>6, <2>7, <2>8, <2>9, <2>11, <2>12, <2>13, <2>14, OneLeg
  <1>8. CASE Fails(leg, s)
    BY <1>2, <1>3, <1>8, FailsStep DEF AttachReturned
  <1> QED BY <1>6, <1>7, <1>8 DEF AttachReturned

-----------------------------------------------------------------------------
(* The teardown goes on.                                                   *)

LEMMA VideoReturnedStep ==
    ASSUME IInv, NEW s \in Legs, VideoReturned(s)
    PROVE  IInv'
  <1>1. /\ TypeOK /\ LineOf /\ leg \in [Legs -> Leg] /\ leg[s] \in Leg /\ leg[s].call \in Calls
        /\ FreshOf(s) /\ ClosingOf(s) /\ queue \in Seq(Job) /\ BookOf(s)
        /\ s \in Legs \cup {Nobody} /\ {"offer", "close", "wait", "watchdog"} \subseteq Owners
        /\ \A c \in Calls : AudioOwed(c) /\ VideoOwed(c)
    BY Attending
  <1>2. /\ Continues("close", s, "ok") /\ leg[s].close = "video"
        /\ UNCHANGED <<up, audio, video, reports, calls, sessions, graces, hanging>>
    BY DEF VideoReturned
  <1>3. /\ returned' \in Seq(Result) /\ Among(returned', returned) /\ OnceIn(returned', queue)
        /\ Moves(returned, queue, returned', queue, s, {"close"}, {})
        /\ ~Has(returned', queue, "close", s) /\ ~Queued(queue, "close", s)
        /\ \A a : ~Ahead(returned, queue, a, "close", s)
    BY <1>1, <1>2, Continued
  <1>4. ~(leg[s].offer = "attaching" /\ Has(returned, queue, "offer", s))
    BY <1>1, <1>2, <1>3 DEF ClosingOf
  <1>5. leg[s].offer \notin Unmade
    BY <1>1, <1>2 DEF FreshOf
  <1>6. CASE /\ leg[s].pipe \in {"up", "killed"}
             /\ leg' = [leg EXCEPT ![s].close = "unwatching"]
             /\ queue' = Kept("watchdog", s)
    <2>1. /\ leg' \in [Legs -> Leg] /\ \A t \in Legs : t # s => leg'[t] = leg[t]
          /\ leg'[s] = [call |-> leg[s].call, offer |-> leg[s].offer, close |-> "unwatching",
                        awaited |-> leg[s].awaited, wait |-> leg[s].wait, pipe |-> leg[s].pipe]
      BY <1>1, <1>6 DEF Leg
    <2>2. /\ leg'[s].call = leg[s].call /\ leg'[s].offer = leg[s].offer
          /\ leg'[s].close = "unwatching" /\ leg'[s].awaited = leg[s].awaited
          /\ leg'[s].wait = leg[s].wait /\ leg'[s].pipe = leg[s].pipe
      BY <2>1
    <2>3. PICK at : at = {i \in 2..Len(queue) : queue[i].by = "watchdog" /\ queue[i].leg = s}
      OBVIOUS
    <2>4. queue' = Without(queue, at)
      BY <1>6, <2>3 DEF Kept
    <2>5. /\ queue' \in Seq(Job) /\ Among(queue', queue)
          /\ Moves(returned', queue, returned', queue', s, {"watchdog"}, {})
      BY <1>1, <1>3, <2>3, <2>4, Drops_
    <2>6. Moves(returned, queue, returned', queue', s, {"close"} \cup {"watchdog"}, {})
      BY <1>3, <2>5, Follows
    <2>7. TypeOK' /\ UNCHANGED <<audio, video, sessions>>
      BY <1>1, <1>2, <1>3, <2>1, <2>5 DEF TypeOK
    <2>8. LineOf'
      <3>1. \A t \in Legs : \A b \in Owners :
               Has(returned', queue, b, t) /\ DueOf(b, leg[t]) => Bears(b, leg[t], leg'[t])
        BY <1>1, <1>3, <1>6, <2>1, <2>2 DEF Bears, DueOf
      <3>2. OnceIn(returned', queue')
        BY <2>6 DEF Moves
      <3>3. \A k \in 1..Len(queue') : \E i \in 1..Len(queue) : queue'[k] = queue[i]
        BY <2>5 DEF Among
      <3> QED BY <1>1, <1>3, <2>5, <3>1, <3>2, <3>3, LineKept
    <2>9. FreshOf(s)'
      BY <1>1, <1>5, <1>6, <2>2 DEF FreshOf
    <2>10. /\ Has(returned', queue', "offer", s) => Has(returned, queue, "offer", s)
           /\ Has(returned', queue', "wait", s) => Has(returned, queue, "wait", s)
           /\ Queued(queue, "wait", s) => Queued(queue', "wait", s)
           /\ Armed(returned, s) => Armed(returned', s)
      BY <1>1, <2>6 DEF Moves
    <2>11. ClosingOf(s)'
      <3>1. leg[s].wait = "none" /\ leg[s].pipe = "up" => ~Has(returned', queue', "wait", s)
        BY <1>1, <1>3, <2>10 DEF ClosingOf
      <3> QED BY <1>4, <2>2, <2>10, <3>1 DEF ClosingOf
    <2>12. \A c \in Calls : audio[c] = s => AudioOwed(c)'
      BY <1>1, <2>2, <2>7 DEF AudioOwed
    <2>13. \A c \in Calls : video[c] = s => VideoOwed(c)'
      BY <1>1, <1>2, <1>3, <2>2, <2>7, <2>10 DEF VideoOwed
    <2> QED BY <1>1, <1>2, <1>5, <2>1, <2>2, <2>6, <2>7, <2>8, <2>9, <2>11, <2>12, <2>13, OneLeg
  <1>7. CASE /\ leg[s].pipe \notin {"up", "killed"}
             /\ leg' = [leg EXCEPT ![s].close = "audio"]
             /\ Submits(Task("close", s, leg[s].call, "detach"))
    <2>1. /\ leg' \in [Legs -> Leg] /\ \A t \in Legs : t # s => leg'[t] = leg[t]
          /\ leg'[s] = [call |-> leg[s].call, offer |-> leg[s].offer, close |-> "audio",
                        awaited |-> leg[s].awaited, wait |-> leg[s].wait, pipe |-> leg[s].pipe]
      BY <1>1, <1>7 DEF Leg
    <2>2. /\ leg'[s].call = leg[s].call /\ leg'[s].offer = leg[s].offer
          /\ leg'[s].close = "audio" /\ leg'[s].awaited = leg[s].awaited
          /\ leg'[s].wait = leg[s].wait /\ leg'[s].pipe = leg[s].pipe
      BY <2>1
    <2>3. PICK j : j = Task("close", s, leg[s].call, "detach")
      OBVIOUS
    <2>4. j \in Job /\ j.by = "close" /\ j.leg = s /\ j.call = leg[s].call /\ j.cmd = "detach"
      BY <1>1, <2>3, TaskType
    <2>5. queue' = Append(queue, j) /\ ~Has(returned', queue, j.by, s)
      BY <1>3, <1>7, <2>3, <2>4 DEF Submits
    <2>6. /\ queue' \in Seq(Job) /\ OnceIn(returned', queue')
          /\ \A k \in 1..Len(queue') :
                queue'[k] = j \/ \E i \in 1..Len(queue) : queue'[k] = queue[i]
          /\ Moves(returned, queue, returned', queue', s, {"close"}, {j.by})
      BY <1>1, <1>3, <2>4, <2>5, ContinuedAdds, ZenonT(60)
    <2>7. TypeOK' /\ UNCHANGED <<audio, video, sessions>>
      BY <1>1, <1>2, <1>3, <2>1, <2>6 DEF TypeOK
    <2>8. LineOf'
      <3>1. \A t \in Legs : \A b \in Owners :
               Has(returned', queue, b, t) /\ DueOf(b, leg[t]) => Bears(b, leg[t], leg'[t])
        BY <1>3, <2>1, <2>2 DEF Bears, DueOf
      <3>2. Placed(j)'
        BY <2>2, <2>4 DEF Placed, Due, DueOf
      <3> QED BY <1>1, <1>3, <2>6, <3>1, <3>2, LineKept
    <2>9. FreshOf(s)'
      BY <1>1, <1>5, <2>2 DEF FreshOf
    <2>10. /\ Has(returned', queue', "offer", s) => Has(returned, queue, "offer", s)
           /\ Queued(queue, "wait", s) => Queued(queue', "wait", s)
           /\ Armed(returned, s) => Armed(returned', s)
           /\ Queued(queue', "close", s)
      BY <1>1, <2>4, <2>6 DEF Moves
    <2>11. ClosingOf(s)'
      BY <1>4, <1>7, <2>2, <2>10 DEF ClosingOf
    <2>12. \A c \in Calls : audio[c] = s => AudioOwed(c)'
      BY <1>1, <2>2, <2>7, <2>10 DEF AudioOwed
    <2>13. \A c \in Calls : video[c] = s => VideoOwed(c)'
      BY <1>1, <1>2, <1>3, <2>2, <2>7, <2>10 DEF VideoOwed
    <2> QED BY <1>1, <1>2, <1>5, <2>1, <2>2, <2>6, <2>7, <2>8, <2>9, <2>11, <2>12, <2>13, OneLeg
  <1> QED BY <1>6, <1>7 DEF VideoReturned

\* The voice is next, once the pipeline is gone or was never there.
LEMMA DetachesStep ==
    ASSUME IInv, NEW s \in Legs, leg[s].close \in {"unwatching", "pipeline"}, leg[s].pipe # "up",
           leg' = [leg EXCEPT ![s].close = "audio"],
           Submits(Task("close", s, leg[s].call, "detach")),
           UNCHANGED <<up, audio, video, reports, calls, sessions, graces, hanging, returned>>
    PROVE  IInv'
  <1>1. /\ TypeOK /\ LineOf /\ leg \in [Legs -> Leg] /\ leg[s] \in Leg /\ leg[s].call \in Calls
        /\ FreshOf(s) /\ ClosingOf(s) /\ queue \in Seq(Job) /\ returned \in Seq(Result)
        /\ OnceIn(returned, queue)
        /\ s \in Legs \cup {Nobody} /\ {"offer", "close", "wait", "watchdog"} \subseteq Owners
        /\ \A c \in Calls : AudioOwed(c) /\ VideoOwed(c)
        /\ \A b \in Owners : Has(returned, queue, b, s) => DueOf(b, leg[s])
    BY Attending
  <1>2. /\ leg[s].close \in {"unwatching", "pipeline"} /\ leg' = [leg EXCEPT ![s].close = "audio"]
        /\ Submits(Task("close", s, leg[s].call, "detach"))
        /\ UNCHANGED <<up, audio, video, reports, calls, sessions, graces, hanging, returned>>
    OBVIOUS
  <1>3. /\ returned' = returned /\ Among(returned', returned) /\ OnceIn(returned', queue)
        /\ Moves(returned, queue, returned', queue, s, {}, {}) /\ returned' \in Seq(Result)
    BY <1>1, <1>2, AmongSelf, Stays
  <1>4. leg[s].pipe # "up" /\ ~(leg[s].offer = "attaching" /\ Has(returned, queue, "offer", s))
    BY <1>1, <1>2 DEF ClosingOf
  <1>5. ~Has(returned', queue, "close", s)
    BY <1>1, <1>2, <1>3 DEF DueOf
  <1>6. leg[s].offer \notin Unmade
    BY <1>1, <1>2 DEF FreshOf
  <1>7. /\ leg' \in [Legs -> Leg] /\ \A t \in Legs : t # s => leg'[t] = leg[t]
        /\ leg'[s] = [call |-> leg[s].call, offer |-> leg[s].offer, close |-> "audio",
                      awaited |-> leg[s].awaited, wait |-> leg[s].wait, pipe |-> leg[s].pipe]
    BY <1>1, <1>2 DEF Leg
  <1>8. /\ leg'[s].call = leg[s].call /\ leg'[s].offer = leg[s].offer
        /\ leg'[s].close = "audio" /\ leg'[s].awaited = leg[s].awaited
        /\ leg'[s].wait = leg[s].wait /\ leg'[s].pipe = leg[s].pipe
    BY <1>7
  <1>9. PICK j : j = Task("close", s, leg[s].call, "detach")
    OBVIOUS
  <1>10. j \in Job /\ j.by = "close" /\ j.leg = s /\ j.call = leg[s].call /\ j.cmd = "detach"
    BY <1>1, <1>9, TaskType
  <1>11. queue' = Append(queue, j) /\ ~Has(returned', queue, j.by, s)
    BY <1>2, <1>5, <1>9, <1>10 DEF Submits
  <1>12. /\ queue' \in Seq(Job) /\ OnceIn(returned', queue')
         /\ \A k \in 1..Len(queue') :
               queue'[k] = j \/ \E i \in 1..Len(queue) : queue'[k] = queue[i]
         /\ Moves(returned, queue, returned', queue', s, {}, {j.by})
    BY <1>1, <1>3, <1>10, <1>11, ContinuedAdds, ZenonT(60)
  <1>13. TypeOK' /\ UNCHANGED <<audio, video, sessions>>
    BY <1>1, <1>2, <1>3, <1>7, <1>12 DEF TypeOK
  <1>14. LineOf'
    <2>1. \A t \in Legs : \A b \in Owners :
             Has(returned', queue, b, t) /\ DueOf(b, leg[t]) => Bears(b, leg[t], leg'[t])
      BY <1>5, <1>7, <1>8 DEF Bears, DueOf
    <2>2. Placed(j)'
      BY <1>8, <1>10 DEF Placed, Due, DueOf
    <2> QED BY <1>1, <1>3, <1>12, <2>1, <2>2, LineKept
  <1>15. FreshOf(s)'
    BY <1>1, <1>6, <1>8 DEF FreshOf
  <1>16. /\ Has(returned', queue', "offer", s) => Has(returned, queue, "offer", s)
         /\ Queued(queue, "wait", s) => Queued(queue', "wait", s)
         /\ Queued(queue', "close", s)
    BY <1>1, <1>10, <1>12 DEF Moves
  <1>17. ClosingOf(s)'
    BY <1>4, <1>8, <1>16 DEF ClosingOf
  <1>18. \A c \in Calls : audio[c] = s => AudioOwed(c)'
    BY <1>1, <1>8, <1>13, <1>16 DEF AudioOwed
  <1>19. \A c \in Calls : video[c] = s => VideoOwed(c)'
    BY <1>1, <1>2, <1>8, <1>13, <1>16 DEF VideoOwed
  <1> QED BY <1>1, <1>2, <1>6, <1>7, <1>8, <1>12, <1>13, <1>14, <1>15, <1>17, <1>18, <1>19, OneLeg

LEMMA PipelineStoppedStep ==
    ASSUME IInv, NEW s \in Legs, PipelineStopped(s)
    PROVE  IInv'
  <1>1. leg[s].close = "pipeline" /\ leg[s].pipe # "up"
    BY Attending DEF PipelineStopped, ClosingOf
  <1> QED BY <1>1, DetachesStep DEF PipelineStopped

\* The watchdog has ended, and the run is taken.
LEMMA UnwatchedStep ==
    ASSUME IInv, NEW s \in Legs, Unwatched(s)
    PROVE  IInv'
  <1>1. /\ TypeOK /\ LineOf /\ leg \in [Legs -> Leg] /\ leg[s] \in Leg
        /\ FreshOf(s) /\ ClosingOf(s) /\ queue \in Seq(Job) /\ returned \in Seq(Result)
        /\ OnceIn(returned, queue)
        /\ s \in Legs \cup {Nobody} /\ {"offer", "close", "wait", "watchdog"} \subseteq Owners
        /\ \A c \in Calls : AudioOwed(c) /\ VideoOwed(c)
    BY Attending
  <1>2. /\ leg[s].close = "unwatching"
        /\ UNCHANGED <<up, audio, video, reports, calls, sessions, graces, hanging, returned>>
    BY DEF Unwatched
  <1>3. CASE /\ leg[s].pipe \notin {"up", "killed"}
             /\ leg' = [leg EXCEPT ![s].close = "audio"]
             /\ Submits(Task("close", s, leg[s].call, "detach"))
    <2>1. leg[s].close \in {"unwatching", "pipeline"} /\ leg[s].pipe # "up"
      BY <1>2, <1>3
    <2> QED BY <1>2, <1>3, <2>1, DetachesStep
  <1>4. CASE /\ leg[s].pipe \in {"up", "killed"} /\ UNCHANGED queue
             /\ leg' = [leg EXCEPT ![s].close = "pipeline", ![s].pipe = "gone"]
    <2>1. /\ leg' \in [Legs -> Leg] /\ \A t \in Legs : t # s => leg'[t] = leg[t]
          /\ leg'[s] = [call |-> leg[s].call, offer |-> leg[s].offer, close |-> "pipeline",
                        awaited |-> leg[s].awaited, wait |-> leg[s].wait, pipe |-> "gone"]
      BY <1>1, <1>4 DEF Leg
    <2>2. /\ leg'[s].call = leg[s].call /\ leg'[s].offer = leg[s].offer
          /\ leg'[s].close = "pipeline" /\ leg'[s].awaited = leg[s].awaited
          /\ leg'[s].wait = leg[s].wait /\ leg'[s].pipe = "gone"
      BY <2>1
    <2>3. TypeOK' /\ UNCHANGED <<audio, video, sessions, queue, returned>>
      BY <1>1, <1>2, <1>4, <2>1 DEF TypeOK
    <2>4. Moves(returned, queue, returned', queue', s, {}, {})
      BY <1>1, <2>3, Stays
    <2>5. LineOf'
      <3>1. \A t \in Legs : \A b \in Owners :
               Has(returned', queue, b, t) /\ DueOf(b, leg[t]) => Bears(b, leg[t], leg'[t])
        BY <1>2, <2>1, <2>2 DEF Bears, DueOf
      <3>2. \A k \in 1..Len(queue') : \E i \in 1..Len(queue) : queue'[k] = queue[i]
        BY <2>3
      <3>3. OnceIn(returned', queue') /\ returned' \in Seq(Result) /\ Among(returned', returned)
        BY <1>1, <2>3, AmongSelf
      <3> QED BY <1>1, <2>3, <3>1, <3>2, <3>3, LineKept
    <2>6. leg[s].offer \notin Unmade /\ leg[s].offer \notin Unarmed
      BY <1>1, <1>2, <1>4 DEF FreshOf
    <2>7. FreshOf(s)'
      BY <1>1, <1>2, <2>2, <2>6 DEF FreshOf
    <2>8. ClosingOf(s)'
      BY <1>1, <1>2, <2>2, <2>3, <2>6 DEF ClosingOf, Unarmed
    <2>9. \A c \in Calls : audio[c] = s => AudioOwed(c)'
      BY <1>1, <2>2, <2>3 DEF AudioOwed
    <2>10. \A c \in Calls : video[c] = s => VideoOwed(c)'
      BY <1>1, <1>2, <2>2, <2>3 DEF VideoOwed
    <2> QED BY <1>1, <1>2, <2>1, <2>2, <2>3, <2>4, <2>5, <2>6, <2>7, <2>8, <2>9, <2>10, OneLeg
  <1> QED BY <1>3, <1>4 DEF Unwatched

LEMMA AudioReturnedStep ==
    ASSUME IInv, NEW s \in Legs, AudioReturned(s)
    PROVE  IInv'
  <1>1. /\ TypeOK /\ LineOf /\ leg \in [Legs -> Leg] /\ leg[s] \in Leg /\ leg[s].call \in Calls
        /\ FreshOf(s) /\ ClosingOf(s) /\ queue \in Seq(Job) /\ returned \in Seq(Result)
        /\ OnceIn(returned, queue)
        /\ s \in Legs \cup {Nobody} /\ {"offer", "close", "wait", "watchdog"} \subseteq Owners
        /\ \A c \in Calls : AudioOwed(c) /\ VideoOwed(c)
        /\ \A b \in Owners : Has(returned, queue, b, s) => DueOf(b, leg[s])
    BY Attending
  <1>2. /\ Continues("close", s, "ok") /\ leg[s].close = "audio"
        /\ leg' = [leg EXCEPT ![s].close = "peer"]
        /\ UNCHANGED <<up, audio, video, reports, calls, sessions, graces, hanging, queue>>
    BY DEF AudioReturned
  <1>3. /\ returned' \in Seq(Result) /\ Among(returned', returned) /\ OnceIn(returned', queue)
        /\ Moves(returned, queue, returned', queue, s, {"close"}, {})
        /\ Has(returned, queue, "close", s) /\ ~Has(returned', queue, "close", s)
        /\ ~Queued(queue, "close", s)
        /\ \A a : ~Ahead(returned, queue, a, "close", s)
    BY <1>1, <1>2, Continued
  <1>4. leg[s].offer \notin Unmade
    BY <1>1, <1>2 DEF FreshOf
  <1>5. /\ leg' \in [Legs -> Leg] /\ \A t \in Legs : t # s => leg'[t] = leg[t]
        /\ leg'[s] = [call |-> leg[s].call, offer |-> leg[s].offer, close |-> "peer",
                      awaited |-> leg[s].awaited, wait |-> leg[s].wait, pipe |-> leg[s].pipe]
    BY <1>1, <1>2 DEF Leg
  <1>6. /\ leg'[s].call = leg[s].call /\ leg'[s].offer = leg[s].offer
        /\ leg'[s].close = "peer" /\ leg'[s].awaited = leg[s].awaited
        /\ leg'[s].wait = leg[s].wait /\ leg'[s].pipe = leg[s].pipe
    BY <1>5
  <1>7. TypeOK' /\ UNCHANGED <<audio, video, sessions, queue>>
    BY <1>1, <1>2, <1>3, <1>2, <1>5 DEF TypeOK
  <1>8. Moves(returned, queue, returned', queue', s, {"close"}, {})
    BY <1>3, <1>7
  <1>9. LineOf'
    <2>1. \A t \in Legs : \A b \in Owners :
             Has(returned', queue, b, t) /\ DueOf(b, leg[t]) => Bears(b, leg[t], leg'[t])
      BY <1>3, <1>2, <1>5, <1>6 DEF Bears, DueOf
    <2>2. \A k \in 1..Len(queue') : \E i \in 1..Len(queue) : queue'[k] = queue[i]
      BY <1>7
    <2> QED BY <1>1, <1>3, <1>7, <2>1, <2>2, LineKept
  <1>10. FreshOf(s)'
    BY <1>1, <1>2, <1>6, <1>4 DEF FreshOf, Unarmed, Unmade
  <1>11. /\ Has(returned', queue', "offer", s) => Has(returned, queue, "offer", s)
         /\ Has(returned', queue', "wait", s) => Has(returned, queue, "wait", s)
         /\ Queued(queue, "wait", s) => Queued(queue', "wait", s)
         /\ Armed(returned, s) => Armed(returned', s)
    BY <1>1, <1>3, <1>8, <1>7 DEF Moves
  <1>12. ClosingOf(s)'
    BY <1>1, <1>3, <1>2, <1>6, <1>11 DEF ClosingOf
  <1>13. \A c \in Calls : audio[c] = s => AudioOwed(c)'
    <2>1. ASSUME NEW c \in Calls, audio[c] = s
          PROVE  FALSE
      <3>1. AudioOwed(c)
        BY <1>1
      <3> QED BY <1>2, <1>3, <2>1, <3>1, NobodyIsNoLeg DEF AudioOwed
    <2> QED BY <2>1
  <1>14. \A c \in Calls : video[c] = s => VideoOwed(c)'
    BY <1>1, <1>3, <1>2, <1>6, <1>7, <1>11 DEF VideoOwed
  <1> QED BY <1>1, <1>2, <1>5, <1>6, <1>8, <1>7, <1>9, <1>10, <1>12, <1>13, <1>14, OneLeg

-----------------------------------------------------------------------------
(* The picture.                                                            *)

LEMMA AsksStep ==
    ASSUME IInv, NEW s \in Legs, Asks(s)
    PROVE  IInv'
  <1>1. /\ TypeOK /\ LineOf /\ leg \in [Legs -> Leg] /\ leg[s] \in Leg /\ leg[s].call \in Calls
        /\ FreshOf(s) /\ ClosingOf(s) /\ queue \in Seq(Job) /\ returned \in Seq(Result)
        /\ OnceIn(returned, queue)
        /\ s \in Legs \cup {Nobody} /\ {"offer", "close", "wait", "watchdog"} \subseteq Owners
        /\ \A c \in Calls : AudioOwed(c) /\ VideoOwed(c)
        /\ \A b \in Owners : Has(returned, queue, b, s) => DueOf(b, leg[s])
    BY Attending
  <1>2. /\ leg[s].wait = "asleep" /\ leg[s].pipe = "up"
        /\ leg' = [leg EXCEPT ![s].wait = "arming"]
        /\ Submits(Task("wait", s, leg[s].call, "open_video"))
        /\ UNCHANGED <<up, audio, video, reports, calls, sessions, graces, hanging, returned>>
    BY DEF Asks
  <1>3. /\ returned' = returned /\ Among(returned', returned) /\ OnceIn(returned', queue)
        /\ Moves(returned, queue, returned', queue, s, {}, {}) /\ returned' \in Seq(Result)
    BY <1>1, <1>2, AmongSelf, Stays
  <1>4. ~Has(returned', queue, "wait", s) /\ leg[s].offer \notin Unarmed
    BY <1>1, <1>2, <1>3 DEF DueOf, FreshOf
  <1>5. /\ leg' \in [Legs -> Leg] /\ \A t \in Legs : t # s => leg'[t] = leg[t]
        /\ leg'[s] = [call |-> leg[s].call, offer |-> leg[s].offer, close |-> leg[s].close,
                      awaited |-> leg[s].awaited, wait |-> "arming", pipe |-> leg[s].pipe]
    BY <1>1, <1>2 DEF Leg
  <1>6. /\ leg'[s].call = leg[s].call /\ leg'[s].offer = leg[s].offer
        /\ leg'[s].close = leg[s].close /\ leg'[s].awaited = leg[s].awaited
        /\ leg'[s].wait = "arming" /\ leg'[s].pipe = leg[s].pipe
    BY <1>5
  <1>7. PICK j : j = Task("wait", s, leg[s].call, "open_video")
    OBVIOUS
  <1>8. j \in Job /\ j.by = "wait" /\ j.leg = s /\ j.call = leg[s].call /\ j.cmd = "open_video"
    BY <1>1, <1>7, TaskType
  <1>9. queue' = Append(queue, j) /\ ~Has(returned', queue, j.by, s)
    BY <1>3, <1>2, <1>7, <1>8, <1>4 DEF Submits
  <1>10. /\ queue' \in Seq(Job) /\ OnceIn(returned', queue')
         /\ \A k \in 1..Len(queue') :
               queue'[k] = j \/ \E i \in 1..Len(queue) : queue'[k] = queue[i]
         /\ Moves(returned, queue, returned', queue', s, {}, {j.by})
    BY <1>1, <1>3, <1>8, <1>9, ContinuedAdds, ZenonT(60)
  <1>11. TypeOK' /\ UNCHANGED <<audio, video, sessions>>
    BY <1>1, <1>2, <1>3, <1>5, <1>10 DEF TypeOK
  <1>12. LineOf'
    <2>1. \A t \in Legs : \A b \in Owners :
             Has(returned', queue, b, t) /\ DueOf(b, leg[t]) => Bears(b, leg[t], leg'[t])
      BY <1>3, <1>2, <1>5, <1>6, <1>4 DEF Bears, DueOf
    <2>2. Placed(j)'
      BY <1>1, <1>2, <1>6, <1>8, <1>4 DEF Placed, Due, DueOf, FreshOf
    <2> QED BY <1>1, <1>3, <1>10, <2>1, <2>2, LineKept
  <1>13. FreshOf(s)'
    BY <1>1, <1>2, <1>6, <1>4 DEF FreshOf, Unarmed, Unmade
  <1>14. /\ Has(returned, queue, "close", s) => Has(returned', queue', "close", s)
         /\ Has(returned', queue', "close", s) => Ahead(returned', queue', "close", "wait", s)
         /\ Has(returned', queue', "offer", s) => Has(returned, queue, "offer", s)
         /\ Ahead(returned, queue, "offer", "close", s) => Ahead(returned', queue', "offer", "close", s)
         /\ Queued(queue, "close", s) => Queued(queue', "close", s)
    BY <1>1, <1>3, <1>10, <1>11, <1>8 DEF Moves
  <1>15. ClosingOf(s)'
    BY <1>1, <1>3, <1>2, <1>6, <1>14 DEF ClosingOf
  <1>16. \A c \in Calls : audio[c] = s => AudioOwed(c)'
    BY <1>1, <1>3, <1>2, <1>6, <1>11, <1>14 DEF AudioOwed
  <1>17. \A c \in Calls : video[c] = s => VideoOwed(c)'
    BY <1>1, <1>3, <1>2, <1>6, <1>11, <1>14 DEF VideoOwed
  <1> QED BY <1>1, <1>2, <1>5, <1>6, <1>10, <1>11, <1>12, <1>13, <1>15, <1>16, <1>17, OneLeg

LEMMA StaleReturnedStep ==
    ASSUME IInv, NEW s \in Legs, StaleReturned(s)
    PROVE  IInv'
  <1>1. /\ TypeOK /\ LineOf /\ leg \in [Legs -> Leg] /\ leg[s] \in Leg /\ leg[s].call \in Calls
        /\ FreshOf(s) /\ ClosingOf(s) /\ queue \in Seq(Job) /\ returned \in Seq(Result)
        /\ OnceIn(returned, queue)
        /\ s \in Legs \cup {Nobody} /\ {"offer", "close", "wait", "watchdog"} \subseteq Owners
        /\ \A c \in Calls : AudioOwed(c) /\ VideoOwed(c)
        /\ \A b \in Owners : Has(returned, queue, b, s) => DueOf(b, leg[s])
    BY Attending
  <1>2. /\ Continues("wait", s, "ok") /\ leg[s].wait = "undoing"
        /\ leg' = [leg EXCEPT ![s].wait = "asleep"]
        /\ UNCHANGED <<up, audio, video, reports, calls, sessions, graces, hanging, queue>>
    BY DEF StaleReturned
  <1>3. /\ returned' \in Seq(Result) /\ Among(returned', returned) /\ OnceIn(returned', queue)
        /\ Moves(returned, queue, returned', queue, s, {"wait"}, {})
        /\ Has(returned, queue, "wait", s) /\ ~Has(returned', queue, "wait", s)
        /\ ~Queued(queue, "wait", s)
        /\ \A a : ~Ahead(returned, queue, a, "wait", s)
    BY <1>1, <1>2, Continued
  <1>4. leg[s].offer \notin Unarmed
    BY <1>1, <1>2 DEF FreshOf
  <1>5. /\ leg' \in [Legs -> Leg] /\ \A t \in Legs : t # s => leg'[t] = leg[t]
        /\ leg'[s] = [call |-> leg[s].call, offer |-> leg[s].offer, close |-> leg[s].close,
                      awaited |-> leg[s].awaited, wait |-> "asleep", pipe |-> leg[s].pipe]
    BY <1>1, <1>2 DEF Leg
  <1>6. /\ leg'[s].call = leg[s].call /\ leg'[s].offer = leg[s].offer
        /\ leg'[s].close = leg[s].close /\ leg'[s].awaited = leg[s].awaited
        /\ leg'[s].wait = "asleep" /\ leg'[s].pipe = leg[s].pipe
    BY <1>5
  <1>7. TypeOK' /\ UNCHANGED <<audio, video, sessions, queue>>
    BY <1>1, <1>2, <1>3, <1>2, <1>5 DEF TypeOK
  <1>8. Moves(returned, queue, returned', queue', s, {"wait"}, {})
    BY <1>3, <1>7
  <1>9. LineOf'
    <2>1. \A t \in Legs : \A b \in Owners :
             Has(returned', queue, b, t) /\ DueOf(b, leg[t]) => Bears(b, leg[t], leg'[t])
      BY <1>3, <1>2, <1>5, <1>6, <1>4 DEF Bears, DueOf
    <2>2. \A k \in 1..Len(queue') : \E i \in 1..Len(queue) : queue'[k] = queue[i]
      BY <1>7
    <2> QED BY <1>1, <1>3, <1>7, <2>1, <2>2, LineKept
  <1>10. FreshOf(s)'
    BY <1>1, <1>2, <1>6, <1>4 DEF FreshOf, Unarmed, Unmade
  <1>11. /\ Has(returned, queue, "close", s) => Has(returned', queue', "close", s)
         /\ Has(returned', queue', "offer", s) => Has(returned, queue, "offer", s)
         /\ Ahead(returned, queue, "offer", "close", s) => Ahead(returned', queue', "offer", "close", s)
         /\ Queued(queue, "close", s) => Queued(queue', "close", s)
    BY <1>1, <1>3, <1>8, <1>7 DEF Moves
  <1>12. ClosingOf(s)'
    BY <1>1, <1>3, <1>2, <1>6, <1>11 DEF ClosingOf
  <1>13. \A c \in Calls : audio[c] = s => AudioOwed(c)'
    BY <1>1, <1>3, <1>2, <1>6, <1>7, <1>11 DEF AudioOwed
  <1>14. \A c \in Calls : video[c] = s => VideoOwed(c)'
    BY <1>1, <1>3, <1>2, <1>6, <1>7, <1>11 DEF VideoOwed
  <1> QED BY <1>1, <1>2, <1>5, <1>6, <1>8, <1>7, <1>9, <1>10, <1>12, <1>13, <1>14, OneLeg

LEMMA PictureLostStep ==
    ASSUME IInv, NEW s \in Legs, PictureLost(s)
    PROVE  IInv'
  <1>1. /\ TypeOK /\ LineOf /\ leg \in [Legs -> Leg] /\ leg[s] \in Leg /\ leg[s].call \in Calls
        /\ FreshOf(s) /\ ClosingOf(s) /\ queue \in Seq(Job) /\ returned \in Seq(Result)
        /\ OnceIn(returned, queue)
        /\ s \in Legs \cup {Nobody} /\ {"offer", "close", "wait", "watchdog"} \subseteq Owners
        /\ \A c \in Calls : AudioOwed(c) /\ VideoOwed(c)
        /\ \A b \in Owners : Has(returned, queue, b, s) => DueOf(b, leg[s])
    BY Attending
  <1>2. /\ Continues("watchdog", s, "ok") /\ leg[s].pipe = "killed"
        /\ leg' = [leg EXCEPT ![s].pipe = "gone"]
        /\ UNCHANGED <<up, audio, video, reports, calls, sessions, graces, hanging, queue>>
    BY DEF PictureLost
  <1>3. /\ returned' \in Seq(Result) /\ Among(returned', returned) /\ OnceIn(returned', queue)
        /\ Moves(returned, queue, returned', queue, s, {"watchdog"}, {})
        /\ Has(returned, queue, "watchdog", s) /\ ~Has(returned', queue, "watchdog", s)
        /\ ~Queued(queue, "watchdog", s)
        /\ \A a : ~Ahead(returned, queue, a, "watchdog", s)
    BY <1>1, <1>2, Continued
  <1>4. leg[s].offer \notin Unarmed
    BY <1>1, <1>2 DEF FreshOf
  <1>5. /\ leg' \in [Legs -> Leg] /\ \A t \in Legs : t # s => leg'[t] = leg[t]
        /\ leg'[s] = [call |-> leg[s].call, offer |-> leg[s].offer, close |-> leg[s].close,
                      awaited |-> leg[s].awaited, wait |-> leg[s].wait, pipe |-> "gone"]
    BY <1>1, <1>2 DEF Leg
  <1>6. /\ leg'[s].call = leg[s].call /\ leg'[s].offer = leg[s].offer
        /\ leg'[s].close = leg[s].close /\ leg'[s].awaited = leg[s].awaited
        /\ leg'[s].wait = leg[s].wait /\ leg'[s].pipe = "gone"
    BY <1>5
  <1>7. TypeOK' /\ UNCHANGED <<audio, video, sessions, queue>>
    BY <1>1, <1>2, <1>3, <1>2, <1>5 DEF TypeOK
  <1>8. Moves(returned, queue, returned', queue', s, {"watchdog"}, {})
    BY <1>3, <1>7
  <1>9. LineOf'
    <2>1. \A t \in Legs : \A b \in Owners :
             Has(returned', queue, b, t) /\ DueOf(b, leg[t]) => Bears(b, leg[t], leg'[t])
      BY <1>3, <1>2, <1>5, <1>6, <1>4 DEF Bears, DueOf
    <2>2. \A k \in 1..Len(queue') : \E i \in 1..Len(queue) : queue'[k] = queue[i]
      BY <1>7
    <2> QED BY <1>1, <1>3, <1>7, <2>1, <2>2, LineKept
  <1>10. FreshOf(s)'
    BY <1>1, <1>2, <1>6, <1>4 DEF FreshOf, Unarmed, Unmade
  <1>11. /\ Has(returned, queue, "close", s) => Has(returned', queue', "close", s)
         /\ Has(returned', queue', "offer", s) => Has(returned, queue, "offer", s)
         /\ Ahead(returned, queue, "offer", "close", s) => Ahead(returned', queue', "offer", "close", s)
         /\ Queued(queue, "close", s) => Queued(queue', "close", s)
         /\ Queued(queue, "wait", s) => Queued(queue', "wait", s)
         /\ Armed(returned, s) => Armed(returned', s)
    BY <1>1, <1>3, <1>8, <1>7 DEF Moves
  <1>12. ClosingOf(s)'
    BY <1>1, <1>3, <1>2, <1>6, <1>11 DEF ClosingOf
  <1>13. \A c \in Calls : audio[c] = s => AudioOwed(c)'
    BY <1>1, <1>3, <1>2, <1>6, <1>7, <1>11 DEF AudioOwed
  <1>14. \A c \in Calls : video[c] = s => VideoOwed(c)'
    BY <1>1, <1>3, <1>2, <1>6, <1>7, <1>11 DEF VideoOwed
  <1> QED BY <1>1, <1>2, <1>5, <1>6, <1>8, <1>7, <1>9, <1>10, <1>12, <1>13, <1>14, OneLeg

LEMMA ArmReturnedStep ==
    ASSUME IInv, NEW s \in Legs, NEW out \in Outcomes, ArmReturned(s, out)
    PROVE  IInv'
  <1>1. /\ TypeOK /\ LineOf /\ leg \in [Legs -> Leg] /\ leg[s] \in Leg /\ leg[s].call \in Calls
        /\ FreshOf(s) /\ ClosingOf(s) /\ queue \in Seq(Job) /\ returned \in Seq(Result)
        /\ OnceIn(returned, queue)
        /\ s \in Legs \cup {Nobody} /\ {"offer", "close", "wait", "watchdog"} \subseteq Owners
        /\ \A c \in Calls : AudioOwed(c) /\ VideoOwed(c)
        /\ \A b \in Owners : Has(returned, queue, b, s) => DueOf(b, leg[s])
    BY Attending
  <1>2. /\ Continues("wait", s, out) /\ leg[s].wait = "arming"
        /\ UNCHANGED <<up, audio, video, reports, calls, sessions, graces, hanging>>
    BY DEF ArmReturned
  <1>3. /\ returned' \in Seq(Result) /\ Among(returned', returned) /\ OnceIn(returned', queue)
        /\ Moves(returned, queue, returned', queue, s, {"wait"}, {})
        /\ Has(returned, queue, "wait", s) /\ ~Has(returned', queue, "wait", s)
        /\ ~Queued(queue, "wait", s)
        /\ \A a : ~Ahead(returned, queue, a, "wait", s)
        /\ Armed(returned, s) => out = "ok"
    BY <1>1, <1>2, Continued
  <1>4. /\ leg[s].offer \notin Unarmed
        /\ leg[s].pipe = "up" => leg[s].close \in {"no", "unwatching"}
    BY <1>1, <1>2, <1>3 DEF FreshOf, ClosingOf
  <1>5. CASE out = "ok" /\ leg[s].pipe = "up" /\ UNCHANGED queue /\ leg' = Arrived(s)
    <2>0. PICK w : /\ w = (IF leg[s].close = "unwatching" THEN "slipped" ELSE "none")
                   /\ leg' = [leg EXCEPT ![s].wait = w]
      BY <1>5 DEF Arrived
    <2>1. /\ leg' \in [Legs -> Leg] /\ \A t \in Legs : t # s => leg'[t] = leg[t]
          /\ leg'[s] = [call |-> leg[s].call, offer |-> leg[s].offer, close |-> leg[s].close,
                        awaited |-> leg[s].awaited, wait |-> w, pipe |-> leg[s].pipe]
      BY <1>1, <1>5, <1>2, <2>0 DEF Leg
    <2>2. /\ leg'[s].call = leg[s].call /\ leg'[s].offer = leg[s].offer
          /\ leg'[s].close = leg[s].close /\ leg'[s].awaited = leg[s].awaited
          /\ leg'[s].wait = w /\ leg'[s].pipe = leg[s].pipe
      BY <2>1
    <2>3. TypeOK' /\ UNCHANGED <<audio, video, sessions, queue>>
      BY <1>1, <1>2, <1>3, <1>5, <1>2, <2>1 DEF TypeOK
    <2>4. Moves(returned, queue, returned', queue', s, {"wait"}, {})
      BY <1>3, <2>3
    <2>5. LineOf'
      <3>1. \A t \in Legs : \A b \in Owners :
               Has(returned', queue, b, t) /\ DueOf(b, leg[t]) => Bears(b, leg[t], leg'[t])
        BY <2>0, <1>3, <1>5, <1>2, <2>1, <2>2, <1>4 DEF Bears, DueOf
      <3>2. \A k \in 1..Len(queue') : \E i \in 1..Len(queue) : queue'[k] = queue[i]
        BY <2>3
      <3> QED BY <1>1, <1>3, <2>3, <3>1, <3>2, LineKept
    <2>6. FreshOf(s)'
      BY <2>0, <1>1, <1>5, <1>2, <2>2, <1>4 DEF FreshOf, Unarmed, Unmade
    <2>7. /\ Has(returned, queue, "close", s) => Has(returned', queue', "close", s)
          /\ Has(returned', queue', "offer", s) => Has(returned, queue, "offer", s)
          /\ Ahead(returned, queue, "offer", "close", s) => Ahead(returned', queue', "offer", "close", s)
          /\ Queued(queue, "close", s) => Queued(queue', "close", s)
          /\ ~Has(returned', queue', "wait", s)
      BY <1>1, <1>3, <2>4, <2>3 DEF Moves
    <2>8. ClosingOf(s)'
      BY <2>0, <1>1, <1>3, <1>5, <1>2, <2>2, <2>7, <1>4 DEF ClosingOf
    <2>9. \A c \in Calls : audio[c] = s => AudioOwed(c)'
      BY <2>0, <1>1, <1>3, <1>5, <1>2, <2>2, <2>3, <2>7 DEF AudioOwed
    <2>10. \A c \in Calls : video[c] = s => VideoOwed(c)'
      BY <2>0, <1>1, <1>3, <1>5, <1>2, <2>2, <2>3, <2>7, <1>4 DEF VideoOwed
    <2> QED BY <1>1, <1>5, <1>2, <2>1, <2>2, <2>4, <2>3, <2>5, <2>6, <2>8, <2>9, <2>10, OneLeg
  <1>6. CASE /\ out = "ok" /\ leg[s].pipe # "up"
             /\ leg' = [leg EXCEPT ![s].wait = "undoing"]
             /\ Submits(Task("wait", s, leg[s].call, "close_video"))
    <2>1. /\ leg' \in [Legs -> Leg] /\ \A t \in Legs : t # s => leg'[t] = leg[t]
          /\ leg'[s] = [call |-> leg[s].call, offer |-> leg[s].offer, close |-> leg[s].close,
                        awaited |-> leg[s].awaited, wait |-> "undoing", pipe |-> leg[s].pipe]
      BY <1>1, <1>6, <1>2 DEF Leg
    <2>2. /\ leg'[s].call = leg[s].call /\ leg'[s].offer = leg[s].offer
          /\ leg'[s].close = leg[s].close /\ leg'[s].awaited = leg[s].awaited
          /\ leg'[s].wait = "undoing" /\ leg'[s].pipe = leg[s].pipe
      BY <2>1
    <2>3. PICK j : j = Task("wait", s, leg[s].call, "close_video")
      OBVIOUS
    <2>4. j \in Job /\ j.by = "wait" /\ j.leg = s /\ j.call = leg[s].call /\ j.cmd = "close_video"
      BY <1>1, <2>3, TaskType
    <2>5. queue' = Append(queue, j) /\ ~Has(returned', queue, j.by, s)
      BY <1>3, <1>6, <1>2, <2>3, <2>4 DEF Submits
    <2>6. /\ queue' \in Seq(Job) /\ OnceIn(returned', queue')
          /\ \A k \in 1..Len(queue') :
                queue'[k] = j \/ \E i \in 1..Len(queue) : queue'[k] = queue[i]
          /\ Moves(returned, queue, returned', queue', s, {"wait"}, {j.by})
      BY <1>1, <1>3, <2>4, <2>5, ContinuedAdds, ZenonT(60)
    <2>7. TypeOK' /\ UNCHANGED <<audio, video, sessions>>
      BY <1>1, <1>2, <1>3, <2>1, <2>6 DEF TypeOK
    <2>8. LineOf'
      <3>1. \A t \in Legs : \A b \in Owners :
               Has(returned', queue, b, t) /\ DueOf(b, leg[t]) => Bears(b, leg[t], leg'[t])
        BY <1>3, <1>6, <1>2, <2>1, <2>2, <1>4 DEF Bears, DueOf
      <3>2. Placed(j)'
        BY <1>1, <1>6, <1>2, <2>2, <2>4, <1>4 DEF Placed, Due, DueOf, FreshOf
      <3> QED BY <1>1, <1>3, <2>6, <3>1, <3>2, LineKept
    <2>9. FreshOf(s)'
      BY <1>1, <1>6, <1>2, <2>2, <1>4 DEF FreshOf, Unarmed, Unmade
    <2>10. /\ Has(returned, queue, "close", s) => Has(returned', queue', "close", s)
           /\ Has(returned', queue', "offer", s) => Has(returned, queue, "offer", s)
           /\ Ahead(returned, queue, "offer", "close", s) => Ahead(returned', queue', "offer", "close", s)
           /\ Queued(queue, "close", s) => Queued(queue', "close", s)
           /\ Queued(queue', "wait", s)
      BY <1>1, <1>3, <2>6, <2>7, <2>4 DEF Moves
    <2>11. ClosingOf(s)'
      BY <1>1, <1>3, <1>6, <1>2, <2>2, <2>10 DEF ClosingOf
    <2>12. \A c \in Calls : audio[c] = s => AudioOwed(c)'
      BY <1>1, <1>3, <1>6, <1>2, <2>2, <2>7, <2>10 DEF AudioOwed
    <2>13. \A c \in Calls : video[c] = s => VideoOwed(c)'
      BY <1>1, <1>3, <1>6, <1>2, <2>2, <2>7, <2>10 DEF VideoOwed
    <2> QED BY <1>1, <1>6, <1>2, <2>1, <2>2, <2>6, <2>7, <2>8, <2>9, <2>11, <2>12, <2>13, OneLeg
  <1>7. CASE /\ out = "raised" /\ UNCHANGED queue
             /\ leg' = [leg EXCEPT ![s].wait = "asleep"]
    <2>1. /\ leg' \in [Legs -> Leg] /\ \A t \in Legs : t # s => leg'[t] = leg[t]
          /\ leg'[s] = [call |-> leg[s].call, offer |-> leg[s].offer, close |-> leg[s].close,
                        awaited |-> leg[s].awaited, wait |-> "asleep", pipe |-> leg[s].pipe]
      BY <1>1, <1>7, <1>2 DEF Leg
    <2>2. /\ leg'[s].call = leg[s].call /\ leg'[s].offer = leg[s].offer
          /\ leg'[s].close = leg[s].close /\ leg'[s].awaited = leg[s].awaited
          /\ leg'[s].wait = "asleep" /\ leg'[s].pipe = leg[s].pipe
      BY <2>1
    <2>3. TypeOK' /\ UNCHANGED <<audio, video, sessions, queue>>
      BY <1>1, <1>2, <1>3, <1>7, <1>2, <2>1 DEF TypeOK
    <2>4. Moves(returned, queue, returned', queue', s, {"wait"}, {})
      BY <1>3, <2>3
    <2>5. LineOf'
      <3>1. \A t \in Legs : \A b \in Owners :
               Has(returned', queue, b, t) /\ DueOf(b, leg[t]) => Bears(b, leg[t], leg'[t])
        BY <1>3, <1>7, <1>2, <2>1, <2>2, <1>4 DEF Bears, DueOf
      <3>2. \A k \in 1..Len(queue') : \E i \in 1..Len(queue) : queue'[k] = queue[i]
        BY <2>3
      <3> QED BY <1>1, <1>3, <2>3, <3>1, <3>2, LineKept
    <2>6. FreshOf(s)'
      BY <1>1, <1>7, <1>2, <2>2, <1>4 DEF FreshOf, Unarmed, Unmade
    <2>7. /\ Has(returned, queue, "close", s) => Has(returned', queue', "close", s)
          /\ Has(returned', queue', "offer", s) => Has(returned, queue, "offer", s)
          /\ Ahead(returned, queue, "offer", "close", s) => Ahead(returned', queue', "offer", "close", s)
          /\ Queued(queue, "close", s) => Queued(queue', "close", s)
      BY <1>1, <1>3, <2>4, <2>3 DEF Moves
    <2>8. ClosingOf(s)'
      BY <1>1, <1>3, <1>7, <1>2, <2>2, <2>7 DEF ClosingOf
    <2>9. \A c \in Calls : audio[c] = s => AudioOwed(c)'
      BY <1>1, <1>3, <1>7, <1>2, <2>2, <2>3, <2>7 DEF AudioOwed
    <2>10. \A c \in Calls : video[c] = s => VideoOwed(c)'
      BY <1>1, <1>3, <1>7, <1>2, <2>2, <2>3, <2>7 DEF VideoOwed
    <2>11. /\ leg[s].offer \in {"replacing", "failing"} => leg'[s].offer = leg[s].offer
           /\ leg'[s].awaited = leg[s].awaited
           /\ leg[s].offer \in Unmade <=> leg'[s].offer \in Unmade
           /\ leg[s].close = "done" => leg'[s].close = "done"
      BY <2>2
    <2>12. \A t \in Legs : t # s => leg'[t] = leg[t]
      BY <2>1
    <2> QED BY <2>3, <2>4, <2>5, <2>6, <2>8, <2>9, <2>10, <2>11, <2>12, OneLeg
  <1>8. CASE /\ out = "no_video" /\ UNCHANGED queue
             /\ leg' = [leg EXCEPT ![s].wait = "none", ![s].pipe = "gone"]
    <2>1. /\ leg' \in [Legs -> Leg] /\ \A t \in Legs : t # s => leg'[t] = leg[t]
          /\ leg'[s] = [call |-> leg[s].call, offer |-> leg[s].offer, close |-> leg[s].close,
                        awaited |-> leg[s].awaited, wait |-> "none", pipe |-> "gone"]
      BY <1>1, <1>8, <1>2 DEF Leg
    <2>2. /\ leg'[s].call = leg[s].call /\ leg'[s].offer = leg[s].offer
          /\ leg'[s].close = leg[s].close /\ leg'[s].awaited = leg[s].awaited
          /\ leg'[s].wait = "none" /\ leg'[s].pipe = "gone"
      BY <2>1
    <2>3. TypeOK' /\ UNCHANGED <<audio, video, sessions, queue>>
      BY <1>1, <1>2, <1>3, <1>8, <1>2, <2>1 DEF TypeOK
    <2>4. Moves(returned, queue, returned', queue', s, {"wait"}, {})
      BY <1>3, <2>3
    <2>5. LineOf'
      <3>1. \A t \in Legs : \A b \in Owners :
               Has(returned', queue, b, t) /\ DueOf(b, leg[t]) => Bears(b, leg[t], leg'[t])
        BY <1>3, <1>8, <1>2, <2>1, <2>2, <1>4 DEF Bears, DueOf
      <3>2. \A k \in 1..Len(queue') : \E i \in 1..Len(queue) : queue'[k] = queue[i]
        BY <2>3
      <3> QED BY <1>1, <1>3, <2>3, <3>1, <3>2, LineKept
    <2>6. FreshOf(s)'
      BY <1>1, <1>8, <1>2, <2>2, <1>4 DEF FreshOf, Unarmed, Unmade
    <2>7. /\ Has(returned, queue, "close", s) => Has(returned', queue', "close", s)
          /\ Has(returned', queue', "offer", s) => Has(returned, queue, "offer", s)
          /\ Ahead(returned, queue, "offer", "close", s) => Ahead(returned', queue', "offer", "close", s)
          /\ Queued(queue, "close", s) => Queued(queue', "close", s)
      BY <1>1, <1>3, <2>4, <2>3 DEF Moves
    <2>8. ClosingOf(s)'
      BY <1>1, <1>3, <1>8, <1>2, <2>2, <2>7 DEF ClosingOf
    <2>9. \A c \in Calls : audio[c] = s => AudioOwed(c)'
      BY <1>1, <1>3, <1>8, <1>2, <2>2, <2>3, <2>7 DEF AudioOwed
    <2>10. \A c \in Calls : video[c] = s => VideoOwed(c)'
      BY <1>1, <1>3, <1>8, <1>2, <2>2, <2>3, <2>7 DEF VideoOwed
    <2>11. /\ leg[s].offer \in {"replacing", "failing"} => leg'[s].offer = leg[s].offer
           /\ leg'[s].awaited = leg[s].awaited
           /\ leg[s].offer \in Unmade <=> leg'[s].offer \in Unmade
           /\ leg[s].close = "done" => leg'[s].close = "done"
      BY <2>2
    <2>12. \A t \in Legs : t # s => leg'[t] = leg[t]
      BY <2>1
    <2> QED BY <2>3, <2>4, <2>5, <2>6, <2>8, <2>9, <2>10, <2>11, <2>12, OneLeg
  <1> QED BY <1>5, <1>6, <1>7, <1>8 DEF ArmReturned

LEMMA StallsStep ==
    ASSUME IInv, NEW s \in Legs, Stalls(s)
    PROVE  IInv'
  <1>1. /\ TypeOK /\ LineOf /\ leg \in [Legs -> Leg] /\ leg[s] \in Leg /\ leg[s].call \in Calls
        /\ FreshOf(s) /\ ClosingOf(s) /\ queue \in Seq(Job) /\ returned \in Seq(Result)
        /\ OnceIn(returned, queue)
        /\ s \in Legs \cup {Nobody} /\ {"offer", "close", "wait", "watchdog"} \subseteq Owners
        /\ \A c \in Calls : AudioOwed(c) /\ VideoOwed(c)
        /\ \A b \in Owners : Has(returned, queue, b, s) => DueOf(b, leg[s])
    BY Attending
  <1>2. /\ returned = <<>> /\ leg[s].pipe = "up" /\ leg[s].close # "unwatching"
        /\ leg' = [leg EXCEPT ![s].pipe = "killed", ![s].wait = "none"]
        /\ queue' = Append(Kept("wait", s), Task("watchdog", s, leg[s].call, "close_video"))
        /\ UNCHANGED <<up, audio, video, reports, calls, sessions, graces, hanging, returned>>
    BY DEF Stalls, SleepsEnd
  <1>3. /\ returned' = returned /\ Among(returned', returned)
        /\ Moves(returned, queue, returned', queue, s, {}, {}) /\ returned' \in Seq(Result)
    BY <1>1, <1>2, AmongSelf, Stays
  <1>4. /\ leg[s].offer \notin Unarmed /\ ~Armed(returned, s)
        /\ leg[s].wait \notin {"undoing", "slipped"}
        /\ ~Has(returned, queue, "watchdog", s)
    BY <1>1, <1>2 DEF FreshOf, ClosingOf, DueOf, Armed
  <1>5. /\ leg' \in [Legs -> Leg] /\ \A t \in Legs : t # s => leg'[t] = leg[t]
        /\ leg'[s] = [call |-> leg[s].call, offer |-> leg[s].offer, close |-> leg[s].close,
                      awaited |-> leg[s].awaited, wait |-> "none", pipe |-> "killed"]
    BY <1>1, <1>2 DEF Leg
  <1>6. /\ leg'[s].call = leg[s].call /\ leg'[s].offer = leg[s].offer
        /\ leg'[s].close = leg[s].close /\ leg'[s].awaited = leg[s].awaited
        /\ leg'[s].wait = "none" /\ leg'[s].pipe = "killed"
    BY <1>5
  <1>7. PICK j : j = Task("watchdog", s, leg[s].call, "close_video")
    OBVIOUS
  <1>8. /\ j \in Job /\ j.by = "watchdog" /\ j.leg = s /\ j.call = leg[s].call
        /\ j.cmd = "close_video"
    BY <1>1, <1>7, TaskType
  <1>9. queue' = Append(Kept("wait", s), j) /\ "wait" \in Owners /\ ~Has(returned, queue, j.by, s)
    BY <1>1, <1>2, <1>4, <1>7, <1>8
  <1>10. /\ queue' \in Seq(Job)
         /\ \A k \in 1..Len(queue') :
               queue'[k] = j \/ \E i \in 1..Len(queue) : queue'[k] = queue[i]
         /\ Moves(returned, queue, returned, queue', s, {"wait"}, {j.by})
    BY <1>1, <1>8, <1>9, KeptAdds, ZenonT(60)
  <1>11. Moves(returned, queue, returned', queue', s, {"wait"}, {"watchdog"})
    BY <1>3, <1>8, <1>10
  <1>12. TypeOK' /\ UNCHANGED <<audio, video, sessions>>
    BY <1>1, <1>2, <1>3, <1>5, <1>10 DEF TypeOK
  <1>13. LineOf'
    <2>1. \A t \in Legs : \A b \in Owners :
             Has(returned', queue, b, t) /\ DueOf(b, leg[t]) => Bears(b, leg[t], leg'[t])
      BY <1>3, <1>4, <1>5, <1>6 DEF Bears, DueOf
    <2>2. Placed(j)'
      BY <1>6, <1>8 DEF Placed, Due, DueOf
    <2>3. OnceIn(returned', queue')
      BY <1>11 DEF Moves
    <2> QED BY <1>1, <1>3, <1>10, <2>1, <2>2, <2>3, LineKept
  <1>14. FreshOf(s)'
    BY <1>1, <1>4, <1>6 DEF FreshOf, Unarmed, Unmade
  <1>15. /\ Has(returned, queue, "close", s) => Has(returned', queue', "close", s)
         /\ Queued(queue, "close", s) => Queued(queue', "close", s)
    BY <1>1, <1>11 DEF Moves
  <1>16. ClosingOf(s)'
    BY <1>1, <1>4, <1>6, <1>15 DEF ClosingOf, Unarmed
  <1>17. \A c \in Calls : audio[c] = s => AudioOwed(c)'
    BY <1>1, <1>6, <1>12, <1>15 DEF AudioOwed
  <1>18. \A c \in Calls : video[c] = s => VideoOwed(c)'
    BY <1>1, <1>4, <1>6, <1>12, <1>15 DEF VideoOwed
  <1> QED BY <1>1, <1>5, <1>6, <1>11, <1>12, <1>13, <1>14, <1>16, <1>17, <1>18, OneLeg

LEMMA DiscardsStep ==
    ASSUME IInv, NEW s \in Legs, Discards(s)
    PROVE  IInv'
  <1>1. /\ TypeOK /\ LineOf /\ leg \in [Legs -> Leg] /\ leg[s] \in Leg
        /\ FreshOf(s) /\ ClosingOf(s) /\ queue \in Seq(Job)
        /\ s \in Legs \cup {Nobody} /\ {"offer", "close", "wait", "watchdog"} \subseteq Owners
        /\ \A c \in Calls : AudioOwed(c) /\ VideoOwed(c)
    BY Attending
  <1>2. /\ UNCHANGED <<up, audio, video, reports, calls, sessions, leg, graces, hanging, queue>>
        /\ \E out \in Outcomes : \/ Continues("wait", s, out) /\ leg[s].wait = "none"
                                 \/ Continues("watchdog", s, out)
    BY DEF Discards
  <1>3. PICK b \in {"wait", "watchdog"}, out \in Outcomes :
           Continues(b, s, out) /\ (b = "wait" => leg[s].wait = "none")
    BY <1>2
  <1>4. /\ returned' \in Seq(Result) /\ Among(returned', returned) /\ OnceIn(returned', queue)
        /\ Moves(returned, queue, returned', queue, s, {b}, {})
        /\ ~Has(returned', queue, b, s)
    BY <1>1, <1>3, Continued
  <1>5. TypeOK' /\ UNCHANGED <<audio, video, sessions, queue, leg>>
    BY <1>1, <1>2, <1>4 DEF TypeOK
  <1>6. Moves(returned, queue, returned', queue', s, {b}, {})
    BY <1>4, <1>5
  <1>7. LineOf'
    <2>1. \A t \in Legs : \A a \in Owners :
             Has(returned', queue, a, t) /\ DueOf(a, leg[t]) => Bears(a, leg[t], leg'[t])
      BY <1>5 DEF Bears, DueOf
    <2>2. \A k \in 1..Len(queue') : \E i \in 1..Len(queue) : queue'[k] = queue[i]
      BY <1>5
    <2> QED BY <1>1, <1>4, <1>5, <2>1, <2>2, LineKept
  <1>8. /\ Has(returned, queue, "close", s) => Has(returned', queue', "close", s)
        /\ Has(returned', queue', "offer", s) => Has(returned, queue, "offer", s)
        /\ Has(returned', queue', "wait", s) => Has(returned, queue, "wait", s) /\ b # "wait"
        /\ Ahead(returned, queue, "offer", "close", s) => Ahead(returned', queue', "offer", "close", s)
        /\ b # "wait" =>
              /\ Ahead(returned, queue, "wait", "close", s) => Ahead(returned', queue', "wait", "close", s)
              /\ Ahead(returned, queue, "close", "wait", s) => Ahead(returned', queue', "close", "wait", s)
              /\ Armed(returned, s) => Armed(returned', s)
    BY <1>1, <1>3, <1>4, <1>5, <1>6 DEF Moves
  <1>9. FreshOf(s)'
    BY <1>1, <1>5 DEF FreshOf
  <1>10. ClosingOf(s)'
    BY <1>1, <1>3, <1>5, <1>8 DEF ClosingOf
  <1>11. \A c \in Calls : audio[c] = s => AudioOwed(c)'
    BY <1>1, <1>5 DEF AudioOwed
  <1>12. \A c \in Calls : video[c] = s => VideoOwed(c)'
    BY <1>1, <1>3, <1>5, <1>8 DEF VideoOwed
  <1> QED BY <1>1, <1>5, <1>6, <1>7, <1>9, <1>10, <1>11, <1>12, OneLeg

-----------------------------------------------------------------------------
(* What else ends a leg, and the steps of no leg.                          *)

\* A step that touches no leg: it hangs a call up, or is told that one is gone.
LEMMA NoLeg ==
    ASSUME IInv, NEW gone, NEW new,
           Moves(returned, queue, returned', queue', Nobody, gone, new),
           LineOf', TypeOK', UNCHANGED <<audio, video, sessions, leg>>
    PROVE  IInv'
  <1>1. Nobody \notin Legs /\ Nobody \in Legs \cup {Nobody}
    BY NobodyIsNoLeg
  <1> QED BY <1>1, OneLeg

LEMMA Unjoined ==
    ASSUME IInv
    PROVE  /\ TypeOK /\ LineOf /\ leg \in [Legs -> Leg] /\ returned \in Seq(Result)
           /\ queue \in Seq(Job) /\ OnceIn(returned, queue)
           /\ {"user", "reap"} \subseteq Owners /\ Nobody \in Legs \cup {Nobody}
  BY DEF IInv, TypeOK, LineOf, Owners

\* A hangup is crossed to the worker.
LEMMA HangupAdds ==
    ASSUME IInv, NEW c \in Calls, NEW by \in {"user", "reap"},
           Submits(Task(by, Nobody, c, "hangup")), UNCHANGED <<leg, returned>>
    PROVE  /\ queue' \in Seq(Job) /\ LineOf'
           /\ Moves(returned, queue, returned', queue', Nobody, {}, {by})
  <1>1. /\ TypeOK /\ LineOf /\ leg \in [Legs -> Leg] /\ returned \in Seq(Result)
        /\ queue \in Seq(Job) /\ OnceIn(returned, queue)
        /\ by \in Owners /\ Nobody \in Legs \cup {Nobody} /\ returned' = returned
    BY Unjoined
  <1>2. PICK j : j = Task(by, Nobody, c, "hangup")
    OBVIOUS
  <1>3. j \in Job /\ j.by = by /\ j.leg = Nobody /\ j.call = c /\ j.cmd = "hangup"
    BY <1>1, <1>2 DEF Task, Job
  <1>4. queue' = Append(queue, j)
    BY <1>2 DEF Submits
  <1>5. /\ Append(queue, j) \in Seq(Job)
        /\ \A k \in 1..Len(Append(queue, j)) :
              Append(queue, j)[k] = j \/ \E i \in 1..Len(queue) : Append(queue, j)[k] = queue[i]
        /\ Moves(returned, queue, returned, Append(queue, j), j.leg, {}, {j.by})
    BY <1>1, <1>3, Adds
  <1>6. /\ queue' \in Seq(Job)
        /\ Moves(returned, queue, returned', queue', Nobody, {}, {by})
    BY <1>1, <1>3, <1>4, <1>5
  <1>7. LineOf'
    <2>1. \A t \in Legs : \A a \in Owners :
             Has(returned', queue, a, t) /\ DueOf(a, leg[t]) => Bears(a, leg[t], leg'[t])
      BY DEF Bears, DueOf
    <2>2. Placed(j)'
      BY <1>3 DEF Placed, Due
    <2>3. OnceIn(returned', queue') /\ Among(returned', returned) /\ returned' \in Seq(Result)
      BY <1>1, <1>6, AmongSelf DEF Moves
    <2>4. \A k \in 1..Len(queue') :
             queue'[k] = j \/ \E i \in 1..Len(queue) : queue'[k] = queue[i]
      BY <1>4, <1>5
    <2> QED BY <1>1, <1>6, <2>1, <2>2, <2>3, <2>4, LineKept
  <1> QED BY <1>6, <1>7

LEMMA DropsStep ==
    ASSUME IInv, NEW s \in Legs, Drops(s)
    PROVE  IInv'
  <1>1. leg[s].close = "no" /\ leg[s].offer \notin Unmade
    BY Attending DEF Drops, BookOf, Listed
  <1>2. TypeOK
    BY DEF IInv
  <1> QED BY <1>1, <1>2, ClosesStep DEF Drops, TypeOK

LEMMA IsForListed ==
    ASSUME IInv, NEW s \in Legs, NEW c, IsFor(s, c)
    PROVE  Listed(s) /\ leg[s].offer \notin Unmade
  <1>1. Listed(s)
    BY DEF IsFor, On, Listed
  <1> QED BY <1>1, Attending DEF BookOf

\* Nothing on the line, nothing of a leg.
LEMMA LineStays ==
    ASSUME IInv, UNCHANGED <<returned, queue, leg>>
    PROVE  LineOf' /\ Moves(returned, queue, returned', queue', Nobody, {}, {})
  <1>1. LineOf'
    BY DEF IInv, LineOf, Placed, Due
  <1> QED BY <1>1, Unjoined, Stays

LEMMA CallEndedStep ==
    ASSUME IInv, NEW c \in Calls, CallEnded(c)
    PROVE  IInv'
  <1>1. TypeOK
    BY DEF IInv
  <1>2. CASE \E s \in Legs : IsFor(s, c) /\ leg[s].close = "no"
    <2>1. PICK s \in Legs : IsFor(s, c) /\ Closes(leg, s, "nobody", Nobody)
      BY <1>2 DEF CallEnded
    <2>2. leg[s].close = "no"
      <3>1. PICK t \in Legs : IsFor(t, c) /\ leg[t].close = "no"
        BY <1>2
      <3>2. s = t
        <4>1. PICK i \in On(c, sessions) : s = sessions[i] /\ \A j \in On(c, sessions) : i <= j
          BY <2>1 DEF IsFor
        <4>2. PICK k \in On(c, sessions) : t = sessions[k] /\ \A j \in On(c, sessions) : k <= j
          BY <3>1 DEF IsFor
        <4>3. i <= k /\ k <= i /\ i \in Int /\ k \in Int
          BY <4>1, <4>2 DEF On
        <4> QED BY <4>1, <4>2, <4>3
      <3> QED BY <3>1, <3>2
    <2>3. leg[s].offer \notin Unmade
      BY <2>1, IsForListed
    <2> QED BY <1>1, <2>1, <2>2, <2>3, ClosesStep DEF CallEnded, TypeOK
  <1>3. CASE UNCHANGED <<leg, queue>>
    <2>1. LineOf' /\ Moves(returned, queue, returned', queue', Nobody, {}, {})
      BY <1>3, LineStays DEF CallEnded
    <2>2. TypeOK' /\ UNCHANGED <<audio, video, sessions, leg>>
      BY <1>1, <1>3 DEF TypeOK, CallEnded
    <2> QED BY <2>1, <2>2, NoLeg
  <1> QED BY <1>2, <1>3 DEF CallEnded

LEMMA HangsUpStep ==
    ASSUME IInv, NEW c \in Calls, HangsUp(c)
    PROVE  IInv'
  <1>1. TypeOK
    BY DEF IInv
  <1>2. ASSUME NEW s \in Legs, IsFor(s, c), leg[s].close = "no",
               Closes(leg, s, "user", Nobody), hanging' = [hanging EXCEPT ![c] = "closing"]
        PROVE  IInv'
    <2>1. leg[s].offer \notin Unmade
      BY <1>2, IsForListed
    <2> QED BY <1>1, <1>2, <2>1, ClosesStep DEF HangsUp, TypeOK
  <1>3. CASE /\ Submits(Task("user", Nobody, c, "hangup"))
             /\ hanging' = [hanging EXCEPT ![c] = "native"] /\ UNCHANGED leg
    <2>1. /\ queue' \in Seq(Job) /\ LineOf'
          /\ Moves(returned, queue, returned', queue', Nobody, {}, {"user"})
      BY <1>3, HangupAdds DEF HangsUp
    <2>2. TypeOK' /\ UNCHANGED <<audio, video, sessions, leg>>
      BY <1>1, <1>3, <2>1 DEF TypeOK, HangsUp
    <2> QED BY <2>1, <2>2, NoLeg
  <1> QED BY <1>2, <1>3 DEF HangsUp

LEMMA GraceEndsStep ==
    ASSUME IInv, NEW c \in Calls, GraceEnds(c)
    PROVE  IInv'
  <1>1. TypeOK
    BY DEF IInv
  <1>2. graces' \in [Calls -> Nat]
    <2>1. graces[c] - 1 \in Nat
      BY <1>1 DEF TypeOK, GraceEnds
    <2> QED BY <1>1, <2>1 DEF TypeOK, GraceEnds
  <1>3. CASE Submits(Task("reap", Nobody, c, "hangup"))
    <2>1. /\ queue' \in Seq(Job) /\ LineOf'
          /\ Moves(returned, queue, returned', queue', Nobody, {}, {"reap"})
      BY <1>3, HangupAdds DEF GraceEnds
    <2>2. TypeOK' /\ UNCHANGED <<audio, video, sessions, leg>>
      BY <1>1, <1>2, <2>1 DEF TypeOK, GraceEnds
    <2> QED BY <2>1, <2>2, NoLeg
  <1>4. CASE UNCHANGED queue
    <2>1. LineOf' /\ Moves(returned, queue, returned', queue', Nobody, {}, {})
      BY <1>4, LineStays DEF GraceEnds
    <2>2. TypeOK' /\ UNCHANGED <<audio, video, sessions, leg>>
      BY <1>1, <1>2, <1>4 DEF TypeOK, GraceEnds
    <2> QED BY <2>1, <2>2, NoLeg
  <1> QED BY <1>3, <1>4 DEF GraceEnds

LEMMA HangupReturnedStep ==
    ASSUME IInv, NEW c \in Calls, NEW by \in {"user", "reap"}, HangupReturned(c, by)
    PROVE  IInv'
  <1>1. /\ TypeOK /\ LineOf /\ by \in Owners /\ Nobody \in Legs \cup {Nobody}
        /\ queue \in Seq(Job)
    BY Unjoined
  <1>2. Continues(by, Nobody, "ok")
    BY DEF HangupReturned
  <1>3. /\ returned' \in Seq(Result) /\ Among(returned', returned) /\ OnceIn(returned', queue)
        /\ Moves(returned, queue, returned', queue, Nobody, {by}, {})
    BY <1>1, <1>2, Continued
  <1>4. TypeOK' /\ UNCHANGED <<audio, video, sessions, leg, queue>>
    BY <1>1, <1>3 DEF TypeOK, HangupReturned
  <1>5. LineOf'
    <2>1. \A t \in Legs : \A a \in Owners :
             Has(returned', queue, a, t) /\ DueOf(a, leg[t]) => Bears(a, leg[t], leg'[t])
      BY <1>4 DEF Bears, DueOf
    <2>2. \A k \in 1..Len(queue') : \E i \in 1..Len(queue) : queue'[k] = queue[i]
      BY <1>4
    <2> QED BY <1>1, <1>3, <1>4, <2>1, <2>2, LineKept
  <1>6. Moves(returned, queue, returned', queue', Nobody, {by}, {})
    BY <1>3, <1>4
  <1> QED BY <1>4, <1>5, <1>6, NoLeg

LEMMA FarEndsStep ==
    ASSUME IInv, NEW c \in Calls, FarEnds(c)
    PROVE  IInv'
  <1>1. /\ TypeOK /\ UNCHANGED <<calls, sessions, leg, graces, hanging, queue, returned>>
        /\ audio' = [audio EXCEPT ![c] = Nobody] /\ video' = [video EXCEPT ![c] = Nobody]
        /\ up' = up \ {c} /\ reports' = reports \cup {c}
    BY DEF IInv, FarEnds, Over
  <1>2. TypeOK'
    BY <1>1 DEF TypeOK
  <1>3. LineOf'
    BY <1>1, LineStays
  <1>4. ASSUME NEW s \in Legs
        PROVE  BookOf(s)' /\ AwaitedOf(s)' /\ FreshOf(s)' /\ ClosingOf(s)'
    BY <1>1, Attending DEF BookOf, Listed, AwaitedOf, FreshOf, ClosingOf
  <1>5. ASSUME NEW d \in Calls
        PROVE  AudioOwed(d)' /\ VideoOwed(d)'
    <2>1. AudioOwed(d) /\ VideoOwed(d)
      BY DEF IInv
    <2>2. audio'[d] \in {Nobody, audio[d]} /\ video'[d] \in {Nobody, video[d]}
      BY <1>1 DEF TypeOK
    <2> QED BY <1>1, <2>1, <2>2 DEF AudioOwed, VideoOwed
  <1> QED BY <1>2, <1>3, <1>4, <1>5 DEF IInv

-----------------------------------------------------------------------------
(* The steps that change the book of legs.                                 *)

\* A leg that is offered for the first time is at nothing.
LEMMA NewLeg ==
    ASSUME IInv, NEW s \in Legs, leg[s].offer \in Unmade
    PROVE  /\ leg[s].close = "no" /\ leg[s].wait = "none" /\ leg[s].pipe = "none"
           /\ ~Listed(s)
           /\ \A b \in Owners : ~Has(returned, queue, b, s)
           /\ \A c \in Calls : audio[c] # s /\ video[c] # s
  <1>1. /\ leg[s].close = "no" /\ leg[s].wait = "none" /\ leg[s].pipe = "none" /\ ~Listed(s)
    BY Attending DEF FreshOf, BookOf, Unarmed
  <1>2. ASSUME NEW b \in Owners PROVE ~Has(returned, queue, b, s)
    <2>1. ~DueOf(b, leg[s])
      BY <1>1 DEF DueOf, Unarmed, Unmade
    <2> QED BY <2>1, Attending
  <1>3. ASSUME NEW c \in Calls PROVE audio[c] # s /\ video[c] # s
    <2>1. AudioOwed(c) /\ VideoOwed(c)
      BY DEF IInv
    <2> QED BY <2>1, NobodyIsNoLeg DEF AudioOwed, VideoOwed
  <1> QED BY <1>1, <1>2, <1>3

\* A leg that comes where none is in the way.
LEMMA OffersStep ==
    ASSUME IInv, NEW s \in Legs, NEW c \in Calls, leg[s].offer = "none",
           Opens([leg EXCEPT ![s].call = c], s, sessions),
           UNCHANGED <<up, audio, video, reports, calls, graces, hanging, returned>>
    PROVE  IInv'
  <1>1. /\ TypeOK /\ LineOf /\ leg \in [Legs -> Leg] /\ leg[s] \in Leg
        /\ queue \in Seq(Job) /\ returned \in Seq(Result) /\ OnceIn(returned, queue)
        /\ s \in Legs \cup {Nobody} /\ {"offer", "close", "wait", "watchdog"} \subseteq Owners
        /\ \A d \in Calls : AudioOwed(d) /\ VideoOwed(d)
    BY Attending
  <1>2. /\ leg[s].close = "no" /\ leg[s].wait = "none" /\ leg[s].pipe = "none" /\ ~Listed(s)
        /\ \A b \in Owners : ~Has(returned, queue, b, s)
        /\ \A d \in Calls : audio[d] # s /\ video[d] # s
    BY NewLeg DEF Unmade
  <1>3. /\ returned' = returned /\ Among(returned', returned) /\ OnceIn(returned', queue)
        /\ Moves(returned, queue, returned', queue, s, {}, {}) /\ returned' \in Seq(Result)
    BY <1>1, AmongSelf, Stays
  <1>4. /\ leg' = [[leg EXCEPT ![s].call = c] EXCEPT ![s].offer = "attaching"]
        /\ sessions' = Append(sessions, s)
        /\ Submits(Task("offer", s, [leg EXCEPT ![s].call = c][s].call, "attach"))
        /\ [leg EXCEPT ![s].call = c][s].call = c
    BY <1>1 DEF Opens, Leg
  <1>5. /\ leg' \in [Legs -> Leg] /\ \A t \in Legs : t # s => leg'[t] = leg[t]
        /\ leg'[s] = [call |-> c, offer |-> "attaching", close |-> leg[s].close,
                      awaited |-> leg[s].awaited, wait |-> leg[s].wait, pipe |-> leg[s].pipe]
    BY <1>1, <1>4 DEF Leg
  <1>6. /\ leg'[s].call = c /\ leg'[s].offer = "attaching" /\ leg'[s].close = "no"
        /\ leg'[s].awaited = leg[s].awaited /\ leg'[s].wait = "none" /\ leg'[s].pipe = "none"
    BY <1>2, <1>5
  <1>7. PICK j : j = Task("offer", s, c, "attach")
    OBVIOUS
  <1>8. j \in Job /\ j.by = "offer" /\ j.leg = s /\ j.call = c /\ j.cmd = "attach"
    BY <1>1, <1>7, TaskType
  <1>9. queue' = Append(queue, j) /\ ~Has(returned', queue, j.by, s)
    BY <1>1, <1>2, <1>3, <1>4, <1>7, <1>8 DEF Submits
  <1>10. /\ queue' \in Seq(Job) /\ OnceIn(returned', queue')
         /\ \A k \in 1..Len(queue') :
               queue'[k] = j \/ \E i \in 1..Len(queue) : queue'[k] = queue[i]
         /\ Moves(returned, queue, returned', queue', s, {}, {j.by})
    BY <1>1, <1>3, <1>8, <1>9, ContinuedAdds, ZenonT(60)
  <1>11. /\ sessions \in Seq(Legs) /\ sessions' \in Seq(Legs)
         /\ \A t \in Legs : Listed(t)' <=> Listed(t) \/ t = s
    <2>1. sessions \in Seq(Legs)
      BY <1>1 DEF TypeOK
    <2>2. /\ sessions' \in Seq(Legs) /\ Len(sessions) \in Nat
          /\ Len(sessions') = Len(sessions) + 1
          /\ \A i \in 1..Len(sessions) : sessions'[i] = sessions[i] /\ i \in 1..Len(sessions')
          /\ sessions'[Len(sessions) + 1] = s
          /\ \A i \in 1..Len(sessions') : i \in 1..Len(sessions) \/ i = Len(sessions) + 1
      BY <1>4, <2>1, Appended
    <2>3. Len(sessions) + 1 \in 1..Len(sessions')
      BY <2>2
    <2> QED BY <2>1, <2>2, <2>3 DEF Listed
  <1>12. TypeOK'
    BY <1>1, <1>3, <1>5, <1>10, <1>11 DEF TypeOK
  <1>13. LineOf'
    <2>1. \A t \in Legs : \A b \in Owners :
             Has(returned', queue, b, t) /\ DueOf(b, leg[t]) => Bears(b, leg[t], leg'[t])
      BY <1>2, <1>3, <1>5 DEF Bears, DueOf
    <2>2. Placed(j)'
      BY <1>6, <1>8 DEF Placed, Due, DueOf
    <2> QED BY <1>1, <1>3, <1>10, <2>1, <2>2, LineKept
  <1>14. FreshOf(s)' /\ ClosingOf(s)'
    BY <1>6 DEF FreshOf, ClosingOf, Unarmed, Unmade
  <1>15. ASSUME NEW t \in Legs
         PROVE  BookOf(t)' /\ FreshOf(t)' /\ ClosingOf(t)'
    <2>1. BookOf(t) /\ FreshOf(t) /\ ClosingOf(t)
      BY DEF IInv
    <2>2. BookOf(t)'
      BY <1>5, <1>6, <1>11, <2>1 DEF BookOf, Unmade
    <2>3. CASE t = s
      BY <1>14, <2>2, <2>3
    <2>4. CASE t # s
      BY <1>5, <1>10, <2>1, <2>2, <2>4, Elsewhere
    <2> QED BY <2>3, <2>4
  <1>16. \A t \in Legs : AwaitedOf(t)'
    <2>1. leg[s].offer \notin {"replacing", "failing"}
      OBVIOUS
    <2>2. \A t \in Legs : AwaitedOf(t)
      BY DEF IInv
    <2> QED BY <1>1, <1>5, <1>6, <2>1, <2>2, AwaitedKept
  <1>17. \A d \in Calls : AudioOwed(d)' /\ VideoOwed(d)'
    BY <1>1, <1>2, <1>5, <1>10, OwedKept
  <1> QED BY <1>12, <1>13, <1>15, <1>16, <1>17 DEF IInv

\* A leg that comes where another one is to be closed first.
LEMMA ReplacesStep ==
    ASSUME IInv, NEW s \in Legs, NEW c \in Calls, leg[s].offer = "none",
           NEW t \in Legs, Listed(t), leg[t].close = "no",
           Closes([[leg EXCEPT ![s].call = c] EXCEPT ![s].offer = "replacing"], t, "offer", s),
           UNCHANGED <<up, audio, video, reports, calls, graces, hanging, returned, sessions>>
    PROVE  IInv'
  <1>1. /\ TypeOK /\ LineOf /\ leg \in [Legs -> Leg] /\ leg[s] \in Leg /\ leg[t] \in Leg
        /\ queue \in Seq(Job) /\ returned \in Seq(Result) /\ OnceIn(returned, queue)
        /\ {"offer", "close", "wait", "watchdog"} \subseteq Owners
        /\ \A d \in Calls : AudioOwed(d) /\ VideoOwed(d)
        /\ BookOf(t) /\ FreshOf(t)
    BY Attending
  <1>2. /\ leg[s].close = "no" /\ leg[s].wait = "none" /\ leg[s].pipe = "none" /\ ~Listed(s)
        /\ \A b \in Owners : ~Has(returned, queue, b, s)
        /\ \A d \in Calls : audio[d] # s /\ video[d] # s
    BY NewLeg DEF Unmade
  <1>3. s # t /\ leg[t].offer \notin Unmade
    BY <1>1, <1>2 DEF BookOf
  <1>4. /\ returned' = returned /\ Among(returned', returned) /\ OnceIn(returned', queue)
        /\ Moves(returned, queue, returned', queue, t, {}, {}) /\ returned' \in Seq(Result)
    BY <1>1, AmongSelf, Stays
  <1>5. PICK l : l = [[leg EXCEPT ![s].call = c] EXCEPT ![s].offer = "replacing"]
    OBVIOUS
  <1>6. /\ l \in [Legs -> Leg] /\ \A u \in Legs : u # s => l[u] = leg[u]
        /\ l[s] = [call |-> c, offer |-> "replacing", close |-> leg[s].close,
                   awaited |-> leg[s].awaited, wait |-> leg[s].wait, pipe |-> leg[s].pipe]
    BY <1>1, <1>5 DEF Leg
  <1>7. /\ l[t].offer \notin Unmade /\ l[t].offer = leg[t].offer
        /\ l[t].call = leg[t].call /\ l[t].wait = leg[t].wait /\ l[t].pipe = leg[t].pipe
    BY <1>3, <1>6
  <1>8. /\ Closes(l, t, "offer", s) /\ leg[t].close = "no"
        /\ "offer" \in {"nobody", "offer", "user"} /\ s \in Legs \cup {Nobody}
    BY <1>5
  <1>9. /\ queue' \in Seq(Job)
        /\ \E j \in Job : /\ Placed(j)'
                          /\ \A k \in 1..Len(queue') :
                                queue'[k] = j \/ \E i \in 1..Len(queue) : queue'[k] = queue[i]
        /\ Moves(returned, queue, returned', queue', t, {} \cup {"wait"}, {"close"})
        /\ leg' \in [Legs -> Leg] /\ \A u \in Legs : u # t => leg'[u] = l[u]
        /\ leg'[t].call = leg[t].call /\ leg'[t].offer = l[t].offer
        /\ leg'[t].close = "video" /\ leg'[t].awaited = [by |-> "offer", leg |-> s]
        /\ FreshOf(t)' /\ ClosingOf(t)'
        /\ \A d \in Calls : audio'[d] = t /\ audio[d] = t /\ AudioOwed(d) => AudioOwed(d)'
        /\ \A d \in Calls : video'[d] = t /\ video[d] = t /\ VideoOwed(d) => VideoOwed(d)'
        /\ \A b \in Owners :
              /\ Has(returned', queue, b, t) /\ DueOf(b, leg[t])
              /\ l[t].offer = leg[t].offer \/ ~Has(returned', queue, "offer", t)
              => Bears(b, leg[t], leg'[t])
    BY <1>1, <1>4, <1>6, <1>7, <1>8, ClosedLeg, ZenonT(60)
  <1>10. /\ \A u \in Legs : u # s /\ u # t => leg'[u] = leg[u]
         /\ leg'[s].call = c /\ leg'[s].offer = "replacing" /\ leg'[s].close = "no"
         /\ leg'[s].awaited = leg[s].awaited /\ leg'[s].wait = "none" /\ leg'[s].pipe = "none"
         /\ leg'[t].offer = leg[t].offer
    BY <1>2, <1>3, <1>6, <1>7, <1>9
  <1>11. TypeOK'
    BY <1>1, <1>9 DEF TypeOK
  <1>12. LineOf'
    <2>1. ASSUME NEW u \in Legs, NEW b \in Owners, Has(returned', queue, b, u), DueOf(b, leg[u])
          PROVE  Bears(b, leg[u], leg'[u])
      <3>1. CASE u = s
        BY <1>2, <1>4, <2>1, <3>1
      <3>2. CASE u = t
        BY <1>7, <1>9, <2>1, <3>2
      <3>3. CASE u # s /\ u # t
        BY <1>10, <2>1, <3>3 DEF Bears, DueOf
      <3> QED BY <3>1, <3>2, <3>3
    <2>2. OnceIn(returned', queue')
      BY <1>9 DEF Moves
    <2>3. PICK j \in Job : /\ Placed(j)'
                           /\ \A k \in 1..Len(queue') :
                                 queue'[k] = j \/ \E i \in 1..Len(queue) : queue'[k] = queue[i]
      BY <1>9
    <2> QED BY <1>1, <1>4, <1>9, <2>1, <2>2, <2>3, LineKept
  <1>13. FreshOf(s)' /\ ClosingOf(s)'
    BY <1>10 DEF FreshOf, ClosingOf, Unarmed, Unmade
  <1>14. ASSUME NEW u \in Legs
         PROVE  BookOf(u)' /\ FreshOf(u)' /\ ClosingOf(u)'
    <2>1. BookOf(u) /\ FreshOf(u) /\ ClosingOf(u)
      BY DEF IInv
    <2>2. Listed(u)' <=> Listed(u)
      BY DEF Listed
    <2>3. CASE u = s
      BY <1>2, <1>10, <1>13, <2>2, <2>3 DEF BookOf, Unmade
    <2>4. CASE u = t
      BY <1>9, <1>10, <2>1, <2>2, <2>4 DEF BookOf
    <2>5. CASE u # s /\ u # t
      <3>1. FreshOf(u)' /\ ClosingOf(u)'
        BY <1>9, <1>10, <2>1, <2>5, Elsewhere
      <3> QED BY <1>10, <2>1, <2>2, <2>5, <3>1 DEF BookOf
    <2> QED BY <2>3, <2>4, <2>5
  <1>15. ASSUME NEW u \in Legs, leg[u].awaited.by = "offer"
         PROVE  leg[u].awaited.leg # s
    <2>1. AwaitedOf(u)
      BY DEF IInv
    <2> QED BY <1>15, <2>1 DEF AwaitedOf
  <1>16. ASSUME NEW u \in Legs
         PROVE  AwaitedOf(u)'
    <2>1. AwaitedOf(u)
      BY DEF IInv
    <2>2. \A v \in Legs : v # t => leg'[v].awaited = leg[v].awaited
      BY <1>10
    <2>3. leg'[t].awaited.by = "offer" /\ leg'[t].awaited.leg = s
      BY <1>9
    <2>4. CASE u = t
      <3>1. \A v \in Legs : leg'[v].awaited = leg'[t].awaited => v = t
        BY <1>15, <2>2, <2>3
      <3> QED BY <1>3, <1>10, <2>3, <2>4, <3>1 DEF AwaitedOf
    <2>5. CASE u # t
      <3>1. leg'[u].awaited = leg[u].awaited
        BY <2>2, <2>5
      <3>2. CASE leg[u].awaited.by = "offer"
        <4>1. /\ leg[u].awaited.leg \in Legs /\ leg[u].awaited.leg # s
              /\ leg[leg[u].awaited.leg].offer =
                    (IF leg[u].awaited.leg = u THEN "failing" ELSE "replacing")
              /\ \A v \in Legs : leg[v].awaited = leg[u].awaited => v = u
          BY <1>15, <2>1, <3>2 DEF AwaitedOf
        <4>2. leg'[leg[u].awaited.leg].offer = leg[leg[u].awaited.leg].offer
          BY <1>10, <4>1
        <4>3. \A v \in Legs : leg'[v].awaited = leg[u].awaited => v = u
          BY <2>2, <2>3, <4>1
        <4> QED BY <3>1, <4>1, <4>2, <4>3 DEF AwaitedOf
      <3>3. CASE leg[u].awaited.by # "offer"
        BY <3>1, <3>3 DEF AwaitedOf
      <3> QED BY <3>2, <3>3
    <2> QED BY <2>4, <2>5
  <1>17. ASSUME NEW d \in Calls
         PROVE  AudioOwed(d)' /\ VideoOwed(d)'
    <2>1. AudioOwed(d) /\ VideoOwed(d) /\ audio[d] # s /\ video[d] # s
      BY <1>1, <1>2
    <2>2. AudioOwed(d)'
      <3>1. CASE audio[d] = t
        BY <1>9, <2>1, <3>1
      <3>2. CASE audio[d] # t
        <4>1. audio[d] \in Legs => audio[d] # t /\ leg'[audio[d]] = leg[audio[d]]
          BY <1>10, <2>1, <3>2
        <4> QED BY <1>1, <1>9, <2>1, <4>1, OwedKept
      <3> QED BY <3>1, <3>2
    <2>3. VideoOwed(d)'
      <3>1. CASE video[d] = t
        BY <1>9, <2>1, <3>1
      <3>2. CASE video[d] # t
        <4>1. video[d] \in Legs => video[d] # t /\ leg'[video[d]] = leg[video[d]]
          BY <1>10, <2>1, <3>2
        <4> QED BY <1>1, <1>9, <2>1, <4>1, OwedKept
      <3> QED BY <3>1, <3>2
    <2> QED BY <2>2, <2>3
  <1> QED BY <1>11, <1>12, <1>14, <1>16, <1>17 DEF IInv

LEMMA OfferSteps ==
    ASSUME IInv, NEW s \in Legs, NEW c \in Calls, Offers(s, c)
    PROVE  IInv'
  <1>1. leg[s].offer = "none"
    BY DEF Offers, Made
  <1>2. UNCHANGED <<up, audio, video, reports, calls, graces, hanging, returned>>
    BY DEF Offers
  <1>3. CASE Opens([leg EXCEPT ![s].call = c], s, sessions)
    BY <1>1, <1>2, <1>3, OffersStep
  <1>4. ASSUME NEW t \in Legs, IsFor(t, c), leg[t].close = "no", UNCHANGED sessions,
               Closes([[leg EXCEPT ![s].call = c] EXCEPT ![s].offer = "replacing"], t, "offer", s)
        PROVE  IInv'
    <2>1. Listed(t)
      BY <1>4, IsForListed
    <2> QED BY <1>1, <1>2, <1>4, <2>1, ReplacesStep
  <1> QED BY <1>3, <1>4 DEF Offers

\* A leg leaves the book.
LEMMA PoppedBook ==
    ASSUME sessions \in Seq(Legs), NEW s \in Legs, NEW b, b = Popped(s)
    PROVE  /\ b \in Seq(Legs)
           /\ \A t \in Legs : (\E i \in 1..Len(b) : b[i] = t) => Listed(t)
           /\ \A t \in Legs : t # s /\ Listed(t) => \E i \in 1..Len(b) : b[i] = t
  <1> DEFINE at == {i \in 1..Len(sessions) : sessions[i] = s}
  <1>1. b = Without(sessions, at) /\ at \subseteq 1..Len(sessions)
    BY DEF Popped
  <1>2. \A i \in at : sessions[i] = s
    OBVIOUS
  <1> HIDE DEF at
  <1>3. /\ b \in Seq(Legs) /\ Len(sessions) \in Nat
        /\ at = {} => b = sessions
        /\ at # {} => \E m \in at :
              /\ m \in 1..Len(sessions) /\ Len(b) = Len(sessions) - 1
              /\ \A k \in 1..Len(b) :
                    /\ k \in 1..Len(sessions) /\ k + 1 \in 1..Len(sessions)
                    /\ b[k] = IF k < m THEN sessions[k] ELSE sessions[k + 1]
    <2>1. PICK q : q = sessions
      OBVIOUS
    <2>2. q \in Seq(Legs) /\ b = Without(q, at) /\ at \subseteq 1..Len(q)
      BY <1>1, <2>1
    <2>3. ASSUME NEW v, v = Without(q, at)
          PROVE  /\ v \in Seq(Legs) /\ Len(q) \in Nat
                 /\ at = {} => v = q
                 /\ at # {} => \E m \in at :
                       /\ m \in 1..Len(q) /\ Len(v) = Len(q) - 1
                       /\ \A k \in 1..Len(v) :
                             /\ k \in 1..Len(q) /\ k + 1 \in 1..Len(q)
                             /\ v[k] = IF k < m THEN q[k] ELSE q[k + 1]
      BY ONLY <2>2, <2>3, Removed, ZenonT(60)
    <2> QED BY <2>1, <2>2, <2>3
  <1>4. CASE at = {}
    BY <1>3, <1>4 DEF Listed
  <1>5. CASE at # {}
    <2>1. PICK m \in at :
             /\ m \in 1..Len(sessions) /\ Len(b) = Len(sessions) - 1
             /\ \A k \in 1..Len(b) :
                   /\ k \in 1..Len(sessions) /\ k + 1 \in 1..Len(sessions)
                   /\ b[k] = IF k < m THEN sessions[k] ELSE sessions[k + 1]
      BY <1>3, <1>5
    <2>2. ASSUME NEW t \in Legs, NEW i \in 1..Len(b), b[i] = t
          PROVE  Listed(t)
      BY <2>1, <2>2 DEF Listed
    <2>3. ASSUME NEW t \in Legs, t # s, NEW i \in 1..Len(sessions), sessions[i] = t
          PROVE  \E k \in 1..Len(b) : b[k] = t
      <3>1. i # m
        BY <1>2, <2>1, <2>3
      <3>2. CASE i < m
        <4>1. i \in 1..Len(b)
          BY <1>3, <2>1, <3>2
        <4>2. b[i] = t
          BY <2>1, <2>3, <3>2, <4>1
        <4> QED BY <4>1, <4>2
      <3>3. CASE ~(i < m)
        <4>1. i - 1 \in 1..Len(b) /\ ~(i - 1 < m) /\ (i - 1) + 1 = i
          BY <1>3, <2>1, <3>1, <3>3
        <4>2. b[i - 1] = t
          BY <2>1, <2>3, <4>1
        <4> QED BY <4>1, <4>2
      <3> QED BY <3>2, <3>3
    <2> QED BY <1>3, <2>2, <2>3 DEF Listed
  <1> QED BY <1>4, <1>5

\* The end of a teardown, whoever awaited it: `w` is the offer that goes on, or Nobody.
LEMMA ClosedStep ==
    ASSUME IInv, NEW s \in Legs, leg[s].close = "peer",
           NEW w \in Legs \cup {Nobody}, w # s,
           w \in Legs => leg[s].awaited.by = "offer" /\ leg[s].awaited.leg = w
                         /\ leg'[w].call = leg[w].call /\ leg'[w].offer = "attaching"
                         /\ leg'[w].close = leg[w].close /\ leg'[w].awaited = leg[w].awaited
                         /\ leg'[w].wait = leg[w].wait /\ leg'[w].pipe = leg[w].pipe,
           leg'[s].call = leg[s].call, leg'[s].close = "done", leg'[s].awaited = NoOne,
           leg'[s].wait = leg[s].wait, leg'[s].pipe = leg[s].pipe,
           \/ leg'[s].offer = leg[s].offer
           \/ /\ leg'[s].offer = "ended"
              /\ leg[s].awaited.by = "offer" /\ leg[s].awaited.leg = s,
           \A t \in Legs : t # s /\ t # w => leg'[t] = leg[t],
           NEW new, Moves(returned, queue, returned', queue', w, {}, new),
           NEW j, \A k \in 1..Len(queue') :
                     \/ \E i \in 1..Len(queue) : queue'[k] = queue[i]
                     \/ queue'[k] = j /\ Placed(j)',
           \A t \in Legs : Listed(t)' => Listed(t) \/ t = w,
           \A t \in Legs : (t # s /\ Listed(t)) \/ t = w => Listed(t)',
           TypeOK', UNCHANGED <<audio, video, returned>>
    PROVE  IInv'
  <1>1. /\ TypeOK /\ LineOf /\ leg[s] \in Leg
        /\ BookOf(s) /\ AwaitedOf(s) /\ FreshOf(s) /\ ClosingOf(s)
        /\ queue \in Seq(Job) /\ returned \in Seq(Result) /\ OnceIn(returned, queue)
        /\ {"offer", "close", "wait", "watchdog"} \subseteq Owners
        /\ \A d \in Calls : AudioOwed(d) /\ VideoOwed(d)
        /\ \A b \in Owners : Has(returned, queue, b, s) => DueOf(b, leg[s])
    BY Attending
  <1>2. /\ leg[s].pipe # "up" /\ leg[s].offer \notin Unmade
        /\ ~(leg[s].offer = "attaching" /\ Has(returned, queue, "offer", s))
    BY <1>1 DEF ClosingOf, FreshOf
  <1>3. leg'[s].offer # leg[s].offer => leg[s].offer = "failing" /\ leg'[s].offer = "ended"
    BY <1>1 DEF AwaitedOf
  <1>4. w \in Legs =>
           /\ leg[w].offer = "replacing" /\ leg[w].close = "no" /\ leg[w].wait = "none"
           /\ leg[w].pipe = "none" /\ \A b \in Owners : ~Has(returned, queue, b, w)
           /\ \A d \in Calls : audio[d] # w /\ video[d] # w
    <2>1. ASSUME w \in Legs
          PROVE  leg[w].offer = "replacing"
      BY <1>1, <2>1 DEF AwaitedOf
    <2> QED BY <2>1, NewLeg DEF Unmade
  <1>5. /\ returned' = returned /\ Among(returned', returned) /\ returned' \in Seq(Result)
        /\ OnceIn(returned', queue') /\ queue' \in Seq(Job)
    BY <1>1, AmongSelf DEF Moves, TypeOK
  <1>6. LineOf'
    <2>1. ASSUME NEW t \in Legs, NEW b \in Owners, Has(returned', queue, b, t), DueOf(b, leg[t])
          PROVE  Bears(b, leg[t], leg'[t])
      <3>1. CASE t = s
        BY <1>2, <1>3, <2>1, <3>1 DEF Bears, DueOf, Unarmed, Unmade
      <3>2. CASE t = w
        BY <1>4, <1>5, <2>1, <3>2
      <3>3. CASE t # s /\ t # w
        BY <2>1, <3>3 DEF Bears, DueOf
      <3> QED BY <3>1, <3>2, <3>3
    <2> QED BY <1>1, <1>5, <2>1, LineKept
  <1>7. leg'[s].offer \notin Unmade
    BY <1>2, <1>3 DEF Unmade
  <1>8. FreshOf(s)' /\ ClosingOf(s)'
    <2>1. FreshOf(s)'
      BY <1>1, <1>2, <1>3, <1>7 DEF FreshOf, Unarmed, Unmade
    <2>2. Has(returned', queue', "offer", s) => Has(returned, queue, "offer", s)
      BY <1>1 DEF Moves
    <2>3. ClosingOf(s)'
      BY <1>2, <1>3, <2>2 DEF ClosingOf
    <2> QED BY <2>1, <2>3
  <1>9. w \in Legs => FreshOf(w)' /\ ClosingOf(w)'
    BY <1>4 DEF FreshOf, ClosingOf, Unarmed, Unmade
  <1>10. ASSUME NEW t \in Legs
         PROVE  BookOf(t)' /\ FreshOf(t)' /\ ClosingOf(t)'
    <2>1. BookOf(t) /\ FreshOf(t) /\ ClosingOf(t)
      BY DEF IInv
    <2>2. CASE t = s
      BY <1>1, <1>2, <1>7, <1>8, <2>2 DEF BookOf
    <2>3. CASE t = w
      <3>1. Listed(w)' /\ leg'[w].offer \notin Unmade
        BY <2>3 DEF Unmade
      <3> QED BY <1>9, <2>3, <3>1 DEF BookOf
    <2>4. CASE t # s /\ t # w
      <3>1. FreshOf(t)' /\ ClosingOf(t)'
        BY <2>1, <2>4, Elsewhere
      <3>2. Listed(t)' <=> Listed(t)
        BY <2>4
      <3> QED BY <2>1, <2>4, <3>1, <3>2 DEF BookOf
    <2> QED BY <2>2, <2>3, <2>4
  <1>11. ASSUME NEW t \in Legs
         PROVE  AwaitedOf(t)'
    <2>1. AwaitedOf(t)
      BY DEF IInv
    <2>2. \A u \in Legs : u # s => leg'[u].awaited = leg[u].awaited
      OBVIOUS
    <2>3. leg'[s].awaited.by = "nobody"
      BY DEF NoOne
    <2>4. CASE t # s /\ leg[t].awaited.by = "offer"
      <3> DEFINE v == leg[t].awaited.leg
      <3>1. /\ v \in Legs
            /\ leg[v].offer = (IF v = t THEN "failing" ELSE "replacing")
            /\ \A u \in Legs : leg[u].awaited = leg[t].awaited => u = t
        BY <2>1, <2>4 DEF AwaitedOf
      <3>2. v # w
        <4>1. ASSUME v = w
              PROVE  FALSE
          <5>1. w \in Legs /\ leg[s].awaited.by = "offer" /\ leg[s].awaited.leg = w
            BY <3>1, <4>1
          <5>2. leg[t] \in Leg
            BY Attending
          <5>3. /\ leg[s].awaited \in [by : {"nobody", "offer", "user"}, leg : Legs \cup {Nobody}]
                /\ leg[t].awaited \in [by : {"nobody", "offer", "user"}, leg : Legs \cup {Nobody}]
            BY <1>1, <5>2 DEF Leg
          <5>4. leg[s].awaited = leg[t].awaited
            BY <2>4, <4>1, <5>1, <5>3
          <5> QED BY <2>4, <3>1, <5>4
        <4> QED BY <4>1
      <3>3. leg'[v].offer = leg[v].offer
        BY <1>3, <2>4, <3>1, <3>2
      <3>4. \A u \in Legs : leg'[u].awaited = leg[t].awaited => u = t
        BY <2>2, <2>3, <2>4, <3>1
      <3> QED BY <2>2, <2>4, <3>1, <3>3, <3>4 DEF AwaitedOf
    <2>5. CASE t = s
      BY <2>3, <2>5 DEF AwaitedOf
    <2>6. CASE t # s /\ leg[t].awaited.by # "offer"
      BY <2>2, <2>6 DEF AwaitedOf
    <2> QED BY <2>4, <2>5, <2>6
  <1>12. ASSUME NEW d \in Calls
         PROVE  AudioOwed(d)' /\ VideoOwed(d)'
    <2>1. AudioOwed(d) /\ VideoOwed(d)
      BY <1>1
    <2>2. /\ w \in Legs => audio[d] # w /\ video[d] # w
          /\ s # Nobody
      BY <1>4, NobodyIsNoLeg
    <2>3. AudioOwed(d)'
      <3>1. audio[d] # s
        BY <2>1, <2>2 DEF AudioOwed
      <3>2. audio[d] \in Legs => audio[d] # w /\ leg'[audio[d]] = leg[audio[d]]
        BY <2>2, <3>1
      <3> QED BY <1>1, <2>1, <3>2, OwedKept
    <2>4. VideoOwed(d)'
      <3>1. CASE video[d] = s
        <4>1. /\ leg[s].call = d
              /\ \/ leg[s].wait = "arming" /\ Armed(returned, s)
                 \/ leg[s].wait = "undoing" /\ Queued(queue, "wait", s)
                 \/ leg[s].wait = "slipped"
          BY <2>1, <2>2, <3>1 DEF VideoOwed
        <4>2. Queued(queue, "wait", s) => Queued(queue', "wait", s)
          BY <1>1 DEF Moves
        <4> QED BY <1>5, <1>7, <3>1, <4>1, <4>2 DEF VideoOwed
      <3>2. CASE video[d] # s
        <4>1. video[d] \in Legs => video[d] # w /\ leg'[video[d]] = leg[video[d]]
          BY <2>2, <3>2
        <4> QED BY <1>1, <2>1, <4>1, OwedKept
      <3> QED BY <3>1, <3>2
    <2> QED BY <2>3, <2>4
  <1> QED BY <1>6, <1>10, <1>11, <1>12 DEF IInv

LEMMA PeerClosedStep ==
    ASSUME IInv, NEW s \in Legs, PeerClosed(s)
    PROVE  IInv'
  <1>1. /\ TypeOK /\ LineOf /\ leg \in [Legs -> Leg] /\ leg[s] \in Leg /\ leg[s].call \in Calls
        /\ AwaitedOf(s) /\ sessions \in Seq(Legs)
        /\ queue \in Seq(Job) /\ returned \in Seq(Result) /\ OnceIn(returned, queue)
        /\ {"offer", "user"} \subseteq Owners /\ {s, Nobody} \subseteq Legs \cup {Nobody}
    BY Attending DEF TypeOK, Owners
  <1>2. /\ leg[s].close = "peer" /\ UNCHANGED <<up, audio, video, reports, calls, returned>>
        /\ graces' \in [Calls -> Nat]
    BY <1>1 DEF PeerClosed, TypeOK
  <1>3. PICK b : b = Popped(s)
    OBVIOUS
  <1>4. /\ b \in Seq(Legs)
        /\ \A t \in Legs : (\E i \in 1..Len(b) : b[i] = t) => Listed(t)
        /\ \A t \in Legs : t # s /\ Listed(t) => \E i \in 1..Len(b) : b[i] = t
    BY <1>1, <1>3, PoppedBook
  <1>5. PICK done : done = [leg EXCEPT ![s].close = "done", ![s].awaited = NoOne]
    OBVIOUS
  <1>6. /\ done \in [Legs -> Leg] /\ \A t \in Legs : t # s => done[t] = leg[t]
        /\ done[s] = [call |-> leg[s].call, offer |-> leg[s].offer, close |-> "done",
                      awaited |-> NoOne, wait |-> leg[s].wait, pipe |-> leg[s].pipe]
    BY <1>1, <1>5 DEF Leg, NoOne
  <1>7. Nobody # s /\ s \in Legs /\ Nobody \notin Legs
    BY NobodyIsNoLeg
  <1>8. sessions' = b =>
           /\ sessions' \in Seq(Legs)
           /\ \A t \in Legs : Listed(t)' => Listed(t)
           /\ \A t \in Legs : t # s /\ Listed(t) => Listed(t)'
    BY <1>4 DEF Listed
  <1>9. CASE leg[s].awaited.by = "nobody" /\ leg' = done /\ sessions' = b
             /\ UNCHANGED <<queue, hanging>>
    <2>1. Moves(returned, queue, returned', queue', Nobody, {}, {})
      BY <1>1, <1>2, <1>9, Stays
    <2>2. \A k \in 1..Len(queue') :
             \/ \E i \in 1..Len(queue) : queue'[k] = queue[i]
             \/ queue'[k] = Nobody /\ Placed(Nobody)'
      BY <1>9
    <2>3. TypeOK'
      BY <1>1, <1>2, <1>6, <1>8, <1>9 DEF TypeOK
    <2>4. /\ leg'[s].call = leg[s].call /\ leg'[s].close = "done" /\ leg'[s].awaited = NoOne
          /\ leg'[s].wait = leg[s].wait /\ leg'[s].pipe = leg[s].pipe
          /\ leg'[s].offer = leg[s].offer
          /\ \A t \in Legs : t # s /\ t # Nobody => leg'[t] = leg[t]
      BY <1>6, <1>9
    <2>5. \A t \in Legs : (t # s /\ Listed(t)) \/ t = Nobody => Listed(t)'
      BY <1>7, <1>8, <1>9
    <2>6. \A t \in Legs : Listed(t)' => Listed(t) \/ t = Nobody
      BY <1>8, <1>9
    <2> QED BY <1>1, <1>2, <1>7, <2>1, <2>2, <2>3, <2>4, <2>5, <2>6, ClosedStep, ZenonT(60)
  <1>10. CASE /\ leg[s].awaited.by = "offer" /\ leg[s].awaited.leg = s
              /\ leg' = [done EXCEPT ![s].offer = "ended"] /\ sessions' = b
              /\ UNCHANGED <<queue, hanging>>
    <2>1. Moves(returned, queue, returned', queue', Nobody, {}, {})
      BY <1>1, <1>2, <1>10, Stays
    <2>2. \A k \in 1..Len(queue') :
             \/ \E i \in 1..Len(queue) : queue'[k] = queue[i]
             \/ queue'[k] = Nobody /\ Placed(Nobody)'
      BY <1>10
    <2>3. /\ leg' \in [Legs -> Leg] /\ \A t \in Legs : t # s => leg'[t] = leg[t]
          /\ leg'[s] = [call |-> leg[s].call, offer |-> "ended", close |-> "done",
                        awaited |-> NoOne, wait |-> leg[s].wait, pipe |-> leg[s].pipe]
      BY <1>1, <1>6, <1>10 DEF Leg
    <2>4. TypeOK'
      BY <1>1, <1>2, <1>8, <1>10, <2>3 DEF TypeOK
    <2>5. /\ leg'[s].call = leg[s].call /\ leg'[s].close = "done" /\ leg'[s].awaited = NoOne
          /\ leg'[s].wait = leg[s].wait /\ leg'[s].pipe = leg[s].pipe
          /\ leg'[s].offer = "ended"
          /\ \A t \in Legs : t # s /\ t # Nobody => leg'[t] = leg[t]
      BY <2>3
    <2>6. \A t \in Legs : (t # s /\ Listed(t)) \/ t = Nobody => Listed(t)'
      BY <1>7, <1>8, <1>10
    <2>7. \A t \in Legs : Listed(t)' => Listed(t) \/ t = Nobody
      BY <1>8, <1>10
    <2> QED BY <1>1, <1>2, <1>7, <1>10, <2>1, <2>2, <2>4, <2>5, <2>6, <2>7, ClosedStep, ZenonT(60)
  <1>11. ASSUME leg[s].awaited.by = "offer", NEW w, w = leg[s].awaited.leg, w # s,
                Opens(done, w, b), UNCHANGED hanging
         PROVE  IInv'
    <2>1. w \in Legs /\ w \in Legs \cup {Nobody} /\ leg[w].offer = "replacing" /\ leg[w] \in Leg
      BY <1>1, <1>11 DEF AwaitedOf
    <2>2. /\ \A a \in Owners : ~Has(returned, queue, a, w)
          /\ leg[w].call \in Calls
      BY <2>1, NewLeg DEF Unmade, Leg
    <2>3. /\ leg' = [done EXCEPT ![w].offer = "attaching"] /\ sessions' = Append(b, w)
          /\ queue' = Append(queue, Task("offer", w, leg[w].call, "attach"))
      BY <1>6, <1>11, <2>1 DEF Opens, Submits
    <2>4. /\ leg' \in [Legs -> Leg] /\ \A t \in Legs : t # s /\ t # w => leg'[t] = leg[t]
          /\ leg'[s] = [call |-> leg[s].call, offer |-> leg[s].offer, close |-> "done",
                        awaited |-> NoOne, wait |-> leg[s].wait, pipe |-> leg[s].pipe]
          /\ leg'[w] = [call |-> leg[w].call, offer |-> "attaching", close |-> leg[w].close,
                        awaited |-> leg[w].awaited, wait |-> leg[w].wait, pipe |-> leg[w].pipe]
      BY <1>6, <1>11, <2>1, <2>3 DEF Leg
    <2>5. PICK j : j = Task("offer", w, leg[w].call, "attach")
      OBVIOUS
    <2>6. j \in Job /\ j.by = "offer" /\ j.leg = w /\ j.call = leg[w].call /\ j.cmd = "attach"
      BY <1>1, <2>1, <2>2, <2>5, TaskType
    <2>7. queue' = Append(queue, j) /\ ~Has(returned', queue, j.by, w)
      BY <1>1, <1>2, <2>2, <2>3, <2>5, <2>6
    <2>8. /\ returned' = returned /\ returned' \in Seq(Result) /\ OnceIn(returned', queue)
          /\ Moves(returned, queue, returned', queue, w, {}, {})
      BY <1>1, <1>2, Stays
    <2>9. /\ queue' \in Seq(Job)
          /\ \A k \in 1..Len(queue') :
                queue'[k] = j \/ \E i \in 1..Len(queue) : queue'[k] = queue[i]
          /\ Moves(returned, queue, returned', queue', w, {}, {j.by})
      BY <1>1, <2>1, <2>6, <2>7, <2>8, ContinuedAdds, ZenonT(60)
    <2>10. /\ sessions' \in Seq(Legs)
           /\ \A t \in Legs : Listed(t)' => Listed(t) \/ t = w
           /\ \A t \in Legs : (t # s /\ Listed(t)) \/ t = w => Listed(t)'
      <3>1. /\ sessions' \in Seq(Legs) /\ Len(b) \in Nat
            /\ Len(sessions') = Len(b) + 1
            /\ \A i \in 1..Len(b) : sessions'[i] = b[i] /\ i \in 1..Len(sessions')
            /\ sessions'[Len(b) + 1] = w
            /\ \A i \in 1..Len(sessions') : i \in 1..Len(b) \/ i = Len(b) + 1
        BY <1>4, <2>1, <2>3, Appended
      <3>2. Len(b) + 1 \in 1..Len(sessions')
        BY <3>1
      <3>3. \A t \in Legs : Listed(t)' <=> (\E i \in 1..Len(b) : b[i] = t) \/ t = w
        BY <3>1, <3>2 DEF Listed
      <3> QED BY <1>4, <3>1, <3>3
    <2>11. TypeOK'
      BY <1>1, <1>2, <1>11, <2>4, <2>8, <2>9, <2>10 DEF TypeOK
    <2>12. Placed(j)'
      BY <2>1, <2>4, <2>6 DEF Placed, Due, DueOf
    <2>13. \A k \in 1..Len(queue') :
              \/ \E i \in 1..Len(queue) : queue'[k] = queue[i]
              \/ queue'[k] = j /\ Placed(j)'
      BY <2>9, <2>12
    <2>14. /\ leg'[w].call = leg[w].call /\ leg'[w].offer = "attaching"
           /\ leg'[w].close = leg[w].close /\ leg'[w].awaited = leg[w].awaited
           /\ leg'[w].wait = leg[w].wait /\ leg'[w].pipe = leg[w].pipe
      BY <2>4
    <2>15. /\ leg'[s].call = leg[s].call /\ leg'[s].close = "done" /\ leg'[s].awaited = NoOne
           /\ leg'[s].wait = leg[s].wait /\ leg'[s].pipe = leg[s].pipe
           /\ leg'[s].offer = leg[s].offer
      BY <2>4
    <2> QED BY <1>2, <1>11, <2>1, <2>4, <2>8, <2>9, <2>10, <2>11, <2>13, <2>14, <2>15, ClosedStep,
               ZenonT(60)
  <1>12. CASE /\ leg[s].awaited.by = "user" /\ leg' = done /\ sessions' = b
              /\ hanging' = [hanging EXCEPT ![leg[s].call] = "native"]
              /\ Submits(Task("user", Nobody, leg[s].call, "hangup"))
    <2>1. PICK j : j = Task("user", Nobody, leg[s].call, "hangup")
      OBVIOUS
    <2>2. j \in Job /\ j.by = "user" /\ j.leg = Nobody /\ j.cmd = "hangup"
      BY <1>1, <2>1 DEF Task, Job
    <2>3. queue' = Append(queue, j)
      BY <1>12, <2>1 DEF Submits
    <2>4. /\ Append(queue, j) \in Seq(Job)
          /\ \A k \in 1..Len(Append(queue, j)) :
                Append(queue, j)[k] = j \/ \E i \in 1..Len(queue) : Append(queue, j)[k] = queue[i]
          /\ Moves(returned, queue, returned, Append(queue, j), j.leg, {}, {j.by})
      BY <1>1, <2>2, Adds
    <2>5. /\ queue' \in Seq(Job)
          /\ Moves(returned, queue, returned', queue', Nobody, {}, {"user"})
      BY <1>2, <2>2, <2>3, <2>4
    <2>6. Placed(j)'
      BY <2>2 DEF Placed, Due
    <2>7. \A k \in 1..Len(queue') :
             \/ \E i \in 1..Len(queue) : queue'[k] = queue[i]
             \/ queue'[k] = j /\ Placed(j)'
      BY <2>3, <2>4, <2>6
    <2>8. TypeOK'
      BY <1>1, <1>2, <1>6, <1>8, <1>12, <2>5 DEF TypeOK
    <2>9. /\ leg'[s].call = leg[s].call /\ leg'[s].close = "done" /\ leg'[s].awaited = NoOne
          /\ leg'[s].wait = leg[s].wait /\ leg'[s].pipe = leg[s].pipe
          /\ leg'[s].offer = leg[s].offer
          /\ \A t \in Legs : t # s /\ t # Nobody => leg'[t] = leg[t]
      BY <1>6, <1>12
    <2>10. \A t \in Legs : (t # s /\ Listed(t)) \/ t = Nobody => Listed(t)'
      BY <1>7, <1>8, <1>12
    <2>11. \A t \in Legs : Listed(t)' => Listed(t) \/ t = Nobody
      BY <1>8, <1>12
    <2> QED BY <1>1, <1>2, <1>7, <2>5, <2>7, <2>8, <2>9, <2>10, <2>11, ClosedStep, ZenonT(60)
  <1> QED BY <1>3, <1>5, <1>9, <1>10, <1>11, <1>12 DEF PeerClosed

-----------------------------------------------------------------------------
(* The worker.                                                             *)

LEMMA RunsStep ==
    ASSUME IInv, NEW out \in Outcomes, Runs(out)
    PROVE  IInv'
  <1>1. /\ TypeOK /\ LineOf /\ leg \in [Legs -> Leg] /\ returned \in Seq(Result)
        /\ queue \in Seq(Job) /\ OnceIn(returned, queue)
        /\ {"user", "reap"} \subseteq Owners /\ Nobody \in Legs \cup {Nobody}
    BY Unjoined
  <1>2. /\ queue # <<>> /\ queue' = Tail(queue)
        /\ UNCHANGED <<calls, sessions, leg, graces, hanging>>
    BY DEF Runs
  <1>3. PICK j : j = Head(queue)
    OBVIOUS
  <1>4. j = queue[1] /\ j \in Job /\ 1 \in 1..Len(queue) /\ Placed(j)
    <2>1. j = queue[1] /\ j \in Job /\ 1 \in 1..Len(queue)
      BY <1>1, <1>2, <1>3, Tailed
    <2> QED BY <1>1, <2>1 DEF LineOf
  <1>5. PICK x : x = [by |-> j.by, leg |-> j.leg, call |-> j.call, out |-> out]
    OBVIOUS
  <1>6. /\ x \in Result /\ x.by = j.by /\ x.leg = j.leg /\ x.call = j.call /\ x.out = out
        /\ IsOf(x, j.by, j.leg)
    BY <1>4, <1>5 DEF Job, Result, IsOf
  <1>7. returned' = Append(returned, x)
    BY <1>3, <1>5 DEF Runs
  <1>8. /\ Append(returned, x) \in Seq(Result) /\ Tail(queue) \in Seq(Job)
        /\ Among(Tail(queue), queue)
        /\ \A k \in 1..Len(Append(returned, x)) :
              \/ Append(returned, x)[k] = x
              \/ \E i \in 1..Len(returned) : Append(returned, x)[k] = returned[i]
        /\ OnceIn(Append(returned, x), Tail(queue))
        /\ \A b, t : Has(Append(returned, x), Tail(queue), b, t) <=> Has(returned, queue, b, t)
        /\ \A a, b, t : Ahead(returned, queue, a, b, t) =>
              Ahead(Append(returned, x), Tail(queue), a, b, t)
        /\ \A b, t : Queued(queue, b, t) => Queued(Tail(queue), b, t) \/ IsOf(x, b, t)
        /\ \A t : Armed(returned, t) => Armed(Append(returned, x), t)
        /\ \A t : IsOf(x, "wait", t) /\ x.out = "ok" => Armed(Append(returned, x), t)
        /\ \A a, b, t : t # Nobody /\ a # b /\ IsOf(x, a, t) /\ Ahead(returned, queue, a, b, t) =>
              Queued(Tail(queue), b, t)
    <2>1. IsOf(x, queue[1].by, queue[1].leg)
      BY <1>4, <1>6
    <2> QED BY <1>1, <1>2, <1>6, <2>1, Ends, ZenonT(60)
  <1>9. /\ returned' \in Seq(Result) /\ queue' \in Seq(Job) /\ OnceIn(returned', queue')
        /\ \A b, t : Has(returned', queue', b, t) <=> Has(returned, queue, b, t)
        /\ \A a, b, t : Ahead(returned, queue, a, b, t) => Ahead(returned', queue', a, b, t)
        /\ \A b, t : Queued(queue, b, t) => Queued(queue', b, t) \/ IsOf(x, b, t)
        /\ \A t : Armed(returned, t) => Armed(returned', t)
        /\ \A t : IsOf(x, "wait", t) /\ x.out = "ok" => Armed(returned', t)
        /\ \A a, b, t : t # Nobody /\ a # b /\ IsOf(x, a, t) /\ Ahead(returned, queue, a, b, t) =>
              Queued(queue', b, t)
    BY <1>2, <1>7, <1>8
  <1>10. LineOf'
    <2>1. ASSUME NEW k \in 1..Len(returned'), NEW y, y = returned'[k]
          PROVE  Due(y)'
      <3>1. y = x \/ \E i \in 1..Len(returned) : y = returned[i]
        BY <1>7, <1>8, <2>1
      <3>2. Due(x)
        BY <1>4, <1>6 DEF Placed, Due
      <3>3. Due(y)
        BY <1>1, <3>1, <3>2 DEF LineOf
      <3> QED BY <1>2, <3>3 DEF Due
    <2>2. ASSUME NEW k \in 1..Len(queue'), NEW y, y = queue'[k]
          PROVE  Placed(y)'
      <3>1. Placed(y)
        BY <1>1, <1>2, <1>8, <2>2 DEF LineOf, Among
      <3> QED BY <1>2, <3>1 DEF Placed, Due
    <2> QED BY <1>9, <2>1, <2>2 DEF LineOf
  <1>11. ASSUME NEW s \in Legs
         PROVE  BookOf(s)' /\ AwaitedOf(s)' /\ FreshOf(s)' /\ ClosingOf(s)'
    <2>1. BookOf(s) /\ AwaitedOf(s) /\ FreshOf(s) /\ ClosingOf(s)
      BY DEF IInv
    <2>2. BookOf(s)' /\ AwaitedOf(s)' /\ FreshOf(s)'
      BY <1>2, <2>1 DEF BookOf, Listed, AwaitedOf, FreshOf
    <2>3. ClosingOf(s)'
      BY <1>2, <1>9, <2>1 DEF ClosingOf
    <2> QED BY <2>2, <2>3
  <1>12. ASSUME NEW s \in Legs, IsOf(x, "close", s) \/ IsOf(x, "wait", s)
         PROVE  j.leg = s /\ j.call = leg[s].call
    BY <1>4, <1>6, <1>12, NobodyIsNoLeg DEF Placed, Due, IsOf
  <1>13. ASSUME NEW c \in Calls, AudioOwed(c), audio'[c] = audio[c],
                ~(j.cmd = "detach" /\ j.call = c)
         PROVE  AudioOwed(c)'
    <2>1. ASSUME audio[c] # Nobody, leg[audio[c]].close = "audio",
                 IsOf(x, "close", audio[c])
          PROVE  FALSE
      <3>1. audio[c] \in Legs /\ leg[audio[c]].call = c
        BY <1>1, <1>13, <2>1 DEF TypeOK, AudioOwed
      <3>2. j.by = "close" /\ j.leg = audio[c] /\ j.call = c
        BY <1>6, <1>12, <2>1, <3>1 DEF IsOf
      <3>3. j.cmd = "detach"
        BY <1>4, <2>1, <3>2 DEF Placed
      <3> QED BY <1>13, <3>2, <3>3
    <2> QED BY <1>2, <1>9, <1>13, <2>1 DEF AudioOwed
  <1>14. ASSUME NEW c \in Calls, VideoOwed(c), video'[c] = video[c],
                ~(j.cmd = "close_video" /\ j.call = c)
         PROVE  VideoOwed(c)'
    <2>1. ASSUME video[c] # Nobody, leg[video[c]].close = "video",
                 IsOf(x, "close", video[c])
          PROVE  FALSE
      <3>1. video[c] \in Legs /\ leg[video[c]].call = c
        BY <1>1, <1>14, <2>1 DEF TypeOK, VideoOwed
      <3>2. j.by = "close" /\ j.leg = video[c] /\ j.call = c
        BY <1>6, <1>12, <2>1, <3>1 DEF IsOf
      <3>3. j.cmd = "close_video"
        BY <1>4, <2>1, <3>2 DEF Placed
      <3> QED BY <1>14, <3>2, <3>3
    <2>2. ASSUME video[c] # Nobody, leg[video[c]].wait = "undoing",
                 IsOf(x, "wait", video[c])
          PROVE  FALSE
      <3>1. video[c] \in Legs /\ leg[video[c]].call = c
        BY <1>1, <1>14, <2>2 DEF TypeOK, VideoOwed
      <3>2. j.by = "wait" /\ j.leg = video[c] /\ j.call = c
        BY <1>6, <1>12, <2>2, <3>1 DEF IsOf
      <3>3. j.cmd = "close_video"
        BY <1>4, <2>2, <3>2 DEF Placed
      <3> QED BY <1>14, <3>2, <3>3
    <2> QED BY <1>2, <1>9, <1>14, <2>1, <2>2 DEF VideoOwed
  <1>15. \A c \in Calls : AudioOwed(c) /\ VideoOwed(c)
    BY DEF IInv
  <1>16. /\ up' \in SUBSET Calls /\ reports' \in SUBSET Calls
         /\ audio' \in [Calls -> Legs \cup {Nobody}] /\ video' \in [Calls -> Legs \cup {Nobody}]
         /\ \A c \in Calls : AudioOwed(c)' /\ VideoOwed(c)'
    <2>0. /\ up \in SUBSET Calls /\ reports \in SUBSET Calls
          /\ audio \in [Calls -> Legs \cup {Nobody}] /\ video \in [Calls -> Legs \cup {Nobody}]
          /\ j.call \in Calls /\ j.leg \in Legs \cup {Nobody}
      BY <1>1, <1>4 DEF TypeOK, Job
    <2>1. CASE j.cmd = "attach" /\ Attached(j.leg, j.call, out)
      <3>1. UNCHANGED <<up, video, reports>> /\ (audio' = audio \/ audio' = [audio EXCEPT ![j.call] = j.leg])
        BY <2>1 DEF Attached
      <3>2. /\ j.by = "offer" /\ j.leg \in Legs /\ j.call = leg[j.leg].call
            /\ leg[j.leg].offer = "attaching"
        BY <1>4, <2>1 DEF Placed, Due
      <3>3. leg[j.leg].close \in {"no", "video"}
        <4>1. Queued(queue, "offer", j.leg)
          BY <1>4, <3>2 DEF Queued, IsOf
        <4>2. Has(returned, queue, "offer", j.leg)
          BY <1>1, <4>1, QueuedHas
        <4>3. ClosingOf(j.leg)
          BY <3>2 DEF IInv
        <4> QED BY <3>2, <4>2, <4>3 DEF ClosingOf
      <3>4. ASSUME NEW c \in Calls PROVE AudioOwed(c)'
        <4>1. CASE audio'[c] = audio[c]
          BY <1>13, <1>15, <2>1, <4>1
        <4>2. CASE audio'[c] # audio[c]
          <5>1. c = j.call /\ audio'[c] = j.leg
            BY <2>0, <3>1, <4>2
          <5> QED BY <1>2, <3>2, <3>3, <5>1 DEF AudioOwed, Unmade
        <4> QED BY <4>1, <4>2
      <3>5. \A c \in Calls : VideoOwed(c)'
        BY <1>14, <1>15, <2>1, <3>1
      <3> QED BY <2>0, <3>1, <3>4, <3>5
    <2>2. CASE j.cmd = "detach" /\ Detached(j.call)
      <3>1. UNCHANGED <<up, video, reports>> /\ audio' = [audio EXCEPT ![j.call] = Nobody]
        BY <2>2 DEF Detached
      <3>2. ASSUME NEW c \in Calls PROVE AudioOwed(c)'
        <4>1. CASE c = j.call
          BY <2>0, <3>1, <4>1 DEF AudioOwed
        <4>2. CASE c # j.call
          BY <1>13, <1>15, <2>0, <3>1, <4>2
        <4> QED BY <4>1, <4>2
      <3>3. \A c \in Calls : VideoOwed(c)'
        BY <1>14, <1>15, <2>2, <3>1
      <3> QED BY <2>0, <3>1, <3>2, <3>3
    <2>3. CASE j.cmd = "open_video" /\ VideoOpened(j.leg, j.call, out)
      <3>1. /\ UNCHANGED <<up, audio, reports>>
            /\ \/ video' = video
               \/ /\ video' = [video EXCEPT ![j.call] = j.leg] /\ out = "ok"
                  /\ leg[j.leg].pipe = "up"
        BY <2>3 DEF VideoOpened
      <3>2. /\ j.by = "wait" /\ j.leg \in Legs /\ j.call = leg[j.leg].call
            /\ leg[j.leg].offer \notin Unmade /\ leg[j.leg].wait \in {"arming", "none"}
        BY <1>4, <2>3 DEF Placed, Due, DueOf, Unarmed
      <3>3. IsOf(x, "wait", j.leg) /\ j.leg # Nobody
        BY <1>6, <3>2, NobodyIsNoLeg
      <3>4. Has(returned, queue, "wait", j.leg)
        <4>1. Queued(queue, "wait", j.leg)
          BY <1>4, <3>2 DEF Queued, IsOf
        <4> QED BY <1>1, <4>1, QueuedHas
      <3>5. ASSUME NEW c \in Calls PROVE VideoOwed(c)'
        <4>1. CASE video'[c] = video[c]
          BY <1>14, <1>15, <2>3, <4>1
        <4>2. CASE video'[c] # video[c]
          <5>1. c = j.call /\ video'[c] = j.leg /\ out = "ok" /\ leg[j.leg].pipe = "up"
            BY <2>0, <3>1, <4>2
          <5>2. CASE leg[j.leg].wait = "arming"
            <6>1. Armed(returned', j.leg)
              BY <1>6, <1>9, <3>3, <5>1
            <6> QED BY <1>2, <3>2, <5>1, <5>2, <6>1 DEF VideoOwed
          <5>3. CASE leg[j.leg].wait = "none"
            <6>1. leg[j.leg].close = "video" /\ Ahead(returned, queue, "wait", "close", j.leg)
              <7>1. ClosingOf(j.leg)
                BY <3>2 DEF IInv
              <7> QED BY <3>4, <5>1, <5>3, <7>1 DEF ClosingOf
            <6>2. Queued(queue', "close", j.leg)
              BY <1>9, <3>3, <6>1
            <6> QED BY <1>2, <3>2, <5>1, <6>1, <6>2 DEF VideoOwed
          <5> QED BY <3>2, <5>2, <5>3
        <4> QED BY <4>1, <4>2
      <3>6. \A c \in Calls : AudioOwed(c)'
        BY <1>13, <1>15, <2>3, <3>1
      <3> QED BY <2>0, <3>1, <3>5, <3>6
    <2>4. CASE j.cmd = "close_video" /\ VideoClosed(j.call)
      <3>1. UNCHANGED <<up, audio, reports>> /\ video' = [video EXCEPT ![j.call] = Nobody]
        BY <2>4 DEF VideoClosed
      <3>2. ASSUME NEW c \in Calls PROVE VideoOwed(c)'
        <4>1. CASE c = j.call
          BY <2>0, <3>1, <4>1 DEF VideoOwed
        <4>2. CASE c # j.call
          BY <1>14, <1>15, <2>0, <3>1, <4>2
        <4> QED BY <4>1, <4>2
      <3>3. \A c \in Calls : AudioOwed(c)'
        BY <1>13, <1>15, <2>4, <3>1
      <3> QED BY <2>0, <3>1, <3>2, <3>3
    <2>5. CASE j.cmd = "hangup" /\ Over(j.call)
      <3>1. /\ up' \in SUBSET Calls /\ reports' \in SUBSET Calls
            /\ \/ UNCHANGED <<audio, video>>
               \/ /\ audio' = [audio EXCEPT ![j.call] = Nobody]
                  /\ video' = [video EXCEPT ![j.call] = Nobody]
        BY <2>0, <2>5 DEF Over, native
      <3>2. ASSUME NEW c \in Calls PROVE AudioOwed(c)' /\ VideoOwed(c)'
        <4>1. CASE audio'[c] = audio[c] /\ video'[c] = video[c]
          BY <1>13, <1>14, <1>15, <2>5, <4>1
        <4>2. CASE audio'[c] = Nobody /\ video'[c] = Nobody
          BY <4>2 DEF AudioOwed, VideoOwed
        <4>3. (audio'[c] = audio[c] /\ video'[c] = video[c])
              \/ (audio'[c] = Nobody /\ video'[c] = Nobody)
          BY <2>0, <3>1
        <4> QED BY <4>1, <4>2, <4>3
      <3> QED BY <2>0, <3>1, <3>2
    <2> QED BY <1>3, <2>1, <2>2, <2>3, <2>4, <2>5 DEF Runs
  <1>17. TypeOK'
    BY <1>1, <1>2, <1>9, <1>16 DEF TypeOK
  <1> QED BY <1>10, <1>11, <1>16, <1>17 DEF IInv

-----------------------------------------------------------------------------
(* The invariant, and what it says.                                        *)

LEMMA Initially ==
    ASSUME Init
    PROVE  IInv
  <1>1. ASSUME NEW s \in Legs
        PROVE  /\ leg[s] \in Leg /\ leg[s].offer = "none" /\ leg[s].close = "no"
               /\ leg[s].awaited = NoOne /\ leg[s].wait = "none" /\ leg[s].pipe = "none"
    BY DEF Init, Leg, NoOne
  <1>2. TypeOK
    <2>1. leg \in [Legs -> Leg]
      <3>1. leg = [s \in Legs |-> leg[s]]
        BY DEF Init
      <3> QED BY <1>1, <3>1
    <2> QED BY <2>1 DEF Init, TypeOK
  <1>3. /\ Len(returned) = 0 /\ Len(queue) = 0 /\ Len(sessions) = 0
    BY DEF Init
  <1>4. Places(returned, queue) = {}
    BY <1>3 DEF Places
  <1>5. LineOf
    BY <1>3, <1>4 DEF LineOf, OnceIn
  <1>6. ASSUME NEW s \in Legs
        PROVE  BookOf(s) /\ AwaitedOf(s) /\ FreshOf(s) /\ ClosingOf(s)
    <2>1. ~Listed(s) /\ \A b : ~Has(returned, queue, b, s)
      BY <1>3, <1>4 DEF Listed, Has
    <2> QED BY <1>1, <2>1 DEF BookOf, AwaitedOf, FreshOf, ClosingOf, Unmade, Unarmed, NoOne
  <1>7. \A c \in Calls : AudioOwed(c) /\ VideoOwed(c)
    BY DEF Init, AudioOwed, VideoOwed
  <1> QED BY <1>2, <1>5, <1>6, <1>7 DEF IInv

LEMMA Stutters ==
    ASSUME IInv, UNCHANGED vars
    PROVE  IInv'
  <1>1. TypeOK /\ TypeOK' /\ UNCHANGED <<audio, video, sessions, leg, returned, queue>>
    BY DEF IInv, vars, TypeOK
  <1>2. LineOf' /\ Moves(returned, queue, returned', queue', Nobody, {}, {})
    BY <1>1, LineStays
  <1> QED BY <1>1, <1>2, NoLeg

LEMMA Steps ==
    ASSUME IInv, [Next]_vars
    PROVE  IInv'
  <1>1. CASE Worker
    BY <1>1, RunsStep DEF Worker
  <1>2. CASE Resumes
    <2>1. ASSUME NEW s \in Legs,
                 \/ VideoReturned(s) \/ AudioReturned(s) \/ UndoReturned(s)
                 \/ StaleReturned(s) \/ PictureLost(s) \/ Discards(s)
          PROVE  IInv'
      BY <2>1, VideoReturnedStep, AudioReturnedStep, UndoReturnedStep, StaleReturnedStep,
         PictureLostStep, DiscardsStep
    <2>2. ASSUME NEW s \in Legs, NEW out \in Outcomes,
                 AttachReturned(s, out) \/ ArmReturned(s, out)
          PROVE  IInv'
      BY <2>2, AttachReturnedStep, ArmReturnedStep
    <2>3. ASSUME NEW c \in Calls, NEW by \in {"user", "reap"}, HangupReturned(c, by)
          PROVE  IInv'
      BY <2>3, HangupReturnedStep
    <2> QED BY <1>2, <2>1, <2>2, <2>3 DEF Resumes
  <1>3. ASSUME NEW s \in Legs, Awaits(s)
        PROVE  IInv'
    BY <1>3, NegotiatedStep, UnwatchedStep, PipelineStoppedStep, PeerClosedStep DEF Awaits
  <1>4. ASSUME NEW s \in Legs, Asks(s) \/ Stalls(s) \/ Drops(s)
        PROVE  IInv'
    BY <1>4, AsksStep, StallsStep, DropsStep
  <1>5. ASSUME NEW s \in Legs, NEW c \in Calls, Offers(s, c)
        PROVE  IInv'
    BY <1>5, OfferSteps
  <1>6. ASSUME NEW c \in Calls, Call(c) \/ FarEnds(c) \/ HangsUp(c)
        PROVE  IInv'
    BY <1>6, CallEndedStep, GraceEndsStep, FarEndsStep, HangsUpStep DEF Call
  <1>7. CASE Rests \/ UNCHANGED vars
    BY <1>7, Stutters DEF Rests
  <1> QED BY <1>1, <1>2, <1>3, <1>4, <1>5, <1>6, <1>7 DEF Next

\* A tap that is in has a leg, and the leg is in the book unless something of it is still
\* under way on its call.
LEMMA TapOwed ==
    ASSUME IInv
    PROVE  NoTapLeft
  <1> SUFFICES ASSUME NEW c \in Calls, NoneFor(c),
                      \A i \in 1..Len(queue) : queue[i].call # c,
                      \A i \in 1..Len(returned) : returned[i].call # c
               PROVE  /\ audio[c] = Nobody
                      /\ video[c] = Nobody \/ leg[video[c]].wait = "slipped"
    BY DEF NoTapLeft
  <1>1. /\ TypeOK /\ LineOf /\ returned \in Seq(Result) /\ queue \in Seq(Job)
        /\ audio[c] \in Legs \cup {Nobody} /\ video[c] \in Legs \cup {Nobody}
        /\ AudioOwed(c) /\ VideoOwed(c)
    BY Unjoined DEF IInv, TypeOK
  <1>2. ASSUME NEW s \in Legs, leg[s].call = c, leg[s].offer \notin Unmade
        PROVE  leg[s].close = "done"
    <2>1. ASSUME leg[s].close # "done"
          PROVE  FALSE
      <3>1. BookOf(s)
        BY DEF IInv
      <3>2. PICK i \in 1..Len(sessions) : sessions[i] = s
        BY <1>2, <2>1, <3>1 DEF BookOf, Listed
      <3> QED BY <1>2, <3>2 DEF NoneFor, On
    <2> QED BY <2>1
  <1>3. ASSUME NEW s \in Legs, leg[s].call = c
        PROVE  /\ ~Queued(queue, "close", s) /\ ~Queued(queue, "wait", s)
               /\ ~Armed(returned, s)
    <2>1. ASSUME NEW k \in 1..Len(queue), NEW b \in {"close", "wait"}, IsOf(queue[k], b, s)
          PROVE  FALSE
      BY <1>1, <1>3, <2>1, NobodyIsNoLeg DEF LineOf, Placed, Due, IsOf
    <2>2. ASSUME NEW k \in 1..Len(returned), IsOf(returned[k], "wait", s)
          PROVE  FALSE
      BY <1>1, <1>3, <2>2, NobodyIsNoLeg DEF LineOf, Due, IsOf
    <2> QED BY <2>1, <2>2 DEF Queued, Armed
  <1>4. audio[c] = Nobody
    <2>1. ASSUME NEW s \in Legs, audio[c] = s
          PROVE  FALSE
      BY <1>1, <1>2, <2>1, NobodyIsNoLeg DEF AudioOwed
    <2> QED BY <1>1, <2>1
  <1>5. video[c] = Nobody \/ leg[video[c]].wait = "slipped"
    <2>1. ASSUME NEW s \in Legs, video[c] = s, leg[s].wait # "slipped"
          PROVE  FALSE
      BY <1>1, <1>2, <1>3, <2>1, NobodyIsNoLeg DEF VideoOwed
    <2> QED BY <1>1, <2>1
  <1> QED BY <1>4, <1>5

-----------------------------------------------------------------------------
(* Who waits.  Of the line only its tags matter: whose job or result it    *)
(* is, of which leg and on which call.                                     *)

Tag(x)   == <<x.by, x.leg, x.call>>
Tags(q)  == {Tag(q[k]) : k \in 1..Len(q)}
UnderWay == Tags(returned) \cup Tags(queue)
In(U, by, s) == \E c \in Calls : <<by, s, c>> \in U

LegWaits(l, U, s) ==
    /\ l.offer \in {"attaching", "undoing"} => In(U, "offer", s)
    /\ l.close \in {"video", "audio"} => In(U, "close", s)
    /\ l.wait \in {"arming", "undoing"} => In(U, "wait", s)
    /\ l.pipe = "killed" /\ l.close # "unwatching" => In(U, "watchdog", s)

UserWaits(h, l, U, c) ==
    /\ h = "closing" =>
          \E s \in Legs : l[s].call = c /\ Tearing(l, s, [by |-> "user", leg |-> Nobody])
    /\ h = "native" => <<"user", Nobody, c>> \in U

Waits(l, U, h) ==
    /\ \A s \in Legs : LegWaits(l[s], U, s) /\ OfferWaits(l, s)
    /\ \A c \in Calls : UserWaits(h[c], l, U, c)

\* What the invariant asks of the line, asked of its tags.
Told(r, q, U) ==
    /\ \A b, s : Has(r, q, b, s) <=> In(U, b, s)
    /\ \A c : <<"user", Nobody, c>> \in U <=>
          \E k \in Places(r, q) :
             IsOf(Item(r, q, k), "user", Nobody) /\ Item(r, q, k).call = c

LEMMA TagsHave ==
    ASSUME NEW r \in Seq(Result), NEW q \in Seq(Job)
    PROVE  Told(r, q, Tags(r) \cup Tags(q))
  <1>0. PICK U : U = Tags(r) \cup Tags(q)
    OBVIOUS
  <1>1. /\ \A k \in 1..Len(r) : k \in Places(r, q) /\ Item(r, q, k) = r[k] /\ r[k].call \in Calls
        /\ \A k \in 1..Len(q) : /\ Len(r) + k \in Places(r, q) /\ q[k].call \in Calls
                                /\ Item(r, q, Len(r) + k) = q[k]
        /\ \A k \in Places(r, q) :
              \/ k \in 1..Len(r) /\ Item(r, q, k) = r[k]
              \/ k - Len(r) \in 1..Len(q) /\ Item(r, q, k) = q[k - Len(r)]
    <2>1. /\ \A k \in 1..Len(r) : r[k] \in Result
          /\ \A k \in 1..Len(q) : q[k] \in Job
      OBVIOUS
    <2>2. (\A x \in Result : x.call \in Calls) /\ (\A x \in Job : x.call \in Calls)
      BY DEF Result, Job
    <2> QED BY <2>1, <2>2, Places_
  <1>2. ASSUME NEW k \in Places(r, q)
        PROVE  Tag(Item(r, q, k)) \in U /\ Item(r, q, k).call \in Calls
    BY <1>0, <1>1 DEF Tags
  <1>3. ASSUME NEW x \in U
        PROVE  \E k \in Places(r, q) : x = Tag(Item(r, q, k))
    BY <1>0, <1>1 DEF Tags
  <1>4. ASSUME NEW b, NEW s, NEW c
        PROVE  <<b, s, c>> \in U <=>
                  \E k \in Places(r, q) : IsOf(Item(r, q, k), b, s) /\ Item(r, q, k).call = c
    BY <1>2, <1>3 DEF Tag, IsOf
  <1>5. ASSUME NEW b, NEW s
        PROVE  Has(r, q, b, s) <=> In(U, b, s)
    BY <1>2, <1>4 DEF Has, In
  <1> QED BY <1>0, <1>4, <1>5 DEF Told

LEMMA TagsAppended ==
    ASSUME NEW S, NEW q \in Seq(S), NEW j \in S
    PROVE  Tags(Append(q, j)) = Tags(q) \cup {Tag(j)}
  <1>1. PICK u : u = Append(q, j)
    OBVIOUS
  <1>2. /\ Len(u) = Len(q) + 1 /\ Len(q) \in Nat
        /\ \A i \in 1..Len(q) : u[i] = q[i] /\ i \in 1..Len(u)
        /\ u[Len(q) + 1] = j /\ Len(q) + 1 \in 1..Len(u)
        /\ \A i \in 1..Len(u) : i \in 1..Len(q) \/ i = Len(q) + 1
    BY <1>1
  <1>3. \A x : x \in Tags(u) <=> x \in Tags(q) \/ x = Tag(j)
    BY <1>2 DEF Tags
  <1> QED BY <1>1, <1>3

LEMMA TagsTailed ==
    ASSUME NEW S, NEW q \in Seq(S), q # <<>>
    PROVE  Tags(q) = Tags(Tail(q)) \cup {Tag(Head(q))}
  <1>1. PICK u : u = Tail(q)
    OBVIOUS
  <1>2. /\ Head(q) = q[1] /\ 1 \in 1..Len(q) /\ Len(q) \in Nat
        /\ \A i \in 1..Len(u) : u[i] = q[i + 1] /\ i + 1 \in 1..Len(q)
        /\ \A i \in 1..Len(q) : i = 1 \/ (i - 1 \in 1..Len(u) /\ (i - 1) + 1 = i)
    BY <1>1, Tailed
  <1>3. \A x : x \in Tags(q) <=> x \in Tags(u) \/ x = Tag(q[1])
    <2>1. ASSUME NEW i \in 1..Len(q), i # 1
          PROVE  i - 1 \in 1..Len(u) /\ u[i - 1] = q[i]
      BY <1>2, <2>1
    <2>2. ASSUME NEW i \in 1..Len(q)
          PROVE  Tag(q[i]) \in Tags(u) \/ Tag(q[i]) = Tag(q[1])
      BY <2>1 DEF Tags
    <2>3. ASSUME NEW i \in 1..Len(u)
          PROVE  Tag(u[i]) \in Tags(q)
      BY <1>2 DEF Tags
    <2>4. Tag(q[1]) \in Tags(q)
      BY <1>2 DEF Tags
    <2>5. \A x \in Tags(q) : x \in Tags(u) \/ x = Tag(q[1])
      BY <2>2 DEF Tags
    <2>6. \A x \in Tags(u) : x \in Tags(q)
      BY <2>3 DEF Tags
    <2> QED BY <2>4, <2>5, <2>6
  <1> QED BY <1>1, <1>2, <1>3

\* What a cancel takes off the queue is of the task that is cancelled.
LEMMA TagsKept ==
    ASSUME queue \in Seq(Job), NEW b, NEW s
    PROVE  /\ Kept(b, s) \in Seq(Job)
           /\ \A x \in Tags(queue) : x \in Tags(Kept(b, s)) \/ \E c \in Calls : x = <<b, s, c>>
  <1>1. PICK at : at = {i \in 2..Len(queue) : queue[i].by = b /\ queue[i].leg = s}
    OBVIOUS
  <1>2. PICK u : u = Without(queue, at)
    OBVIOUS
  <1>3. Kept(b, s) = u /\ at \subseteq 1..Len(queue)
    BY <1>1, <1>2 DEF Kept
  <1>4. \A i \in at : Tag(queue[i]) = <<b, s, queue[i].call>> /\ queue[i].call \in Calls
    <2>1. \A i \in at : queue[i] \in Job /\ queue[i].by = b /\ queue[i].leg = s
      BY <1>1, <1>3
    <2> QED BY <2>1 DEF Tag, Job
  <1>5. /\ u \in Seq(Job) /\ Len(queue) \in Nat
        /\ at = {} => u = queue
        /\ at # {} => \E m \in at :
              /\ m \in 1..Len(queue) /\ Len(u) = Len(queue) - 1
              /\ \A k \in 1..Len(u) :
                    /\ k \in 1..Len(queue) /\ k + 1 \in 1..Len(queue)
                    /\ u[k] = IF k < m THEN queue[k] ELSE queue[k + 1]
    <2>1. at \subseteq 1..Len(queue)
      BY <1>3
    <2>2. /\ Without(queue, at) \in Seq(Job) /\ Len(queue) \in Nat
          /\ at = {} => Without(queue, at) = queue
          /\ at # {} => \E m \in at :
                /\ m \in 1..Len(queue)
                /\ Len(Without(queue, at)) = Len(queue) - 1
                /\ \A k \in 1..Len(Without(queue, at)) :
                      /\ k \in 1..Len(queue) /\ k + 1 \in 1..Len(queue)
                      /\ Without(queue, at)[k] = IF k < m THEN queue[k] ELSE queue[k + 1]
      BY ONLY queue \in Seq(Job), <2>1, Removed, ZenonT(60)
    <2> QED BY ONLY <1>2, <2>2, ZenonT(30)
  <1>6. ASSUME at # {}, NEW i \in 1..Len(queue), i \notin at
        PROVE  \E k \in 1..Len(u) : u[k] = queue[i]
    <2>1. PICK m \in at :
              /\ m \in 1..Len(queue) /\ Len(u) = Len(queue) - 1
              /\ \A k \in 1..Len(u) :
                    /\ k \in 1..Len(queue) /\ k + 1 \in 1..Len(queue)
                    /\ u[k] = IF k < m THEN queue[k] ELSE queue[k + 1]
      BY <1>5, <1>6
    <2>2. CASE i < m
      BY <1>5, <2>1, <2>2
    <2>3. CASE i > m
      <3>1. i - 1 \in 1..Len(u) /\ ~(i - 1 < m) /\ (i - 1) + 1 = i
        BY <1>5, <2>1, <2>3
      <3>2. u[i - 1] = queue[(i - 1) + 1]
        BY <2>1, <3>1
      <3> QED BY <3>1, <3>2
    <2> QED BY <1>1, <1>6, <2>1, <2>2, <2>3
  <1>7. \A x \in Tags(queue) : x \in Tags(u) \/ \E c \in Calls : x = <<b, s, c>>
    BY <1>4, <1>5, <1>6 DEF Tags
  <1> QED BY <1>3, <1>5, <1>7

LEMMA NoneWaits ==
    ASSUME TypeOK
    PROVE  NoneStranded <=> Waits(leg, UnderWay, hanging)
  <1>1. /\ \A b, s : Has(returned, queue, b, s) <=> In(UnderWay, b, s)
        /\ \A c : <<"user", Nobody, c>> \in UnderWay <=>
              \E k \in Places(returned, queue) :
                 IsOf(Item(returned, queue, k), "user", Nobody) /\ Item(returned, queue, k).call = c
    <2>1. Told(returned, queue, UnderWay)
      BY TagsHave DEF TypeOK, UnderWay
    <2> QED BY <2>1 DEF Told
  <1>2. \A s : AnsweredOf(s) <=> LegWaits(leg[s], UnderWay, s)
    BY <1>1 DEF AnsweredOf, LegWaits
  <1>3. \A c : HangupWaits(c) <=> UserWaits(hanging[c], leg, UnderWay, c)
    BY <1>1 DEF HangupWaits, UserWaits
  <1> QED BY <1>2, <1>3 DEF NoneStranded, Waits

\* The legs `S` and the hangups of `C` move, and the teardown of `d` ends, if it is a leg.
Moving(l, m, U, V, h, i, S, C, d) ==
    /\ S \subseteq Legs /\ \A t \in Legs \ S : m[t] = l[t]
    /\ \A b, t, c : <<b, t, c>> \in U =>
          <<b, t, c>> \in V \/ t \in S \/ (t = Nobody /\ c \in C)
    /\ \A t \in Legs : l[t].close \notin {"no", "done"} =>
          \/ t = d
          \/ /\ m[t].close \notin {"no", "done"}
             /\ m[t].awaited = l[t].awaited /\ m[t].call = l[t].call
    /\ \A t \in S : LegWaits(m[t], V, t) /\ OfferWaits(m, t)
    /\ \A p \in Legs : d \in Legs /\ l[d].awaited = [by |-> "offer", leg |-> p] => p \in S
    /\ \A c \in Calls \ C : i[c] = h[c]
    /\ \A c \in Calls \cap C : UserWaits(i[c], m, V, c)
    /\ (d \in Legs /\ l[d].awaited = [by |-> "user", leg |-> Nobody]) => l[d].call \in C

\* Whoever else waits, still does for what is under way.
LEMMA WaitsKept ==
    ASSUME NEW l, NEW m, NEW U, NEW V, NEW h, NEW i, NEW S, NEW C, NEW d,
           Waits(l, U, h), Moving(l, m, U, V, h, i, S, C, d)
    PROVE  Waits(m, V, i)
  <1>0. /\ S \subseteq Legs /\ \A t \in Legs \ S : m[t] = l[t]
        /\ \A b, t, c : <<b, t, c>> \in U =>
              <<b, t, c>> \in V \/ t \in S \/ (t = Nobody /\ c \in C)
        /\ \A t \in Legs : l[t].close \notin {"no", "done"} =>
              \/ t = d
              \/ /\ m[t].close \notin {"no", "done"}
                 /\ m[t].awaited = l[t].awaited /\ m[t].call = l[t].call
        /\ \A t \in S : LegWaits(m[t], V, t) /\ OfferWaits(m, t)
        /\ \A p \in Legs : d \in Legs /\ l[d].awaited = [by |-> "offer", leg |-> p] => p \in S
        /\ \A c \in Calls \ C : i[c] = h[c]
        /\ \A c \in Calls \cap C : UserWaits(i[c], m, V, c)
        /\ (d \in Legs /\ l[d].awaited = [by |-> "user", leg |-> Nobody]) => l[d].call \in C
    BY DEF Moving
  <1>1. ASSUME NEW t \in Legs, NEW who, Tearing(l, t, who), t # d
        PROVE  Tearing(m, t, who) /\ m[t].call = l[t].call
    BY <1>0, <1>1 DEF Tearing
  <1>2. ASSUME NEW t \in Legs \ S
        PROVE  LegWaits(m[t], V, t) /\ OfferWaits(m, t)
    <2>1. m[t] = l[t] /\ LegWaits(l[t], U, t) /\ OfferWaits(l, t)
      BY <1>0 DEF Waits
    <2>2. \A b : In(U, b, t) => In(V, b, t)
      BY <1>0, NobodyIsNoLeg DEF In
    <2>3. LegWaits(m[t], V, t)
      BY <2>1, <2>2 DEF LegWaits
    <2>4. \A u \in Legs : Tearing(l, u, [by |-> "offer", leg |-> t]) =>
             Tearing(m, u, [by |-> "offer", leg |-> t])
      BY <1>0, <1>1 DEF Tearing
    <2> QED BY <2>1, <2>3, <2>4 DEF OfferWaits
  <1>3. ASSUME NEW c \in Calls \ C
        PROVE  UserWaits(i[c], m, V, c)
    <2>1. i[c] = h[c] /\ UserWaits(h[c], l, U, c)
      BY <1>0 DEF Waits
    <2>2. <<"user", Nobody, c>> \in U => <<"user", Nobody, c>> \in V
      BY <1>0, NobodyIsNoLeg
    <2>3. ASSUME NEW u \in Legs, l[u].call = c, Tearing(l, u, [by |-> "user", leg |-> Nobody])
          PROVE  m[u].call = c /\ Tearing(m, u, [by |-> "user", leg |-> Nobody])
      BY <1>0, <1>1, <2>3 DEF Tearing
    <2> QED BY <2>1, <2>2, <2>3 DEF UserWaits
  <1> QED BY <1>0, <1>2, <1>3 DEF Waits

\* Of the tags `U` only those of the tasks `gone` of `s` may be missing in `V`.
Lose(U, V, s, gone) ==
    \A b, t, c : <<b, t, c>> \in U => <<b, t, c>> \in V \/ (t = s /\ b \in gone)

\* From `l` to `k`, the leg `s` awaits nothing more than what is new, or was there and is not
\* gone, and a teardown under way goes on.
Goes(s, l, k, gone, new) ==
    /\ l.close \notin {"no", "done"} =>
          k.close \notin {"no", "done"} /\ k.awaited = l.awaited /\ k.call = l.call
    /\ \/ k.offer \notin {"replacing", "failing"}
       \/ k.offer = l.offer
       \/ /\ k.offer = "failing" /\ k.close \notin {"no", "done"}
          /\ k.awaited = [by |-> "offer", leg |-> s]
    /\ k.offer \in {"attaching", "undoing"} =>
          "offer" \in new \/ ("offer" \notin gone /\ l.offer \in {"attaching", "undoing"})
    /\ k.close \in {"video", "audio"} =>
          "close" \in new \/ ("close" \notin gone /\ l.close \in {"video", "audio"})
    /\ k.wait \in {"arming", "undoing"} =>
          "wait" \in new \/ ("wait" \notin gone /\ l.wait \in {"arming", "undoing"})
    /\ k.pipe = "killed" /\ k.close # "unwatching" =>
          \/ "watchdog" \in new
          \/ "watchdog" \notin gone /\ l.pipe = "killed" /\ l.close # "unwatching"

\* A step of one leg, in which hangups stay where they are.
LEMMA LegGoesOn ==
    ASSUME Waits(leg, UnderWay, hanging), UNCHANGED hanging,
           NEW s \in Legs, \A t \in Legs : t # s => leg'[t] = leg[t],
           NEW gone, NEW new, Lose(UnderWay, UnderWay', s, gone), \A b \in new : In(UnderWay', b, s),
           Goes(s, leg[s], leg'[s], gone, new)
    PROVE  Waits(leg', UnderWay', hanging')
  <1>1. LegWaits(leg[s], UnderWay, s) /\ OfferWaits(leg, s)
    BY DEF Waits
  <1>2. \A b : In(UnderWay, b, s) /\ b \notin gone => In(UnderWay', b, s)
    BY DEF Lose, In
  <1>3. LegWaits(leg'[s], UnderWay', s)
    BY <1>1, <1>2 DEF LegWaits, Goes
  <1>4. ASSUME NEW t \in Legs, NEW who, Tearing(leg, t, who)
        PROVE  Tearing(leg', t, who)
    BY <1>4 DEF Tearing, Goes
  <1>5. OfferWaits(leg', s)
    <2>1. CASE leg'[s].offer \notin {"replacing", "failing"}
      BY <2>1 DEF OfferWaits
    <2>2. CASE leg'[s].offer = leg[s].offer
      BY <1>1, <1>4, <2>2 DEF OfferWaits
    <2>3. CASE /\ leg'[s].offer = "failing" /\ leg'[s].close \notin {"no", "done"}
               /\ leg'[s].awaited = [by |-> "offer", leg |-> s]
      BY <2>3 DEF OfferWaits, Tearing
    <2> QED BY <2>1, <2>2, <2>3 DEF Goes
  <1>6. ASSUME NEW t \in Legs, leg[t].close \notin {"no", "done"}
        PROVE  /\ leg'[t].close \notin {"no", "done"}
               /\ leg'[t].awaited = leg[t].awaited /\ leg'[t].call = leg[t].call
    BY <1>6 DEF Goes
  <1>7. Moving(leg, leg', UnderWay, UnderWay', hanging, hanging', {s}, {}, Nobody)
    BY <1>3, <1>5, <1>6, NobodyIsNoLeg DEF Moving, Lose
  <1> QED BY <1>7, WaitsKept

\* What a step takes off the line and puts on it.
LEMMA Loses ==
    ASSUME NEW s, NEW g, NEW h,
           Lose(Tags(returned), Tags(returned'), s, g), Lose(Tags(queue), Tags(queue'), s, h)
    PROVE  Lose(UnderWay, UnderWay', s, g \cup h)
  BY DEF Lose, UnderWay

LEMMA LosesNone == \A U, s : Lose(U, U, s, {})
  BY DEF Lose

LEMMA ReadLoses ==
    ASSUME TypeOK, NEW b, NEW s, NEW out, Continues(b, s, out)
    PROVE  Lose(Tags(returned), Tags(returned'), s, {b})
  <1>1. returned \in Seq(Result) /\ returned # <<>> /\ returned' = Tail(returned)
    BY DEF TypeOK, Continues
  <1>2. Tags(returned) = Tags(returned') \cup {Tag(Head(returned))}
    BY <1>1, TagsTailed
  <1>3. Tag(Head(returned)) = <<b, s, Head(returned).call>>
    BY DEF Continues, Tag
  <1> QED BY <1>2, <1>3 DEF Lose

LEMMA AddLoses ==
    ASSUME TypeOK, NEW b \in Owners, NEW s \in Legs \cup {Nobody}, NEW c \in Calls,
           NEW cmd \in {"attach", "detach", "open_video", "close_video", "hangup"},
           NEW q \in Seq(Job), queue' = Append(q, Task(b, s, c, cmd))
    PROVE  Tags(queue') = Tags(q) \cup {<<b, s, c>>} /\ In(UnderWay', b, s)
  <1>1. Task(b, s, c, cmd) \in Job /\ Tag(Task(b, s, c, cmd)) = <<b, s, c>>
    BY DEF Task, Job, Tag
  <1>2. Tags(queue') = Tags(q) \cup {<<b, s, c>>}
    BY <1>1, TagsAppended
  <1> QED BY <1>2 DEF In, UnderWay

LEMMA SubmitLoses ==
    ASSUME TypeOK, NEW b \in Owners, NEW s \in Legs \cup {Nobody}, NEW c \in Calls,
           NEW cmd \in {"attach", "detach", "open_video", "close_video", "hangup"},
           Submits(Task(b, s, c, cmd))
    PROVE  /\ Lose(Tags(queue), Tags(queue'), s, {}) /\ In(UnderWay', b, s)
           /\ <<b, s, c>> \in UnderWay'
  <1>1. queue \in Seq(Job) /\ queue' = Append(queue, Task(b, s, c, cmd))
    BY DEF TypeOK, Submits
  <1>2. Tags(queue') = Tags(queue) \cup {<<b, s, c>>} /\ In(UnderWay', b, s)
    BY <1>1, AddLoses
  <1> QED BY <1>2 DEF Lose, UnderWay

LEMMA KeptLoses ==
    ASSUME TypeOK, NEW b, NEW s
    PROVE  Kept(b, s) \in Seq(Job) /\ Lose(Tags(queue), Tags(Kept(b, s)), s, {b})
  <1>1. queue \in Seq(Job)
    BY DEF TypeOK
  <1>2. /\ Kept(b, s) \in Seq(Job)
        /\ \A x \in Tags(queue) : x \in Tags(Kept(b, s)) \/ \E c \in Calls : x = <<b, s, c>>
    BY <1>1, TagsKept
  <1> QED BY <1>2 DEF Lose

\* A cancel, and what is asked for after it.
LEMMA KeptAddLoses ==
    ASSUME TypeOK, NEW a, NEW b \in Owners, NEW s \in Legs, NEW c \in Calls,
           NEW cmd \in {"attach", "detach", "open_video", "close_video", "hangup"},
           queue' = Append(Kept(a, s), Task(b, s, c, cmd))
    PROVE  Lose(Tags(queue), Tags(queue'), s, {a}) /\ In(UnderWay', b, s)
  <1>1. Kept(a, s) \in Seq(Job) /\ Lose(Tags(queue), Tags(Kept(a, s)), s, {a})
    BY KeptLoses
  <1>2. Tags(queue') = Tags(Kept(a, s)) \cup {<<b, s, c>>} /\ In(UnderWay', b, s)
    BY <1>1, AddLoses
  <1> QED BY <1>1, <1>2 DEF Lose

\* A teardown begins, of a leg in which an offer may fail.
LEMMA ClosesLoses ==
    ASSUME TypeOK, NEW s \in Legs, NEW l \in [Legs -> Leg], NEW by, NEW waiter,
           Closes(l, s, by, waiter), NEW g, Lose(Tags(returned), Tags(returned'), s, g)
    PROVE  /\ Lose(UnderWay, UnderWay', s, g \cup {"wait"}) /\ In(UnderWay', "close", s)
           /\ \A t \in Legs : t # s => leg'[t] = l[t]
           /\ leg'[s].call = l[s].call /\ leg'[s].offer = l[s].offer /\ leg'[s].close = "video"
           /\ leg'[s].awaited = [by |-> by, leg |-> waiter]
           /\ leg'[s].wait = "none" /\ leg'[s].pipe = l[s].pipe
  <1>1. /\ leg' = [l EXCEPT ![s].close = "video", ![s].wait = "none",
                            ![s].awaited = [by |-> by, leg |-> waiter]]
        /\ queue' = Append(Kept("wait", s), Task("close", s, l[s].call, "close_video"))
    BY DEF Closes
  <1>2. "close" \in Owners /\ l[s].call \in Calls /\ l[s] \in Leg
    BY LegType DEF Owners
  <1>3. Lose(Tags(queue), Tags(queue'), s, {"wait"}) /\ In(UnderWay', "close", s)
    BY <1>1, <1>2, KeptAddLoses
  <1>4. leg'[s] = [call |-> l[s].call, offer |-> l[s].offer, close |-> "video",
                   awaited |-> [by |-> by, leg |-> waiter], wait |-> "none", pipe |-> l[s].pipe]
    BY <1>1, <1>2 DEF Leg
  <1>5. \A t \in Legs : t # s => leg'[t] = l[t]
    BY <1>1
  <1> QED BY <1>3, <1>4, <1>5, Loses

LEMMA ClosesWaits ==
    ASSUME IInv, Waits(leg, UnderWay, hanging), NEW s \in Legs, leg[s].close = "no",
           NEW by, Closes(leg, s, by, Nobody), UNCHANGED <<returned, hanging>>
    PROVE  Waits(leg', UnderWay', hanging')
  <1>1. TypeOK /\ leg \in [Legs -> Leg]
    BY Attending
  <1>2. Lose(Tags(returned), Tags(returned'), s, {})
    BY LosesNone
  <1>3. /\ Lose(UnderWay, UnderWay', s, {} \cup {"wait"}) /\ In(UnderWay', "close", s)
        /\ \A t \in Legs : t # s => leg'[t] = leg[t]
        /\ leg'[s].call = leg[s].call /\ leg'[s].offer = leg[s].offer /\ leg'[s].close = "video"
        /\ leg'[s].awaited = [by |-> by, leg |-> Nobody]
        /\ leg'[s].wait = "none" /\ leg'[s].pipe = leg[s].pipe
    BY <1>1, <1>2, ClosesLoses
  <1>4. Goes(s, leg[s], leg'[s], {} \cup {"wait"}, {"close"})
    BY <1>3 DEF Goes
  <1>5. \A b \in {"close"} : In(UnderWay', b, s)
    BY <1>3
  <1> QED BY <1>3, <1>4, <1>5, LegGoesOn

LEMMA FailsWaits ==
    ASSUME IInv, Waits(leg, UnderWay, hanging), NEW s \in Legs, Fails(leg, s),
           NEW g, g \subseteq {"offer"}, Lose(Tags(returned), Tags(returned'), s, g),
           UNCHANGED hanging
    PROVE  Waits(leg', UnderWay', hanging')
  <1>1. TypeOK /\ leg \in [Legs -> Leg] /\ leg[s] \in Leg
    BY Attending
  <1>2. CASE leg[s].close = "no" /\ Closes([leg EXCEPT ![s].offer = "failing"], s, "offer", s)
    <2>1. PICK l : l = [leg EXCEPT ![s].offer = "failing"]
      OBVIOUS
    <2>2. /\ l \in [Legs -> Leg] /\ \A t \in Legs : t # s => l[t] = leg[t]
          /\ l[s] = [call |-> leg[s].call, offer |-> "failing", close |-> leg[s].close,
                     awaited |-> leg[s].awaited, wait |-> leg[s].wait, pipe |-> leg[s].pipe]
      BY <1>1, <2>1 DEF Leg
    <2>3. Closes(l, s, "offer", s)
      BY <1>2, <2>1
    <2>4. /\ Lose(UnderWay, UnderWay', s, g \cup {"wait"}) /\ In(UnderWay', "close", s)
          /\ \A t \in Legs : t # s => leg'[t] = l[t]
          /\ leg'[s].call = l[s].call /\ leg'[s].offer = l[s].offer /\ leg'[s].close = "video"
          /\ leg'[s].awaited = [by |-> "offer", leg |-> s]
          /\ leg'[s].wait = "none" /\ leg'[s].pipe = l[s].pipe
      BY <1>1, <2>2, <2>3, ClosesLoses
    <2>5. leg'[s].offer = "failing" /\ leg'[s].pipe = leg[s].pipe
      BY <2>2, <2>4
    <2>6. Goes(s, leg[s], leg'[s], g \cup {"wait"}, {"close"})
      BY <1>2, <2>4, <2>5 DEF Goes
    <2>7. \A b \in {"close"} : In(UnderWay', b, s)
      BY <2>4
    <2>8. \A t \in Legs : t # s => leg'[t] = leg[t]
      BY <2>2, <2>4
    <2> QED BY <2>4, <2>6, <2>7, <2>8, LegGoesOn
  <1>3. CASE leg' = [leg EXCEPT ![s].offer = "ended"] /\ UNCHANGED queue
    <2>1. /\ \A t \in Legs : t # s => leg'[t] = leg[t]
          /\ leg'[s] = [call |-> leg[s].call, offer |-> "ended", close |-> leg[s].close,
                        awaited |-> leg[s].awaited, wait |-> leg[s].wait, pipe |-> leg[s].pipe]
      BY <1>1, <1>3 DEF Leg
    <2>2. Lose(UnderWay, UnderWay', s, g \cup {})
      BY <1>3, LosesNone, Loses
    <2>3. Goes(s, leg[s], leg'[s], g \cup {}, {})
      BY <2>1 DEF Goes
    <2> QED BY <2>1, <2>2, <2>3, LegGoesOn
  <1> QED BY <1>2, <1>3 DEF Fails

\* One leg moves: it reads what it has been handed, cancels, or asks for more.
LEMMA ReadsLose ==
    ASSUME TypeOK, NEW b, NEW s, NEW out, Continues(b, s, out), UNCHANGED queue
    PROVE  Lose(UnderWay, UnderWay', s, {b} \cup {})
  BY ReadLoses, LosesNone, Loses

LEMMA ReadsSubmitsLose ==
    ASSUME TypeOK, NEW b, NEW s \in Legs, NEW out, Continues(b, s, out),
           NEW a \in Owners, NEW c \in Calls,
           NEW cmd \in {"attach", "detach", "open_video", "close_video", "hangup"},
           Submits(Task(a, s, c, cmd))
    PROVE  /\ Lose(UnderWay, UnderWay', s, {b} \cup {})
           /\ \A x \in {a} : In(UnderWay', x, s)
  <1>1. Lose(Tags(queue), Tags(queue'), s, {}) /\ In(UnderWay', a, s)
    BY SubmitLoses
  <1> QED BY <1>1, ReadLoses, Loses

LEMMA SubmitsLose ==
    ASSUME TypeOK, NEW s \in Legs, UNCHANGED returned, NEW a \in Owners, NEW c \in Calls,
           NEW cmd \in {"attach", "detach", "open_video", "close_video", "hangup"},
           Submits(Task(a, s, c, cmd))
    PROVE  /\ Lose(UnderWay, UnderWay', s, {} \cup {})
           /\ \A x \in {a} : In(UnderWay', x, s)
  <1>1. Lose(Tags(queue), Tags(queue'), s, {}) /\ In(UnderWay', a, s)
    BY SubmitLoses
  <1>2. Lose(Tags(returned), Tags(returned'), s, {})
    BY LosesNone
  <1> QED BY <1>1, <1>2, Loses

LEMMA TeardownWaits ==
    ASSUME IInv, Waits(leg, UnderWay, hanging), NEW s \in Legs,
           VideoReturned(s) \/ Unwatched(s) \/ PipelineStopped(s) \/ AudioReturned(s)
    PROVE  Waits(leg', UnderWay', hanging')
  <1>1. /\ TypeOK /\ leg \in [Legs -> Leg] /\ leg[s] \in Leg /\ leg[s].call \in Calls
        /\ "close" \in Owners
    BY Attending
  <1>2. UNCHANGED hanging
    BY DEF VideoReturned, Unwatched, PipelineStopped, AudioReturned
  <1>3. CASE /\ leg[s].close = "video" /\ Continues("close", s, "ok")
             /\ leg' = [leg EXCEPT ![s].close = "unwatching"]
             /\ queue' = Kept("watchdog", s)
    <2>1. /\ \A t \in Legs : t # s => leg'[t] = leg[t]
          /\ leg'[s] = [call |-> leg[s].call, offer |-> leg[s].offer, close |-> "unwatching",
                        awaited |-> leg[s].awaited, wait |-> leg[s].wait, pipe |-> leg[s].pipe]
      BY <1>1, <1>3 DEF Leg
    <2>2. Lose(UnderWay, UnderWay', s, {"close"} \cup {"watchdog"})
      BY <1>1, <1>3, ReadLoses, KeptLoses, Loses
    <2>3. Goes(s, leg[s], leg'[s], {"close"} \cup {"watchdog"}, {})
      BY <1>3, <2>1 DEF Goes
    <2> QED BY <1>2, <2>1, <2>2, <2>3, LegGoesOn
  <1>4. CASE /\ leg[s].close = "video" /\ Continues("close", s, "ok")
             /\ leg[s].pipe \notin {"up", "killed"}
             /\ leg' = [leg EXCEPT ![s].close = "audio"]
             /\ Submits(Task("close", s, leg[s].call, "detach"))
    <2>1. /\ \A t \in Legs : t # s => leg'[t] = leg[t]
          /\ leg'[s] = [call |-> leg[s].call, offer |-> leg[s].offer, close |-> "audio",
                        awaited |-> leg[s].awaited, wait |-> leg[s].wait, pipe |-> leg[s].pipe]
      BY <1>1, <1>4 DEF Leg
    <2>2. /\ Lose(UnderWay, UnderWay', s, {"close"} \cup {})
          /\ \A x \in {"close"} : In(UnderWay', x, s)
      BY <1>1, <1>4, ReadsSubmitsLose
    <2>3. Goes(s, leg[s], leg'[s], {"close"} \cup {}, {"close"})
      BY <1>4, <2>1 DEF Goes
    <2> QED BY <1>2, <2>1, <2>2, <2>3, LegGoesOn
  <1>5. CASE /\ leg[s].close \in {"unwatching", "pipeline"} /\ UNCHANGED returned
             /\ leg[s].close = "unwatching" => leg[s].pipe \notin {"up", "killed"}
             /\ leg' = [leg EXCEPT ![s].close = "audio"]
             /\ Submits(Task("close", s, leg[s].call, "detach"))
    <2>1. /\ \A t \in Legs : t # s => leg'[t] = leg[t]
          /\ leg'[s] = [call |-> leg[s].call, offer |-> leg[s].offer, close |-> "audio",
                        awaited |-> leg[s].awaited, wait |-> leg[s].wait, pipe |-> leg[s].pipe]
      BY <1>1, <1>5 DEF Leg
    <2>2. /\ Lose(UnderWay, UnderWay', s, {} \cup {})
          /\ \A x \in {"close"} : In(UnderWay', x, s)
      BY <1>1, <1>5, SubmitsLose
    <2>3. Goes(s, leg[s], leg'[s], {} \cup {}, {"close"})
      BY <1>5, <2>1 DEF Goes
    <2> QED BY <1>2, <2>1, <2>2, <2>3, LegGoesOn
  <1>7. CASE /\ leg[s].close = "unwatching" /\ UNCHANGED <<queue, returned>>
             /\ leg' = [leg EXCEPT ![s].close = "pipeline", ![s].pipe = "gone"]
    <2>1. /\ \A t \in Legs : t # s => leg'[t] = leg[t]
          /\ leg'[s] = [call |-> leg[s].call, offer |-> leg[s].offer, close |-> "pipeline",
                        awaited |-> leg[s].awaited, wait |-> leg[s].wait, pipe |-> "gone"]
      BY <1>1, <1>7 DEF Leg
    <2>2. Lose(UnderWay, UnderWay', s, {})
      BY <1>7, LosesNone DEF UnderWay
    <2>3. Goes(s, leg[s], leg'[s], {}, {})
      BY <1>7, <2>1 DEF Goes
    <2> QED BY <1>2, <2>1, <2>2, <2>3, LegGoesOn
  <1>6. CASE AudioReturned(s)
    <2>1. /\ \A t \in Legs : t # s => leg'[t] = leg[t]
          /\ leg'[s] = [call |-> leg[s].call, offer |-> leg[s].offer, close |-> "peer",
                        awaited |-> leg[s].awaited, wait |-> leg[s].wait, pipe |-> leg[s].pipe]
      BY <1>1, <1>6 DEF Leg, AudioReturned
    <2>2. Lose(UnderWay, UnderWay', s, {"close"} \cup {})
      BY <1>1, <1>6, ReadsLose DEF AudioReturned
    <2>3. Goes(s, leg[s], leg'[s], {"close"} \cup {}, {})
      BY <1>6, <2>1 DEF Goes, AudioReturned
    <2> QED BY <1>2, <2>1, <2>2, <2>3, LegGoesOn
  <1>8. CASE VideoReturned(s)
    BY <1>3, <1>4, <1>8 DEF VideoReturned
  <1>9. CASE Unwatched(s)
    BY <1>5, <1>7, <1>9 DEF Unwatched
  <1>10. CASE PipelineStopped(s)
    BY <1>5, <1>10 DEF PipelineStopped
  <1> QED BY <1>6, <1>8, <1>9, <1>10

LEMMA OfferGoesOn ==
    ASSUME IInv, Waits(leg, UnderWay, hanging), NEW s \in Legs, NEW out,
           UndoReturned(s) \/ Negotiated(s) \/ AttachReturned(s, out)
    PROVE  Waits(leg', UnderWay', hanging')
  <1>1. /\ TypeOK /\ leg \in [Legs -> Leg] /\ leg[s] \in Leg /\ leg[s].call \in Calls
        /\ "offer" \in Owners
    BY Attending
  <1>2. UNCHANGED hanging
    BY DEF UndoReturned, Negotiated, AttachReturned
  <1>3. CASE UndoReturned(s)
    <2>1. Lose(Tags(returned), Tags(returned'), s, {"offer"}) /\ Fails(leg, s)
      BY <1>1, <1>3, ReadLoses DEF UndoReturned
    <2> QED BY <1>2, <2>1, FailsWaits
  <1>4. CASE Fails(leg, s) /\ UNCHANGED returned
    <2>1. Lose(Tags(returned), Tags(returned'), s, {})
      BY <1>4, LosesNone
    <2> QED BY <1>2, <1>4, <2>1, FailsWaits
  <1>5. CASE leg' = [leg EXCEPT ![s].offer = "ended"] /\ UNCHANGED <<queue, returned>>
    <2>1. /\ \A t \in Legs : t # s => leg'[t] = leg[t]
          /\ leg'[s] = [call |-> leg[s].call, offer |-> "ended", close |-> leg[s].close,
                        awaited |-> leg[s].awaited, wait |-> leg[s].wait, pipe |-> leg[s].pipe]
      BY <1>1, <1>5 DEF Leg
    <2>2. Lose(UnderWay, UnderWay', s, {})
      BY <1>5, LosesNone DEF UnderWay
    <2>3. Goes(s, leg[s], leg'[s], {}, {})
      BY <2>1 DEF Goes
    <2> QED BY <1>2, <2>1, <2>2, <2>3, LegGoesOn
  <1>6. CASE /\ Continues("offer", s, out) /\ UNCHANGED queue
             /\ leg' = [leg EXCEPT ![s].offer = "negotiating", ![s].pipe = "up", ![s].wait = "asleep"]
    <2>1. /\ \A t \in Legs : t # s => leg'[t] = leg[t]
          /\ leg'[s] = [call |-> leg[s].call, offer |-> "negotiating", close |-> leg[s].close,
                        awaited |-> leg[s].awaited, wait |-> "asleep", pipe |-> "up"]
      BY <1>1, <1>6 DEF Leg
    <2>2. Lose(UnderWay, UnderWay', s, {"offer"} \cup {})
      BY <1>1, <1>6, ReadsLose
    <2>3. Goes(s, leg[s], leg'[s], {"offer"} \cup {}, {})
      BY <2>1 DEF Goes
    <2> QED BY <1>2, <2>1, <2>2, <2>3, LegGoesOn
  <1>7. CASE /\ Continues("offer", s, out)
             /\ leg' = [leg EXCEPT ![s].offer = "undoing"]
             /\ Submits(Task("offer", s, leg[s].call, "detach"))
    <2>1. /\ \A t \in Legs : t # s => leg'[t] = leg[t]
          /\ leg'[s] = [call |-> leg[s].call, offer |-> "undoing", close |-> leg[s].close,
                        awaited |-> leg[s].awaited, wait |-> leg[s].wait, pipe |-> leg[s].pipe]
      BY <1>1, <1>7 DEF Leg
    <2>2. /\ Lose(UnderWay, UnderWay', s, {"offer"} \cup {})
          /\ \A x \in {"offer"} : In(UnderWay', x, s)
      BY <1>1, <1>7, ReadsSubmitsLose
    <2>3. Goes(s, leg[s], leg'[s], {"offer"} \cup {}, {"offer"})
      BY <2>1 DEF Goes
    <2> QED BY <1>2, <2>1, <2>2, <2>3, LegGoesOn
  <1>8. CASE Continues("offer", s, out) /\ Fails(leg, s)
    <2>1. Lose(Tags(returned), Tags(returned'), s, {"offer"})
      BY <1>1, <1>8, ReadLoses
    <2> QED BY <1>2, <1>8, <2>1, FailsWaits
  <1>9. CASE Negotiated(s)
    BY <1>4, <1>5, <1>9 DEF Negotiated
  <1>10. CASE AttachReturned(s, out)
    BY <1>6, <1>7, <1>8, <1>10 DEF AttachReturned
  <1> QED BY <1>3, <1>9, <1>10

\* The picture: who asks for it, and who kills its encoder.
LEMMA PictureWaits ==
    ASSUME IInv, Waits(leg, UnderWay, hanging), NEW s \in Legs, NEW out,
           Asks(s) \/ ArmReturned(s, out) \/ StaleReturned(s) \/ Stalls(s) \/ PictureLost(s)
    PROVE  Waits(leg', UnderWay', hanging')
  <1>1. /\ TypeOK /\ leg \in [Legs -> Leg] /\ leg[s] \in Leg /\ leg[s].call \in Calls
        /\ {"wait", "watchdog"} \subseteq Owners
    BY Attending DEF Owners
  <1>2. UNCHANGED hanging
    BY DEF Asks, ArmReturned, StaleReturned, Stalls, PictureLost
  <1>3. CASE Asks(s)
    <2>1. /\ \A t \in Legs : t # s => leg'[t] = leg[t]
          /\ leg'[s] = [call |-> leg[s].call, offer |-> leg[s].offer, close |-> leg[s].close,
                        awaited |-> leg[s].awaited, wait |-> "arming", pipe |-> leg[s].pipe]
      BY <1>1, <1>3 DEF Leg, Asks
    <2>2. /\ Lose(UnderWay, UnderWay', s, {} \cup {})
          /\ \A x \in {"wait"} : In(UnderWay', x, s)
      BY <1>1, <1>3, SubmitsLose DEF Asks
    <2>3. Goes(s, leg[s], leg'[s], {} \cup {}, {"wait"})
      BY <2>1 DEF Goes
    <2> QED BY <1>2, <2>1, <2>2, <2>3, LegGoesOn
  <1>4. ASSUME Continues("wait", s, out), UNCHANGED queue, NEW w \in {"none", "slipped", "asleep"},
               NEW p \in {leg[s].pipe, "gone"},
               leg' = [leg EXCEPT ![s].wait = w, ![s].pipe = p]
        PROVE  Waits(leg', UnderWay', hanging')
    <2>1. /\ \A t \in Legs : t # s => leg'[t] = leg[t]
          /\ leg'[s] = [call |-> leg[s].call, offer |-> leg[s].offer, close |-> leg[s].close,
                        awaited |-> leg[s].awaited, wait |-> w, pipe |-> p]
      BY <1>1, <1>4 DEF Leg
    <2>2. Lose(UnderWay, UnderWay', s, {"wait"} \cup {})
      BY <1>1, <1>4, ReadsLose
    <2>3. Goes(s, leg[s], leg'[s], {"wait"} \cup {}, {})
      BY <2>1 DEF Goes
    <2> QED BY <1>2, <2>1, <2>2, <2>3, LegGoesOn
  <1>5. \A w : [leg EXCEPT ![s].wait = w] = [leg EXCEPT ![s].wait = w, ![s].pipe = leg[s].pipe]
    BY <1>1 DEF Leg
  <1>6. CASE /\ Continues("wait", s, out)
             /\ leg' = [leg EXCEPT ![s].wait = "undoing"]
             /\ Submits(Task("wait", s, leg[s].call, "close_video"))
    <2>1. /\ \A t \in Legs : t # s => leg'[t] = leg[t]
          /\ leg'[s] = [call |-> leg[s].call, offer |-> leg[s].offer, close |-> leg[s].close,
                        awaited |-> leg[s].awaited, wait |-> "undoing", pipe |-> leg[s].pipe]
      BY <1>1, <1>6 DEF Leg
    <2>2. /\ Lose(UnderWay, UnderWay', s, {"wait"} \cup {})
          /\ \A x \in {"wait"} : In(UnderWay', x, s)
      BY <1>1, <1>6, ReadsSubmitsLose
    <2>3. Goes(s, leg[s], leg'[s], {"wait"} \cup {}, {"wait"})
      BY <2>1 DEF Goes
    <2> QED BY <1>2, <2>1, <2>2, <2>3, LegGoesOn
  <1>7. CASE ArmReturned(s, out)
    <2>1. /\ Continues("wait", s, out)
          /\ \/ UNCHANGED queue /\ leg' = [leg EXCEPT ![s].wait = "none"]
             \/ /\ leg' = [leg EXCEPT ![s].wait = "undoing"]
                /\ Submits(Task("wait", s, leg[s].call, "close_video"))
             \/ UNCHANGED queue /\ leg' = [leg EXCEPT ![s].wait = "slipped"]
             \/ UNCHANGED queue /\ leg' = [leg EXCEPT ![s].wait = "asleep"]
             \/ UNCHANGED queue /\ leg' = [leg EXCEPT ![s].wait = "none", ![s].pipe = "gone"]
      BY <1>7 DEF ArmReturned, Arrived
    <2> QED BY <1>4, <1>5, <1>6, <2>1
  <1>8. CASE StaleReturned(s)
    <2>1. /\ \A t \in Legs : t # s => leg'[t] = leg[t]
          /\ leg'[s] = [call |-> leg[s].call, offer |-> leg[s].offer, close |-> leg[s].close,
                        awaited |-> leg[s].awaited, wait |-> "asleep", pipe |-> leg[s].pipe]
      BY <1>1, <1>8 DEF Leg, StaleReturned
    <2>2. Lose(UnderWay, UnderWay', s, {"wait"} \cup {})
      BY <1>1, <1>8, ReadsLose DEF StaleReturned
    <2>3. Goes(s, leg[s], leg'[s], {"wait"} \cup {}, {})
      BY <2>1 DEF Goes
    <2> QED BY <1>2, <2>1, <2>2, <2>3, LegGoesOn
  <1>9. CASE Stalls(s)
    <2>1. /\ \A t \in Legs : t # s => leg'[t] = leg[t]
          /\ leg'[s] = [call |-> leg[s].call, offer |-> leg[s].offer, close |-> leg[s].close,
                        awaited |-> leg[s].awaited, wait |-> "none", pipe |-> "killed"]
      BY <1>1, <1>9 DEF Leg, Stalls
    <2>2. /\ Lose(Tags(queue), Tags(queue'), s, {"wait"})
          /\ \A x \in {"watchdog"} : In(UnderWay', x, s)
      BY <1>1, <1>9, KeptAddLoses DEF Stalls
    <2>3. Lose(UnderWay, UnderWay', s, {} \cup {"wait"})
      BY <1>9, <2>2, LosesNone, Loses DEF Stalls
    <2>4. Goes(s, leg[s], leg'[s], {} \cup {"wait"}, {"watchdog"})
      BY <2>1 DEF Goes
    <2> QED BY <1>2, <2>1, <2>2, <2>3, <2>4, LegGoesOn
  <1>10. CASE PictureLost(s)
    <2>1. /\ \A t \in Legs : t # s => leg'[t] = leg[t]
          /\ leg'[s] = [call |-> leg[s].call, offer |-> leg[s].offer, close |-> leg[s].close,
                        awaited |-> leg[s].awaited, wait |-> leg[s].wait, pipe |-> "gone"]
      BY <1>1, <1>10 DEF Leg, PictureLost
    <2>2. Lose(UnderWay, UnderWay', s, {"watchdog"} \cup {})
      BY <1>1, <1>10, ReadsLose DEF PictureLost
    <2>3. Goes(s, leg[s], leg'[s], {"watchdog"} \cup {}, {})
      BY <2>1 DEF Goes
    <2> QED BY <1>2, <2>1, <2>2, <2>3, LegGoesOn
  <1> QED BY <1>3, <1>7, <1>8, <1>9, <1>10

LEMMA DiscardsWaits ==
    ASSUME IInv, Waits(leg, UnderWay, hanging), NEW s \in Legs, Discards(s)
    PROVE  Waits(leg', UnderWay', hanging')
  <1>1. TypeOK /\ UNCHANGED <<leg, hanging, queue>>
    BY DEF IInv, Discards
  <1>2. \A t \in Legs : t # s => leg'[t] = leg[t]
    BY <1>1
  <1>3. ASSUME NEW b, NEW out, Continues(b, s, out),
               \/ b = "wait" /\ leg[s].wait = "none"
               \/ b = "watchdog" /\ (leg[s].pipe = "gone" \/ leg[s].close = "unwatching")
        PROVE  Waits(leg', UnderWay', hanging')
    <2>1. Lose(UnderWay, UnderWay', s, {b} \cup {})
      BY <1>1, <1>3, ReadsLose
    <2>2. Goes(s, leg[s], leg'[s], {b} \cup {}, {})
      BY <1>1, <1>3 DEF Goes
    <2> QED BY <1>1, <1>2, <2>1, <2>2, LegGoesOn
  <1> QED BY <1>3 DEF Discards

\* A step of no leg and no hangup, that takes nothing off the line.
LEMMA NothingLost ==
    ASSUME Waits(leg, UnderWay, hanging), UNCHANGED <<leg, hanging>>,
           \A x \in UnderWay : x \in UnderWay'
    PROVE  Waits(leg', UnderWay', hanging')
  <1>1. Moving(leg, leg', UnderWay, UnderWay', hanging, hanging', {}, {}, Nobody)
    BY NobodyIsNoLeg DEF Moving
  <1> QED BY <1>1, WaitsKept

LEMMA RunsWaits ==
    ASSUME IInv, Waits(leg, UnderWay, hanging), NEW out \in Outcomes, Runs(out)
    PROVE  Waits(leg', UnderWay', hanging')
  <1>1. /\ queue \in Seq(Job) /\ returned \in Seq(Result) /\ queue # <<>>
        /\ queue' = Tail(queue) /\ UNCHANGED <<leg, hanging>>
    BY DEF IInv, TypeOK, Runs
  <1>2. PICK j : j = Head(queue)
    OBVIOUS
  <1>3. PICK r : r = [by |-> j.by, leg |-> j.leg, call |-> j.call, out |-> out]
    OBVIOUS
  <1>4. j \in Job /\ returned' = Append(returned, r)
    BY <1>1, <1>2, <1>3 DEF Runs
  <1>5. r \in Result /\ Tag(r) = Tag(j)
    BY <1>3, <1>4 DEF Job, Result, Tag
  <1>6. Tags(queue) = Tags(queue') \cup {Tag(j)} /\ Tags(returned') = Tags(returned) \cup {Tag(r)}
    BY <1>1, <1>2, <1>4, <1>5, TagsTailed, TagsAppended
  <1>7. \A x \in UnderWay : x \in UnderWay'
    BY <1>5, <1>6 DEF UnderWay
  <1> QED BY <1>1, <1>7, NothingLost

LEMMA CallWaits ==
    ASSUME IInv, Waits(leg, UnderWay, hanging), NEW c \in Calls,
           CallEnded(c) \/ GraceEnds(c) \/ FarEnds(c)
    PROVE  Waits(leg', UnderWay', hanging')
  <1>1. TypeOK
    BY DEF IInv
  <1>2. CASE UNCHANGED <<leg, hanging, queue, returned>>
    <2>1. \A x \in UnderWay : x \in UnderWay'
      BY <1>2 DEF UnderWay
    <2> QED BY <1>2, <2>1, NothingLost
  <1>3. CASE CallEnded(c)
    <2>1. CASE \E s \in Legs : IsFor(s, c) /\ leg[s].close = "no"
      <3>1. PICK s \in Legs : IsFor(s, c) /\ Closes(leg, s, "nobody", Nobody)
        BY <1>3, <2>1 DEF CallEnded
      <3>2. leg[s].close = "no"
        <4>1. PICK t \in Legs : IsFor(t, c) /\ leg[t].close = "no"
          BY <2>1
        <4>2. PICK i \in On(c, sessions) : s = sessions[i] /\ \A j \in On(c, sessions) : i <= j
          BY <3>1 DEF IsFor
        <4>3. PICK k \in On(c, sessions) : t = sessions[k] /\ \A j \in On(c, sessions) : k <= j
          BY <4>1 DEF IsFor
        <4>4. i <= k /\ k <= i /\ i \in Int /\ k \in Int
          BY <4>2, <4>3 DEF On
        <4> QED BY <4>1, <4>2, <4>3, <4>4
      <3>3. UNCHANGED <<returned, hanging>>
        BY <1>3 DEF CallEnded
      <3> QED BY <3>1, <3>2, <3>3, ClosesWaits
    <2>2. CASE ~\E s \in Legs : IsFor(s, c) /\ leg[s].close = "no"
      BY <1>2, <1>3, <2>2 DEF CallEnded
    <2> QED BY <2>1, <2>2
  <1>4. CASE GraceEnds(c)
    <2>1. CASE Submits(Task("reap", Nobody, c, "hangup"))
      <3>1. Lose(Tags(queue), Tags(queue'), Nobody, {})
        BY <1>1, <2>1, SubmitLoses DEF Owners
      <3>2. Lose(Tags(returned), Tags(returned'), Nobody, {})
        BY <1>4, LosesNone DEF GraceEnds
      <3>3. Lose(UnderWay, UnderWay', Nobody, {} \cup {})
        BY <3>1, <3>2, Loses
      <3>4. \A x \in UnderWay : \E b, t, d : x = <<b, t, d>>
        BY DEF UnderWay, Tags, Tag
      <3>5. \A x \in UnderWay : x \in UnderWay'
        BY <3>3, <3>4 DEF Lose
      <3> QED BY <1>4, <3>5, NothingLost DEF GraceEnds
    <2> QED BY <1>2, <1>4, <2>1 DEF GraceEnds
  <1> QED BY <1>2, <1>3, <1>4 DEF FarEnds

\* A hangup begins to wait, or has been answered.
LEMMA HangupGoesOn ==
    ASSUME IInv, Waits(leg, UnderWay, hanging), NEW c \in Calls,
           HangsUp(c) \/ (\E by \in {"user", "reap"} : HangupReturned(c, by))
    PROVE  Waits(leg', UnderWay', hanging')
  <1>1. /\ TypeOK /\ leg \in [Legs -> Leg] /\ hanging \in [Calls -> {"no", "closing", "native"}]
        /\ UserWaits(hanging[c], leg, UnderWay, c) /\ returned \in Seq(Result)
    <2>1. TypeOK /\ UserWaits(hanging[c], leg, UnderWay, c)
      BY DEF IInv, Waits
    <2> QED BY <2>1 DEF TypeOK
  <1>2. ASSUME NEW s \in Legs, IsFor(s, c), leg[s].close = "no", UNCHANGED returned,
               Closes(leg, s, "user", Nobody), hanging' = [hanging EXCEPT ![c] = "closing"]
        PROVE  Waits(leg', UnderWay', hanging')
    <2>1. Lose(Tags(returned), Tags(returned'), s, {})
      BY <1>2, LosesNone
    <2>2. /\ Lose(UnderWay, UnderWay', s, {} \cup {"wait"}) /\ In(UnderWay', "close", s)
          /\ \A t \in Legs : t # s => leg'[t] = leg[t]
          /\ leg'[s].call = leg[s].call /\ leg'[s].offer = leg[s].offer /\ leg'[s].close = "video"
          /\ leg'[s].awaited = [by |-> "user", leg |-> Nobody]
          /\ leg'[s].wait = "none" /\ leg'[s].pipe = leg[s].pipe
      BY <1>1, <1>2, <2>1, ClosesLoses
    <2>3. leg[s].call = c
      BY <1>2 DEF IsFor, On
    <2>4. LegWaits(leg[s], UnderWay, s) /\ OfferWaits(leg, s)
      BY DEF Waits
    <2>5. LegWaits(leg'[s], UnderWay', s)
      <3>1. \A b : b # "wait" /\ In(UnderWay, b, s) => In(UnderWay', b, s)
        BY <2>2 DEF Lose, In
      <3> QED BY <1>2, <2>2, <2>4, <3>1 DEF LegWaits
    <2>6. OfferWaits(leg', s)
      BY <1>2, <2>2, <2>4 DEF OfferWaits, Tearing
    <2>7. UserWaits(hanging'[c], leg', UnderWay', c)
      BY <1>1, <1>2, <2>2, <2>3 DEF UserWaits, Tearing
    <2>8. \A d \in Calls \ {c} : hanging'[d] = hanging[d]
      BY <1>1, <1>2
    <2>9. Moving(leg, leg', UnderWay, UnderWay', hanging, hanging', {s}, {c}, Nobody)
      BY <1>2, <2>2, <2>5, <2>6, <2>7, <2>8, NobodyIsNoLeg DEF Moving, Lose
    <2> QED BY <2>9, WaitsKept
  <1>3. ASSUME UNCHANGED leg, \A d \in Calls \ {c} : hanging'[d] = hanging[d],
               UserWaits(hanging'[c], leg', UnderWay', c),
               \A b, t, d : <<b, t, d>> \in UnderWay =>
                  <<b, t, d>> \in UnderWay' \/ (t = Nobody /\ d = c)
        PROVE  Waits(leg', UnderWay', hanging')
    <2>1. Moving(leg, leg', UnderWay, UnderWay', hanging, hanging', {}, {c}, Nobody)
      BY <1>3, NobodyIsNoLeg DEF Moving
    <2> QED BY <2>1, WaitsKept
  <1>4. CASE /\ Submits(Task("user", Nobody, c, "hangup")) /\ UNCHANGED <<leg, returned>>
             /\ hanging' = [hanging EXCEPT ![c] = "native"]
    <2>1. Lose(Tags(queue), Tags(queue'), Nobody, {}) /\ <<"user", Nobody, c>> \in UnderWay'
      BY <1>1, <1>4, SubmitLoses DEF Owners
    <2>2. Lose(Tags(returned), Tags(returned'), Nobody, {})
      BY <1>4, LosesNone
    <2>3. Lose(UnderWay, UnderWay', Nobody, {} \cup {})
      BY <2>1, <2>2, Loses
    <2>4. UserWaits(hanging'[c], leg', UnderWay', c)
      BY <1>1, <1>4, <2>1 DEF UserWaits
    <2>5. \A d \in Calls \ {c} : hanging'[d] = hanging[d]
      BY <1>1, <1>4
    <2> QED BY <1>3, <1>4, <2>3, <2>4, <2>5 DEF Lose
  <1>5. ASSUME NEW by \in {"user", "reap"}, HangupReturned(c, by)
        PROVE  Waits(leg', UnderWay', hanging')
    <2>1. /\ UNCHANGED <<leg, queue>> /\ returned # <<>> /\ returned' = Tail(returned)
          /\ Head(returned).by = by /\ Head(returned).leg = Nobody /\ Head(returned).call = c
          /\ hanging' = IF by = "user" THEN [hanging EXCEPT ![c] = "no"] ELSE hanging
      BY <1>5 DEF HangupReturned, Continues
    <2>2. Tag(Head(returned)) = <<by, Nobody, c>>
      BY <2>1 DEF Tag
    <2>3. Tags(returned) = Tags(returned') \cup {<<by, Nobody, c>>}
      BY <1>1, <2>1, <2>2, TagsTailed
    <2>4. \A x \in UnderWay : x \in UnderWay' \/ x = <<by, Nobody, c>>
      BY <2>1, <2>3 DEF UnderWay
    <2>5. \A d \in Calls \ {c} : hanging'[d] = hanging[d]
      BY <1>1, <2>1
    <2>6. UserWaits(hanging'[c], leg', UnderWay', c)
      <3>1. CASE by = "user"
        BY <1>1, <2>1, <3>1 DEF UserWaits
      <3>2. CASE by = "reap"
        BY <1>1, <2>1, <2>4, <3>2 DEF UserWaits
      <3> QED BY <3>1, <3>2
    <2> QED BY <1>3, <2>1, <2>4, <2>5, <2>6
  <1> QED BY <1>2, <1>4, <1>5 DEF HangsUp

\* The offer that is made awaits its tap: it was of nobody's concern before.
LEMMA OpensWaits ==
    ASSUME IInv, Waits(leg, UnderWay, hanging), NEW s \in Legs, NEW c \in Calls,
           leg[s].offer = "none", Opens([leg EXCEPT ![s].call = c], s, sessions),
           UNCHANGED <<returned, hanging>>
    PROVE  Waits(leg', UnderWay', hanging')
  <1>1. TypeOK /\ leg \in [Legs -> Leg] /\ leg[s] \in Leg /\ "offer" \in Owners
    BY Attending
  <1>2. leg[s].close = "no" /\ leg[s].wait = "none" /\ leg[s].pipe = "none"
    BY NewLeg DEF Unmade
  <1>3. /\ leg' = [[leg EXCEPT ![s].call = c] EXCEPT ![s].offer = "attaching"]
        /\ Submits(Task("offer", s, c, "attach"))
    BY <1>1 DEF Opens, Leg
  <1>4. /\ \A t \in Legs : t # s => leg'[t] = leg[t]
        /\ leg'[s] = [call |-> c, offer |-> "attaching", close |-> leg[s].close,
                      awaited |-> leg[s].awaited, wait |-> leg[s].wait, pipe |-> leg[s].pipe]
    BY <1>1, <1>3 DEF Leg
  <1>5. /\ Lose(UnderWay, UnderWay', s, {} \cup {})
        /\ \A x \in {"offer"} : In(UnderWay', x, s)
    BY <1>1, <1>3, SubmitsLose
  <1>6. Goes(s, leg[s], leg'[s], {} \cup {}, {"offer"})
    BY <1>2, <1>4 DEF Goes
  <1> QED BY <1>4, <1>5, <1>6, LegGoesOn

\* An offer that replaces a leg awaits the teardown it begins.
LEMMA ReplacesWaits ==
    ASSUME IInv, Waits(leg, UnderWay, hanging), NEW s \in Legs, NEW c \in Calls,
           leg[s].offer = "none", NEW t \in Legs, Listed(t), leg[t].close = "no",
           Closes([[leg EXCEPT ![s].call = c] EXCEPT ![s].offer = "replacing"], t, "offer", s),
           UNCHANGED <<returned, hanging>>
    PROVE  Waits(leg', UnderWay', hanging')
  <1>1. /\ TypeOK /\ leg \in [Legs -> Leg] /\ leg[s] \in Leg /\ BookOf(t)
        /\ LegWaits(leg[t], UnderWay, t) /\ OfferWaits(leg, t)
    BY Attending DEF Waits
  <1>2. leg[s].close = "no" /\ leg[s].wait = "none" /\ leg[s].pipe = "none"
    BY NewLeg DEF Unmade
  <1>3. s # t /\ leg[t].offer \notin Unmade
    BY <1>1 DEF BookOf, Unmade
  <1>4. PICK l : l = [[leg EXCEPT ![s].call = c] EXCEPT ![s].offer = "replacing"]
    OBVIOUS
  <1>5. /\ l \in [Legs -> Leg] /\ \A u \in Legs : u # s => l[u] = leg[u]
        /\ l[s] = [call |-> c, offer |-> "replacing", close |-> leg[s].close,
                   awaited |-> leg[s].awaited, wait |-> leg[s].wait, pipe |-> leg[s].pipe]
    BY <1>1, <1>4 DEF Leg
  <1>6. Closes(l, t, "offer", s)
    BY <1>4
  <1>7. Lose(Tags(returned), Tags(returned'), t, {})
    BY LosesNone
  <1>8. /\ Lose(UnderWay, UnderWay', t, {} \cup {"wait"}) /\ In(UnderWay', "close", t)
        /\ \A u \in Legs : u # t => leg'[u] = l[u]
        /\ leg'[t].call = l[t].call /\ leg'[t].offer = l[t].offer /\ leg'[t].close = "video"
        /\ leg'[t].awaited = [by |-> "offer", leg |-> s]
        /\ leg'[t].wait = "none" /\ leg'[t].pipe = l[t].pipe
    BY <1>1, <1>5, <1>6, <1>7, ClosesLoses
  <1>9. /\ \A u \in Legs \ {s, t} : leg'[u] = leg[u]
        /\ leg'[s].offer = "replacing" /\ leg'[s].close = "no"
        /\ leg'[s].wait = "none" /\ leg'[s].pipe = "none"
        /\ leg'[t].offer = leg[t].offer /\ leg'[t].pipe = leg[t].pipe
    BY <1>2, <1>3, <1>5, <1>8
  <1>10. LegWaits(leg'[s], UnderWay', s) /\ OfferWaits(leg', s)
    BY <1>3, <1>8, <1>9 DEF LegWaits, OfferWaits, Tearing
  <1>11. LegWaits(leg'[t], UnderWay', t)
    <2>1. \A b : b # "wait" /\ In(UnderWay, b, t) => In(UnderWay', b, t)
      BY <1>8 DEF Lose, In
    <2> QED BY <1>1, <1>8, <1>9, <2>1 DEF LegWaits
  <1>12. OfferWaits(leg', t)
    BY <1>1, <1>3, <1>9 DEF OfferWaits, Tearing, Unmade
  <1>13. Moving(leg, leg', UnderWay, UnderWay', hanging, hanging', {s, t}, {}, Nobody)
    BY <1>2, <1>8, <1>9, <1>10, <1>11, <1>12, NobodyIsNoLeg DEF Moving, Lose
  <1> QED BY <1>13, WaitsKept

LEMMA OffersWaits ==
    ASSUME IInv, Waits(leg, UnderWay, hanging), NEW s \in Legs, NEW c \in Calls, Offers(s, c)
    PROVE  Waits(leg', UnderWay', hanging')
  <1>1. leg[s].offer = "none" /\ UNCHANGED <<returned, hanging>>
    BY DEF Offers, Made
  <1>2. CASE Opens([leg EXCEPT ![s].call = c], s, sessions)
    BY <1>1, <1>2, OpensWaits
  <1>3. ASSUME NEW t \in Legs, IsFor(t, c), leg[t].close = "no",
               Closes([[leg EXCEPT ![s].call = c] EXCEPT ![s].offer = "replacing"], t, "offer", s)
        PROVE  Waits(leg', UnderWay', hanging')
    <2>1. Listed(t)
      BY <1>3, IsForListed
    <2> QED BY <1>1, <1>3, <2>1, ReplacesWaits
  <1> QED BY <1>2, <1>3 DEF Offers

\* A teardown ends: of those who wait, only who awaited it goes on.
LEMMA TornDown ==
    ASSUME IInv, Waits(leg, UnderWay, hanging), NEW s \in Legs, leg[s].close = "peer",
           \A x \in UnderWay : x \in UnderWay',
           leg'[s].close = "done", leg'[s].wait = leg[s].wait, leg'[s].pipe = leg[s].pipe,
           \/ leg'[s].offer = "ended"
           \/ leg'[s].offer = leg[s].offer /\ leg[s].awaited # [by |-> "offer", leg |-> s]
    PROVE  LegWaits(leg'[s], UnderWay', s) /\ OfferWaits(leg', s)
  <1>1. LegWaits(leg[s], UnderWay, s) /\ OfferWaits(leg, s) /\ FreshOf(s)
    BY Attending DEF Waits
  <1>2. \A b : In(UnderWay, b, s) => In(UnderWay', b, s)
    BY DEF In
  <1>3. LegWaits(leg'[s], UnderWay', s)
    BY <1>1, <1>2 DEF LegWaits
  <1>4. leg[s].offer # "replacing"
    BY <1>1 DEF FreshOf, Unmade
  <1>5. CASE leg'[s].offer = leg[s].offer /\ leg[s].awaited # [by |-> "offer", leg |-> s]
    <2>1. leg[s].offer # "failing"
      BY <1>1, <1>5 DEF OfferWaits, Tearing
    <2> QED BY <1>3, <1>4, <1>5, <2>1 DEF OfferWaits
  <1>6. CASE leg'[s].offer = "ended"
    BY <1>3, <1>6 DEF OfferWaits
  <1> QED BY <1>5, <1>6

LEMMA PeerClosedWaits ==
    ASSUME IInv, Waits(leg, UnderWay, hanging), NEW s \in Legs, PeerClosed(s)
    PROVE  Waits(leg', UnderWay', hanging')
  <1>1. /\ TypeOK /\ leg \in [Legs -> Leg] /\ leg[s] \in Leg /\ leg[s].call \in Calls
        /\ AwaitedOf(s) /\ leg[s].close = "peer" /\ UNCHANGED returned
        /\ {"offer", "user"} \subseteq Owners
    BY Attending DEF PeerClosed, Owners
  <1>2. PICK who : who = leg[s].awaited
    OBVIOUS
  <1>3. PICK c \in Calls : c = leg[s].call
    BY <1>1
  <1>4. PICK done : done = [leg EXCEPT ![s].close = "done", ![s].awaited = NoOne]
    OBVIOUS
  <1>5. /\ done \in [Legs -> Leg] /\ \A t \in Legs : t # s => done[t] = leg[t]
        /\ done[s] = [call |-> c, offer |-> leg[s].offer, close |-> "done",
                      awaited |-> NoOne, wait |-> leg[s].wait, pipe |-> leg[s].pipe]
    BY <1>1, <1>3, <1>4 DEF Leg, NoOne
  <1>6. who = [by |-> who.by, leg |-> who.leg]
    BY <1>1, <1>2 DEF Leg
  <1>7. CASE who.by = "nobody" /\ leg' = done /\ UNCHANGED <<queue, hanging>>
    <2>1. \A x \in UnderWay : x \in UnderWay'
      BY <1>1, <1>7 DEF UnderWay
    <2>2. \A p : who # [by |-> "offer", leg |-> p] /\ who # [by |-> "user", leg |-> p]
      BY <1>7
    <2>3. LegWaits(leg'[s], UnderWay', s) /\ OfferWaits(leg', s)
      <3>1. leg[s].awaited # [by |-> "offer", leg |-> s]
        BY <1>2, <2>2
      <3>2. /\ leg'[s].close = "done" /\ leg'[s].wait = leg[s].wait
            /\ leg'[s].pipe = leg[s].pipe /\ leg'[s].offer = leg[s].offer
        BY <1>5, <1>7
      <3> QED BY <1>1, <2>1, <3>1, <3>2, TornDown
    <2>4. Moving(leg, leg', UnderWay, UnderWay', hanging, hanging', {s}, {}, s)
      BY <1>2, <1>5, <1>7, <2>1, <2>2, <2>3 DEF Moving
    <2> QED BY <2>4, WaitsKept
  <1>8. CASE /\ who.by = "offer" /\ who.leg = s
             /\ leg' = [done EXCEPT ![s].offer = "ended"] /\ UNCHANGED <<queue, hanging>>
    <2>1. \A x \in UnderWay : x \in UnderWay'
      BY <1>1, <1>8 DEF UnderWay
    <2>2. /\ \A p : who = [by |-> "offer", leg |-> p] => p = s
          /\ \A p : who # [by |-> "user", leg |-> p]
      BY <1>8
    <2>3. /\ \A t \in Legs : t # s => leg'[t] = leg[t]
          /\ leg'[s] = [call |-> c, offer |-> "ended", close |-> "done",
                        awaited |-> NoOne, wait |-> leg[s].wait, pipe |-> leg[s].pipe]
      BY <1>5, <1>8 DEF Leg
    <2>4. LegWaits(leg'[s], UnderWay', s) /\ OfferWaits(leg', s)
      <3>1. /\ leg'[s].close = "done" /\ leg'[s].wait = leg[s].wait
            /\ leg'[s].pipe = leg[s].pipe /\ leg'[s].offer = "ended"
        BY <2>3
      <3> QED BY <1>1, <2>1, <3>1, TornDown
    <2>5. Moving(leg, leg', UnderWay, UnderWay', hanging, hanging', {s}, {}, s)
      BY <1>2, <1>8, <2>1, <2>2, <2>3, <2>4 DEF Moving
    <2> QED BY <2>5, WaitsKept
  <1>9. ASSUME who.by = "offer", who.leg # s, Opens(done, who.leg, Popped(s)), UNCHANGED hanging
        PROVE  Waits(leg', UnderWay', hanging')
    <2>1. PICK w \in Legs : w = who.leg /\ leg[w].offer = "replacing" /\ w # s
      BY <1>1, <1>2, <1>9 DEF AwaitedOf
    <2>2. leg[w] \in Leg /\ FreshOf(w)
      BY Attending
    <2>3. leg[w].close = "no" /\ leg[w].wait = "none" /\ leg[w].pipe = "none"
      BY <2>1, <2>2 DEF FreshOf, Unmade, Unarmed
    <2>4. /\ leg' = [done EXCEPT ![w].offer = "attaching"] /\ done[w] = leg[w]
          /\ Submits(Task("offer", w, leg[w].call, "attach"))
      BY <1>5, <1>9, <2>1 DEF Opens
    <2>5. /\ \A t \in Legs \ {s, w} : leg'[t] = leg[t]
          /\ leg'[s] = done[s]
          /\ leg'[w] = [call |-> leg[w].call, offer |-> "attaching", close |-> leg[w].close,
                        awaited |-> leg[w].awaited, wait |-> leg[w].wait, pipe |-> leg[w].pipe]
      BY <1>5, <2>1, <2>2, <2>4 DEF Leg
    <2>6. /\ Lose(UnderWay, UnderWay', w, {} \cup {})
          /\ \A x \in {"offer"} : In(UnderWay', x, w)
      <3>1. leg[w].call \in Calls
        BY <2>2 DEF Leg
      <3> QED BY <1>1, <2>4, <3>1, SubmitsLose
    <2>7. \A x \in UnderWay : x \in UnderWay'
      <3>1. \A x \in UnderWay : \E b, t, d : x = <<b, t, d>>
        BY DEF UnderWay, Tags, Tag
      <3> QED BY <2>6, <3>1 DEF Lose
    <2>8. /\ \A p : who = [by |-> "offer", leg |-> p] => p = w
          /\ \A p : who # [by |-> "user", leg |-> p]
      BY <1>9, <2>1
    <2>9. LegWaits(leg'[s], UnderWay', s) /\ OfferWaits(leg', s)
      <3>1. leg[s].awaited # [by |-> "offer", leg |-> s]
        BY <1>2, <2>1, <2>8
      <3>2. /\ leg'[s].close = "done" /\ leg'[s].wait = leg[s].wait
            /\ leg'[s].pipe = leg[s].pipe /\ leg'[s].offer = leg[s].offer
        BY <1>5, <2>5
      <3> QED BY <1>1, <2>7, <3>1, <3>2, TornDown
    <2>10. LegWaits(leg'[w], UnderWay', w) /\ OfferWaits(leg', w)
      BY <2>3, <2>5, <2>6 DEF LegWaits, OfferWaits
    <2>11. Moving(leg, leg', UnderWay, UnderWay', hanging, hanging', {s, w}, {}, s)
      BY <1>2, <1>9, <2>3, <2>5, <2>7, <2>8, <2>9, <2>10 DEF Moving
    <2> QED BY <2>11, WaitsKept
  <1>10. CASE /\ who.by = "user" /\ leg' = done
             /\ hanging' = [hanging EXCEPT ![c] = "native"]
             /\ Submits(Task("user", Nobody, c, "hangup"))
    <2>1. Lose(Tags(queue), Tags(queue'), Nobody, {}) /\ <<"user", Nobody, c>> \in UnderWay'
      BY <1>1, <1>10, SubmitLoses
    <2>2. Lose(UnderWay, UnderWay', Nobody, {} \cup {})
      BY <1>1, <2>1, LosesNone, Loses
    <2>3. \A x \in UnderWay : x \in UnderWay'
      <3>1. \A x \in UnderWay : \E b, t, d : x = <<b, t, d>>
        BY DEF UnderWay, Tags, Tag
      <3> QED BY <2>2, <3>1 DEF Lose
    <2>4. \A p : who # [by |-> "offer", leg |-> p]
      BY <1>10
    <2>5. LegWaits(leg'[s], UnderWay', s) /\ OfferWaits(leg', s)
      <3>1. leg[s].awaited # [by |-> "offer", leg |-> s]
        BY <1>2, <2>4
      <3>2. /\ leg'[s].close = "done" /\ leg'[s].wait = leg[s].wait
            /\ leg'[s].pipe = leg[s].pipe /\ leg'[s].offer = leg[s].offer
        BY <1>5, <1>10
      <3> QED BY <1>1, <2>3, <3>1, <3>2, TornDown
    <2>6. /\ \A d \in Calls \ {c} : hanging'[d] = hanging[d]
          /\ hanging'[c] = "native"
      <3>1. hanging \in [Calls -> {"no", "closing", "native"}]
        BY <1>1 DEF TypeOK
      <3> QED BY <1>10, <3>1
    <2>7. UserWaits(hanging'[c], leg', UnderWay', c)
      BY <2>1, <2>6 DEF UserWaits
    <2>8. Moving(leg, leg', UnderWay, UnderWay', hanging, hanging', {s}, {c}, s)
      BY <1>2, <1>5, <1>10, <1>3, <2>3, <2>4, <2>5, <2>6, <2>7 DEF Moving
    <2> QED BY <2>8, WaitsKept
  <1>11. \/ who.by = "nobody" /\ leg' = done /\ UNCHANGED <<queue, hanging>>
         \/ /\ who.by = "offer" /\ who.leg = s
            /\ leg' = [done EXCEPT ![s].offer = "ended"] /\ UNCHANGED <<queue, hanging>>
         \/ /\ who.by = "offer" /\ who.leg # s
            /\ Opens(done, who.leg, Popped(s)) /\ UNCHANGED hanging
         \/ /\ who.by = "user" /\ leg' = done
            /\ hanging' = [hanging EXCEPT ![c] = "native"]
            /\ Submits(Task("user", Nobody, c, "hangup"))
    BY <1>2, <1>4, <1>3 DEF PeerClosed
  <1> QED BY <1>7, <1>8, <1>9, <1>10, <1>11

LEMMA WaitsSteps ==
    ASSUME IInv, Waits(leg, UnderWay, hanging), [Next]_vars
    PROVE  Waits(leg', UnderWay', hanging')
  <1>1. CASE Worker
    BY <1>1, RunsWaits DEF Worker
  <1>2. CASE Resumes
    <2>1. ASSUME NEW s \in Legs, VideoReturned(s) \/ AudioReturned(s)
          PROVE  Waits(leg', UnderWay', hanging')
      BY <2>1, TeardownWaits
    <2>2. ASSUME NEW s \in Legs, UndoReturned(s)
          PROVE  Waits(leg', UnderWay', hanging')
      BY <2>2, OfferGoesOn
    <2>3. ASSUME NEW s \in Legs, StaleReturned(s) \/ PictureLost(s)
          PROVE  Waits(leg', UnderWay', hanging')
      BY <2>3, PictureWaits
    <2>4. ASSUME NEW s \in Legs, NEW out \in Outcomes, AttachReturned(s, out)
          PROVE  Waits(leg', UnderWay', hanging')
      BY <2>4, OfferGoesOn
    <2>5. ASSUME NEW s \in Legs, NEW out \in Outcomes, ArmReturned(s, out)
          PROVE  Waits(leg', UnderWay', hanging')
      BY <2>5, PictureWaits
    <2>6. ASSUME NEW c \in Calls, NEW by \in {"user", "reap"}, HangupReturned(c, by)
          PROVE  Waits(leg', UnderWay', hanging')
      BY <2>6, HangupGoesOn
    <2> QED BY <1>2, <2>1, <2>2, <2>3, <2>4, <2>5, <2>6, DiscardsWaits DEF Resumes
  <1>3. ASSUME NEW s \in Legs, Awaits(s)
        PROVE  Waits(leg', UnderWay', hanging')
    BY <1>3, OfferGoesOn, TeardownWaits, PeerClosedWaits DEF Awaits
  <1>4. ASSUME NEW s \in Legs, Asks(s) \/ Stalls(s)
        PROVE  Waits(leg', UnderWay', hanging')
    BY <1>4, PictureWaits
  <1>5. ASSUME NEW s \in Legs, Drops(s)
        PROVE  Waits(leg', UnderWay', hanging')
    BY <1>5, ClosesWaits DEF Drops
  <1>6. ASSUME NEW s \in Legs, NEW c \in Calls, Offers(s, c)
        PROVE  Waits(leg', UnderWay', hanging')
    BY <1>6, OffersWaits
  <1>7. ASSUME NEW c \in Calls, Call(c) \/ FarEnds(c) \/ HangsUp(c)
        PROVE  Waits(leg', UnderWay', hanging')
    BY <1>7, CallWaits, HangupGoesOn DEF Call
  <1>8. CASE Rests \/ UNCHANGED vars
    <2>1. UNCHANGED <<leg, hanging, queue, returned>>
      BY <1>8 DEF Rests, vars
    <2>2. \A x \in UnderWay : x \in UnderWay'
      BY <2>1 DEF UnderWay
    <2> QED BY <2>1, <2>2, NothingLost
  <1> QED BY <1>1, <1>2, <1>3, <1>4, <1>5, <1>6, <1>7, <1>8 DEF Next

\* `NoneWaits` of the state a step leads to.
LEMMA NoneWaitsNext ==
    ASSUME TypeOK', Waits(leg', UnderWay', hanging')
    PROVE  NoneStranded'
  <1>1. returned' \in Seq(Result) /\ queue' \in Seq(Job)
    BY DEF TypeOK
  <1>2. PICK U : U = Tags(returned') \cup Tags(queue')
    OBVIOUS
  <1>3. /\ \A b, s : Has(returned', queue', b, s) <=> In(U, b, s)
        /\ \A c : <<"user", Nobody, c>> \in U <=>
              \E k \in Places(returned', queue') :
                 /\ IsOf(Item(returned', queue', k), "user", Nobody)
                 /\ Item(returned', queue', k).call = c
    <2>1. PICK r \in Seq(Result), q \in Seq(Job) : r = returned' /\ q = queue'
      BY <1>1
    <2>2. Told(r, q, Tags(r) \cup Tags(q))
      BY TagsHave
    <2>3. Told(returned', queue', U)
      BY <1>2, <2>1, <2>2
    <2> QED BY <2>3 DEF Told
  <1>4. Waits(leg', U, hanging')
    BY <1>2 DEF UnderWay
  <1>5. \A s \in Legs : AnsweredOf(s)'
    BY <1>3, <1>4 DEF Waits, AnsweredOf, LegWaits
  <1>6. \A c \in Calls : HangupWaits(c)'
    BY <1>3, <1>4 DEF Waits, HangupWaits, UserWaits
  <1> QED BY <1>4, <1>5, <1>6 DEF NoneStranded, Waits

LEMMA NoneStrandedKept ==
    ASSUME IInv, NoneStranded, [Next]_vars
    PROVE  NoneStranded'
  <1>1. TypeOK /\ TypeOK'
    BY Steps DEF IInv
  <1>2. Waits(leg, UnderWay, hanging)
    BY <1>1, NoneWaits
  <1> QED BY <1>1, <1>2, WaitsSteps, NoneWaitsNext

LEMMA NobodyWaitsYet ==
    ASSUME Init
    PROVE  NoneStranded
  <1>1. ASSUME NEW s \in Legs
        PROVE  /\ leg[s].offer = "none" /\ leg[s].close = "no"
               /\ leg[s].wait = "none" /\ leg[s].pipe = "none"
    BY DEF Init
  <1>2. \A s \in Legs : AnsweredOf(s) /\ OfferWaits(leg, s)
    BY <1>1 DEF AnsweredOf, OfferWaits
  <1>3. \A c \in Calls : HangupWaits(c)
    BY DEF Init, HangupWaits
  <1> QED BY <1>2, <1>3 DEF NoneStranded

-----------------------------------------------------------------------------
(* The theorems.                                                           *)

\* The strengthening: each task awaits one job, a leg is in the book from its offer to the end
\* of its teardown, and a tap that is in belongs to a leg of its call that has still to take it
\* out, whatever the teardown has overtaken, unless its arm slipped: it came back while the
\* teardown awaited the end of the watchdog (pipeline.py:197-203), and nobody owes it any more.
THEOREM Inductive == Spec => []IInv
  BY Initially, Steps, PTL DEF Spec

\* Everything is of its type: the book, the worker and the taps speak only of calls and legs
\* there are (sessions.py:45-67), and a leg is at one of the awaits of its offer and of its
\* teardown.
THEOREM TypeCorrect == Spec => []TypeOK
  <1>1. IInv => TypeOK
    BY DEF IInv
  <1> QED BY <1>1, Inductive, PTL

\* Whoever closes a leg, and whatever arm, attach or undo was under way when it did
\* (session.py:129-142, session_video.py:137-145), a call that no leg is listed on, with
\* nothing more under way for it, has no tap left armed, but that of an arm that slipped.
THEOREM NothingLeftArmed == Spec => []NoTapLeft
  BY Inductive, TapOwed, PTL

\* Whoever awaits an answer has one coming (sessions.py:85-97, service.py:146,
\* session.py:129-142): an offer, a teardown, a wait for the picture and a watchdog have a job or
\* its result under way, an offer that replaces a leg or fails is the one its teardown goes back
\* to, and so is a hangup, which then has its own job, whoever else closes, cancels or ends.
THEOREM NobodyStranded == Spec => []NoneStranded
  <1>1. Init => IInv /\ NoneStranded
    BY Initially, NobodyWaitsYet
  <1>2. IInv /\ NoneStranded /\ [Next]_vars => (IInv /\ NoneStranded)'
    BY Steps, NoneStrandedKept
  <1> QED BY <1>1, <1>2, PTL DEF Spec
=============================================================================
