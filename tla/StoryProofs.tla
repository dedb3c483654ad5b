----------------------------- MODULE StoryProofs -----------------------------
(***************************************************************************)
(* Machine-checked proof that the events of EventStory say all there is to *)
(* know: folding them gives the tables of SqliteStore back.                *)
(*                                                                         *)
(* A step emits a list of events as long as its sweep needs, so the proof  *)
(* has two parts.  The first is about lists: the fold `Told' is taken one  *)
(* event further (BeliefsRec), hence of a concatenation it is the fold of  *)
(* the second list from where the first one led (ToldBoth), and what a     *)
(* sweep or a recompute announces in some order amounts to one change of   *)
(* all the tasks or runs it is about (SweepTold, ChangesTold).  Climb      *)
(* stands in for induction: a set that contains 0 and with every k below n *)
(* also k + 1 contains n.                                                  *)
(*                                                                         *)
(* The second part has one lemma per operation (...IsTold).  The invariant *)
(* StoryInv adds to IInv and the property itself that only finitely many   *)
(* tasks have rows (FewRows): else a sweep could not list the expired.     *)
(***************************************************************************)
EXTENDS EventStory, TableProofs, WellFoundedInduction

(* What is reached step by step is reached.                                  *)
LEMMA Climb ==
  ASSUME NEW n \in Nat, NEW M, 0 \in M, \A k \in 0 .. n - 1 : k \in M => k + 1 \in M
  PROVE  n \in M
<1> DEFINE Missing == {k \in 0 .. n : k \notin M}
<1> SUFFICES ASSUME n \notin M PROVE FALSE
  OBVIOUS
<1>1. Missing \subseteq Nat
  OBVIOUS
<1>2. IsWellFoundedOn(OpToRel(<, Nat), Nat)
  BY NatLessThanWellFounded
<1>3. PICK m \in Missing : \A k \in Missing : ~ (<<k, m>> \in OpToRel(<, Nat))
  <2>1. Missing # {}
    OBVIOUS
  <2> HIDE DEF Missing
  <2> QED
    BY <1>1, <1>2, <2>1, WFMin
<1>4. \A k \in Missing : ~ (k < m)
  BY <1>1, <1>3 DEF OpToRel
<1>5. m \in 1 .. n
  OBVIOUS
<1>6. m - 1 \in 0 .. n - 1 /\ (m - 1) + 1 = m
  BY <1>5
<1>7. m - 1 \in M
  BY <1>4, <1>6
<1> QED
  BY <1>6, <1>7

(* The recursive function behind Told.                                       *)
Beliefs(s, es) ==
  CHOOSE f : f = [k \in 0 .. Len(es) |-> IF k = 0 THEN s ELSE Hear(f[k - 1], es[k])]

(* The fold is the last value of that function.                              *)
LEMMA ToldIsBelief == ASSUME NEW s, NEW es PROVE Told(s, es) = Beliefs(s, es)[Len(es)]
  BY DEF Told, Beliefs

\* The first k beliefs.
IsBeliefs(f, s, es, k) ==
  f = [j \in 0 .. k |-> IF j = 0 THEN s ELSE Hear(f[j - 1], es[j])]

(* One event more.                                                           *)
LEMMA BeliefsStep ==
  ASSUME NEW s, NEW es, NEW k \in Nat, NEW f, IsBeliefs(f, s, es, k)
  PROVE  \E g : IsBeliefs(g, s, es, k + 1)
<1> DEFINE g == [j \in 0 .. k + 1 |-> IF j \in 0 .. k THEN f[j] ELSE Hear(f[k], es[j])]
<1>1. ASSUME NEW j \in 0 .. k + 1
      PROVE  g[j] = IF j = 0 THEN s ELSE Hear(g[j - 1], es[j])
  <2>1. CASE j = 0
    <3>1. g[0] = f[0] /\ 0 \in 0 .. k
      OBVIOUS
    <3>2. f[0] = s
      BY <3>1 DEF IsBeliefs
    <3> QED
      BY <2>1, <3>1, <3>2
  <2>2. CASE j \in 1 .. k
    <3>1. j \in 0 .. k /\ j - 1 \in 0 .. k /\ j # 0 /\ j - 1 \in 0 .. k + 1
      BY <2>2
    <3>2. f[j] = Hear(f[j - 1], es[j])
      BY <3>1 DEF IsBeliefs
    <3>3. g[j] = f[j] /\ g[j - 1] = f[j - 1]
      BY <3>1
    <3> QED
      BY <3>1, <3>2, <3>3
  <2>3. CASE j = k + 1
    <3>1. j \notin 0 .. k /\ j - 1 = k /\ k \in 0 .. k /\ k \in 0 .. k + 1 /\ j # 0
      BY <2>3
    <3>2. g[j] = Hear(f[k], es[j]) /\ g[k] = f[k]
      BY <3>1
    <3> QED
      BY <3>1, <3>2
  <2> QED
    BY <2>1, <2>2, <2>3
<1>2. g = [j \in 0 .. k + 1 |-> g[j]]
  OBVIOUS
<1>3. IsBeliefs(g, s, es, k + 1)
  <2> HIDE DEF g
  <2> QED
    BY <1>1, <1>2 DEF IsBeliefs
<1> QED
  BY <1>3

(* The recursive function exists for a list of any length.                   *)
LEMMA BeliefsExist ==
  ASSUME NEW s, NEW es, Len(es) \in Nat
  PROVE  IsBeliefs(Beliefs(s, es), s, es, Len(es))
<1> DEFINE n == Len(es)
           M == {k \in 0 .. n : \E f : IsBeliefs(f, s, es, k)}
<1>1. 0 \in M
  <2> DEFINE f == [j \in 0 .. 0 |-> s]
  <2>1. IsBeliefs(f, s, es, 0)
    BY DEF IsBeliefs
  <2> QED
    BY <2>1
<1>2. ASSUME NEW k \in 0 .. n - 1, k \in M PROVE k + 1 \in M
  BY <1>2, BeliefsStep
<1>3. n \in M
  <2> HIDE DEF M
  <2> QED
    BY <1>1, <1>2, Climb
<1>4. \E f : IsBeliefs(f, s, es, n)
  BY <1>3
<1> QED
  BY <1>4 DEF Beliefs, IsBeliefs

(* What a subscriber believes after nothing, and after one event more.       *)
LEMMA BeliefsRec ==
  ASSUME NEW s, NEW es, Len(es) \in Nat
  PROVE  /\ Beliefs(s, es)[0] = s
         /\ \A k \in 1 .. Len(es) : Beliefs(s, es)[k] = Hear(Beliefs(s, es)[k - 1], es[k])
<1>1. IsBeliefs(Beliefs(s, es), s, es, Len(es))
  BY BeliefsExist
<1> DEFINE f == Beliefs(s, es)
<1>2. f = [j \in 0 .. Len(es) |-> IF j = 0 THEN s ELSE Hear(f[j - 1], es[j])]
  BY <1>1 DEF IsBeliefs
<1> HIDE DEF f
<1>3. f[0] = s
  BY <1>2
<1>4. \A k \in 1 .. Len(es) : f[k] = Hear(f[k - 1], es[k])
  BY <1>2
<1> QED
  BY <1>3, <1>4 DEF f

(* No events, no news.                                                       *)
LEMMA ToldNothing == ASSUME NEW s, NEW es, Len(es) = 0 PROVE Told(s, es) = s
  BY BeliefsRec, ToldIsBelief

(* The events of one list and then those of another.                         *)
LEMMA ToldBoth ==
  ASSUME NEW A, NEW C, NEW s, NEW a \in Seq(A), NEW c \in Seq(C)
  PROVE  Told(s, a \o c) = Told(Told(s, a), c)
<1> DEFINE ac == a \o c
           f == Beliefs(s, a)
           g == Beliefs(Told(s, a), c)
           h == Beliefs(s, ac)
           SameA == {k \in 0 .. Len(a) : h[k] = f[k]}
           SameC == {k \in 0 .. Len(c) : h[Len(a) + k] = g[k]}
<1>0. a \in Seq(A \union C) /\ c \in Seq(A \union C)
  OBVIOUS
<1>1. /\ ac \in Seq(A \union C) /\ Len(ac) = Len(a) + Len(c)
      /\ Len(a) \in Nat /\ Len(c) \in Nat /\ Len(ac) \in Nat
      /\ \A k \in 1 .. Len(a) : ac[k] = a[k]
      /\ \A k \in 1 .. Len(c) : ac[Len(a) + k] = c[k]
  BY <1>0
<1>2. f[0] = s /\ \A k \in 1 .. Len(a) : f[k] = Hear(f[k - 1], a[k])
  BY <1>1, BeliefsRec
<1>3. g[0] = Told(s, a) /\ \A k \in 1 .. Len(c) : g[k] = Hear(g[k - 1], c[k])
  BY <1>1, BeliefsRec
<1> HIDE DEF ac
<1>4. h[0] = s /\ \A k \in 1 .. Len(ac) : h[k] = Hear(h[k - 1], ac[k])
  BY <1>1, BeliefsRec
<1>5. Told(s, a) = f[Len(a)] /\ Told(s, ac) = h[Len(ac)] /\ Told(Told(s, a), c) = g[Len(c)]
  BY ToldIsBelief
<1> HIDE DEF f, g, h
<1>6. Len(a) \in SameA
  <2>1. 0 \in SameA
    BY <1>1, <1>2, <1>4
  <2>2. ASSUME NEW k \in 0 .. Len(a) - 1, k \in SameA PROVE k + 1 \in SameA
    <3>1. k + 1 \in 1 .. Len(a) /\ k + 1 \in 1 .. Len(ac) /\ (k + 1) - 1 = k
      BY <1>1
    <3>2. h[k + 1] = Hear(h[k], ac[k + 1]) /\ f[k + 1] = Hear(f[k], a[k + 1])
      BY <1>2, <1>4, <3>1
    <3>3. h[k] = f[k] /\ ac[k + 1] = a[k + 1]
      BY <1>1, <2>2, <3>1
    <3> QED
      BY <3>1, <3>2, <3>3
  <2> HIDE DEF SameA
  <2> QED
    BY <1>1, <2>1, <2>2, Climb
<1>7. Len(c) \in SameC
  <2>1. 0 \in SameC
    BY <1>1, <1>3, <1>5, <1>6
  <2>2. ASSUME NEW k \in 0 .. Len(c) - 1, k \in SameC PROVE k + 1 \in SameC
    <3>1. /\ k + 1 \in 1 .. Len(c) /\ (k + 1) - 1 = k
          /\ Len(a) + (k + 1) \in 1 .. Len(ac) /\ (Len(a) + (k + 1)) - 1 = Len(a) + k
      BY <1>1
    <3>2. /\ h[Len(a) + (k + 1)] = Hear(h[Len(a) + k], ac[Len(a) + (k + 1)])
          /\ g[k + 1] = Hear(g[k], c[k + 1])
      BY <1>3, <1>4, <3>1
    <3>3. h[Len(a) + k] = g[k] /\ ac[Len(a) + (k + 1)] = c[k + 1]
      BY <1>1, <2>2, <3>1
    <3> QED
      BY <3>1, <3>2, <3>3
  <2> HIDE DEF SameC
  <2> QED
    BY <1>1, <2>1, <2>2, Climb
<1> QED
  BY <1>1, <1>5, <1>7 DEF ac

(* Lists of one and of two events.                                           *)
LEMMA ToldOne == ASSUME NEW s, NEW e PROVE Told(s, <<e>>) = Hear(s, e)
<1> DEFINE es == <<e>>
<1>1. Len(es) = 1 /\ es[1] = e
  OBVIOUS
<1> HIDE DEF es
<1>2. Beliefs(s, es)[0] = s /\ Beliefs(s, es)[1] = Hear(Beliefs(s, es)[1 - 1], es[1])
  BY <1>1, BeliefsRec
<1>3. Told(s, es) = Beliefs(s, es)[1]
  BY <1>1, ToldIsBelief
<1>4. Told(s, es) = Hear(s, e)
  BY <1>1, <1>2, <1>3
<1> QED
  BY <1>4 DEF es

LEMMA ToldTwo == ASSUME NEW s, NEW e, NEW f PROVE Told(s, <<e, f>>) = Hear(Hear(s, e), f)
<1> DEFINE es == <<e, f>>
           b == Beliefs(s, es)
<1>1. Len(es) = 2 /\ es[1] = e /\ es[2] = f
  OBVIOUS
<1> HIDE DEF es
<1>2. b[0] = s /\ b[1] = Hear(b[1 - 1], es[1]) /\ b[2] = Hear(b[2 - 1], es[2])
  BY <1>1, BeliefsRec
<1>3. Told(s, es) = b[2]
  BY <1>1, ToldIsBelief
<1> HIDE DEF b
<1>4. Told(s, es) = Hear(Hear(s, e), f)
  BY <1>1, <1>2, <1>3
<1> QED
  BY <1>4 DEF es

-----------------------------------------------------------------------------
(* Lists of sets and lists of lists.                                         *)

(* SetToSeq lists each element of a finite set.                              *)
LEMMA SetListed ==
  ASSUME NEW S, IsFiniteSet(S)
  PROVE  /\ SetToSeq(S) \in Seq(S) /\ Len(SetToSeq(S)) \in Nat
         /\ SetToSeq(S) \in [1 .. Len(SetToSeq(S)) -> S]
         /\ \A x \in S : \E k \in 1 .. Len(SetToSeq(S)) : SetToSeq(S)[k] = x
         /\ \A k, m \in 1 .. Len(SetToSeq(S)) : SetToSeq(S)[k] = SetToSeq(S)[m] => k = m
<1> DEFINE n == Cardinality(S)
           q == SetToSeq(S)
<1>1. n \in Nat /\ ExistsBijection(1 .. n, S)
  BY FS_CardinalityType
<1>2. \E f \in [1 .. n -> S] : IsInjective(f)
  BY <1>1 DEF ExistsBijection, Bijection, Injection
<1>3. q \in [1 .. n -> S] /\ IsInjective(q)
  BY <1>2 DEF SetToSeq
<1>4. q \in Injection(1 .. n, S)
  BY <1>3 DEF Injection
<1>5. IsFiniteSet(1 .. n) /\ Cardinality(1 .. n) = n
  <2>1. 1 \in Int /\ n \in Int /\ 0 \in Int
    BY <1>1
  <2> QED
    BY <1>1, <2>1, FS_Interval
<1>6. q \in Surjection(1 .. n, S)
  BY <1>4, <1>5, FS_Injection
<1>7. q \in Seq(S) /\ Len(q) = n
  BY <1>1, <1>3
<1> HIDE DEF q, n
<1>8. \A x \in S : \E k \in 1 .. n : q[k] = x
  BY <1>6 DEF Surjection
<1>9. /\ q \in Seq(S) /\ Len(q) \in Nat /\ q \in [1 .. Len(q) -> S]
      /\ \A x \in S : \E k \in 1 .. Len(q) : q[k] = x
      /\ \A k, m \in 1 .. Len(q) : q[k] = q[m] => k = m
  BY <1>1, <1>3, <1>7, <1>8 DEF IsInjective
<1> QED
  BY <1>9 DEF q

\* The first k parts of ss in one list.
IsFlat(f, ss, k) == f = [i \in 1 .. k |-> IF i = 1 THEN ss[i] ELSE f[i - 1] \o ss[i]]

Flat(ss) == CHOOSE f : f = [i \in 1 .. Len(ss) |-> IF i = 1 THEN ss[i] ELSE f[i - 1] \o ss[i]]

(* FlattenSeq of the community modules is the last value of Flat.            *)
LEMMA FlattenIsFlat ==
  ASSUME NEW ss, Len(ss) # 0
  PROVE  FlattenSeq(ss) = Flat(ss)[Len(ss)]
  BY DEF FlattenSeq, Flat

(* One list more.                                                            *)
LEMMA FlatStep ==
  ASSUME NEW ss, NEW k \in Nat, NEW f, IsFlat(f, ss, k)
  PROVE  \E g : IsFlat(g, ss, k + 1)
<1> DEFINE g == [i \in 1 .. k + 1 |->
                  IF i \in 1 .. k THEN f[i] ELSE IF i = 1 THEN ss[i] ELSE f[k] \o ss[i]]
<1>1. ASSUME NEW i \in 1 .. k + 1
      PROVE  g[i] = IF i = 1 THEN ss[i] ELSE g[i - 1] \o ss[i]
  <2>1. CASE i \in 1 .. k
    <3>1. f[i] = IF i = 1 THEN ss[i] ELSE f[i - 1] \o ss[i]
      BY <2>1 DEF IsFlat
    <3>2. g[i] = f[i]
      BY <2>1
    <3>3. i # 1 => g[i - 1] = f[i - 1]
      BY <2>1
    <3> QED
      BY <3>1, <3>2, <3>3
  <2>2. CASE i = k + 1 /\ i = 1
    <3>1. i \notin 1 .. k
      BY <2>2
    <3> QED
      BY <2>2, <3>1
  <2>3. CASE i = k + 1 /\ i # 1
    <3>1. i \notin 1 .. k /\ i - 1 = k /\ k \in 1 .. k /\ k \in 1 .. k + 1
      BY <2>3
    <3>2. g[i] = f[k] \o ss[i] /\ g[k] = f[k]
      BY <2>3, <3>1
    <3> QED
      BY <2>3, <3>1, <3>2
  <2>4. i \in 1 .. k \/ i = k + 1
    OBVIOUS
  <2> QED
    BY <2>1, <2>2, <2>3, <2>4
<1>2. g = [i \in 1 .. k + 1 |-> g[i]]
  OBVIOUS
<1>3. IsFlat(g, ss, k + 1)
  <2> HIDE DEF g
  <2> QED
    BY <1>1, <1>2 DEF IsFlat
<1> QED
  BY <1>3

(* Flat satisfies its equation.                                              *)
LEMMA FlatRec ==
  ASSUME NEW ss, Len(ss) \in Nat
  PROVE  \A i \in 1 .. Len(ss) :
           Flat(ss)[i] = IF i = 1 THEN ss[i] ELSE Flat(ss)[i - 1] \o ss[i]
<1> DEFINE n == Len(ss)
           M == {k \in 0 .. n : \E f : IsFlat(f, ss, k)}
           b == Flat(ss)
<1>1. 0 \in M
  <2> DEFINE f == [i \in 1 .. 0 |-> ss]
  <2>1. f = [i \in 1 .. 0 |-> IF i = 1 THEN ss[i] ELSE f[i - 1] \o ss[i]]
    OBVIOUS
  <2>2. IsFlat(f, ss, 0)
    BY <2>1 DEF IsFlat
  <2> QED
    BY <2>2
<1>2. ASSUME NEW k \in 0 .. n - 1, k \in M PROVE k + 1 \in M
  BY <1>2, FlatStep
<1>3. n \in M
  <2> HIDE DEF M
  <2> QED
    BY <1>1, <1>2, Climb
<1>4. \E f : IsFlat(f, ss, n)
  BY <1>3
<1>5. IsFlat(b, ss, n)
  BY <1>4 DEF Flat, IsFlat
<1> HIDE DEF b
<1>6. \A i \in 1 .. n : b[i] = IF i = 1 THEN ss[i] ELSE b[i - 1] \o ss[i]
  BY <1>5 DEF IsFlat
<1> QED
  BY <1>6 DEF b

(* Lists of S in one list are a list of S.                                   *)
LEMMA FlatSeq ==
  ASSUME NEW S, NEW ss, Len(ss) \in Nat, \A i \in 1 .. Len(ss) : ss[i] \in Seq(S)
  PROVE  \A i \in 1 .. Len(ss) : Flat(ss)[i] \in Seq(S)
<1> DEFINE n == Len(ss)
           b == Flat(ss)
<1>1. \A i \in 1 .. n : b[i] = IF i = 1 THEN ss[i] ELSE b[i - 1] \o ss[i]
  BY FlatRec
<1> HIDE DEF b
<1> DEFINE M == {k \in 0 .. n : \A i \in 1 .. k : b[i] \in Seq(S)}
<1>2. 0 \in M
  OBVIOUS
<1>3. ASSUME NEW k \in 0 .. n - 1, k \in M PROVE k + 1 \in M
  <2>1. k + 1 \in 1 .. n /\ (k + 1) - 1 = k /\ \A i \in 1 .. k : b[i] \in Seq(S)
    BY <1>3
  <2>2. b[k + 1] \in Seq(S)
    <3>1. ss[k + 1] \in Seq(S)
      BY <2>1
    <3>2. CASE k = 0
      BY <1>1, <2>1, <3>1, <3>2
    <3>3. CASE k # 0
      <4>1. b[k] \in Seq(S) /\ b[k + 1] = b[k] \o ss[k + 1]
        BY <1>1, <2>1, <3>3, k \in 1 .. k, k + 1 # 1
      <4> QED
        BY <3>1, <4>1
    <3> QED
      BY <3>2, <3>3
  <2>3. \A i \in 1 .. k + 1 : i \in 1 .. k \/ i = k + 1
    OBVIOUS
  <2> QED
    BY <2>1, <2>2, <2>3
<1>4. n \in M
  <2> HIDE DEF M
  <2> QED
    BY <1>2, <1>3, Climb
<1>5. \A i \in 1 .. n : b[i] \in Seq(S)
  BY <1>4
<1> QED
  BY <1>5 DEF b

-----------------------------------------------------------------------------
(* What one event does to what is believed.                                  *)

Belief(f, g) == [runs |-> f, tasks |-> g]

(* An event about a task, and one about a run.                               *)
LEMMA HearTask ==
  ASSUME NEW f, NEW g, NEW e, "task" \in DOMAIN e
  PROVE  Hear(Belief(f, g), e) = Belief(f, [g EXCEPT ![e.task] = Believe(@, e)])
  BY DEF Hear, Belief

LEMMA HearRun ==
  ASSUME NEW f, NEW g, NEW type, NEW r, NEW to
  PROVE  Hear(Belief(f, g), RunEvent(type, r, to)) =
           Belief([f EXCEPT ![r] = to], IF type = "run.cancelled" THEN CancelledWith(r, g) ELSE g)
<1> DEFINE e == RunEvent(type, r, to)
<1>1. "task" \notin DOMAIN e /\ e.type = type /\ e.run = r /\ e.to = to
  BY DEF RunEvent
<1> HIDE DEF e
<1>2. Hear(Belief(f, g), e) =
        Belief([f EXCEPT ![r] = to], IF type = "run.cancelled" THEN CancelledWith(r, g) ELSE g)
  BY <1>1 DEF Hear, Belief
<1> QED
  BY <1>2 DEF e

\* u is a function on the columns that a subscriber knows.
IsView(u) ==
  /\ u = [i \in DOMAIN u |-> u[i]]
  /\ DOMAIN u = {"status", "attempts", "lease", "until", "notBefore", "dead"}

(* Two views with the same columns are equal.                                *)
LEMMA ViewsEqual ==
  ASSUME NEW u, NEW v, IsView(u), IsView(v), u.status = v.status, u.attempts = v.attempts,
         u.lease = v.lease, u.until = v.until, u.notBefore = v.notBefore, u.dead = v.dead
  PROVE  u = v
  BY DEF IsView

(* The columns of a view are those of the row.                               *)
LEMMA RowIsView ==
  ASSUME NEW row
  PROVE  /\ IsView(View(row))
         /\ View(row).status = row.status /\ View(row).attempts = row.attemptCount
         /\ View(row).lease = row.leaseId /\ View(row).until = row.leaseExpiresAt
         /\ View(row).notBefore = row.notBefore /\ View(row).dead = row.dead
  BY DEF IsView, View

(* Leaving a lease looks the same from outside.                              *)
LEMMA IdleView ==
  ASSUME NEW row \in TaskRows, NEW to
  PROVE  View(WithoutLease(row, to)) = Idle(View(row), to)
<1> DEFINE x == WithoutLease(row, to)
           u == [View(row) EXCEPT !.status = to, !.lease = Null, !.until = NoTime]
<1>1. /\ x.status = to /\ x.leaseId = Null /\ x.leaseExpiresAt = NoTime
      /\ x.attemptCount = row.attemptCount /\ x.notBefore = row.notBefore /\ x.dead = row.dead
  BY DEF WithoutLease, TaskRows
<1>2. /\ u.status = to /\ u.attempts = row.attemptCount /\ u.lease = Null /\ u.until = NoTime
      /\ u.notBefore = row.notBefore /\ u.dead = row.dead
  BY DEF View
<1>3. IsView(u)
  BY DEF View, IsView
<1> HIDE DEF x, u
<1>4. View(x) = u
  BY <1>1, <1>2, <1>3, RowIsView, ViewsEqual
<1> QED
  BY <1>4 DEF x, u, Idle

(* run.status.changed says nothing of the tasks.                             *)
LEMMA HearStatus ==
  ASSUME NEW f, NEW g, NEW r, NEW to
  PROVE  Hear(Belief(f, g), RunEvent("run.status.changed", r, to)) = Belief([f EXCEPT ![r] = to], g)
<1> DEFINE type == "run.status.changed"
<1>1. type # "run.cancelled"
  OBVIOUS
<1> HIDE DEF type
<1>2. Hear(Belief(f, g), RunEvent(type, r, to)) = Belief([f EXCEPT ![r] = to], g)
  BY <1>1, HearRun
<1> QED
  BY <1>2 DEF type

(* Events that only tell of a status: the task is not held any more.         *)
LEMMA PlainEvent ==
  ASSUME NEW v, NEW t, NEW to,
         NEW type \in {"task.blocked", "task.waiting_input", "task.released", "task.completed",
                       "task.failed", "task.resumed"}
  PROVE  Believe(v, TaskEvent(type, t, to)) = Idle(v, to)
<1> DEFINE e == TaskEvent(type, t, to)
<1>1. e.type = type /\ e.to = to
  BY DEF TaskEvent
<1> HIDE DEF e
<1>2. Believe(v, e) = Idle(v, to)
  BY <1>1 DEF Believe
<1> QED
  BY <1>2 DEF e

(* The operations write the columns that their events tell.                  *)
LEMMA StatusView ==
  ASSUME NEW row \in TaskRows, NEW to
  PROVE  View([row EXCEPT !.status = to]) = [View(row) EXCEPT !.status = to]
<1> DEFINE x == [row EXCEPT !.status = to]
<1>1. /\ x.status = to /\ x.leaseId = row.leaseId /\ x.leaseExpiresAt = row.leaseExpiresAt
      /\ x.attemptCount = row.attemptCount /\ x.notBefore = row.notBefore /\ x.dead = row.dead
  BY DEF TaskRows
<1> HIDE DEF x
<1>2. View(x) = [View(row) EXCEPT !.status = to]
  BY <1>1 DEF View
<1> QED
  BY <1>2 DEF x

LEMMA DeadlineView ==
  ASSUME NEW row \in TaskRows, NEW until
  PROVE  View([row EXCEPT !.leaseExpiresAt = until]) = [View(row) EXCEPT !.until = until]
<1> DEFINE x == [row EXCEPT !.leaseExpiresAt = until]
<1>1. /\ x.status = row.status /\ x.leaseId = row.leaseId /\ x.leaseExpiresAt = until
      /\ x.attemptCount = row.attemptCount /\ x.notBefore = row.notBefore /\ x.dead = row.dead
  BY DEF TaskRows
<1> HIDE DEF x
<1>2. View(x) = [View(row) EXCEPT !.until = until]
  BY <1>1 DEF View
<1> QED
  BY <1>2 DEF x

LEMMA QueuedView ==
  ASSUME NEW at
  PROVE  View(QueuedTask(at)) = [NoView EXCEPT !.status = "queued"]
<1> DEFINE x == QueuedTask(at)
           u == [NoView EXCEPT !.status = "queued"]
<1>1. /\ x.status = "queued" /\ x.leaseId = Null /\ x.leaseExpiresAt = NoTime
      /\ x.attemptCount = 0 /\ x.notBefore = NoTime /\ x.dead = FALSE
  BY DEF QueuedTask, AbsentTask
<1>2. /\ u.status = "queued" /\ u.lease = Null /\ u.until = NoTime
      /\ u.attempts = 0 /\ u.notBefore = NoTime /\ u.dead = FALSE
  BY DEF NoView
<1>3. IsView(u)
  BY DEF NoView, IsView
<1> HIDE DEF x, u
<1>4. View(x).dead = u.dead
  <2>1. View(x).dead = x.dead
    BY RowIsView
  <2> QED
    BY <1>1, <1>2, <2>1, Zenon
<1>5. /\ IsView(View(x)) /\ View(x).status = x.status /\ View(x).attempts = x.attemptCount
      /\ View(x).lease = x.leaseId /\ View(x).until = x.leaseExpiresAt
      /\ View(x).notBefore = x.notBefore
  BY RowIsView
<1>6. View(x) = u
  BY <1>1, <1>2, <1>3, <1>4, <1>5, ViewsEqual
<1> QED
  BY <1>6 DEF x, u

LEMMA ClaimedView ==
  ASSUME NEW row \in TaskRows, NEW l, NEW w, NEW until,
         NEW e, e.type = "task.claimed", e.lease = l, e.until = until
  PROVE  Believe(View(row), e) = View(ClaimedRow(row, l, w, until))
<1> DEFINE x == ClaimedRow(row, l, w, until)
           v == View(row)
           u == [v EXCEPT !.status = "leased", !.attempts = @ + 1, !.lease = e.lease,
                          !.until = e.until, !.notBefore = NoTime]
<1>1. /\ x.status = "leased" /\ x.leaseId = l /\ x.leaseExpiresAt = until
      /\ x.attemptCount = row.attemptCount + 1 /\ x.notBefore = NoTime /\ x.dead = row.dead
  BY DEF ClaimedRow, TaskRows
<1>2. /\ u.status = "leased" /\ u.lease = l /\ u.until = until
      /\ u.attempts = row.attemptCount + 1 /\ u.notBefore = NoTime /\ u.dead = row.dead
  BY DEF View
<1>3. IsView(u)
  BY DEF View, IsView
<1>4. Believe(v, e) = u
  BY DEF Believe
<1> HIDE DEF x, u
<1>5. View(x) = u
  BY <1>1, <1>2, <1>3, RowIsView, ViewsEqual
<1> QED
  BY <1>4, <1>5 DEF x

LEMMA RequeuedView ==
  ASSUME NEW row \in TaskRows, NEW reset \in BOOLEAN, NEW notBefore
  PROVE  View(RequeuedRow(row, reset, notBefore)) =
           [Idle(View(row), "queued") EXCEPT !.dead = FALSE, !.notBefore = notBefore,
                                             !.attempts = IF reset THEN 0 ELSE @]
<1> DEFINE x == RequeuedRow(row, reset, notBefore)
           i == Idle(View(row), "queued")
           u == [i EXCEPT !.dead = FALSE, !.notBefore = notBefore,
                          !.attempts = IF reset THEN 0 ELSE @]
           n == IF reset THEN 0 ELSE row.attemptCount
<1>1. /\ x.status = "queued" /\ x.leaseId = Null /\ x.leaseExpiresAt = NoTime
      /\ x.attemptCount = n /\ x.notBefore = notBefore /\ x.dead = FALSE
  BY DEF RequeuedRow, WithoutLease, TaskRows
<1>2. /\ i.status = "queued" /\ i.lease = Null /\ i.until = NoTime
      /\ i.attempts = row.attemptCount
  BY DEF Idle, View
<1>3. IsView(i)
  BY DEF Idle, View, IsView
<1> HIDE DEF i
<1>4. /\ u.status = "queued" /\ u.lease = Null /\ u.until = NoTime
      /\ u.attempts = n /\ u.notBefore = notBefore /\ u.dead = FALSE
  BY <1>2, <1>3 DEF IsView
<1>5. IsView(u)
  BY <1>3 DEF IsView
<1> HIDE DEF x, u, n
<1>6. View(x).dead = u.dead
  <2>1. View(x).dead = x.dead
    BY RowIsView
  <2> QED
    BY <1>1, <1>4, <2>1, Zenon
<1>7. /\ IsView(View(x)) /\ View(x).status = x.status /\ View(x).attempts = x.attemptCount
      /\ View(x).lease = x.leaseId /\ View(x).until = x.leaseExpiresAt
      /\ View(x).notBefore = x.notBefore
  BY RowIsView
<1>8. View(x) = u
  BY <1>1, <1>4, <1>5, <1>6, <1>7, ViewsEqual
<1> QED
  BY <1>8 DEF x, u, i

(* What a sweep says of a task is the row it leaves.                         *)
LEMMA ExpiryTold ==
  ASSUME TypeOK, NEW t \in Tasks, NEW at, NEW f, NEW g,
         g = [u \in Tasks |-> g[u]], g[t] = View(tasks[t])
  PROVE  Told(Belief(f, g), ExpiryEvents(t, at)) =
           Belief(f, [g EXCEPT ![t] = View(ExpiredRow(t, at))])
<1>1. tasks[t] \in TaskRows
  BY DEF TypeOK
<1>2. CASE MaxAttemptsReached(t, tasks[t])
  <2> DEFINE e1 == TaskEvent("task.failed", t, "failed")
             e2 == [type |-> "task.dead_lettered", task |-> t]
             h == [g EXCEPT ![t] = Believe(@, e1)]
  <2>1. ExpiryEvents(t, at) = <<e1, e2>>
    BY <1>2 DEF ExpiryEvents
  <2>2. "task" \in DOMAIN e1 /\ e1.task = t /\ "task" \in DOMAIN e2 /\ e2.task = t
    BY DEF TaskEvent
  <2>3. View(ExpiredRow(t, at)) = Believe(Believe(g[t], e1), e2)
    <3> DEFINE v == View(tasks[t])
    <3>1. Believe(v, e1) = Idle(v, "failed")
      BY DEF Believe, TaskEvent
    <3>2. Believe(Idle(v, "failed"), e2) = [Idle(v, "failed") EXCEPT !.dead = TRUE, !.notBefore = NoTime]
      BY DEF Believe
    <3>3. View(ExpiredRow(t, at)) = [Idle(v, "failed") EXCEPT !.dead = TRUE, !.notBefore = NoTime]
      <4> DEFINE x == WithoutLease(tasks[t], "failed")
                 y == [x EXCEPT !.notBefore = NoTime, !.dead = TRUE]
      <4>1. x \in TaskRows /\ View(x) = Idle(v, "failed")
        BY <1>1, IdleView, WithoutLeaseRow DEF TaskStatuses
      <4>2. ExpiredRow(t, at) = y
        BY <1>2 DEF ExpiredRow
      <4> HIDE DEF x
      <4>3. /\ y.status = x.status /\ y.attemptCount = x.attemptCount /\ y.leaseId = x.leaseId
            /\ y.leaseExpiresAt = x.leaseExpiresAt /\ y.notBefore = NoTime /\ y.dead = TRUE
        BY <4>1 DEF TaskRows
      <4> HIDE DEF y
      <4> DEFINE u == [View(x) EXCEPT !.dead = TRUE, !.notBefore = NoTime]
      <4>4. /\ u.status = x.status /\ u.attempts = x.attemptCount /\ u.lease = x.leaseId
            /\ u.until = x.leaseExpiresAt /\ u.notBefore = NoTime /\ u.dead = TRUE
        BY DEF View
      <4>5. IsView(u)
        BY DEF View, IsView
      <4>6. View(y) = u
        <5> HIDE DEF u
        <5> QED
          <6>1. IsView(View(y)) /\ View(y).dead = y.dead /\ View(y).status = y.status
            BY RowIsView
          <6>2. View(y).attempts = y.attemptCount /\ View(y).lease = y.leaseId
            BY RowIsView
          <6>3. View(y).until = y.leaseExpiresAt /\ View(y).notBefore = y.notBefore
            BY RowIsView
          <6>4. View(y).dead = u.dead
            BY <4>3, <4>4, <6>1, Zenon
          <6> QED
            BY <4>3, <4>4, <4>5, <6>1, <6>2, <6>3, <6>4, ViewsEqual
      <4> QED
        BY <4>1, <4>2, <4>6
    <3> QED
      BY <3>1, <3>2, <3>3
  <2> HIDE DEF e1, e2
  <2>4. Hear(Belief(f, g), e1) = Belief(f, h)
    BY <2>2, HearTask
  <2>5. h[t] = Believe(g[t], e1)
    OBVIOUS
  <2>6. Hear(Belief(f, h), e2) = Belief(f, [h EXCEPT ![t] = Believe(@, e2)])
    <3> HIDE DEF h
    <3> QED
      BY <2>2, HearTask
  <2>7. [h EXCEPT ![t] = Believe(@, e2)] = [g EXCEPT ![t] = View(ExpiredRow(t, at))]
    BY <2>3, <2>5
  <2> QED
    BY <2>1, <2>4, <2>6, <2>7, ToldTwo
<1>3. CASE ~ MaxAttemptsReached(t, tasks[t])
  <2> DEFINE e == [type |-> "task.lease_expired", task |-> t, notBefore |-> RetryAt(t, at)]
  <2>1. ExpiryEvents(t, at) = <<e>>
    BY <1>3 DEF ExpiryEvents
  <2>2. "task" \in DOMAIN e /\ e.task = t
    OBVIOUS
  <2>3. View(ExpiredRow(t, at)) = Believe(g[t], e)
    <3> DEFINE v == View(tasks[t])
    <3>1. Believe(v, e) = [Idle(v, "queued") EXCEPT !.notBefore = RetryAt(t, at)]
      BY DEF Believe
    <3>2. View(ExpiredRow(t, at)) = [Idle(v, "queued") EXCEPT !.notBefore = RetryAt(t, at)]
      <4> DEFINE x == WithoutLease(tasks[t], "queued")
                 y == [x EXCEPT !.notBefore = RetryAt(t, at)]
      <4>1. x \in TaskRows /\ View(x) = Idle(v, "queued")
        BY <1>1, IdleView, WithoutLeaseRow DEF TaskStatuses
      <4>2. ExpiredRow(t, at) = y
        BY <1>3 DEF ExpiredRow
      <4> HIDE DEF x
      <4>3. /\ y.status = x.status /\ y.attemptCount = x.attemptCount /\ y.leaseId = x.leaseId
            /\ y.leaseExpiresAt = x.leaseExpiresAt /\ y.dead = x.dead /\ y.notBefore = RetryAt(t, at)
        BY <4>1 DEF TaskRows
      <4> HIDE DEF y
      <4>4. View(y) = [View(x) EXCEPT !.notBefore = RetryAt(t, at)]
        BY <4>3 DEF View
      <4> QED
        BY <4>1, <4>2, <4>4
    <3> QED
      BY <3>1, <3>2
  <2> HIDE DEF e
  <2>4. Hear(Belief(f, g), e) = Belief(f, [g EXCEPT ![t] = View(ExpiredRow(t, at))])
    BY <2>2, <2>3, HearTask
  <2> QED
    BY <2>1, <2>4, ToldOne
<1> QED
  BY <1>2, <1>3

-----------------------------------------------------------------------------
(* What a list of events does.                                               *)

\* The table of tasks is finite.
FewRows == IsFiniteSet({t \in Tasks : tasks[t].status \in TaskStatuses})

(* So is the set of tasks a sweep finds.                                     *)
LEMMA ExpiredFinite ==
  ASSUME FewRows, NEW at
  PROVE  IsFiniteSet(Expired(at)) /\ Expired(at) \in SUBSET Tasks
<1>1. Expired(at) \in SUBSET {t \in Tasks : tasks[t].status \in TaskStatuses}
  BY DEF Expired, HeldStatuses, TaskStatuses
<1> QED
  BY <1>1, FS_Subset DEF FewRows

ExpiryEventSet(at) ==
  {TaskEvent("task.failed", t, "failed") : t \in Tasks}
    \union {[type |-> "task.dead_lettered", task |-> t] : t \in Tasks}
    \union {[type |-> "task.lease_expired", task |-> t, notBefore |-> RetryAt(t, at)] : t \in Tasks}

(* The events of one expired task are a list.                                *)
LEMMA ExpiryEventsSeq ==
  ASSUME NEW t \in Tasks, NEW at
  PROVE  ExpiryEvents(t, at) \in Seq(ExpiryEventSet(at))
<1> DEFINE X == ExpiryEventSet(at)
           e1 == TaskEvent("task.failed", t, "failed")
           e2 == [type |-> "task.dead_lettered", task |-> t]
           e3 == [type |-> "task.lease_expired", task |-> t, notBefore |-> RetryAt(t, at)]
<1>1. e1 \in X /\ e2 \in X /\ e3 \in X
  BY DEF ExpiryEventSet
<1> HIDE DEF X, e1, e2, e3
<1>2. <<e1, e2>> \in Seq(X) /\ <<e3>> \in Seq(X)
  BY <1>1
<1> QED
  BY <1>2 DEF X, e1, e2, e3, ExpiryEvents

(* What is believed of the tasks after the events of a sweep.                *)
Swept(g, at) ==
  [t \in Tasks |-> IF t \in Expired(at) THEN View(ExpiredRow(t, at)) ELSE g[t]]

(* A sweep announces what it makes of each task, in whatever order.          *)
LEMMA SweepTold ==
  ASSUME TypeOK, FewRows, NEW at, NEW f, NEW g,
         g = [t \in Tasks |-> g[t]], \A t \in Expired(at) : g[t] = View(tasks[t])
  PROVE  /\ SweepEvents(at) \in Seq(ExpiryEventSet(at))
         /\ Told(Belief(f, g), SweepEvents(at)) = Belief(f, Swept(g, at))
<1> DEFINE q == SetToSeq(Expired(at))
           n == Len(q)
           ss == [i \in DOMAIN q |-> ExpiryEvents(q[i], at)]
           upTo(k) == [t \in Tasks |->
                         IF \E j \in 1 .. k : q[j] = t THEN View(ExpiredRow(t, at)) ELSE g[t]]
           s0 == Belief(f, g)
           X == ExpiryEventSet(at)
           M == {k \in 0 .. n : 1 <= k => Told(s0, Flat(ss)[k]) = Belief(f, upTo(k))}
<1>1. IsFiniteSet(Expired(at)) /\ Expired(at) \in SUBSET Tasks
  BY ExpiredFinite
<1>2. /\ q \in Seq(Expired(at)) /\ n \in Nat /\ q \in [1 .. n -> Expired(at)]
      /\ \A t \in Expired(at) : \E k \in 1 .. n : q[k] = t
      /\ \A k, m \in 1 .. n : q[k] = q[m] => k = m
  BY <1>1, SetListed
<1>3. SweepEvents(at) = FlattenSeq(ss)
  BY DEF SweepEvents
<1> HIDE DEF q
<1>4. DOMAIN q = 1 .. n /\ \A i \in 1 .. n : q[i] \in Tasks /\ q[i] \in Expired(at)
  BY <1>1, <1>2
<1>5. Len(ss) = n /\ \A i \in 1 .. n : ss[i] = ExpiryEvents(q[i], at)
  BY <1>2, <1>4
<1>6. \A i \in 1 .. n : ss[i] \in Seq(X)
  BY <1>4, <1>5, ExpiryEventsSeq
<1>7. n = 0 => ss \in Seq(X)
  BY <1>2, <1>4
<1> HIDE DEF ss, X, s0
<1>8. /\ \A i \in 1 .. n : Flat(ss)[i] \in Seq(X)
      /\ \A i \in 1 .. n : Flat(ss)[i] = IF i = 1 THEN ss[i] ELSE Flat(ss)[i - 1] \o ss[i]
  BY <1>2, <1>5, <1>6, FlatSeq, FlatRec
<1>9. ASSUME NEW k \in 0 .. n - 1
      PROVE  Told(Belief(f, upTo(k)), ss[k + 1]) = Belief(f, upTo(k + 1))
  <2> DEFINE t == q[k + 1]
             h == upTo(k)
  <2>1. k + 1 \in 1 .. n /\ t \in Tasks /\ t \in Expired(at)
    BY <1>2, <1>4
  <2>2. \A j \in 1 .. k : q[j] # t
    BY <1>2, <2>1
  <2>3. h[t] = View(tasks[t]) /\ h = [u \in Tasks |-> h[u]]
    BY <2>1, <2>2
  <2>4. [h EXCEPT ![t] = View(ExpiredRow(t, at))] = upTo(k + 1)
    <3>1. ASSUME NEW u \in Tasks
          PROVE  (\E j \in 1 .. k + 1 : q[j] = u) <=> (\E j \in 1 .. k : q[j] = u) \/ u = t
      <4>1. \A j \in 1 .. k + 1 : j \in 1 .. k \/ j = k + 1
        OBVIOUS
      <4>2. 1 .. k \subseteq 1 .. k + 1 /\ k + 1 \in 1 .. k + 1
        OBVIOUS
      <4> QED
        BY <4>1, <4>2
    <3> DEFINE left == [h EXCEPT ![t] = View(ExpiredRow(t, at))]
    <3>2. \A u \in Tasks : left[u] = upTo(k + 1)[u]
      BY <2>1, <3>1
    <3>3. left = [u \in Tasks |-> left[u]] /\ upTo(k + 1) = [u \in Tasks |-> upTo(k + 1)[u]]
      OBVIOUS
    <3> HIDE DEF left, upTo
    <3> QED
      BY <3>2, <3>3 DEF left
  <2> HIDE DEF h
  <2>5. Told(Belief(f, h), ExpiryEvents(t, at)) = Belief(f, [h EXCEPT ![t] = View(ExpiredRow(t, at))])
    BY <2>1, <2>3, ExpiryTold
  <2> HIDE DEF upTo
  <2> QED
    BY <1>5, <2>1, <2>4, <2>5 DEF h
<1>10. upTo(0) = g
  OBVIOUS
<1>11. ASSUME NEW k \in 0 .. n - 1, k \in M PROVE k + 1 \in M
  <2> HIDE DEF upTo
  <2> SUFFICES Told(s0, Flat(ss)[k + 1]) = Belief(f, upTo(k + 1))
    BY <1>2
  <2>1. k + 1 \in 1 .. n /\ (k + 1) - 1 = k
    BY <1>2
  <2>2. CASE k = 0
    <3>1. Flat(ss)[k + 1] = ss[k + 1]
      BY <1>8, <2>1, <2>2
    <3>2. s0 = Belief(f, upTo(k))
      BY <1>10, <2>2 DEF s0
    <3> QED
      BY <1>9, <3>1, <3>2
  <2>3. CASE k # 0
    <3> DEFINE a == Flat(ss)[k]
               c == ss[k + 1]
    <3>1. k \in 1 .. n /\ k + 1 # 1
      BY <2>1, <2>3
    <3>2. Flat(ss)[k + 1] = a \o c /\ a \in Seq(X) /\ c \in Seq(X)
      BY <1>6, <1>8, <2>1, <3>1
    <3>3. Told(s0, a) = Belief(f, upTo(k))
      BY <1>11, <3>1
    <3> HIDE DEF a
    <3>4. Told(s0, a \o c) = Told(Told(s0, a), c)
      <4> HIDE DEF c
      <4> QED
        BY ONLY <3>2, ToldBoth
    <3> QED
      BY <1>9, <3>2, <3>3, <3>4
  <2> QED
    BY <2>2, <2>3
<1>12. n \in M
  <2>1. 0 \in M
    BY <1>2
  <2> HIDE DEF M
  <2> QED
    BY <1>2, <1>11, <2>1, Climb
<1>13. CASE n = 0
  <2>1. SweepEvents(at) = ss
    BY <1>3, <1>5, <1>13 DEF FlattenSeq
  <2>2. Told(s0, ss) = s0
    BY <1>5, <1>13, ToldNothing
  <2>3. \A t \in Tasks : t \notin Expired(at)
    BY <1>2, <1>13
  <2>4. Swept(g, at) = g
    BY <2>3 DEF Swept
  <2> QED
    BY <1>7, <1>13, <2>1, <2>2, <2>4 DEF s0, X
<1>14. CASE n # 0
  <2>1. SweepEvents(at) = Flat(ss)[n]
    BY <1>3, <1>5, <1>14, FlattenIsFlat
  <2>2. n \in 1 .. n
    BY <1>2, <1>14
  <2>3. Flat(ss)[n] \in Seq(X) /\ Told(s0, Flat(ss)[n]) = Belief(f, upTo(n))
    BY <1>8, <1>12, <2>2
  <2>4. upTo(n) = Swept(g, at)
    <3>1. \A t \in Tasks : (\E j \in 1 .. n : q[j] = t) <=> t \in Expired(at)
      BY <1>2, <1>4
    <3> QED
      BY <3>1 DEF Swept
  <2> HIDE DEF upTo
  <2> QED
    BY <2>1, <2>3, <2>4 DEF s0, X
<1> QED
  BY <1>13, <1>14

\* The runs of R whose status a step changes.
Changed(R) == {q \in R : runs'[q] # runs[q]}

StatusEvents(R) == {RunEvent("run.status.changed", r, runs'[r]) : r \in Changed(R)}

\* What is believed of the runs after the events of a recompute.
AfterChanges(R, f) == [r \in Runs |-> IF r \in Changed(R) THEN runs'[r] ELSE f[r]]

(* The events of recomputeRunStatus bring the runs up to date, and only them.*)
LEMMA ChangesTold ==
  ASSUME NEW R \in SUBSET Runs, IsFiniteSet(Changed(R)), NEW f, NEW g, f = [r \in Runs |-> f[r]]
  PROVE  /\ StatusChanges(R) \in Seq(StatusEvents(R))
         /\ Told(Belief(f, g), StatusChanges(R)) = Belief(AfterChanges(R, f), g)
<1> DEFINE C == Changed(R)
           X == StatusEvents(R)
           q == SetToSeq(X)
           n == Len(q)
           upTo(k) == [r \in Runs |-> IF \E j \in 1 .. k : q[j].run = r THEN runs'[r] ELSE f[r]]
           s0 == Belief(f, g)
           b == Beliefs(s0, q)
           M == {k \in 0 .. n : b[k] = Belief(upTo(k), g)}
<1>1. IsFiniteSet(X)
  <2> DEFINE e == [r \in C |-> RunEvent("run.status.changed", r, runs'[r])]
  <2>1. e \in Surjection(C, X)
    BY DEF Surjection, StatusEvents
  <2> HIDE DEF e
  <2> QED
    BY <2>1, FS_Surjection
<1>2. StatusChanges(R) = q
  BY DEF StatusChanges, StatusEvents, Changed
<1>3. /\ q \in Seq(X) /\ n \in Nat /\ q \in [1 .. n -> X]
      /\ \A e \in X : \E k \in 1 .. n : q[k] = e
  BY <1>1, SetListed
<1> HIDE DEF q
<1>4. b[0] = s0 /\ \A k \in 1 .. n : b[k] = Hear(b[k - 1], q[k])
  BY <1>3, BeliefsRec
<1>5. \A k \in 1 .. n : \E r \in C : q[k] = RunEvent("run.status.changed", r, runs'[r])
  BY <1>3 DEF StatusEvents
<1>6. C \in SUBSET Runs
  BY DEF Changed
<1> HIDE DEF b, s0, X, C
<1>7. 0 \in M
  <2>1. upTo(0) = f
    OBVIOUS
  <2> QED
    BY <1>3, <1>4, <2>1 DEF s0
<1>8. ASSUME NEW k \in 0 .. n - 1, k \in M PROVE k + 1 \in M
  <2>1. k + 1 \in 1 .. n /\ (k + 1) - 1 = k /\ b[k] = Belief(upTo(k), g)
    BY <1>3, <1>8
  <2>2. PICK r \in C : q[k + 1] = RunEvent("run.status.changed", r, runs'[r])
    BY <1>5, <2>1
  <2> DEFINE h == upTo(k)
             h2 == [h EXCEPT ![r] = runs'[r]]
  <2>3. Hear(Belief(h, g), RunEvent("run.status.changed", r, runs'[r])) = Belief(h2, g)
    <3> HIDE DEF h
    <3> QED
      BY HearStatus
  <2>4. q[k + 1].run = r
    BY <2>2 DEF RunEvent
  <2>5. ASSUME NEW u \in Runs PROVE h2[u] = upTo(k + 1)[u]
    <3>1. (\E j \in 1 .. k + 1 : q[j].run = u) <=> (\E j \in 1 .. k : q[j].run = u) \/ u = r
      <4>1. \A j \in 1 .. k + 1 : j \in 1 .. k \/ j = k + 1
        OBVIOUS
      <4>2. 1 .. k \subseteq 1 .. k + 1 /\ k + 1 \in 1 .. k + 1
        OBVIOUS
      <4> QED
        BY <2>4, <4>1, <4>2
    <3> QED
      BY <1>6, <3>1
  <2>6. h2 = [u \in Runs |-> h2[u]] /\ upTo(k + 1) = [u \in Runs |-> upTo(k + 1)[u]]
    OBVIOUS
  <2>7. h2 = upTo(k + 1)
    <3> HIDE DEF h2, upTo
    <3> QED
      BY <2>5, <2>6
  <2>8. b[k + 1] = Belief(upTo(k + 1), g)
    <3> HIDE DEF h2, upTo
    <3> QED
      BY <1>4, <2>1, <2>2, <2>3, <2>7 DEF h
  <2> HIDE DEF upTo
  <2> QED
    BY <2>1, <2>8
<1>9. n \in M
  <2> HIDE DEF M
  <2> QED
    BY <1>3, <1>7, <1>8, Climb
<1>10. Told(s0, q) = b[n]
  BY ToldIsBelief DEF b
<1>11. upTo(n) = AfterChanges(R, f)
  <2>1. ASSUME NEW r \in Runs PROVE (\E j \in 1 .. n : q[j].run = r) <=> r \in C
    <3>1. ASSUME NEW j \in 1 .. n, q[j].run = r PROVE r \in C
      <4>1. PICK u \in C : q[j] = RunEvent("run.status.changed", u, runs'[u])
        BY <1>5
      <4> QED
        BY <3>1, <4>1 DEF RunEvent
    <3>2. ASSUME r \in C PROVE \E j \in 1 .. n : q[j].run = r
      <4>1. RunEvent("run.status.changed", r, runs'[r]) \in X
        BY <3>2 DEF X, C, StatusEvents
      <4> QED
        BY <1>3, <4>1 DEF RunEvent
    <3> QED
      BY <3>1, <3>2
  <2> QED
    BY <2>1 DEF AfterChanges, C
<1> HIDE DEF upTo
<1> QED
  BY <1>2, <1>3, <1>9, <1>10, <1>11 DEF s0, X

-----------------------------------------------------------------------------
(* The invariant: the subscriber's knowledge is right.                       *)

StoryShape ==
  /\ story = Belief(story.runs, story.tasks)
  /\ story.runs = [r \in Runs |-> story.runs[r]]
  /\ story.tasks = [t \in Tasks |-> story.tasks[t]]

StoryInv == IInv /\ FewRows /\ StoryShape /\ LogRebuildsTables

RunsRight(f) == \A r \in Runs : runs'[r] # "pruned" => f[r] = runs'[r]

TasksRight(g) == \A t \in Tasks : tasks'[t].status # "pruned" => g[t] = View(tasks'[t])

(* A belief that fits the tables after the step keeps the invariant.         *)
LEMMA BeliefIsRight ==
  ASSUME NEW f, NEW g, f = [r \in Runs |-> f[r]], g = [t \in Tasks |-> g[t]],
         story' = Belief(f, g), RunsRight(f), TasksRight(g)
  PROVE  StoryShape' /\ LogRebuildsTables'
<1>1. story'.runs = f /\ story'.tasks = g
  BY DEF Belief
<1> QED
  BY <1>1 DEF StoryShape, LogRebuildsTables, RunsRight, TasksRight

(* An operation that tells what it does to the tasks and recomputes runs.    *)
LEMMA EmitIsRight ==
  ASSUME StoryShape, LogRebuildsTables, NEW events, NEW X, events \in Seq(X),
         NEW R \in SUBSET Runs, IsFiniteSet(Changed(R)), Emit(events, R),
         \A r \in Runs : r \notin R => runs'[r] = runs[r],
         NEW g, g = [t \in Tasks |-> g[t]], TasksRight(g),
         Told(story, events) = Belief(story.runs, g)
  PROVE  StoryShape' /\ LogRebuildsTables'
<1> DEFINE h == story.runs
           f == AfterChanges(R, h)
           c == StatusChanges(R)
<1>1. h = [r \in Runs |-> h[r]] /\ \A r \in Runs : runs[r] # "pruned" => h[r] = runs[r]
  BY DEF StoryShape, LogRebuildsTables
<1>2. story' = Told(story, events \o c) /\ Told(story, events) = Belief(h, g)
  BY DEF Emit
<1> HIDE DEF h
<1>3. c \in Seq(StatusEvents(R)) /\ Told(Belief(h, g), c) = Belief(f, g)
  BY <1>1, ChangesTold
<1> HIDE DEF c
<1>4. Told(story, events \o c) = Told(Told(story, events), c)
  BY <1>3, ToldBoth
<1>5. story' = Belief(f, g)
  BY <1>2, <1>3, <1>4
<1>6. f = [r \in Runs |-> f[r]] /\ RunsRight(f)
  BY <1>1 DEF AfterChanges, Changed, RunsRight
<1> HIDE DEF f
<1> QED
  BY <1>5, <1>6, BeliefIsRight

(* One event about one task, whose run is recomputed.                        *)
LEMMA OneTaskIsRight ==
  ASSUME StoryShape, LogRebuildsTables, NEW t \in Tasks, tasks[t].status # "pruned",
         NEW e, "task" \in DOMAIN e, e.task = t,
         runs' = Recompute({RunOf(t)}, tasks'), Emit(<<e>>, {RunOf(t)}),
         \A u \in Tasks : u # t => tasks'[u] = tasks[u],
         Believe(View(tasks[t]), e) = View(tasks'[t])
  PROVE  StoryShape' /\ LogRebuildsTables'
<1> DEFINE R == {RunOf(t)}
           g == [story.tasks EXCEPT ![t] = Believe(@, e)]
<1>1. R \in SUBSET Runs /\ IsFiniteSet(R)
  <2>1. RunOf(t) \in Runs
    BY InputAssumption DEF RunOf, InputRecords
  <2>2. IsFiniteSet(R)
    BY FS_Singleton
  <2> QED
    BY <2>1, <2>2
<1>2. Changed(R) \in SUBSET R
  BY DEF Changed
<1>3. IsFiniteSet(Changed(R))
  <2> HIDE DEF R
  <2> QED
    BY <1>1, <1>2, FS_Subset
<1>4. \A r \in Runs : r \notin R => runs'[r] = runs[r]
  BY DEF Recompute
<1>5. story = Belief(story.runs, story.tasks) /\ Told(story, <<e>>) = Hear(story, e)
  BY ToldOne DEF StoryShape
<1>6. Told(story, <<e>>) = Belief(story.runs, g)
  BY <1>5, HearTask
<1>7. g = [u \in Tasks |-> g[u]]
  BY DEF StoryShape
<1>8. TasksRight(g)
  <2>1. story.tasks[t] = View(tasks[t])
    BY DEF LogRebuildsTables
  <2>2. \A u \in Tasks : u # t => g[u] = story.tasks[u]
    BY DEF StoryShape
  <2>3. g[t] = View(tasks'[t])
    BY <2>1 DEF StoryShape
  <2> HIDE DEF g
  <2> QED
    BY <2>2, <2>3 DEF TasksRight, LogRebuildsTables
<1>9. <<e>> \in Seq({e})
  OBVIOUS
<1>10. Emit(<<e>>, R)
  OBVIOUS
<1> HIDE DEF g, R
<1> QED
  BY <1>1, <1>3, <1>4, <1>6, <1>7, <1>8, <1>9, <1>10, EmitIsRight

-----------------------------------------------------------------------------
(* The operations, one after the other.                                      *)

(* An operation that writes no event and changes no row but to delete it.    *)
LEMMA SilentIsRight ==
  ASSUME StoryShape, LogRebuildsTables, story' = story,
         \A r \in Runs : runs'[r] = runs[r] \/ runs'[r] = "pruned",
         \A t \in Tasks : tasks'[t] = tasks[t] \/ tasks'[t].status = "pruned"
  PROVE  StoryShape' /\ LogRebuildsTables'
<1> DEFINE f == story.runs
           g == story.tasks
<1>1. story' = Belief(f, g) /\ f = [r \in Runs |-> f[r]] /\ g = [t \in Tasks |-> g[t]]
  BY DEF StoryShape
<1>2. RunsRight(f) /\ TasksRight(g)
  BY DEF RunsRight, TasksRight, LogRebuildsTables
<1> HIDE DEF f, g
<1> QED
  BY <1>1, <1>2, BeliefIsRight

(* pauseTask, releaseTask, completeTask, failTask.                           *)
LEMMA LeaveIsTold ==
  ASSUME IInv, StoryShape, LogRebuildsTables, NEW t \in Tasks, NEW l \in Leases, NEW w, NEW at,
         NEW a, NEW to, EndLease(t, l, w, at, to, a),
         NEW type \in {"task.blocked", "task.waiting_input", "task.released", "task.completed",
                       "task.failed", "task.resumed"},
         Emit(<<TaskEvent(type, t, to)>>, {RunOf(t)})
  PROVE  StoryShape' /\ LogRebuildsTables'
<1> DEFINE e == TaskEvent(type, t, to)
<1>1. tasks \in [Tasks -> TaskRows] /\ LeaseAgreement
  BY DEF IInv, TypeOK
<1>2. tasks[t].status # "pruned"
  BY <1>1, HolderFacts DEF EndLease, HeldStatuses
<1>3. "task" \in DOMAIN e /\ e.task = t
  BY DEF TaskEvent
<1>4. tasks'[t] = WithoutLease(tasks[t], to) /\ \A u \in Tasks : u # t => tasks'[u] = tasks[u]
  BY <1>1 DEF EndLease
<1>5. Believe(View(tasks[t]), e) = View(tasks'[t])
  BY <1>1, <1>4, IdleView, PlainEvent
<1>6. runs' = Recompute({RunOf(t)}, tasks') /\ Emit(<<e>>, {RunOf(t)})
  BY DEF EndLease
<1> HIDE DEF e
<1> QED
  BY <1>2, <1>3, <1>4, <1>5, <1>6, OneTaskIsRight

(* markTaskRunning.                                                          *)
LEMMA RunningIsTold ==
  ASSUME IInv, StoryShape, LogRebuildsTables, NEW t \in Tasks, NEW l \in Leases, NEW w, NEW at,
         MarkTaskRunning(t, l, w, at), Emit(<<[type |-> "task.running", task |-> t]>>, {RunOf(t)})
  PROVE  StoryShape' /\ LogRebuildsTables'
<1> DEFINE e == [type |-> "task.running", task |-> t]
<1>1. tasks \in [Tasks -> TaskRows] /\ LeaseAgreement
  BY DEF IInv, TypeOK
<1>2. tasks[t].status # "pruned"
  BY <1>1, HolderFacts DEF MarkTaskRunning, HeldStatuses
<1>3. "task" \in DOMAIN e /\ e.task = t /\ e.type = "task.running"
  OBVIOUS
<1>4. tasks'[t] = [tasks[t] EXCEPT !.status = "running"]
      /\ \A u \in Tasks : u # t => tasks'[u] = tasks[u]
  BY <1>1 DEF MarkTaskRunning
<1>5. View(tasks'[t]) = [View(tasks[t]) EXCEPT !.status = "running"]
  BY <1>1, <1>4, StatusView
<1>6. runs' = Recompute({RunOf(t)}, tasks') /\ Emit(<<e>>, {RunOf(t)})
  BY DEF MarkTaskRunning
<1> HIDE DEF e
<1>7. Believe(View(tasks[t]), e) = View(tasks'[t])
  BY <1>3, <1>5 DEF Believe
<1> QED
  BY <1>2, <1>3, <1>4, <1>6, <1>7, OneTaskIsRight

(* heartbeatLease, which does not recompute the run.                         *)
LEMMA HeartbeatIsTold ==
  ASSUME IInv, StoryShape, LogRebuildsTables, NEW t \in Tasks, NEW l \in Leases, NEW w, NEW at,
         NEW ms, HeartbeatLease(t, l, w, ms, at),
         story' = Hear(story, [type |-> "task.lease_heartbeat", task |-> t, until |-> at + ms])
  PROVE  StoryShape' /\ LogRebuildsTables'
<1> DEFINE e == [type |-> "task.lease_heartbeat", task |-> t, until |-> at + ms]
           f == story.runs
           h == story.tasks
           g == [h EXCEPT ![t] = Believe(@, e)]
<1>1. tasks \in [Tasks -> TaskRows] /\ LeaseAgreement
  BY DEF IInv, TypeOK
<1>2. tasks[t].status # "pruned"
  BY <1>1, HolderFacts DEF HeartbeatLease, HeldStatuses
<1>3. "task" \in DOMAIN e /\ e.task = t /\ e.type = "task.lease_heartbeat" /\ e.until = at + ms
  OBVIOUS
<1>4. tasks'[t] = [tasks[t] EXCEPT !.leaseExpiresAt = at + ms] /\ runs' = runs
      /\ \A u \in Tasks : u # t => tasks'[u] = tasks[u]
  BY <1>1 DEF HeartbeatLease
<1>5. View(tasks'[t]) = [View(tasks[t]) EXCEPT !.until = at + ms]
  BY <1>1, <1>4, DeadlineView
<1>6. /\ story' = Hear(Belief(f, h), e) /\ f = [r \in Runs |-> f[r]] /\ h = [u \in Tasks |-> h[u]]
      /\ \A r \in Runs : runs[r] # "pruned" => f[r] = runs[r]
      /\ \A u \in Tasks : tasks[u].status # "pruned" => h[u] = View(tasks[u])
  BY DEF StoryShape, LogRebuildsTables
<1> HIDE DEF e, f, h
<1>7. Believe(View(tasks[t]), e) = View(tasks'[t])
  BY <1>3, <1>5 DEF Believe
<1>8. story' = Belief(f, g)
  BY <1>3, <1>6, HearTask
<1>9. g = [u \in Tasks |-> g[u]] /\ \A u \in Tasks : u # t => g[u] = h[u]
  BY <1>6
<1>10. g[t] = View(tasks'[t])
  BY <1>2, <1>6, <1>7
<1>11. RunsRight(f) /\ TasksRight(g)
  <2> HIDE DEF g
  <2> QED
    BY <1>4, <1>6, <1>9, <1>10 DEF RunsRight, TasksRight
<1> HIDE DEF g
<1> QED
  BY <1>6, <1>8, <1>9, <1>11, BeliefIsRight

(* resumeTask leaves the lease columns alone: they are NULL.                 *)
LEMMA ResumeIsTold ==
  ASSUME IInv, StoryShape, LogRebuildsTables, NEW t \in Tasks, ResumeTask(t),
         Emit(<<TaskEvent("task.resumed", t, "queued")>>, {RunOf(t)})
  PROVE  StoryShape' /\ LogRebuildsTables'
<1> DEFINE e == TaskEvent("task.resumed", t, "queued")
           v == View(tasks[t])
           i == Idle(v, "queued")
<1>1. tasks \in [Tasks -> TaskRows] /\ LeaseAgreement
  BY DEF IInv, TypeOK
<1>2. tasks[t].status \in {"blocked", "waiting_input"}
  BY DEF ResumeTask, WaitingTaskStatuses
<1>3. tasks[t].leaseId = Null /\ tasks[t].leaseExpiresAt = NoTime
  BY <1>1, <1>2 DEF LeaseAgreement, IdleTaskHasNoLease, HeldStatuses
<1>4. "task" \in DOMAIN e /\ e.task = t
  BY DEF TaskEvent
<1>5. tasks'[t] = [tasks[t] EXCEPT !.status = "queued"]
      /\ \A u \in Tasks : u # t => tasks'[u] = tasks[u]
  BY <1>1 DEF ResumeTask
<1>6. View(tasks'[t]) = [View(tasks[t]) EXCEPT !.status = "queued"]
  BY <1>1, <1>5, StatusView
<1>7. Believe(v, e) = i
  BY PlainEvent
<1>8. i = [v EXCEPT !.status = "queued"]
  <2> DEFINE u == [v EXCEPT !.status = "queued"]
  <2>1. IsView(i) /\ IsView(u)
    BY DEF Idle, View, IsView
  <2>2. /\ i.status = u.status /\ i.attempts = u.attempts /\ i.notBefore = u.notBefore
        /\ i.lease = u.lease /\ i.until = u.until
    BY <1>3 DEF Idle, View
  <2>3. i.dead = u.dead
    BY DEF Idle, View
  <2> HIDE DEF i, u
  <2>4. i = u
    BY <2>1, <2>2, <2>3, ViewsEqual
  <2> QED
    BY <2>4 DEF u
<1>9. runs' = Recompute({RunOf(t)}, tasks') /\ Emit(<<e>>, {RunOf(t)})
  BY DEF ResumeTask
<1>10. tasks[t].status # "pruned"
  BY <1>2
<1>11. Believe(View(tasks[t]), e) = View(tasks'[t])
  BY <1>6, <1>7, <1>8
<1> HIDE DEF e, v, i
<1> QED
  BY <1>4, <1>5, <1>9, <1>10, <1>11, OneTaskIsRight

(* requeueDeadTask, with attempts reset or kept.                             *)
LEMMA RequeueIsTold ==
  ASSUME IInv, StoryShape, LogRebuildsTables, NEW t \in Tasks, NEW reset \in BOOLEAN,
         NEW notBefore, RequeueDeadTask(t, reset, notBefore),
         Emit(<<RequeueEvent(t, reset, notBefore)>>, {RunOf(t)})
  PROVE  StoryShape' /\ LogRebuildsTables'
<1> DEFINE e == RequeueEvent(t, reset, notBefore)
<1>1. tasks \in [Tasks -> TaskRows]
  BY DEF IInv, TypeOK
<1>2. tasks[t].status # "pruned"
  BY DEF RequeueDeadTask, TaskStatuses
<1>3. /\ "task" \in DOMAIN e /\ e.task = t /\ e.type = "task.requeued_from_dlq"
      /\ e.notBefore = notBefore
  BY DEF RequeueEvent
<1>4. e.resetAttempts = reset
  BY DEF RequeueEvent
<1>5. tasks'[t] = RequeuedRow(tasks[t], reset, notBefore)
      /\ \A u \in Tasks : u # t => tasks'[u] = tasks[u]
  BY <1>1 DEF RequeueDeadTask
<1>6. runs' = Recompute({RunOf(t)}, tasks') /\ Emit(<<e>>, {RunOf(t)})
  BY DEF RequeueDeadTask
<1> HIDE DEF e
<1>7. Believe(View(tasks[t]), e) =
        [Idle(View(tasks[t]), "queued") EXCEPT !.dead = FALSE, !.notBefore = e.notBefore,
                                               !.attempts = IF e.resetAttempts THEN 0 ELSE @]
  BY <1>3 DEF Believe
<1>8. Believe(View(tasks[t]), e) = View(tasks'[t])
  <2> DEFINE i == Idle(View(tasks[t]), "queued")
             n == IF reset THEN 0 ELSE i.attempts
  <2>1. (IF e.resetAttempts THEN 0 ELSE i.attempts) = n
    BY <1>4, Zenon
  <2>2. Believe(View(tasks[t]), e) =
          [i EXCEPT !.dead = FALSE, !.notBefore = e.notBefore,
                    !.attempts = IF e.resetAttempts THEN 0 ELSE i.attempts]
    BY <1>7
  <2>3. View(tasks'[t]) = [i EXCEPT !.dead = FALSE, !.notBefore = notBefore, !.attempts = n]
    <3>1. tasks[t] \in TaskRows
      BY <1>1
    <3>2. View(RequeuedRow(tasks[t], reset, notBefore)) =
            [i EXCEPT !.dead = FALSE, !.notBefore = notBefore,
                      !.attempts = IF reset THEN 0 ELSE i.attempts]
      BY ONLY <3>1, reset \in BOOLEAN, RequeuedView, Zenon
    <3> QED
      BY <1>5, <3>2
  <2> HIDE DEF i, n
  <2> QED
    BY <1>3, <2>1, <2>2, <2>3
<1> QED
  BY <1>2, <1>3, <1>5, <1>6, <1>8, OneTaskIsRight

(* enqueueTask: the row is new, whatever was believed of the id.             *)
LEMMA EnqueueIsTold ==
  ASSUME IInv, StoryShape, LogRebuildsTables, NEW t \in Tasks, NEW at, EnqueueTask(t, at),
         Emit(<<[type |-> "task.enqueued", task |-> t]>>, {RunOf(t)})
  PROVE  StoryShape' /\ LogRebuildsTables'
<1> DEFINE e == [type |-> "task.enqueued", task |-> t]
<1>1. tasks \in [Tasks -> TaskRows]
  BY DEF IInv, TypeOK
<1>2. tasks[t].status # "pruned"
  BY DEF EnqueueTask, IInv, CheckedIsAbsent
<1>3. "task" \in DOMAIN e /\ e.task = t /\ e.type = "task.enqueued"
  OBVIOUS
<1>4. tasks'[t] = QueuedTask(at) /\ \A u \in Tasks : u # t => tasks'[u] = tasks[u]
  BY <1>1 DEF EnqueueTask
<1>5. runs' = Recompute({RunOf(t)}, tasks') /\ Emit(<<e>>, {RunOf(t)})
  BY DEF EnqueueTask
<1> HIDE DEF e
<1>6. Believe(View(tasks[t]), e) = View(tasks'[t])
  BY <1>3, <1>4, QueuedView DEF Believe
<1> QED
  BY <1>2, <1>3, <1>4, <1>5, <1>6, OneTaskIsRight

(* createRun.                                                                *)
LEMMA CreateIsTold ==
  ASSUME IInv, StoryShape, LogRebuildsTables, NEW r \in Runs, CreateRun(r),
         story' = Hear(story, RunEvent("run.created", r, "pending"))
  PROVE  StoryShape' /\ LogRebuildsTables'
<1> DEFINE type == "run.created"
           to == "pending"
           f == story.runs
           g == story.tasks
           f2 == [f EXCEPT ![r] = to]
<1>1. type # "run.cancelled"
  OBVIOUS
<1>2. runs' = [runs EXCEPT ![r] = to] /\ tasks' = tasks
  BY DEF CreateRun
<1>3. story' = Hear(story, RunEvent(type, r, to))
  OBVIOUS
<1>4. /\ story = Belief(f, g) /\ f = [q \in Runs |-> f[q]] /\ g = [t \in Tasks |-> g[t]]
      /\ \A q \in Runs : runs[q] # "pruned" => f[q] = runs[q]
      /\ \A t \in Tasks : tasks[t].status # "pruned" => g[t] = View(tasks[t])
  BY DEF StoryShape, LogRebuildsTables
<1>5. runs[r] # "pruned"
  BY DEF CreateRun
<1> HIDE DEF type, to, f, g
<1>6. story' = Belief(f2, g)
  BY <1>1, <1>3, <1>4, HearRun
<1>7. f2 = [q \in Runs |-> f2[q]] /\ f2[r] = to /\ \A q \in Runs : q # r => f2[q] = f[q]
  BY <1>4
<1>8. \A q \in Runs : (runs'[q] = runs[q] /\ q # r) \/ (q = r /\ runs'[q] = to)
  BY <1>2 DEF IInv, TypeOK
<1>9. RunsRight(f2) /\ TasksRight(g)
  <2> HIDE DEF f2
  <2> QED
    BY <1>2, <1>4, <1>7, <1>8 DEF RunsRight, TasksRight
<1> HIDE DEF f2
<1> QED
  BY <1>4, <1>6, <1>7, <1>9, BeliefIsRight

(* One event for all the rows that cancelRun changes.                        *)
LEMMA CancelIsTold ==
  ASSUME IInv, StoryShape, LogRebuildsTables, NEW r \in Runs, CancelRun(r),
         story' = Hear(story, RunEvent("run.cancelled", r, "cancelled"))
  PROVE  StoryShape' /\ LogRebuildsTables'
<1> DEFINE type == "run.cancelled"
           to == "cancelled"
           f == story.runs
           g == story.tasks
           f2 == [f EXCEPT ![r] = to]
           g2 == CancelledWith(r, g)
<1>1. type = "run.cancelled"
  OBVIOUS
<1>2. /\ runs \in [Runs -> RunStatuses \union NoRow]
      /\ \A t \in Tasks : tasks[t] \in TaskRows /\ tasks[t].status \in TaskStatuses \union NoRow
  BY DEF IInv, TypeOK, TaskRows
<1>3. runs' = [runs EXCEPT ![r] = to]
  BY DEF CancelRun
<1>4. story' = Hear(story, RunEvent(type, r, to))
  OBVIOUS
<1>5. /\ story = Belief(f, g) /\ f = [q \in Runs |-> f[q]] /\ g = [t \in Tasks |-> g[t]]
      /\ \A q \in Runs : runs[q] # "pruned" => f[q] = runs[q]
      /\ \A t \in Tasks : tasks[t].status # "pruned" => g[t] = View(tasks[t])
  BY DEF StoryShape, LogRebuildsTables
<1>6. ASSUME NEW t \in Tasks, tasks'[t].status # "pruned"
      PROVE  g2[t] = View(tasks'[t])
  <2> DEFINE open == t \in TasksOf(r, tasks) /\ tasks[t].status \notin TerminalTaskStatuses
  <2>1. tasks'[t] = IF open THEN WithoutLease(tasks[t], "cancelled") ELSE tasks[t]
    BY DEF CancelRun
  <2>2. tasks[t].status # "pruned"
    BY <1>6, <2>1 DEF TasksOf, TaskStatuses
  <2>3. g[t] = View(tasks[t]) /\ g[t].status = tasks[t].status
    BY <1>5, <2>2, RowIsView
  <2>4. open <=> RunOf(t) = r /\ g[t].status \notin TerminalTaskStatuses \union {"absent"}
    BY <1>2, <2>2, <2>3 DEF TasksOf, TaskStatuses, NoRow
  <2>5. g2[t] = IF RunOf(t) = r /\ g[t].status \notin TerminalTaskStatuses \union {"absent"}
                  THEN Idle(g[t], "cancelled") ELSE g[t]
    BY DEF CancelledWith
  <2>6. View(WithoutLease(tasks[t], "cancelled")) = Idle(View(tasks[t]), "cancelled")
    BY <1>2, IdleView
  <2> HIDE DEF open, g2
  <2>7. CASE open
    BY <2>1, <2>3, <2>4, <2>5, <2>6, <2>7
  <2>8. CASE ~ open
    BY <2>1, <2>3, <2>4, <2>5, <2>8
  <2> QED
    BY <2>7, <2>8
<1>7. g2 = [t \in Tasks |-> g2[t]]
  BY DEF CancelledWith
<1>8. runs[r] # "pruned"
  BY DEF CancelRun, RunStatuses
<1> HIDE DEF type, to, f, g
<1>9. story' = Belief(f2, g2)
  BY <1>1, <1>4, <1>5, HearRun
<1>10. f2 = [q \in Runs |-> f2[q]] /\ f2[r] = to /\ \A q \in Runs : q # r => f2[q] = f[q]
  BY <1>5
<1>11. \A q \in Runs : (runs'[q] = runs[q] /\ q # r) \/ (q = r /\ runs'[q] = to)
  BY <1>2, <1>3
<1>12. RunsRight(f2) /\ TasksRight(g2)
  <2> HIDE DEF f2, g2
  <2> QED
    BY <1>5, <1>6, <1>10, <1>11 DEF RunsRight, TasksRight
<1> HIDE DEF f2, g2
<1> QED
  BY <1>7, <1>9, <1>10, <1>12, BeliefIsRight

\* The runs of a finite set of tasks.
LEMMA FewRuns ==
  ASSUME NEW S \in SUBSET Tasks, IsFiniteSet(S), runs' = Recompute({RunOf(t) : t \in S}, tasks')
  PROVE  IsFiniteSet(Changed(Runs))
<1> DEFINE e == [t \in S |-> RunOf(t)]
           X == {RunOf(t) : t \in S}
<1>1. e \in Surjection(S, X)
  BY DEF Surjection
<1>2. IsFiniteSet(X)
  <2> HIDE DEF e, X
  <2> QED
    BY <1>1, FS_Surjection
<1>3. Changed(Runs) \in SUBSET X
  BY DEF Changed, Recompute
<1> HIDE DEF X
<1> QED
  BY <1>2, <1>3, FS_Subset

(* The sweep of expireLeases, or the one inside claimNextTask.               *)
LEMMA SweptIsTold ==
  ASSUME IInv, FewRows, StoryShape, LogRebuildsTables, NEW at
  PROVE  /\ SweepEvents(at) \in Seq(ExpiryEventSet(at))
         /\ Told(story, SweepEvents(at)) = Belief(story.runs, Swept(story.tasks, at))
         /\ \A t \in Tasks : TasksAfterExpiry(at)[t].status # "pruned" =>
                             Swept(story.tasks, at)[t] = View(TasksAfterExpiry(at)[t])
<1> DEFINE f == story.runs
           g == story.tasks
<1>1. /\ story = Belief(f, g) /\ g = [t \in Tasks |-> g[t]]
      /\ \A t \in Tasks : tasks[t].status # "pruned" => g[t] = View(tasks[t])
  BY DEF StoryShape, LogRebuildsTables
<1>2. TypeOK /\ \A t \in Expired(at) : g[t] = View(tasks[t])
  BY <1>1 DEF IInv, Expired, HeldStatuses
<1>3. \A t \in Tasks : TasksAfterExpiry(at)[t].status # "pruned" =>
                        Swept(g, at)[t] = View(TasksAfterExpiry(at)[t])
  BY <1>1 DEF TasksAfterExpiry, Swept
<1> HIDE DEF f, g
<1>4. /\ SweepEvents(at) \in Seq(ExpiryEventSet(at))
      /\ Told(Belief(f, g), SweepEvents(at)) = Belief(f, Swept(g, at))
  BY <1>1, <1>2, SweepTold
<1> QED
  BY <1>1, <1>3, <1>4 DEF f, g

(* expireLeases.                                                             *)
LEMMA ExpireIsTold ==
  ASSUME IInv, FewRows, StoryShape, LogRebuildsTables, NEW at \in Stamps, ExpireLeases(at),
         Emit(SweepEvents(at), Runs)
  PROVE  StoryShape' /\ LogRebuildsTables'
<1> DEFINE q == SweepEvents(at)
           X == ExpiryEventSet(at)
           g == Swept(story.tasks, at)
           R == Runs
<1>1. q \in Seq(X) /\ Told(story, q) = Belief(story.runs, g)
  BY SweptIsTold
<1>2. tasks' = TasksAfterExpiry(at) /\ runs' = Recompute({RunOf(t) : t \in Expired(at)}, tasks')
  BY DEF ExpireLeases
<1>3. IsFiniteSet(Changed(R))
  BY <1>2, ExpiredFinite, FewRuns
<1>4. g = [t \in Tasks |-> g[t]]
  BY DEF Swept
<1>5. TasksRight(g)
  BY <1>2, SweptIsTold DEF TasksRight
<1>6. Emit(q, R) /\ R \in SUBSET Runs /\ \A r \in Runs : r \notin R => runs'[r] = runs[r]
  OBVIOUS
<1> HIDE DEF q, X, g, R
<1> QED
  BY <1>1, <1>3, <1>4, <1>5, <1>6, EmitIsRight

(* claimNextTask tells what its sweep did, then who has the task.            *)
LEMMA ClaimIsTold ==
  ASSUME IInv, FewRows, StoryShape, LogRebuildsTables, NEW w \in Workers, NEW l \in Leases,
         NEW k \in OptionalTokens, NEW kinds \in KindFilters, NEW ms \in LeaseDurations,
         NEW at \in Stamps, ClaimNextTask(w, l, k, kinds, ms, at), Emit(ClaimEvents(l, at), Runs)
  PROVE  StoryShape' /\ LogRebuildsTables'
<1> DEFINE T == TasksAfterExpiry(at)
           L == LeasesAfterExpiry(at)
           R == Runs
           q == SweepEvents(at)
           X == ExpiryEventSet(at)
           h == Swept(story.tasks, at)
           f == story.runs
           all == ClaimEvents(l, at)
<1>1. T \in [Tasks -> TaskRows] /\ L \in [Leases -> LeaseRows]
  BY ExpiryType DEF IInv
<1>2. PICK t \in Tasks :
        /\ Claimable(t, kinds, at, T, Recompute({RunOf(u) : u \in Expired(at)}, T))
        /\ tasks' = [T EXCEPT ![t] = ClaimedRow(@, l, w, at + ms)]
        /\ leases' = [L EXCEPT ![l] = [status |-> "active", task |-> t, worker |-> w,
                                       expiresAt |-> at + ms, token |-> k]]
        /\ runs' = Recompute({RunOf(u) : u \in Expired(at) \union {t}}, tasks')
  BY DEF ClaimNextTask
<1> DEFINE e == [type |-> "task.claimed", task |-> t, lease |-> l, until |-> at + ms]
           g == [h EXCEPT ![t] = Believe(@, e)]
<1>3. q \in Seq(X) /\ Told(story, q) = Belief(f, h)
      /\ \A u \in Tasks : T[u].status # "pruned" => h[u] = View(T[u])
  BY SweptIsTold
<1>4. leases'[l].task = t /\ leases'[l].expiresAt = at + ms
  <2> HIDE DEF L
  <2> QED
    BY <1>1, <1>2
<1>5. all = q \o <<e>>
  <2>1. all = Append(q, e)
    BY <1>4 DEF ClaimEvents
  <2> HIDE DEF all, q, e, X
  <2> QED
    BY <1>3, <2>1
<1>6. /\ "task" \in DOMAIN e /\ e.task = t /\ e.type = "task.claimed"
      /\ e.lease = l /\ e.until = at + ms
  OBVIOUS
<1>7. T[t].status = "queued"
  BY <1>2 DEF Claimable
<1>8. h = [u \in Tasks |-> h[u]]
  BY DEF Swept
<1>9. IsFiniteSet(Changed(R))
  <2>1. IsFiniteSet(Expired(at)) /\ Expired(at) \in SUBSET Tasks
    BY ExpiredFinite
  <2> DEFINE S == Expired(at) \union {t}
  <2>2. IsFiniteSet(S) /\ S \in SUBSET Tasks
    BY <2>1, FS_AddElement
  <2>3. runs' = Recompute({RunOf(u) : u \in S}, tasks')
    BY <1>2
  <2> HIDE DEF S
  <2> QED
    BY <2>2, <2>3, FewRuns
<1>10. Emit(all, R) /\ R \in SUBSET Runs /\ \A r \in Runs : r \notin R => runs'[r] = runs[r]
  OBVIOUS
<1>11. all \in Seq(X \union {e})
  <2> HIDE DEF all, q, e, X
  <2>1. q \in Seq(X \union {e}) /\ <<e>> \in Seq(X \union {e})
    BY <1>3
  <2> QED
    BY <1>5, <2>1
<1> HIDE DEF T, L, q, X, h, f, all, e, R
<1>12. tasks'[t] = ClaimedRow(T[t], l, w, at + ms) /\ \A u \in Tasks : u # t => tasks'[u] = T[u]
  BY <1>1, <1>2
<1>13. Believe(View(T[t]), e) = View(tasks'[t])
  <2> DEFINE until == at + ms
  <2>1. T[t] \in TaskRows /\ e.until = until
    BY <1>1, <1>6
  <2> HIDE DEF until
  <2>2. Believe(View(T[t]), e) = View(ClaimedRow(T[t], l, w, until))
    BY <1>6, <2>1, ClaimedView
  <2> QED
    BY <1>12, <2>2 DEF until
<1>14. Told(story, all) = Belief(f, g)
  <2>1. Told(story, q \o <<e>>) = Told(Told(story, q), <<e>>)
    <3> DEFINE c == <<e>>
    <3>1. q \in Seq(X) /\ c \in Seq({e})
      BY <1>3
    <3> HIDE DEF c
    <3>2. Told(story, q \o c) = Told(Told(story, q), c)
      BY ONLY <3>1, ToldBoth
    <3> QED
      BY <3>2 DEF c
  <2>2. Told(Belief(f, h), <<e>>) = Hear(Belief(f, h), e)
    BY ToldOne
  <2>3. Hear(Belief(f, h), e) = Belief(f, g)
    BY <1>6, HearTask
  <2> QED
    BY <1>3, <1>5, <2>1, <2>2, <2>3
<1>15. g = [u \in Tasks |-> g[u]] /\ g[t] = View(tasks'[t]) /\ \A u \in Tasks : u # t => g[u] = h[u]
  BY <1>3, <1>7, <1>8, <1>13
<1> HIDE DEF g
<1>16. TasksRight(g)
  BY <1>3, <1>12, <1>15 DEF TasksRight
<1> QED
  BY <1>9, <1>10, <1>11, <1>14, <1>15, <1>16, EmitIsRight DEF f

-----------------------------------------------------------------------------
(* The invariant.                                                            *)

(* Logging only observes: a logged operation is an operation of the store.   *)
LEMMA LoggedIsStep ==
  ASSUME [LoggedNext]_loggedVars
  PROVE  [Next]_vars
<1>1. ASSUME NEW r \in Runs, LoggedCreateRun(r) \/ LoggedCancel(r) PROVE Next
  BY <1>1 DEF LoggedCreateRun, LoggedCancel, Next
<1>2. ASSUME NEW t \in Tasks, LoggedEnqueue(t) PROVE Next
  BY <1>2 DEF LoggedEnqueue, Enqueue, Next
<1>3. ASSUME NEW t \in Tasks, LoggedResume(t) \/ LoggedRequeue(t) PROVE Next
  BY <1>3 DEF LoggedResume, LoggedRequeue, OperatorStep, Next
<1>4. ASSUME NEW w \in Workers, LoggedClaim(w) PROVE Next
  BY <1>4 DEF LoggedClaim, Claim, Next
<1>5. ASSUME NEW t \in Tasks, NEW l \in Leases, NEW w \in Workers, NEW at \in Stamps,
             LoggedHolderStep(t, l, w, at)
      PROVE  Next
  <2>1. HolderStep(t, l, w, at)
    BY <1>5 DEF LoggedHolderStep, LoggedHeartbeat, HolderStep
  <2> QED
    BY <2>1 DEF Next
<1>6. ASSUME NEW at \in Stamps, LoggedExpire(at) PROVE Next
  BY <1>6 DEF LoggedExpire, Expire, Next
<1>7. ASSUME Prune \/ Tick PROVE Next
  BY <1>7 DEF Next
<1>8. CASE UNCHANGED loggedVars
  BY <1>8 DEF loggedVars
<1> QED
  BY <1>1, <1>2, <1>3, <1>4, <1>5, <1>6, <1>7, <1>8 DEF LoggedNext

(* Rows are inserted one at a time.                                          *)
LEMMA FewRowsStep ==
  ASSUME IInv, FewRows, [Next]_vars
  PROVE  FewRows'
<1> DEFINE S == {t \in Tasks : tasks[t].status \in TaskStatuses}
           S2 == {t \in Tasks : tasks'[t].status \in TaskStatuses}
<1>1. IsFiniteSet(S)
  BY DEF FewRows
<1>2. CASE NoInsert
  <2>1. S2 \in SUBSET S
    BY <1>2 DEF NoInsert
  <2> HIDE DEF S, S2
  <2>2. IsFiniteSet(S2)
    BY <1>1, <2>1, FS_Subset
  <2> QED
    BY <2>2 DEF S2, FewRows
<1>3. ASSUME NEW t \in Tasks, NEW at \in Stamps, EnqueueTask(t, at) PROVE FewRows'
  <2>1. \A u \in Tasks : u # t => tasks'[u] = tasks[u]
    BY <1>3 DEF EnqueueTask, IInv, TypeOK
  <2>2. S2 \in SUBSET (S \union {t})
    BY <2>1
  <2> HIDE DEF S, S2
  <2>3. IsFiniteSet(S \union {t})
    BY <1>1, FS_AddElement
  <2>4. IsFiniteSet(S2)
    BY <2>2, <2>3, FS_Subset
  <2> QED
    BY <2>4 DEF S2, FewRows
<1> QED
  BY <1>2, <1>3, StepInserts

(* Every logged operation, one by one.                                       *)
LEMMA StoryStep ==
  ASSUME StoryInv, [LoggedNext]_loggedVars
  PROVE  StoryInv'
<1>1. IInv /\ FewRows /\ StoryShape /\ LogRebuildsTables
  BY DEF StoryInv
<1>2. IInv' /\ FewRows'
  BY <1>1, LoggedIsStep, StepIInv, FewRowsStep
<1> SUFFICES StoryShape' /\ LogRebuildsTables'
  BY <1>2 DEF StoryInv
<1>3. ASSUME NEW r \in Runs, LoggedCreateRun(r) \/ LoggedCancel(r)
      PROVE  StoryShape' /\ LogRebuildsTables'
  BY <1>1, <1>3, CreateIsTold, CancelIsTold DEF LoggedCreateRun, LoggedCancel
<1>4. ASSUME NEW t \in Tasks, LoggedEnqueue(t) PROVE StoryShape' /\ LogRebuildsTables'
  <2>1. ASSUME EnqueueCheck(t) \/ EnqueueThrows(t), story' = story
        PROVE  StoryShape' /\ LogRebuildsTables'
    <3>1. runs' = runs /\ tasks' = tasks
      BY <2>1 DEF EnqueueCheck, EnqueueThrows
    <3> QED
      BY <1>1, <2>1, <3>1, SilentIsRight
  <2>2. ASSUME NEW at \in Stamps, EnqueueTask(t, at),
               Emit(<<[type |-> "task.enqueued", task |-> t]>>, {RunOf(t)})
        PROVE  StoryShape' /\ LogRebuildsTables'
    BY <1>1, <2>2, EnqueueIsTold
  <2> QED
    BY <1>4, <2>1, <2>2 DEF LoggedEnqueue
<1>5. ASSUME NEW t \in Tasks, LoggedResume(t) \/ LoggedRequeue(t)
      PROVE  StoryShape' /\ LogRebuildsTables'
  BY <1>1, <1>5, ResumeIsTold, RequeueIsTold DEF LoggedResume, LoggedRequeue
<1>6. ASSUME NEW w \in Workers, LoggedClaim(w) PROVE StoryShape' /\ LogRebuildsTables'
  BY <1>1, <1>6, ClaimIsTold DEF LoggedClaim
<1>7. ASSUME NEW t \in Tasks, NEW l \in Leases, NEW w \in Workers, NEW at \in Stamps,
             LoggedHolderStep(t, l, w, at)
      PROVE  StoryShape' /\ LogRebuildsTables'
  <2>1. CASE LoggedHeartbeat(t, l, w, at)
    BY <1>1, <2>1, HeartbeatIsTold DEF LoggedHeartbeat
  <2>2. CASE MarkTaskRunning(t, l, w, at)
             /\ Emit(<<[type |-> "task.running", task |-> t]>>, {RunOf(t)})
    BY <1>1, <2>2, RunningIsTold
  <2>3. ASSUME NEW to \in WaitingTaskStatuses, PauseTask(t, l, w, to, at),
               Emit(<<TaskEvent(PauseEventType[to], t, to)>>, {RunOf(t)})
        PROVE  StoryShape' /\ LogRebuildsTables'
    <3> DEFINE type == PauseEventType[to]
    <3>1. type \in {"task.blocked", "task.waiting_input", "task.released", "task.completed",
                    "task.failed", "task.resumed"}
      BY DEF WaitingTaskStatuses, PauseEventType
    <3>2. Emit(<<TaskEvent(type, t, to)>>, {RunOf(t)})
      BY <2>3
    <3>3. EndLease(t, l, w, at, to, "released")
      BY <2>3 DEF PauseTask
    <3> HIDE DEF type
    <3> QED
      BY <1>1, <3>1, <3>2, <3>3, LeaveIsTold
  <2>4. ASSUME NEW to, NEW a, EndLease(t, l, w, at, to, a),
               NEW type \in {"task.blocked", "task.waiting_input", "task.released",
                             "task.completed", "task.failed", "task.resumed"},
               Emit(<<TaskEvent(type, t, to)>>, {RunOf(t)})
        PROVE  StoryShape' /\ LogRebuildsTables'
    BY <1>1, <2>4, LeaveIsTold
  <2>5. CASE ReleaseTask(t, l, w, at) /\ Emit(<<TaskEvent("task.released", t, "queued")>>, {RunOf(t)})
    BY <2>4, <2>5 DEF ReleaseTask
  <2>6. ASSUME NEW k \in OptionalTokens, CompleteTask(t, l, w, k, at),
               Emit(<<TaskEvent("task.completed", t, "completed")>>, {RunOf(t)})
        PROVE  StoryShape' /\ LogRebuildsTables'
    BY <2>4, <2>6 DEF CompleteTask
  <2>7. ASSUME NEW k \in OptionalTokens, FailTask(t, l, w, k, at),
               Emit(<<TaskEvent("task.failed", t, "failed")>>, {RunOf(t)})
        PROVE  StoryShape' /\ LogRebuildsTables'
    BY <2>4, <2>7 DEF FailTask
  <2> QED
    BY <1>7, <2>1, <2>2, <2>3, <2>5, <2>6, <2>7 DEF LoggedHolderStep
<1>8. ASSUME NEW at \in Stamps, LoggedExpire(at) PROVE StoryShape' /\ LogRebuildsTables'
  BY <1>1, <1>8, ExpireIsTold DEF LoggedExpire
<1>9. ASSUME Prune, story' = story PROVE StoryShape' /\ LogRebuildsTables'
  <2>1. PICK statuses \in PruneFilters, R \in SUBSET Runs : PruneRuns(statuses, R)
    BY <1>9 DEF Prune
  <2>2. \A t \in Tasks : tasks'[t] = tasks[t] \/ tasks'[t].status = "pruned"
    BY <2>1, PruneFacts
  <2>3. \A r \in Runs : runs'[r] = runs[r] \/ runs'[r] = "pruned"
    BY <2>1 DEF PruneRuns
  <2> QED
    BY <1>1, <1>9, <2>2, <2>3, SilentIsRight
<1>10. ASSUME Tick \/ UNCHANGED vars, story' = story PROVE StoryShape' /\ LogRebuildsTables'
  <2>1. runs' = runs /\ tasks' = tasks
    BY <1>10 DEF Tick, vars
  <2> QED
    BY <1>1, <1>10, <2>1, SilentIsRight
<1>11. UNCHANGED loggedVars => UNCHANGED vars /\ story' = story
  BY DEF loggedVars
<1> QED
  BY <1>3, <1>4, <1>5, <1>6, <1>7, <1>8, <1>9, <1>10, <1>11 DEF LoggedNext

(* At first there is nothing to know.                                        *)
LEMMA StoryInit ==
  ASSUME LoggedInit
  PROVE  StoryInv
<1> DEFINE f == [r \in Runs |-> "absent"]
           g == [t \in Tasks |-> NoView]
<1>1. Init /\ story = Belief(f, g)
  BY DEF LoggedInit, Belief
<1>2. story.runs = f /\ story.tasks = g
  BY <1>1 DEF Belief
<1>3. StoryShape
  BY <1>1, <1>2 DEF StoryShape
<1>4. FewRows
  <2>1. {t \in Tasks : tasks[t].status \in TaskStatuses} = {}
    BY <1>1 DEF Init, AbsentTask, TaskStatuses
  <2> QED
    BY <2>1, FS_EmptySet DEF FewRows
<1>5. LogRebuildsTables
  <2>1. View(AbsentTask) = NoView
    BY DEF View, AbsentTask, NoView
  <2> QED
    BY <1>1, <1>2, <2>1 DEF Init, LogRebuildsTables
<1> QED
  BY <1>1, <1>3, <1>4, <1>5, InitIInv DEF StoryInv

(* The log only observes the store: what is proved of the store's behaviours *)
(* holds of those with their events.                                         *)
THEOREM StoryFollowsStore == LoggedSpec => Spec
<1>1. LoggedInit => Init
  BY DEF LoggedInit
<1>2. [LoggedNext]_loggedVars => [Next]_vars
  BY LoggedIsStep
<1> QED
  BY <1>1, <1>2, PTL DEF LoggedSpec, Spec

(* In every state, for any number of runs, tasks and workers, whoever has    *)
(* heard the events so far knows each run and task that still has rows as    *)
(* the tables have them (the insertEvent calls of src/src/sqlite-store.ts).  *)
THEOREM LogRebuildsTablesHolds == LoggedSpec => []LogRebuildsTables
<1>1. LoggedInit => StoryInv
  BY StoryInit
<1>2. StoryInv /\ [LoggedNext]_loggedVars => StoryInv'
  BY StoryStep
<1>3. StoryInv => LogRebuildsTables
  BY DEF StoryInv
<1> QED
  BY <1>1, <1>2, <1>3, PTL DEF LoggedSpec
=============================================================================
