------------------------------ MODULE LogProofs ------------------------------
(***************************************************************************)
(* Machine-checked proofs about the event log of the SQLite store, for any *)
(* number of units, calls and pages: composite writes are all or nothing,  *)
(* and the table with a cursor is the queue EventFeed.                     *)
(*                                                                         *)
(* The order of the ids is the order of the commits for two reasons: one   *)
(* transaction is open at a time, so its ids lie between those that are    *)
(* committed and lastId (IdsInv); and a rollback gives back exactly the    *)
(* ids it drew.  The rest is about listing a finite set in the order of    *)
(* its ids (Ranked).                                                       *)
(***************************************************************************)
EXTENDS EventLog, FunctionTheorems, FiniteSetTheorems, SequenceTheorems, TLAPS

-----------------------------------------------------------------------------
(* Listing a finite set in the order of its ids.                             *)

\* The place of e in S, counted from 0.
Rank(S, i, e) == Cardinality({f \in S : i[f] < i[e]})

\* InOrder, with the ids as an argument.
Ranked(S, i) == [k \in 1 .. Cardinality(S) |-> CHOOSE e \in S : Rank(S, i, e) = k - 1]

\* The events of S are finitely many, with ids of their own.
Listable(S, i) ==
  /\ IsFiniteSet(S)
  /\ \A e \in S : i[e] \in Nat
  /\ \A e, f \in S : i[e] = i[f] => e = f

\* s lists S in the order of the ids.
Lists(s, S, i) ==
  /\ s \in [1 .. Cardinality(S) -> S]
  /\ \A e \in S : \E k \in 1 .. Cardinality(S) : s[k] = e
  /\ \A k, m \in 1 .. Cardinality(S) : k < m => i[s[k]] < i[s[m]]

LEMMA Intervals ==
  ASSUME NEW n \in Nat
  PROVE  /\ IsFiniteSet(0 .. n - 1) /\ Cardinality(0 .. n - 1) = n
         /\ IsFiniteSet(1 .. n) /\ Cardinality(1 .. n) = n
<1>1. 0 \in Int /\ 1 \in Int /\ n - 1 \in Int /\ n \in Int
  OBVIOUS
<1> QED
  BY <1>1, FS_Interval

LEMMA RankBounds ==
  ASSUME NEW S, NEW i, Listable(S, i), NEW e \in S
  PROVE  Rank(S, i, e) \in 0 .. Cardinality(S) - 1
<1> DEFINE B == {f \in S : i[f] < i[e]}
<1>1. IsFiniteSet(S) /\ i[e] \in Nat
  BY DEF Listable
<1>2. B \in SUBSET S /\ e \notin B
  BY <1>1
<1>3. /\ IsFiniteSet(B) /\ Cardinality(B) <= Cardinality(S)
      /\ Cardinality(S) = Cardinality(B) => S = B
  BY <1>1, <1>2, FS_Subset
<1>4. Cardinality(B) \in Nat /\ Cardinality(S) \in Nat
  BY <1>1, <1>3, FS_CardinalityType
<1>5. Cardinality(B) # Cardinality(S)
  BY <1>2, <1>3
<1> QED
  BY <1>3, <1>4, <1>5 DEF Rank

LEMMA RankGrows ==
  ASSUME NEW S, NEW i, Listable(S, i), NEW e \in S, NEW f \in S, i[e] < i[f]
  PROVE  Rank(S, i, e) < Rank(S, i, f)
<1> DEFINE A == {g \in S : i[g] < i[e]}
           B == {g \in S : i[g] < i[f]}
<1>1. IsFiniteSet(S) /\ \A g \in S : i[g] \in Nat
  BY DEF Listable
<1>2. A \in SUBSET B /\ B \in SUBSET S /\ e \in B /\ e \notin A
  BY <1>1
<1>3. IsFiniteSet(B)
  BY <1>1, <1>2, FS_Subset
<1>4. /\ IsFiniteSet(A) /\ Cardinality(A) <= Cardinality(B)
      /\ Cardinality(B) = Cardinality(A) => B = A
  BY <1>2, <1>3, FS_Subset
<1>5. Cardinality(A) \in Nat /\ Cardinality(B) \in Nat
  BY <1>3, <1>4, FS_CardinalityType
<1>6. Cardinality(A) # Cardinality(B)
  BY <1>2, <1>4
<1> QED
  BY <1>4, <1>5, <1>6 DEF Rank

(* Each place is taken: n different ranks below n.                           *)
LEMMA RankOnto ==
  ASSUME NEW S, NEW i, Listable(S, i), NEW k \in 1 .. Cardinality(S)
  PROVE  \E e \in S : Rank(S, i, e) = k - 1
<1> DEFINE T == 0 .. Cardinality(S) - 1
           r == [e \in S |-> Rank(S, i, e)]
<1>1. IsFiniteSet(S) /\ Cardinality(S) \in Nat
  BY FS_CardinalityType DEF Listable
<1>2. IsFiniteSet(T) /\ Cardinality(T) = Cardinality(S)
  BY <1>1, Intervals
<1>3. r \in Injection(S, T)
  <2>1. r \in [S -> T]
    BY RankBounds
  <2>2. ASSUME NEW e \in S, NEW f \in S, r[e] = r[f] PROVE e = f
    <3>1. r[e] = Rank(S, i, e) /\ r[f] = Rank(S, i, f)
      OBVIOUS
    <3>2. Rank(S, i, e) \in Int /\ Rank(S, i, f) \in Int
      BY RankBounds, <1>1
    <3>3. ~ (i[e] < i[f]) /\ ~ (i[f] < i[e])
      BY <2>2, <3>1, <3>2, RankGrows
    <3> QED
      BY <3>3 DEF Listable
  <2> QED
    BY <2>1, <2>2, Fun_IsInj
<1>4. r \in Surjection(S, T)
  BY <1>1, <1>2, <1>3, FS_Injection
<1>5. k - 1 \in T
  BY <1>1
<1>6. \E e \in S : r[e] = k - 1
  <2> HIDE DEF r, T
  <2> QED
    BY <1>4, <1>5, Fun_SurjectionProperties
<1> QED
  BY <1>6

LEMMA RankedLists ==
  ASSUME NEW S, NEW i, Listable(S, i)
  PROVE  Lists(Ranked(S, i), S, i)
<1> DEFINE s == Ranked(S, i)
<1>1. Cardinality(S) \in Nat
  BY FS_CardinalityType DEF Listable
<1>2. \A k \in 1 .. Cardinality(S) : s[k] \in S /\ Rank(S, i, s[k]) = k - 1
  BY RankOnto DEF Ranked
<1>3. s \in [1 .. Cardinality(S) -> S]
  BY <1>2 DEF Ranked
<1>4. ASSUME NEW e \in S, NEW f \in S, Rank(S, i, e) = Rank(S, i, f) PROVE e = f
  <2>1. Rank(S, i, e) \in Int /\ Rank(S, i, f) \in Int
    BY RankBounds, <1>1
  <2>2. ~ (i[e] < i[f]) /\ ~ (i[f] < i[e])
    BY <1>4, <2>1, RankGrows
  <2> QED
    BY <2>2 DEF Listable
<1>5. ASSUME NEW e \in S PROVE \E k \in 1 .. Cardinality(S) : s[k] = e
  <2>1. Rank(S, i, e) + 1 \in 1 .. Cardinality(S)
    BY RankBounds, <1>1
  <2>2. Rank(S, i, s[Rank(S, i, e) + 1]) = (Rank(S, i, e) + 1) - 1
    BY <1>2, <2>1
  <2>3. Rank(S, i, s[Rank(S, i, e) + 1]) = Rank(S, i, e)
    BY <2>1, <2>2, RankBounds, <1>1
  <2> QED
    BY <1>2, <1>4, <2>1, <2>3
<1>6. ASSUME NEW k \in 1 .. Cardinality(S), NEW m \in 1 .. Cardinality(S), k < m
      PROVE  i[s[k]] < i[s[m]]
  <2>1. s[k] \in S /\ s[m] \in S /\ Rank(S, i, s[k]) = k - 1 /\ Rank(S, i, s[m]) = m - 1
    BY <1>2
  <2>2. i[s[k]] \in Nat /\ i[s[m]] \in Nat
    BY <2>1 DEF Listable
  <2>3. i[s[k]] # i[s[m]]
    BY <1>6, <2>1 DEF Listable
  <2>4. ~ (i[s[m]] < i[s[k]])
    BY <1>6, <2>1, RankGrows
  <2> QED
    BY <2>2, <2>3, <2>4
<1> QED
  BY <1>3, <1>5, <1>6 DEF Lists

(* There is one way to list a set.                                           *)
LEMMA ListIsRanked ==
  ASSUME NEW S, NEW i, Listable(S, i), NEW s, Lists(s, S, i)
  PROVE  s = Ranked(S, i)
<1>1. Cardinality(S) \in Nat /\ IsFiniteSet(S)
  BY FS_CardinalityType DEF Listable
<1>2. ASSUME NEW k \in 1 .. Cardinality(S) PROVE Rank(S, i, s[k]) = k - 1
  <2> DEFINE B == {f \in S : i[f] < i[s[k]]}
             h == [m \in 1 .. k - 1 |-> s[m]]
  <2>1. \A m \in 1 .. Cardinality(S) : s[m] \in S /\ i[s[m]] \in Nat
    BY DEF Lists, Listable
  <2>2. h \in [1 .. k - 1 -> B]
    BY <1>1, <2>1 DEF Lists
  <2>3. \A m, n \in 1 .. k - 1 : h[m] = h[n] => m = n
    <3> SUFFICES ASSUME NEW m \in 1 .. k - 1, NEW n \in 1 .. k - 1, s[m] = s[n] PROVE m = n
      OBVIOUS
    <3>1. m \in 1 .. Cardinality(S) /\ n \in 1 .. Cardinality(S)
      BY <1>1
    <3>2. ~ (m < n) /\ ~ (n < m)
      BY <2>1, <3>1 DEF Lists
    <3> QED
      BY <3>1, <3>2
  <2>4. ASSUME NEW f \in B PROVE \E m \in 1 .. k - 1 : h[m] = f
    <3>1. PICK m \in 1 .. Cardinality(S) : s[m] = f
      BY DEF Lists
    <3>2. ~ (k < m) /\ k # m
      BY <2>1, <3>1 DEF Lists
    <3> QED
      BY <1>1, <3>1, <3>2
  <2>5. h \in Bijection(1 .. k - 1, B)
    BY <2>2, <2>3, <2>4, Fun_IsBij
  <2>6. IsFiniteSet(1 .. k - 1) /\ Cardinality(1 .. k - 1) = k - 1
    <3>1. k - 1 \in Nat
      BY <1>1
    <3> QED
      BY <3>1, Intervals
  <2>7. Cardinality(B) = k - 1
    BY <2>5, <2>6, FS_Bijection, FS_Surjection, Fun_BijectionProperties
  <2> QED
    BY <2>7 DEF Rank
<1>3. ASSUME NEW k \in 1 .. Cardinality(S) PROVE s[k] = Ranked(S, i)[k]
  <2>1. s[k] \in S /\ Rank(S, i, s[k]) = k - 1
    BY <1>2 DEF Lists
  <2>2. Ranked(S, i)[k] \in S /\ Rank(S, i, Ranked(S, i)[k]) = k - 1
    BY <2>1 DEF Ranked
  <2>3. ~ (i[s[k]] < i[Ranked(S, i)[k]]) /\ ~ (i[Ranked(S, i)[k]] < i[s[k]])
    BY <1>1, <2>1, <2>2, RankGrows
  <2> QED
    BY <2>1, <2>2, <2>3 DEF Listable
<1> QED
  BY <1>3 DEF Lists, Ranked

LEMMA PartListable ==
  ASSUME NEW T, NEW i, Listable(T, i), NEW S \in SUBSET T
  PROVE  Listable(S, i)
  BY FS_Subset DEF Listable

LEMMA RankedSeq ==
  ASSUME NEW S, NEW i, Listable(S, i)
  PROVE  /\ Ranked(S, i) \in Seq(S) /\ Len(Ranked(S, i)) = Cardinality(S)
         /\ Cardinality(S) \in Nat
<1>1. Cardinality(S) \in Nat
  BY FS_CardinalityType DEF Listable
<1>2. Ranked(S, i) \in [1 .. Cardinality(S) -> S]
  BY RankedLists DEF Lists
<1> QED
  BY <1>1, <1>2

(* A set that comes after another is listed after it.                        *)
LEMMA RankedConcat ==
  ASSUME NEW S, NEW i, Listable(S, i), NEW A \in SUBSET S, NEW B \in SUBSET S,
         S = A \union B, \A e \in A : \A f \in B : i[e] < i[f]
  PROVE  Ranked(S, i) = Ranked(A, i) \o Ranked(B, i)
<1> DEFINE a == Ranked(A, i)
           b == Ranked(B, i)
           s == a \o b
<1>1. Listable(A, i) /\ Listable(B, i)
  BY PartListable
<1>2. Lists(a, A, i) /\ Lists(b, B, i)
  BY <1>1, RankedLists
<1>3. \A e \in S : i[e] \in Nat
  BY DEF Listable
<1>4. A \intersect B = {}
  <2> SUFFICES ASSUME NEW e \in A, e \in B PROVE FALSE
    OBVIOUS
  <2>1. i[e] < i[e] /\ i[e] \in Nat
    BY <1>3
  <2> QED
    BY <2>1
<1>5. /\ Cardinality(A) \in Nat /\ Cardinality(B) \in Nat
      /\ Cardinality(S) = Cardinality(A) + Cardinality(B)
  <2>1. IsFiniteSet(A) /\ IsFiniteSet(B)
    BY <1>1 DEF Listable
  <2>2. Cardinality(A) \in Nat /\ Cardinality(B) \in Nat /\ Cardinality({}) = 0
    BY <2>1, FS_CardinalityType, FS_EmptySet
  <2>3. Cardinality(S) = Cardinality(A) + Cardinality(B) - Cardinality(A \intersect B)
    BY <2>1, FS_Union
  <2>4. Cardinality(A \intersect B) = 0
    BY <1>4, <2>2
  <2> QED
    BY <2>2, <2>3, <2>4
<1>6. /\ a \in Seq(S) /\ Len(a) = Cardinality(A)
      /\ b \in Seq(S) /\ Len(b) = Cardinality(B)
  BY <1>1, RankedSeq, SeqMonotonic
<1>7. /\ s \in Seq(S) /\ Len(s) = Cardinality(S)
      /\ \A k \in 1 .. Cardinality(A) : s[k] = a[k] /\ a[k] \in A
      /\ \A k \in 1 .. Cardinality(B) : s[Cardinality(A) + k] = b[k] /\ b[k] \in B
  <2> HIDE DEF a, b
  <2>1. /\ s \in Seq(S) /\ Len(s) = Cardinality(S)
        /\ \A k \in 1 .. Len(a) + Len(b) : s[k] = IF k <= Len(a) THEN a[k] ELSE b[k - Len(a)]
    BY <1>5, <1>6, ConcatProperties
  <2>2. \A k \in 1 .. Cardinality(A) : s[k] = a[k]
    BY <1>5, <1>6, <2>1
  <2>3. ASSUME NEW k \in 1 .. Cardinality(B) PROVE s[Cardinality(A) + k] = b[k]
    <3>1. /\ Cardinality(A) + k \in 1 .. Len(a) + Len(b) /\ ~ (Cardinality(A) + k <= Len(a))
          /\ (Cardinality(A) + k) - Len(a) = k
      BY <1>5, <1>6
    <3> QED
      BY <2>1, <3>1
  <2> QED
    BY <1>2, <2>1, <2>2, <2>3 DEF Lists
<1> DEFINE m == Cardinality(A)
           n == Cardinality(B)
<1> HIDE DEF a, b, s, m, n
<1>8. \A k \in 1 .. Cardinality(S) : k \in 1 .. m \/ \E j \in 1 .. n : k = m + j
  <2> SUFFICES ASSUME NEW k \in 1 .. Cardinality(S), k \notin 1 .. m
               PROVE  \E j \in 1 .. n : k = m + j
    OBVIOUS
  <2>1. k - m \in 1 .. n /\ k = m + (k - m)
    BY <1>5 DEF m, n
  <2> QED
    BY <2>1
<1>9. Lists(s, S, i)
  <2>1. s \in [1 .. Cardinality(S) -> S]
    BY <1>7, LenProperties
  <2>2. ASSUME NEW e \in S PROVE \E k \in 1 .. Cardinality(S) : s[k] = e
    <3>1. CASE e \in A
      <4>1. PICK k \in 1 .. m : a[k] = e
        BY <1>2, <3>1 DEF Lists, m
      <4>2. k \in 1 .. Cardinality(S)
        BY <1>5 DEF m
      <4> QED
        BY <1>7, <4>1, <4>2 DEF m
    <3>2. CASE e \in B
      <4>1. PICK k \in 1 .. n : b[k] = e
        BY <1>2, <3>2 DEF Lists, n
      <4>2. m + k \in 1 .. Cardinality(S)
        BY <1>5 DEF m, n
      <4> QED
        BY <1>7, <4>1, <4>2 DEF m, n
    <3> QED
      BY <3>1, <3>2
  <2>3. ASSUME NEW k \in 1 .. Cardinality(S), NEW l \in 1 .. Cardinality(S), k < l
        PROVE  i[s[k]] < i[s[l]]
    <3>1. m \in Nat /\ n \in Nat
      BY <1>5 DEF m, n
    <3>2. CASE k \in 1 .. m /\ l \in 1 .. m
      BY <1>2, <1>7, <2>3, <3>2 DEF Lists, m
    <3>3. CASE k \in 1 .. m /\ \E j \in 1 .. n : l = m + j
      BY <1>7, <3>3 DEF m, n
    <3>4. CASE (\E j \in 1 .. n : k = m + j) /\ (\E j \in 1 .. n : l = m + j)
      <4>1. PICK j \in 1 .. n, h \in 1 .. n : k = m + j /\ l = m + h
        BY <3>4
      <4>2. j < h
        BY <2>3, <3>1, <4>1
      <4> QED
        BY <1>2, <1>7, <4>1, <4>2 DEF Lists, m, n
    <3>5. ~ ((\E j \in 1 .. n : k = m + j) /\ l \in 1 .. m)
      BY <2>3, <3>1
    <3> QED
      BY <1>8, <3>2, <3>3, <3>4, <3>5
  <2> QED
    BY <2>1, <2>2, <2>3 DEF Lists
<1> QED
  BY <1>9, ListIsRanked DEF s, a, b

(* Some events of a list, listed again, are in the same order.               *)
LEMMA RankedPart ==
  ASSUME NEW T, NEW i, Listable(T, i), NEW S \in SUBSET T
  PROVE  Feed!IsLeftOf(Ranked(S, i), Ranked(T, i))
<1>1. Lists(Ranked(S, i), S, i) /\ Lists(Ranked(T, i), T, i)
  BY PartListable, RankedLists
<1>2. Cardinality(S) \in Nat /\ Cardinality(T) \in Nat
  BY PartListable, RankedSeq
<1> DEFINE s == Ranked(S, i)
           t == Ranked(T, i)
<1> HIDE DEF s, t
<1>3. DOMAIN s = 1 .. Cardinality(S) /\ DOMAIN t = 1 .. Cardinality(T)
  BY <1>1 DEF Lists, s, t
<1>4. ASSUME NEW k \in DOMAIN s PROVE \E m \in DOMAIN t : t[m] = s[k]
  BY <1>1, <1>3 DEF Lists, s, t
<1>5. ASSUME NEW k \in DOMAIN s, NEW l \in DOMAIN s, k < l
      PROVE  \E m, n \in DOMAIN t : m < n /\ t[m] = s[k] /\ t[n] = s[l]
  <2>1. PICK m \in DOMAIN t, n \in DOMAIN t : t[m] = s[k] /\ t[n] = s[l]
    BY <1>4
  <2>2. i[s[k]] < i[s[l]] /\ i[s[k]] \in Nat /\ i[s[l]] \in Nat
    <3>1. s[k] \in T /\ s[l] \in T
      BY <1>1, <1>3 DEF Lists, s
    <3> QED
      BY <1>1, <1>3, <1>5, <3>1 DEF Lists, s, Listable
  <2>3. ~ (n < m) /\ m # n
    BY <1>1, <1>3, <2>1, <2>2 DEF Lists, t
  <2>4. m \in Nat /\ n \in Nat
    BY <1>2, <1>3
  <2> QED
    BY <2>1, <2>3, <2>4
<1>6. Feed!IsLeftOf(s, t)
  BY <1>4, <1>5 DEF Feed!IsLeftOf, Feed!ToSet
<1> QED
  BY <1>6 DEF s, t

(* A list of a set is one of its enumerations.                               *)
LEMMA RankedEnumerates ==
  ASSUME NEW S, NEW i, Listable(S, i)
  PROVE  Ranked(S, i) \in Feed!SetToSeqs(S)
<1>1. Lists(Ranked(S, i), S, i) /\ Cardinality(S) \in Nat
  BY RankedLists, RankedSeq
<1> DEFINE s == Ranked(S, i)
<1> HIDE DEF s
<1>2. ASSUME NEW k \in 1 .. Cardinality(S), NEW l \in 1 .. Cardinality(S), k # l
      PROVE  s[k] # s[l]
  <2>1. i[s[k]] \in Nat /\ i[s[l]] \in Nat
    BY <1>1 DEF Lists, Listable, s
  <2>2. i[s[k]] < i[s[l]] \/ i[s[l]] < i[s[k]]
    <3>1. k < l \/ l < k
      BY <1>1, <1>2
    <3> QED
      BY <1>1, <3>1 DEF Lists, s
  <2> QED
    BY <2>1, <2>2
<1>3. Feed!Cardinality(S) = Cardinality(S)
  BY DEF Feed!Cardinality, Cardinality
<1>4. s \in Feed!SetToSeqs(S)
  BY <1>1, <1>2, <1>3 DEF Lists, Feed!SetToSeqs, s
<1> QED
  BY <1>4 DEF s

LEMMA RankedAgrees ==
  ASSUME NEW S, NEW i, NEW j, \A e \in S : i[e] = j[e]
  PROVE  Ranked(S, i) = Ranked(S, j)
<1>1. ASSUME NEW e \in S PROVE Rank(S, i, e) = Rank(S, j, e)
  <2>1. {f \in S : i[f] < i[e]} = {f \in S : j[f] < j[e]}
    OBVIOUS
  <2> QED
    BY <2>1 DEF Rank
<1>2. ASSUME NEW k
      PROVE  (CHOOSE e \in S : Rank(S, i, e) = k - 1) = (CHOOSE e \in S : Rank(S, j, e) = k - 1)
  BY <1>1
<1> QED
  BY <1>2 DEF Ranked

LEMMA InOrderIsRanked == ASSUME NEW S PROVE InOrder(S) = Ranked(S, id)
  BY DEF InOrder, Ranked, Rank

-----------------------------------------------------------------------------
(* The inductive invariant.                                                  *)

Open == {e \in Events : fate[e] = "open"}

Visible == {e \in Events : fate[e] = "visible"}

\* The counter as the last COMMIT has left it.
Base == lastId - Cardinality(Open)

LogType ==
  /\ phase \in [Units -> {"new", "open", "committed", "resolved", "rejected"}]
  /\ fate \in [Events -> {"none", "open", "visible", "pruned", "undone"}]
  /\ id \in [Events -> Nat]
  /\ lastId \in Nat /\ cursor \in Nat

\* The write lock.
OneWriter == \A u, v \in Units : phase[u] = "open" /\ phase[v] = "open" => u = v

\* Where a unit is says how its events can be.
FateFits ==
  \A e \in Events :
    /\ phase[e[1]] = "new" => fate[e] = "none"
    /\ phase[e[1]] = "open" => fate[e] \in {"none", "open"}
    /\ phase[e[1]] \in {"committed", "resolved"} => fate[e] \in {"none", "visible", "pruned"}
    /\ phase[e[1]] = "rejected" => fate[e] \in {"none", "undone"}

\* The ids that are not committed come after all the others, and the cursor
\* is behind them.
IdsInv ==
  /\ Listable(Open \union Visible, id)
  /\ Base \in Nat /\ cursor <= Base
  /\ \A e \in Open : Base < id[e] /\ id[e] <= lastId
  /\ \A e \in Visible : id[e] <= Base

LogInv == LogType /\ OneWriter /\ FateFits /\ IdsInv

LEMMA UnitOf == ASSUME NEW e \in Events PROVE e[1] \in Units
  BY DEF Events

(* The open events are those of the unit that holds the write lock.          *)
LEMMA OpenIsOfWriter ==
  ASSUME LogInv, NEW u \in Units, phase[u] = "open"
  PROVE  With("open", u) = Open
<1>1. ASSUME NEW e \in Events, fate[e] = "open" PROVE e[1] = u
  <2>1. e[1] \in Units
    BY UnitOf
  <2>2. phase[e[1]] = "open"
    BY <1>1, <2>1 DEF LogInv, LogType, FateFits
  <2> QED
    BY <2>1, <2>2 DEF LogInv, OneWriter
<1> QED
  BY <1>1 DEF With, EventsOf, Open

(* No transaction, no open event.                                            *)
LEMMA NothingOpen ==
  ASSUME LogInv, \A u \in Units : phase[u] # "open"
  PROVE  Open = {}
<1> SUFFICES ASSUME NEW e \in Events, fate[e] = "open" PROVE FALSE
  BY DEF Open
<1>1. e[1] \in Units
  BY UnitOf
<1> QED
  BY <1>1 DEF LogInv, LogType, FateFits

(* Events that leave Open and Visible, or do not move, disturb no id.        *)
LEMMA FewerIds ==
  ASSUME IdsInv, LogType, Open' = Open, Visible' \subseteq Visible,
         UNCHANGED <<id, lastId, cursor>>
  PROVE  IdsInv'
<1>1. (Open \union Visible)' \in SUBSET (Open \union Visible)
  OBVIOUS
<1>2. Listable((Open \union Visible)', id)
  BY <1>1, PartListable DEF IdsInv
<1>3. Listable(Open \union Visible, id)'
  BY <1>2
<1>4. Base' = Base
  BY DEF Base
<1> QED
  BY <1>3, <1>4 DEF IdsInv

LEMMA InitLogInv == LogInit => LogInv
<1> SUFFICES ASSUME LogInit PROVE LogInv
  OBVIOUS
<1>1. LogType /\ OneWriter /\ FateFits
  BY UnitOf DEF LogInit, LogType, OneWriter, FateFits
<1>2. Open = {} /\ Visible = {}
  BY DEF LogInit, Open, Visible
<1>3. IsFiniteSet({}) /\ Cardinality({}) = 0
  BY FS_EmptySet
<1>4. Listable({}, id)
  BY <1>3 DEF Listable
<1>5. Base = 0 /\ cursor = 0
  BY <1>2, <1>3 DEF Base, LogInit
<1>6. IdsInv
  BY <1>2, <1>4, <1>5 DEF IdsInv
<1> QED
  BY <1>1, <1>6 DEF LogInv

LEMMA BeginLogInv ==
  ASSUME Backend = "sqlite", LogInv, NEW u \in Units, Begin(u)
  PROVE  LogInv'
<1>1. /\ phase[u] = "new" /\ \A v \in Units : phase[v] # "open"
      /\ phase' = [phase EXCEPT ![u] = "open"]
      /\ UNCHANGED <<fate, id, lastId, cursor>>
  BY DEF Begin, CallsJoin
<1>2. LogType'
  BY <1>1 DEF LogInv, LogType
<1>3. OneWriter'
  BY <1>1 DEF LogInv, LogType, OneWriter
<1>4. FateFits'
  <2> SUFFICES ASSUME NEW e \in Events PROVE FateFits!(e)'
    BY DEF FateFits
  <2>1. e[1] \in Units /\ FateFits!(e)
    BY UnitOf DEF LogInv, FateFits
  <2> QED
    BY <1>1, <2>1 DEF LogInv, LogType
<1>5. IdsInv'
  <2>1. Open' = Open /\ Visible' = Visible
    BY <1>1 DEF Open, Visible
  <2> QED
    BY <1>1, <2>1, FewerIds DEF LogInv
<1> QED
  BY <1>2, <1>3, <1>4, <1>5 DEF LogInv

LEMMA InsertLogInv ==
  ASSUME Backend = "sqlite", LogInv, NEW u \in Units, InsertEvent(u)
  PROVE  LogInv'
<1>1. PICK e \in EventsOf(u) :
        /\ fate[e] = "none"
        /\ fate' = [fate EXCEPT ![e] = "open"]
        /\ id' = [id EXCEPT ![e] = lastId + 1]
        /\ lastId' = lastId + 1
  BY DEF InsertEvent, DrawId
<1>2. phase[u] = "open" /\ UNCHANGED <<phase, cursor>> /\ e \in Events /\ e[1] = u
  BY DEF InsertEvent, EventsOf
<1>3. LogType'
  BY <1>1, <1>2 DEF LogInv, LogType
<1>4. OneWriter'
  BY <1>2 DEF LogInv, OneWriter
<1>5. FateFits'
  BY <1>1, <1>2 DEF LogInv, LogType, FateFits
<1>6. Open' = Open \union {e} /\ Visible' = Visible /\ e \notin Open \union Visible
  BY <1>1, <1>2 DEF LogInv, LogType, Open, Visible
<1>7. IsFiniteSet(Open) /\ IsFiniteSet(Open \union Visible)
  <2>1. Listable(Open \union Visible, id) /\ Open \in SUBSET (Open \union Visible)
    BY DEF LogInv, IdsInv
  <2> QED
    BY <2>1, PartListable DEF Listable
<1>8. /\ IsFiniteSet((Open \union Visible)')
      /\ Cardinality(Open') = Cardinality(Open) + 1 /\ Cardinality(Open) \in Nat
  <2>1. /\ IsFiniteSet((Open \union Visible) \union {e})
        /\ Cardinality(Open \union {e}) = Cardinality(Open) + 1
    BY <1>6, <1>7, FS_AddElement
  <2>2. (Open \union Visible)' = (Open \union Visible) \union {e}
    BY <1>6
  <2> QED
    BY <1>6, <1>7, <2>1, <2>2, FS_CardinalityType
<1>9. Base' = Base
  BY <1>1, <1>8 DEF Base, LogInv, LogType
<1>10. \A f \in Open \union Visible : id'[f] = id[f] /\ id[f] <= lastId
  <2> SUFFICES ASSUME NEW f \in Open \union Visible PROVE id'[f] = id[f] /\ id[f] <= lastId
    OBVIOUS
  <2>1. f \in Events /\ f # e
    BY <1>6 DEF Open, Visible
  <2>2. id'[f] = id[f] /\ id[f] \in Nat
    BY <1>1, <2>1 DEF LogInv, LogType
  <2>3. CASE f \in Open
    BY <2>2, <2>3 DEF LogInv, IdsInv
  <2>4. CASE f \in Visible
    <3>1. id[f] <= Base
      BY <2>4 DEF LogInv, IdsInv
    <3>2. Base <= lastId /\ Base \in Nat
      BY <1>8 DEF Base, LogInv, LogType, IdsInv
    <3> QED
      BY <2>2, <3>1, <3>2 DEF LogInv, LogType
  <2> QED
    BY <2>3, <2>4
<1>11. id'[e] = lastId + 1 /\ lastId \in Nat
  BY <1>1, <1>2 DEF LogInv, LogType
<1>12. Listable(Open \union Visible, id)'
  <2>1. \A f \in Open \union Visible : id[f] \in Nat
    BY DEF LogInv, IdsInv, Listable
  <2>2. \A f, g \in Open \union Visible : id[f] = id[g] => f = g
    BY DEF LogInv, IdsInv, Listable
  <2>3. (Open \union Visible)' = (Open \union Visible) \union {e}
    BY <1>6
  <2>4. \A f \in (Open \union Visible)' : id'[f] \in Nat
    BY <1>10, <1>11, <2>1, <2>3
  <2>5. \A f, g \in (Open \union Visible)' : id'[f] = id'[g] => f = g
    <3> SUFFICES ASSUME NEW f \in (Open \union Visible)', NEW g \in (Open \union Visible)',
                        id'[f] = id'[g], f # g
                 PROVE  FALSE
      OBVIOUS
    <3>1. CASE f = e
      <4>1. g \in Open \union Visible
        BY <2>3, <3>1
      <4> QED
        BY <1>10, <1>11, <2>1, <3>1, <4>1
    <3>2. CASE g = e
      <4>1. f \in Open \union Visible
        BY <2>3, <3>2
      <4> QED
        BY <1>10, <1>11, <2>1, <3>2, <4>1
    <3>3. CASE f # e /\ g # e
      <4>1. f \in Open \union Visible /\ g \in Open \union Visible
        BY <2>3, <3>3
      <4> QED
        BY <1>10, <2>2, <4>1
    <3> QED
      BY <3>1, <3>2, <3>3
  <2> QED
    BY <1>8, <2>4, <2>5 DEF Listable
<1>13. IdsInv'
  <2>1. \A f \in Open' : Base' < id'[f] /\ id'[f] <= lastId'
    <3> SUFFICES ASSUME NEW f \in Open' PROVE Base' < id'[f] /\ id'[f] <= lastId'
      OBVIOUS
    <3>1. CASE f = e
      <4>1. Base <= lastId /\ Base \in Nat
        BY <1>8 DEF Base, LogInv, LogType, IdsInv
      <4> QED
        BY <1>1, <1>9, <1>11, <3>1, <4>1
    <3>2. CASE f \in Open
      <4>1. Base < id[f] /\ id[f] <= lastId /\ id[f] \in Nat
        BY <3>2 DEF LogInv, IdsInv, Listable
      <4> QED
        BY <1>1, <1>9, <1>10, <1>11, <3>2, <4>1
    <3> QED
      BY <1>6, <3>1, <3>2
  <2>2. \A f \in Visible' : id'[f] <= Base'
    BY <1>6, <1>9, <1>10 DEF LogInv, IdsInv
  <2>3. Base' \in Nat /\ cursor' <= Base'
    BY <1>2, <1>9 DEF LogInv, IdsInv
  <2> QED
    BY <1>12, <2>1, <2>2, <2>3 DEF IdsInv
<1> QED
  BY <1>3, <1>4, <1>5, <1>13 DEF LogInv

LEMMA CommitLogInv ==
  ASSUME Backend = "sqlite", LogInv, NEW u \in Units, Commit(u)
  PROVE  LogInv'
<1>1. /\ phase[u] = "open" /\ phase' = [phase EXCEPT ![u] = "committed"]
      /\ UNCHANGED <<id, lastId, cursor>>
  BY DEF Commit, CallsJoin
<1>2. fate' = [e \in Events |-> IF e \in Open THEN "visible" ELSE fate[e]]
  BY <1>1, OpenIsOfWriter DEF Commit, Settle
<1>3. LogType'
  BY <1>1, <1>2 DEF LogInv, LogType
<1>4. OneWriter'
  BY <1>1 DEF LogInv, LogType, OneWriter
<1>5. FateFits'
  <2> SUFFICES ASSUME NEW e \in Events PROVE FateFits!(e)'
    BY DEF FateFits
  <2>1. e[1] \in Units /\ FateFits!(e) /\ (e \in Open <=> fate[e] = "open")
    BY UnitOf DEF LogInv, FateFits, Open
  <2>2. fate'[e] = IF e \in Open THEN "visible" ELSE fate[e]
    BY <1>2
  <2>3. CASE e[1] = u
    BY <1>1, <2>1, <2>2, <2>3 DEF LogInv, LogType
  <2>4. CASE e[1] # u
    <3>1. phase'[e[1]] = phase[e[1]] /\ phase[e[1]] # "open"
      BY <1>1, <2>1, <2>4 DEF LogInv, LogType, OneWriter
    <3>2. fate'[e] = fate[e]
      BY <2>1, <2>2, <3>1 DEF LogInv, LogType
    <3> QED
      BY <2>1, <3>1, <3>2
  <2> QED
    BY <2>3, <2>4
<1>6. Open' = {} /\ Visible' = Open \union Visible
  BY <1>2 DEF Open, Visible
<1>7. Cardinality({}) = 0
  BY FS_EmptySet
<1>8. Base' = lastId /\ lastId \in Nat /\ Base \in Nat /\ Base <= lastId
  <2>1. Listable(Open \union Visible, id) /\ Open \in SUBSET (Open \union Visible)
    BY DEF LogInv, IdsInv
  <2>2. Cardinality(Open) \in Nat
    BY <2>1, PartListable, RankedSeq
  <2> QED
    BY <1>1, <1>6, <1>7, <2>2 DEF Base, LogInv, LogType, IdsInv
<1>9. IdsInv'
  <2>1. Listable(Open \union Visible, id)'
    BY <1>1, <1>6 DEF LogInv, IdsInv
  <2>2. \A e \in Open \union Visible : id[e] <= lastId /\ id[e] \in Nat
    <3> SUFFICES ASSUME NEW e \in Open \union Visible PROVE id[e] <= lastId /\ id[e] \in Nat
      OBVIOUS
    <3>1. id[e] \in Nat
      BY DEF LogInv, IdsInv, Listable
    <3> QED
      BY <1>8, <3>1 DEF LogInv, IdsInv
  <2>3. cursor <= lastId
    BY <1>8 DEF LogInv, LogType, IdsInv
  <2> QED
    BY <1>1, <1>6, <1>8, <2>1, <2>2, <2>3 DEF IdsInv
<1> QED
  BY <1>3, <1>4, <1>5, <1>9 DEF LogInv

LEMMA ReturnLogInv ==
  ASSUME Backend = "sqlite", LogInv, NEW u \in Units, Return(u)
  PROVE  LogInv'
<1>1. /\ phase[u] = "committed" /\ phase' = [phase EXCEPT ![u] = "resolved"]
      /\ UNCHANGED <<fate, id, lastId, cursor>>
  BY DEF Return, CallsJoin
<1>2. LogType'
  BY <1>1 DEF LogInv, LogType
<1>3. OneWriter'
  BY <1>1 DEF LogInv, LogType, OneWriter
<1>4. FateFits'
  <2> SUFFICES ASSUME NEW e \in Events PROVE FateFits!(e)'
    BY DEF FateFits
  <2>1. e[1] \in Units /\ FateFits!(e)
    BY UnitOf DEF LogInv, FateFits
  <2> QED
    BY <1>1, <2>1 DEF LogInv, LogType
<1>5. IdsInv'
  <2>1. Open' = Open /\ Visible' = Visible
    BY <1>1 DEF Open, Visible
  <2> QED
    BY <1>1, <2>1, FewerIds DEF LogInv
<1> QED
  BY <1>2, <1>3, <1>4, <1>5 DEF LogInv

LEMMA ThrowLogInv ==
  ASSUME Backend = "sqlite", LogInv, NEW u \in Units, Throw(u)
  PROVE  LogInv'
<1>1. /\ phase[u] = "open" /\ phase' = [phase EXCEPT ![u] = "rejected"]
      /\ UNCHANGED <<id, cursor>>
  BY DEF Throw
<1>2. /\ fate' = [e \in Events |-> IF e \in Open THEN "undone" ELSE fate[e]]
      /\ lastId' = Base
  BY <1>1, OpenIsOfWriter DEF Throw, Settle, CallsJoin, Base
<1>3. LogType'
  BY <1>1, <1>2 DEF LogInv, LogType, IdsInv
<1>4. OneWriter'
  BY <1>1 DEF LogInv, LogType, OneWriter
<1>5. FateFits'
  <2> SUFFICES ASSUME NEW e \in Events PROVE FateFits!(e)'
    BY DEF FateFits
  <2>1. e[1] \in Units /\ FateFits!(e) /\ (e \in Open <=> fate[e] = "open")
    BY UnitOf DEF LogInv, FateFits, Open
  <2>2. fate'[e] = IF e \in Open THEN "undone" ELSE fate[e]
    BY <1>2
  <2>3. CASE e[1] = u
    BY <1>1, <2>1, <2>2, <2>3 DEF LogInv, LogType
  <2>4. CASE e[1] # u
    <3>1. phase'[e[1]] = phase[e[1]] /\ phase[e[1]] # "open"
      BY <1>1, <2>1, <2>4 DEF LogInv, LogType, OneWriter
    <3>2. fate'[e] = fate[e]
      BY <2>1, <2>2, <3>1 DEF LogInv, LogType
    <3> QED
      BY <2>1, <3>1, <3>2
  <2> QED
    BY <2>3, <2>4
<1>6. Open' = {} /\ Visible' = Visible
  BY <1>2 DEF Open, Visible
<1>7. Cardinality({}) = 0
  BY FS_EmptySet
<1>8. Base' = Base
  BY <1>2, <1>6, <1>7 DEF Base, LogInv, LogType, IdsInv
<1>9. Listable(Open \union Visible, id)'
  <2>1. Visible \in SUBSET (Open \union Visible)
    OBVIOUS
  <2>2. Listable(Visible, id)
    BY <2>1, PartListable DEF LogInv, IdsInv
  <2> QED
    BY <1>1, <1>6, <2>2
<1>10. IdsInv'
  BY <1>1, <1>6, <1>8, <1>9 DEF LogInv, IdsInv
<1> QED
  BY <1>3, <1>4, <1>5, <1>10 DEF LogInv

LEMMA PruneLogInv ==
  ASSUME Backend = "sqlite", LogInv, NEW u \in Units, Prune(u)
  PROVE  LogInv'
<1>1. UNCHANGED <<phase, id, lastId, cursor>>
  BY DEF Prune
<1>2. fate' = [e \in Events |-> IF e \in With("visible", u) THEN "pruned" ELSE fate[e]]
  BY DEF Prune
<1>3. \A e \in With("visible", u) : fate[e] = "visible"
  BY DEF With
<1>4. LogType'
  BY <1>1, <1>2 DEF LogInv, LogType
<1>5. OneWriter'
  BY <1>1 DEF LogInv, OneWriter
<1>6. FateFits'
  <2> SUFFICES ASSUME NEW e \in Events PROVE FateFits!(e)'
    BY DEF FateFits
  <2>1. FateFits!(e) /\ phase[e[1]] \in {"new", "open", "committed", "resolved", "rejected"}
    BY UnitOf DEF LogInv, FateFits, LogType
  <2> QED
    BY <1>1, <1>2, <1>3, <2>1
<1>7. IdsInv'
  <2>1. Open' = Open /\ Visible' \subseteq Visible
    BY <1>2, <1>3 DEF Open, Visible
  <2> QED
    BY <1>1, <2>1, FewerIds DEF LogInv
<1> QED
  BY <1>4, <1>5, <1>6, <1>7 DEF LogInv

LEMMA PollLogInv == ASSUME LogInv, Poll PROVE LogInv'
<1>1. PICK last \in Found : cursor' = id[last] /\ UNCHANGED <<phase, fate, id, lastId>>
  BY DEF Poll
<1>2. last \in Visible
  BY DEF Found, Visible
<1>3. LogType' /\ OneWriter' /\ FateFits'
  BY <1>1 DEF LogInv, LogType, OneWriter, FateFits, Found
<1>4. Open' = Open /\ Visible' = Visible /\ Base' = Base
  BY <1>1 DEF Open, Visible, Base
<1>5. IdsInv'
  BY <1>1, <1>2, <1>4 DEF LogInv, IdsInv
<1> QED
  BY <1>3, <1>5 DEF LogInv

LEMMA StepLogInv == ASSUME Backend = "sqlite", LogInv, [LogNext]_logVars PROVE LogInv'
<1>1. CASE Poll
  BY <1>1, PollLogInv
<1>2. ASSUME NEW u \in Units, UnitStep(u) PROVE LogInv'
  BY <1>2, BeginLogInv, InsertLogInv, CommitLogInv, ReturnLogInv, ThrowLogInv, PruneLogInv
     DEF UnitStep
<1>3. CASE UNCHANGED logVars
  <2>1. UNCHANGED <<phase, fate, id, lastId, cursor>>
    BY <1>3 DEF logVars
  <2>2. Open' = Open /\ Visible' = Visible /\ Base' = Base
    BY <2>1 DEF Open, Visible, Base
  <2>3. IdsInv'
    BY <2>1, <2>2 DEF LogInv, IdsInv
  <2> QED
    BY <2>1, <2>3 DEF LogInv, LogType, OneWriter, FateFits
<1> QED
  BY <1>1, <1>2, <1>3 DEF LogNext

-----------------------------------------------------------------------------
(* What follows from the invariant.                                          *)

LEMMA AllOrNothingFollows == ASSUME LogInv PROVE UnitAllOrNothing
<1> SUFFICES ASSUME NEW u \in Units, NEW e \in Events, e[1] = u
             PROVE  /\ phase[u] = "rejected" => fate[e] \notin {"visible", "pruned"}
                    /\ phase[u] = "resolved" => fate[e] \notin {"undone", "open"}
                    /\ phase[u] = "open" => fate[e] # "visible"
  BY DEF UnitAllOrNothing, EventsOf, With, Published
<1> QED
  BY DEF LogInv, FateFits

(* In the store itself, where the calls of fn run inside fn's transaction,   *)
(* composite writes are all or nothing.                                      *)
THEOREM UnitAllOrNothingHolds == Backend = "sqlite" => (LogSpec => []UnitAllOrNothing)
<1> SUFFICES ASSUME Backend = "sqlite" PROVE LogSpec => []UnitAllOrNothing
  OBVIOUS
<1>1. LogInit => LogInv
  BY InitLogInv
<1>2. LogInv /\ [LogNext]_logVars => LogInv'
  BY StepLogInv
<1>3. LogInv => UnitAllOrNothing
  BY AllOrNothingFollows
<1> QED
  BY <1>1, <1>2, <1>3, PTL DEF LogSpec

-----------------------------------------------------------------------------
(* The table with a cursor is the queue: each step is a step of EventFeed.   *)

LEMMA FoundListable ==
  ASSUME LogInv
  PROVE  Listable(Found, id) /\ Found \subseteq Visible
<1>1. Found \subseteq Visible
  BY DEF Found, Visible
<1> QED
  BY <1>1, PartListable DEF LogInv, IdsInv

(* A step that leaves Found, its ids and what is published alone is none.    *)
LEMMA FeedStutters ==
  ASSUME Published' = Published, Found' = Found, \A e \in Found : id'[e] = id[e],
         UNCHANGED delivered
  PROVE  UNCHANGED Feed!feedVars
<1>1. Ranked(Found', id') = Ranked(Found, id)
  BY RankedAgrees
<1>2. InOrder(Found)' = InOrder(Found)
  BY <1>1 DEF InOrder, Ranked, Rank
<1> QED
  BY <1>2 DEF Feed!feedVars

LEMMA InitFeed == LogInit => Feed!FeedInit
<1> SUFFICES ASSUME LogInit PROVE Feed!FeedInit
  OBVIOUS
<1>1. Published = {} /\ Found = {} /\ delivered = <<>>
  BY DEF LogInit, Published, Found
<1>2. Cardinality({}) = 0
  BY FS_EmptySet
<1>3. InOrder(Found) = <<>>
  BY <1>1, <1>2 DEF InOrder
<1> QED
  BY <1>1, <1>3 DEF Feed!FeedInit

LEMMA InsertFeed ==
  ASSUME Backend = "sqlite", LogInv, NEW u \in Units, InsertEvent(u)
  PROVE  UNCHANGED Feed!feedVars
<1>1. PICK e \in Events :
        /\ fate[e] = "none"
        /\ fate' = [fate EXCEPT ![e] = "open"]
        /\ id' = [id EXCEPT ![e] = lastId + 1]
        /\ UNCHANGED <<cursor, delivered>>
  BY DEF InsertEvent, DrawId, EventsOf
<1>2. \A f \in Events : f # e => fate'[f] = fate[f] /\ id'[f] = id[f]
  BY <1>1 DEF LogInv, LogType
<1>3. fate'[e] = "open"
  BY <1>1 DEF LogInv, LogType
<1>4. Published' = Published
  BY <1>1, <1>2, <1>3 DEF Published
<1>5. Found' = Found /\ e \notin Found
  BY <1>1, <1>2, <1>3 DEF Found
<1>6. \A f \in Found : id'[f] = id[f]
  BY <1>2, <1>5 DEF Found
<1> QED
  BY <1>1, <1>4, <1>5, <1>6, FeedStutters

(* COMMIT puts the unit's events at the end of the queue.                    *)
LEMMA CommitFeed ==
  ASSUME Backend = "sqlite", LogInv, NEW u \in Units, Commit(u)
  PROVE  [Feed!Publish]_Feed!feedVars
<1>1. phase[u] = "open" /\ UNCHANGED <<id, lastId, cursor, delivered>>
  BY DEF Commit
<1>2. fate' = [e \in Events |-> IF e \in Open THEN "visible" ELSE fate[e]]
  BY <1>1, OpenIsOfWriter DEF Commit, Settle
<1>3. \A e \in Open : id[e] > cursor /\ id[e] \in Nat
  <2> SUFFICES ASSUME NEW e \in Open PROVE id[e] > cursor /\ id[e] \in Nat
    OBVIOUS
  <2>1. id[e] \in Nat
    BY DEF LogInv, IdsInv, Listable
  <2>2. Base \in Nat /\ cursor \in Nat /\ cursor <= Base /\ Base < id[e]
    BY DEF LogInv, LogType, IdsInv
  <2> QED
    BY <2>1, <2>2
<1>4. Published' = Published \union Open /\ Published \intersect Open = {}
  BY <1>2 DEF Published, Open
<1>5. Found' = Found \union Open
  BY <1>1, <1>2, <1>3 DEF Found, Open
<1>6. CASE Open = {}
  BY <1>1, <1>4, <1>5, <1>6, FeedStutters
<1>7. CASE Open # {}
  <2>1. Listable(Found \union Open, id) /\ Listable(Open, id)
    <3>1. Found \union Open \in SUBSET (Open \union Visible)
      BY FoundListable
    <3> QED
      BY <3>1, PartListable DEF LogInv, IdsInv
  <2>2. \A e \in Found, f \in Open : id[e] < id[f]
    <3> SUFFICES ASSUME NEW e \in Found, NEW f \in Open PROVE id[e] < id[f]
      OBVIOUS
    <3>1. id[e] <= Base /\ Base < id[f] /\ Base \in Nat
      BY FoundListable DEF LogInv, IdsInv
    <3>2. id[e] \in Nat /\ id[f] \in Nat
      BY <2>1 DEF Listable
    <3> QED
      BY <3>1, <3>2
  <2>3. Ranked(Found \union Open, id) = Ranked(Found, id) \o Ranked(Open, id)
    <3> DEFINE T == Found \union Open
    <3>1. /\ Listable(T, id) /\ Found \in SUBSET T /\ Open \in SUBSET T
          /\ T = Found \union Open /\ \A e \in Found : \A f \in Open : id[e] < id[f]
      BY <2>1, <2>2
    <3> HIDE DEF T
    <3>2. Ranked(T, id) = Ranked(Found, id) \o Ranked(Open, id)
      BY ONLY <3>1, RankedConcat
    <3> QED
      BY <3>2 DEF T
  <2>4. InOrder(Found)' = InOrder(Found) \o Ranked(Open, id)
    <3>1. InOrder(Found)' = Ranked(Found \union Open, id)
      BY <1>1, <1>5 DEF InOrder, Ranked, Rank
    <3> QED
      BY <2>3, <3>1, InOrderIsRanked
  <2>5. Ranked(Open, id) \in Feed!SetToSeqs(Open)
    BY <2>1, RankedEnumerates
  <2>6. Published' \ Published = Open /\ Published \subseteq Published'
    BY <1>4
  <2>7. Feed!Publish
    BY <1>1, <1>7, <2>4, <2>5, <2>6 DEF Feed!Publish
  <2> QED
    BY <2>7
<1> QED
  BY <1>6, <1>7

LEMMA ThrowFeed ==
  ASSUME Backend = "sqlite", LogInv, NEW u \in Units, Throw(u)
  PROVE  UNCHANGED Feed!feedVars
<1>1. UNCHANGED <<id, cursor, delivered>>
  BY DEF Throw
<1>2. fate' = [e \in Events |-> IF e \in With("open", u) THEN "undone" ELSE fate[e]]
  BY DEF Throw, Settle
<1>3. \A e \in With("open", u) : fate[e] = "open"
  BY DEF With
<1>4. Published' = Published /\ Found' = Found
  BY <1>1, <1>2, <1>3 DEF Published, Found
<1> QED
  BY <1>1, <1>4, FeedStutters

LEMMA PruneFeed ==
  ASSUME LogInv, NEW u \in Units, Prune(u)
  PROVE  Feed!Drop
<1>1. UNCHANGED <<id, cursor, delivered>>
  BY DEF Prune
<1>2. fate' = [e \in Events |-> IF e \in With("visible", u) THEN "pruned" ELSE fate[e]]
  BY DEF Prune
<1>3. \A e \in With("visible", u) : fate[e] = "visible"
  BY DEF With
<1>4. Published' = Published
  BY <1>2, <1>3 DEF Published
<1>5. Found' \in SUBSET Found
  BY <1>1, <1>2, <1>3 DEF Found
<1>6. Feed!IsLeftOf(Ranked(Found', id), Ranked(Found, id))
  BY <1>5, FoundListable, RankedPart
<1>7. InOrder(Found)' = Ranked(Found', id)
  BY <1>1 DEF InOrder, Ranked, Rank
<1> QED
  BY <1>1, <1>4, <1>6, <1>7, InOrderIsRanked DEF Feed!Drop

(* A page is the head of the queue, and the new cursor is behind the rest.   *)
LEMMA PollFeed ==
  ASSUME LogInv, Poll
  PROVE  Feed!HandOut
<1>1. PICK page \in SUBSET Found, last \in Found :
        /\ \A e \in page, f \in Found \ page : id[e] < id[f]
        /\ last \in page /\ \A e \in page : id[e] <= id[last]
        /\ delivered' = delivered \o InOrder(page)
        /\ cursor' = id[last]
        /\ UNCHANGED <<phase, fate, id, lastId>>
  BY DEF Poll
<1> DEFINE rest == Found \ page
           p == Ranked(page, id)
           r == Ranked(rest, id)
           n == Cardinality(page)
<1>2. Listable(Found, id) /\ Listable(page, id) /\ Listable(rest, id)
  BY FoundListable, PartListable
<1>3. Found = page \union rest
  OBVIOUS
<1>4. InOrder(Found) = p \o r
  <2>1. \A e \in page : \A f \in rest : id[e] < id[f]
    BY <1>1
  <2>2. page \in SUBSET Found /\ rest \in SUBSET Found
    OBVIOUS
  <2> HIDE DEF rest
  <2>3. Ranked(Found, id) = Ranked(page, id) \o Ranked(rest, id)
    BY ONLY <1>2, <1>3, <2>1, <2>2, RankedConcat
  <2> QED
    BY <2>3, InOrderIsRanked DEF p, r
<1>5. Found' = rest
  <2>1. cursor \in Nat /\ \A e \in Found : id[e] \in Nat /\ id[e] > cursor
    BY <1>2 DEF LogInv, LogType, Found, Listable
  <2>2. Found' = {e \in Events : fate[e] = "visible" /\ id[e] > id[last]}
    BY <1>1 DEF Found
  <2>3. \A e \in Events : fate[e] = "visible" => id[e] \in Nat
    BY DEF LogInv, LogType
  <2>4. ASSUME NEW e \in Events, fate[e] = "visible", id[e] > id[last] PROVE e \in rest
    <3>1. e \in Found
      BY <2>1, <2>3, <2>4 DEF Found
    <3>2. e \notin page
      BY <1>1, <2>1, <2>4
    <3> QED
      BY <3>1, <3>2
  <2>5. ASSUME NEW e \in rest PROVE e \in Events /\ fate[e] = "visible" /\ id[e] > id[last]
    BY <1>1, <2>1 DEF Found
  <2> QED
    BY <2>2, <2>4, <2>5
<1>6. InOrder(Found)' = r
  BY <1>1, <1>5 DEF InOrder, Ranked, Rank
<1>7. InOrder(page) = p
  BY InOrderIsRanked
<1>8. /\ p \in Seq(page) /\ Len(p) = n /\ n \in Nat
      /\ r \in Seq(rest)
  BY <1>2, RankedSeq
<1>9. n # 0
  <2>1. IsFiniteSet(page)
    BY <1>2 DEF Listable
  <2> QED
    BY <1>1, <2>1, FS_EmptySet
<1> HIDE DEF p, r, n, rest
<1>10. /\ SubSeq(p \o r, 1, n) = p
       /\ SubSeq(p \o r, n + 1, Len(p \o r)) = r
       /\ n \in 1 .. Len(p \o r)
  <2>1. p \in Seq(Found) /\ r \in Seq(Found)
    BY <1>3, <1>8, SeqMonotonic
  <2>2. Len(p \o r) = Len(p) + Len(r) /\ Len(r) \in Nat
    BY <2>1, ConcatProperties, LenProperties
  <2>3. SubSeq(p \o r, 1, Len(p)) = p /\ SubSeq(p \o r, Len(p) + 1, Len(p) + Len(r)) = r
    BY <2>1, SubSeqOfConcat1, SubSeqOfConcat2
  <2> QED
    BY <1>8, <1>9, <2>2, <2>3
<1>11. Published' = Published
  BY <1>1 DEF Published
<1> QED
  BY <1>1, <1>4, <1>6, <1>7, <1>10, <1>11 DEF Feed!HandOut

LEMMA StepFeed ==
  ASSUME Backend = "sqlite", LogInv, [LogNext]_logVars
  PROVE  [Feed!FeedNext]_Feed!feedVars
<1>1. CASE Poll
  BY <1>1, PollFeed DEF Feed!FeedNext
<1>2. ASSUME NEW u \in Units, Begin(u) \/ Return(u) \/ UNCHANGED logVars
      PROVE  UNCHANGED Feed!feedVars
  <2>1. UNCHANGED <<fate, id, cursor, delivered>>
    BY <1>2 DEF Begin, Return, logVars
  <2>2. Published' = Published /\ Found' = Found
    BY <2>1 DEF Published, Found
  <2> QED
    BY <2>1, <2>2, FeedStutters
<1>3. ASSUME NEW u \in Units, UnitStep(u) PROVE [Feed!FeedNext]_Feed!feedVars
  BY <1>2, <1>3, InsertFeed, CommitFeed, ThrowFeed, PruneFeed DEF UnitStep, Feed!FeedNext
<1>4. CASE UNCHANGED logVars
  <2>1. UNCHANGED <<fate, id, cursor, delivered>>
    BY <1>4 DEF logVars
  <2>2. Published' = Published /\ Found' = Found
    BY <2>1 DEF Published, Found
  <2> QED
    BY <2>1, <2>2, FeedStutters
<1> QED
  BY <1>1, <1>3, <1>4 DEF LogNext

(* In the store itself the events table with a subscriber's cursor is the    *)
(* queue EventFeed, for any number of units, whatever the limit of a page    *)
(* and whatever pruneRuns deletes.                                           *)
THEOREM ImplementsFeedHolds == Backend = "sqlite" => (LogSpec => ImplementsFeed)
<1> SUFFICES ASSUME Backend = "sqlite" PROVE LogSpec => ImplementsFeed
  OBVIOUS
<1>1. LogInit => LogInv /\ Feed!FeedInit
  BY InitLogInv, InitFeed
<1>2. LogInv /\ [LogNext]_logVars => LogInv'
  BY StepLogInv
<1>3. LogInv /\ [LogNext]_logVars => [Feed!FeedNext]_Feed!feedVars
  BY StepFeed
<1> QED
  BY <1>1, <1>2, <1>3, PTL DEF LogSpec, ImplementsFeed, Feed!FeedSpec
=============================================================================
