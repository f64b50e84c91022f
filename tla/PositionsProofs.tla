--------------------------- MODULE PositionsProofs ---------------------------
(***************************************************************************)
(* What Picked is, and lists of numbers that ascend: such a list is known   *)
(* by its members.                                                          *)
(***************************************************************************)
EXTENDS Positions, FiniteSetTheorems, WellFoundedInduction, TLAPS

\* Every set of naturals that is not empty has a least member.
LEMMA LeastNat ==
  ASSUME NEW T \in SUBSET Nat, T # {}
  PROVE  \E x \in T : \A y \in T : x <= y
<1>1. \E x \in T : \A y \in T : ~(<<y, x>> \in OpToRel(<, Nat))
  BY NatLessThanWellFounded, WFMin
<1>2. \A x \in T, y \in T : <<y, x>> \in OpToRel(<, Nat) <=> y < x
  BY DEF OpToRel
<1>3. \E x \in T : \A y \in T : ~(y < x)
  BY <1>1, <1>2, Zenon
<1> QED
  BY <1>3

UpTo(S, k) == {j \in S : j <= k}

\* A set of positions has one of every rank.
LEMMA HasRank ==
  ASSUME NEW m \in Nat, NEW S \in SUBSET (1..m)
  PROVE  /\ IsFiniteSet(S) /\ Cardinality(S) \in Nat
         /\ \A i \in 1..Cardinality(S) : \E k \in S : Cardinality(UpTo(S, k)) = i
<1>0. \A j \in S : j \in Nat /\ 1 <= j /\ j <= m
  OBVIOUS
<1>1. IsFiniteSet(S) /\ Cardinality(S) \in Nat
  <2>1. IsFiniteSet(1..m)
    BY FS_Interval
  <2>2. IsFiniteSet(S)
    BY <2>1, FS_Subset
  <2> QED
    BY <2>2, FS_CardinalityType
<1>2. ASSUME NEW i \in 1..Cardinality(S) PROVE \E k \in S : Cardinality(UpTo(S, k)) = i
  <2> DEFINE T == {k \in Nat : Cardinality(UpTo(S, k)) >= i}
  <2>1. \A k \in Nat : IsFiniteSet(UpTo(S, k)) /\ Cardinality(UpTo(S, k)) \in Nat
    BY <1>1, FS_Subset, FS_CardinalityType DEF UpTo
  <2>2. UpTo(S, m) = S /\ UpTo(S, 0) = {}
    <3>1. \A j \in S : j \in UpTo(S, m) /\ j \notin UpTo(S, 0)
      BY <1>0 DEF UpTo
    <3> QED
      BY <3>1, Zenon DEF UpTo
  <2>3. m \in T /\ 0 \notin T
    BY <1>1, <2>2, FS_EmptySet
  <2>4. PICK k \in T : \A y \in T : k <= y
    BY <2>3, LeastNat
  <2>5. k \in Nat /\ k # 0 /\ k - 1 \in Nat /\ k - 1 \notin T
    BY <2>3, <2>4
  <2>6. Cardinality(UpTo(S, k - 1)) < i /\ Cardinality(UpTo(S, k)) >= i
    BY <1>1, <2>1, <2>4, <2>5
  <2>7a. \A j \in S : j <= k /\ j # k <=> j <= k - 1
    BY <1>0, <2>5
  <2>7b. \A j \in S : j \in UpTo(S, k) <=> j \in UpTo(S, k - 1) \/ j = k
    BY <1>0, <2>5, <2>7a DEF UpTo
  <2>7c. UpTo(S, k) \subseteq S /\ UpTo(S, k - 1) \subseteq S
    BY DEF UpTo
  <2>7. k \in S
    <3>1. CASE k \notin S
      <4>1. UpTo(S, k) = UpTo(S, k - 1)
        BY <2>7b, <2>7c, <3>1, Zenon
      <4> QED
        BY <1>1, <2>1, <2>5, <2>6, <4>1
    <3> QED
      BY <3>1
  <2>8. UpTo(S, k) = UpTo(S, k - 1) \cup {k} /\ k \notin UpTo(S, k - 1)
    <3>1. k \notin UpTo(S, k - 1)
      BY <2>5 DEF UpTo
    <3>2. UpTo(S, k) = UpTo(S, k - 1) \cup {k}
      BY <2>7b, <2>7c, <2>7, Zenon
    <3> QED
      BY <3>1, <3>2
  <2>9. Cardinality(UpTo(S, k)) = Cardinality(UpTo(S, k - 1)) + 1
    BY <2>1, <2>5, <2>8, FS_AddElement
  <2>10. Cardinality(UpTo(S, k)) = i
    BY <1>1, <2>1, <2>5, <2>6, <2>9
  <2> QED
    BY <2>7, <2>10
<1> QED
  BY <1>1, <1>2

\* The members of p are those of s at the positions S, in the order of s.
InOrder(p, s, S) ==
  \E at \in [1..Cardinality(S) -> S] :
    /\ \A i \in 1..Cardinality(S) : p[i] = s[at[i]]
    /\ \A i, j \in 1..Cardinality(S) : i < j => at[i] < at[j]

\* Where the members of Picked come from.
LEMMA PickedFrom ==
  ASSUME NEW R, NEW s \in Seq(R), NEW S \in SUBSET (DOMAIN s)
  PROVE  /\ Cardinality(S) \in Nat /\ Picked(s, S) \in Seq(R) /\ Len(Picked(s, S)) = Cardinality(S)
         /\ InOrder(Picked(s, S), s, S)
<1> DEFINE n == Cardinality(S)
           pos(i) == CHOOSE k \in S : Cardinality({j \in S : j <= k}) = i
           at == [i \in 1..n |-> pos(i)]
<1>1. DOMAIN s = 1..Len(s) /\ Len(s) \in Nat
  OBVIOUS
<1>2. IsFiniteSet(S) /\ n \in Nat /\ \A i \in 1..n : \E k \in S : Cardinality(UpTo(S, k)) = i
  BY <1>1, HasRank
<1>3. \A i \in 1..n : pos(i) \in S /\ Cardinality(UpTo(S, pos(i))) = i
  BY <1>2 DEF UpTo
<1>4. at \in [1..n -> S]
  BY <1>3
<1>5. Picked(s, S) = [i \in 1..n |-> s[pos(i)]]
  BY DEF Picked
<1>6. \A i \in 1..n : Picked(s, S)[i] = s[at[i]] /\ s[at[i]] \in R
  <2> SUFFICES ASSUME NEW i \in 1..n PROVE Picked(s, S)[i] = s[at[i]] /\ s[at[i]] \in R
    OBVIOUS
  <2>1. at[i] = pos(i) /\ pos(i) \in DOMAIN s
    BY <1>3
  <2> HIDE DEF pos, at, n
  <2>2. Picked(s, S)[i] = s[at[i]]
    BY <1>5, <2>1
  <2> QED
    BY <2>1, <2>2
<1>7. Picked(s, S) \in Seq(R) /\ Len(Picked(s, S)) = n
  <2> HIDE DEF pos, at, n
  <2>1. DOMAIN Picked(s, S) = 1..n
    BY <1>5
  <2>2. Picked(s, S) \in [1..n -> R]
    BY <1>5, <1>6
  <2> QED
    BY <1>2, <2>1, <2>2
<1>8. ASSUME NEW i \in 1..n, NEW j \in 1..n, i < j PROVE at[i] < at[j]
  <2>1. at[i] = pos(i) /\ at[j] = pos(j) /\ pos(i) \in Nat /\ pos(j) \in Nat
    <3>1. pos(i) \in S /\ pos(j) \in S
      BY <1>3
    <3>2. at[i] = pos(i) /\ at[j] = pos(j)
      OBVIOUS
    <3> HIDE DEF pos, at, n
    <3> QED
      BY <1>1, <3>1, <3>2
  <2> HIDE DEF pos, at, n
  <2>2. CASE pos(j) <= pos(i)
    <3>1. UpTo(S, pos(j)) \subseteq UpTo(S, pos(i))
      BY <1>1, <2>1, <2>2 DEF UpTo
    <3>2. Cardinality(UpTo(S, pos(j))) <= Cardinality(UpTo(S, pos(i)))
      BY <1>2, <3>1, FS_Subset DEF UpTo
    <3> QED
      <4>1. j <= i
        BY <1>3, <3>2
      <4> QED
        BY <1>2, <1>8, <4>1
  <2> QED
    BY <2>1, <2>2
<1>9. \E f \in [1..n -> S] :
         /\ \A i \in 1..n : Picked(s, S)[i] = s[f[i]]
         /\ \A i, j \in 1..n : i < j => f[i] < f[j]
  <2> HIDE DEF at, n
  <2> QED
    BY <1>4, <1>6, <1>8
<1> QED
  BY <1>2, <1>7, <1>9 DEF InOrder

\* The other way round: every one of these positions is one.
LEMMA PickedAll ==
  ASSUME NEW R, NEW s \in Seq(R), NEW S \in SUBSET (DOMAIN s)
  PROVE  \A k \in S : \E i \in 1..Cardinality(S) : Picked(s, S)[i] = s[k]
<1> DEFINE n == Cardinality(S)
           pos(i) == CHOOSE k \in S : Cardinality({j \in S : j <= k}) = i
<1>1. DOMAIN s = 1..Len(s) /\ Len(s) \in Nat
  OBVIOUS
<1>2. IsFiniteSet(S) /\ n \in Nat /\ \A k \in S : k \in Nat
  <2>1. Len(s) \in Nat /\ S \in SUBSET (1..Len(s))
    BY <1>1
  <2>2. IsFiniteSet(S) /\ n \in Nat
    BY <2>1, HasRank
  <2> QED
    BY <2>1, <2>2
<1>3. \A i \in 1..n : Picked(s, S)[i] = s[pos(i)]
  BY DEF Picked
<1> TAKE k \in S
<1> DEFINE r == Cardinality(UpTo(S, k))
<1>4. IsFiniteSet(UpTo(S, k)) /\ r \in Nat /\ r <= n
  <2>1. UpTo(S, k) \subseteq S
    BY DEF UpTo
  <2> QED
    BY <1>2, <2>1, FS_Subset, FS_CardinalityType
<1>5. r # 0
  <2>1. k \in UpTo(S, k)
    BY <1>2 DEF UpTo
  <2> QED
    BY <1>4, <2>1, FS_EmptySet
<1>6. ASSUME NEW x \in S, NEW y \in S, x < y PROVE Cardinality(UpTo(S, x)) # Cardinality(UpTo(S, y))
  <2>1. UpTo(S, x) \subseteq UpTo(S, y) /\ y \in UpTo(S, y) /\ y \notin UpTo(S, x)
    BY <1>2, <1>6 DEF UpTo
  <2>2. IsFiniteSet(UpTo(S, y))
    BY <1>2, FS_Subset DEF UpTo
  <2> QED
    BY <2>1, <2>2, FS_Subset
<1>7. pos(r) \in S /\ Cardinality(UpTo(S, pos(r))) = r
  <2>1. \E x \in S : Cardinality({j \in S : j <= x}) = r
    BY DEF UpTo
  <2> QED
    BY <2>1 DEF UpTo
<1> HIDE DEF pos, r, n
<1>8. pos(r) = k
  <2>1. pos(r) < k \/ k < pos(r) \/ pos(r) = k
    BY <1>2, <1>7
  <2> QED
    BY <1>6, <1>7, <2>1 DEF r
<1>9. r \in 1..n
  BY <1>2, <1>4, <1>5
<1> QED
  BY <1>3, <1>8, <1>9 DEF n

Members(s) == {s[i] : i \in DOMAIN s}
Ascends(s) == \A i, j \in DOMAIN s : i < j => s[i] < s[j]

\* What is picked of a sequence are its members at the positions.
LEMMA PickedMembers ==
  ASSUME NEW R, NEW s \in Seq(R), NEW S \in SUBSET (DOMAIN s)
  PROVE  /\ Picked(s, S) \in Seq(R) /\ Members(Picked(s, S)) = {s[k] : k \in S}
         /\ Len(Picked(s, S)) = Cardinality(S) /\ IsFiniteSet(S)
<1>1. /\ Cardinality(S) \in Nat /\ Picked(s, S) \in Seq(R) /\ Len(Picked(s, S)) = Cardinality(S)
      /\ InOrder(Picked(s, S), s, S)
  BY PickedFrom
<1>2. DOMAIN Picked(s, S) = 1..Cardinality(S)
  BY <1>1
<1>3. \A i \in 1..Cardinality(S) : \E k \in S : Picked(s, S)[i] = s[k]
  BY <1>1 DEF InOrder
<1>4. \A k \in S : \E i \in 1..Cardinality(S) : Picked(s, S)[i] = s[k]
  BY PickedAll
<1>5. IsFiniteSet(S)
  <2>1. Len(s) \in Nat /\ S \in SUBSET (1..Len(s))
    OBVIOUS
  <2> QED
    BY <2>1, HasRank
<1>6. Members(Picked(s, S)) = {s[k] : k \in S}
  <2>1. ASSUME NEW x PROVE x \in Members(Picked(s, S)) <=> x \in {s[k] : k \in S}
    <3>1. x \in Members(Picked(s, S)) <=> \E i \in 1..Cardinality(S) : x = Picked(s, S)[i]
      BY <1>2 DEF Members
    <3> QED
      BY <1>3, <1>4, <3>1
  <2> QED
    BY <2>1
<1> QED
  BY <1>1, <1>5, <1>6

\* Of a list that ascends, one that ascends.
LEMMA PickedAscends ==
  ASSUME NEW s \in Seq(Int), Ascends(s), NEW S \in SUBSET (DOMAIN s)
  PROVE  Ascends(Picked(s, S))
<1>1. /\ Cardinality(S) \in Nat /\ Picked(s, S) \in Seq(Int) /\ Len(Picked(s, S)) = Cardinality(S)
      /\ InOrder(Picked(s, S), s, S)
  BY PickedFrom
<1>2. PICK at \in [1..Cardinality(S) -> S] :
        /\ \A i \in 1..Cardinality(S) : Picked(s, S)[i] = s[at[i]]
        /\ \A i, j \in 1..Cardinality(S) : i < j => at[i] < at[j]
  BY <1>1 DEF InOrder
<1>3. DOMAIN Picked(s, S) = 1..Cardinality(S) /\ \A i \in 1..Cardinality(S) : at[i] \in DOMAIN s
  BY <1>1, <1>2
<1> QED
  BY <1>2, <1>3 DEF Ascends

\* A list whose members another one has, which has more but only greater ones, is the
\* beginning of it.
LEMMA AscendingPrefix ==
  ASSUME NEW s \in Seq(Int), NEW t \in Seq(Int), Ascends(s), Ascends(t),
         Members(s) \subseteq Members(t),
         \A x \in Members(t) \ Members(s), y \in Members(s) : y < x
  PROVE  Len(s) <= Len(t) /\ \A i \in DOMAIN s : s[i] = t[i]
<1> DEFINE T == {i \in DOMAIN s : ~(i \in DOMAIN t /\ s[i] = t[i])}
<1>1. DOMAIN s = 1..Len(s) /\ DOMAIN t = 1..Len(t) /\ Len(s) \in Nat /\ Len(t) \in Nat
  OBVIOUS
<1>2. \A i \in DOMAIN s : s[i] \in Int /\ s[i] \in Members(s) /\ s[i] \in Members(t)
  <2>1. \A i \in DOMAIN s : s[i] \in Int /\ s[i] \in Members(s)
    BY DEF Members
  <2> QED
    BY <2>1
<1>3. ASSUME T # {} PROVE FALSE
  <2>1. PICK i \in T : \A y \in T : i <= y
    <3>1. T \in SUBSET Nat
      BY <1>1
    <3> QED
      BY <1>3, <3>1, LeastNat
  <2>2. i \in DOMAIN s /\ \A k \in DOMAIN s : k < i => k \in DOMAIN t /\ s[k] = t[k]
    BY <1>1, <2>1
  <2>3. PICK j \in DOMAIN t : s[i] = t[j]
    BY <1>2, <2>2 DEF Members
  <2>4. j \notin 1..(i - 1)
    <3>1. ASSUME j \in 1..(i - 1) PROVE FALSE
      <4>1. j \in DOMAIN s /\ j < i /\ s[j] = t[j]
        BY <1>1, <2>2, <3>1
      <4>2. s[j] < s[i]
        BY <2>2, <4>1 DEF Ascends
      <4> QED
        BY <1>2, <2>2, <2>3, <4>1, <4>2
    <3> QED
      BY <3>1
  <2>5. i < j /\ i \in DOMAIN t
    BY <1>1, <2>1, <2>2, <2>3, <2>4
  <2>6. t[i] < t[j] /\ t[i] \in Members(t) /\ t[i] \in Int /\ t[j] \in Int
    BY <2>3, <2>5 DEF Ascends, Members
  <2>7. t[i] \notin Members(s)
    <3>1. ASSUME NEW k \in DOMAIN s, s[k] = t[i] PROVE FALSE
      <4>1. k < i \/ k = i \/ i < k
        BY <1>1, <2>2
      <4>2. CASE k < i
        <5>1. s[k] < s[i] /\ t[k] < t[i] /\ s[k] = t[k]
          BY <2>2, <2>5, <4>2 DEF Ascends
        <5> QED
          BY <2>6, <3>1, <5>1
      <4>3. CASE k = i
        BY <2>1, <2>5, <3>1, <4>3
      <4>4. CASE i < k
        <5>1. s[i] < s[k] /\ s[k] \in Int /\ s[i] \in Int
          BY <1>2, <2>2, <4>4 DEF Ascends
        <5> QED
          BY <2>3, <2>6, <3>1, <5>1
      <4> QED
        BY <4>1, <4>2, <4>3, <4>4
    <3> QED
      BY <3>1 DEF Members
  <2>8. s[i] < t[i]
    BY <1>2, <2>2, <2>6, <2>7
  <2> QED
    BY <1>2, <2>2, <2>3, <2>6, <2>8
<1>4. \A i \in DOMAIN s : i \in DOMAIN t /\ s[i] = t[i]
  BY <1>3
<1>5. Len(s) <= Len(t)
  <2>1. CASE Len(s) = 0
    BY <1>1, <2>1
  <2>2. CASE Len(s) # 0
    BY SMTT(60), <1>1, <1>4, <2>2
  <2> QED
    BY <2>1, <2>2
<1> QED
  BY <1>4, <1>5

\* So two lists that ascend and have the same members are the same.
LEMMA AscendingUnique ==
  ASSUME NEW s \in Seq(Int), NEW t \in Seq(Int), Ascends(s), Ascends(t), Members(s) = Members(t)
  PROVE  s = t
<1>1. Len(s) <= Len(t) /\ \A i \in DOMAIN s : s[i] = t[i]
  BY AscendingPrefix
<1>2. Len(t) <= Len(s)
  BY AscendingPrefix
<1>3. Len(s) = Len(t) /\ Len(s) \in Nat
  BY <1>1, <1>2
<1>4. DOMAIN s = DOMAIN t /\ \A i \in DOMAIN s : s[i] = t[i]
  BY <1>1, <1>3
<1> QED
  BY <1>4

\* Without one of its members, a list that ascends.
LEMMA DroppedOne ==
  ASSUME NEW s \in Seq(Int), Ascends(s), NEW n \in DOMAIN s
  PROVE  LET d == Picked(s, DOMAIN s \ {n}) IN
         /\ d \in Seq(Int) /\ Ascends(d) /\ Members(d) = Members(s) \ {s[n]}
         /\ DOMAIN d = 1..(Len(s) - 1)
         /\ \A i \in 1..(Len(s) - 1) : d[i] = IF i < n THEN s[i] ELSE s[i + 1]
<1> DEFINE d == Picked(s, DOMAIN s \ {n})
           m == Len(s) - 1
           e == [i \in 1..m |-> IF i < n THEN s[i] ELSE s[i + 1]]
<1>1. DOMAIN s = 1..Len(s) /\ Len(s) \in Nat /\ m \in Nat /\ n \in Nat
  OBVIOUS
<1>2. d \in Seq(Int) /\ Ascends(d) /\ Members(d) = {s[k] : k \in DOMAIN s \ {n}}
  BY PickedMembers, PickedAscends
<1>3. \A i \in 1..m : i \in DOMAIN s /\ i + 1 \in DOMAIN s
  BY <1>1
<1>4. e \in [1..m -> Int]
  BY <1>3
<1>5. e \in Seq(Int) /\ DOMAIN e = 1..m
  BY <1>1, <1>4
<1>6. Ascends(e)
  <2> SUFFICES ASSUME NEW i \in 1..m, NEW j \in 1..m, i < j PROVE e[i] < e[j]
    BY <1>5 DEF Ascends
  <2> DEFINE at(k) == IF k < n THEN k ELSE k + 1
  <2>1. e[i] = s[at(i)] /\ e[j] = s[at(j)]
    OBVIOUS
  <2>2. at(i) \in DOMAIN s /\ at(j) \in DOMAIN s /\ at(i) < at(j)
    BY <1>1, <1>3
  <2> HIDE DEF at, e
  <2> QED
    BY <2>1, <2>2 DEF Ascends
<1>7. Members(e) = Members(d)
  <2>1. \A i \in 1..m : \E k \in DOMAIN s \ {n} : e[i] = s[k]
    <3> TAKE i \in 1..m
    <3>1. CASE i < n
      <4>1. i \in DOMAIN s \ {n} /\ e[i] = s[i]
        BY <1>1, <1>3, <3>1
      <4> QED
        BY <4>1
    <3>2. CASE ~(i < n)
      <4>1. i + 1 \in DOMAIN s \ {n} /\ e[i] = s[i + 1]
        BY <1>1, <1>3, <3>2
      <4> QED
        BY <4>1
    <3> QED
      BY <3>1, <3>2
  <2>2. \A k \in DOMAIN s \ {n} : \E i \in 1..m : e[i] = s[k]
    <3> TAKE k \in DOMAIN s \ {n}
    <3>1. CASE k < n
      <4>1. k \in 1..m /\ e[k] = s[k]
        BY <1>1, <3>1
      <4> QED
        BY <4>1
    <3>2. CASE ~(k < n)
      <4>1. k - 1 \in 1..m /\ ~(k - 1 < n) /\ (k - 1) + 1 = k
        BY <1>1, <3>2
      <4>2. e[k - 1] = s[k]
        BY <4>1
      <4> QED
        BY <4>1, <4>2
    <3> QED
      BY <3>1, <3>2
  <2> HIDE DEF e, d
  <2>3. \A x : x \in Members(e) <=> \E i \in 1..m : x = e[i]
    BY <1>5 DEF Members
  <2>4. \A x : x \in Members(d) <=> \E k \in DOMAIN s \ {n} : x = s[k]
    BY <1>2
  <2>5. \A x : x \in Members(e) <=> x \in Members(d)
    <3> TAKE x
    <3>1. ASSUME x \in Members(e) PROVE x \in Members(d)
      <4>1. PICK i \in 1..m : x = e[i]
        BY <2>3, <3>1
      <4>2. PICK k \in DOMAIN s \ {n} : e[i] = s[k]
        BY <2>1
      <4> QED
        BY <2>4, <4>1, <4>2
    <3>2. ASSUME x \in Members(d) PROVE x \in Members(e)
      <4>1. PICK k \in DOMAIN s \ {n} : x = s[k]
        BY <2>4, <3>2
      <4>2. PICK i \in 1..m : e[i] = s[k]
        BY <2>2
      <4> QED
        BY <2>3, <4>1, <4>2
    <3> QED
      BY <3>1, <3>2
  <2> QED
    BY <2>5
<1>8. d = e
  <2> HIDE DEF d, e
  <2> QED
    BY <1>2, <1>5, <1>6, <1>7, AscendingUnique
<1>9. Members(d) = Members(s) \ {s[n]}
  <2>1. \A k \in DOMAIN s : k # n => s[k] # s[n]
    <3> TAKE k \in DOMAIN s
    <3>1. k < n \/ n < k \/ k = n
      BY <1>1
    <3>2. s[k] \in Int /\ s[n] \in Int
      OBVIOUS
    <3> QED
      BY <3>1, <3>2 DEF Ascends
  <2> HIDE DEF d
  <2>2. \A x : x \in Members(d) <=> x \in Members(s) \ {s[n]}
    BY <1>2, <2>1 DEF Members
  <2> QED
    BY <2>2
<1> QED
  BY <1>2, <1>5, <1>8, <1>9

\* A list before another one whose members are all greater.
LEMMA JoinAscends ==
  ASSUME NEW s \in Seq(Int), NEW t \in Seq(Int), Ascends(s), Ascends(t),
         \A x \in Members(s), y \in Members(t) : x < y
  PROVE  s \o t \in Seq(Int) /\ Ascends(s \o t) /\ Members(s \o t) = Members(s) \cup Members(t)
<1>1. /\ s \o t \in Seq(Int) /\ DOMAIN (s \o t) = 1..(Len(s) + Len(t)) /\ Len(s) \in Nat /\ Len(t) \in Nat
      /\ DOMAIN s = 1..Len(s) /\ DOMAIN t = 1..Len(t)
      /\ \A i \in 1..(Len(s) + Len(t)) : (s \o t)[i] = IF i <= Len(s) THEN s[i] ELSE t[i - Len(s)]
  OBVIOUS
<1> DEFINE u == s \o t
<1> HIDE DEF u
<1>2. \A i \in DOMAIN s : i \in DOMAIN u /\ u[i] = s[i] /\ s[i] \in Members(s)
  BY <1>1 DEF u, Members
<1>3. \A i \in DOMAIN t : Len(s) + i \in DOMAIN u /\ u[Len(s) + i] = t[i] /\ t[i] \in Members(t)
  BY <1>1 DEF u, Members
<1>4. \A i \in DOMAIN u : i \in DOMAIN s \/ (i > Len(s) /\ i - Len(s) \in DOMAIN t)
  BY <1>1 DEF u
<1>5. \A i \in DOMAIN u : \/ i \in DOMAIN s /\ u[i] = s[i]
                          \/ i > Len(s) /\ i - Len(s) \in DOMAIN t /\ u[i] = t[i - Len(s)]
  BY <1>1, <1>4 DEF u
<1>6. Ascends(u)
  <2> SUFFICES ASSUME NEW i \in DOMAIN u, NEW j \in DOMAIN u, i < j PROVE u[i] < u[j]
    BY DEF Ascends
  <2>1. CASE i \in DOMAIN s /\ j \in DOMAIN s
    BY <1>2, <2>1 DEF Ascends
  <2>2. CASE i \in DOMAIN s /\ j > Len(s)
    BY <1>1, <1>2, <1>3, <1>5, <2>2
  <2>3. CASE i > Len(s) /\ j > Len(s)
    <3>1. /\ i - Len(s) \in DOMAIN t /\ j - Len(s) \in DOMAIN t /\ i - Len(s) < j - Len(s)
          /\ u[i] = t[i - Len(s)] /\ u[j] = t[j - Len(s)]
      BY <1>1, <1>5, <2>3 DEF u
    <3> QED
      BY <3>1 DEF Ascends
  <2> QED
    BY <1>1, <1>4, <2>1, <2>2, <2>3 DEF u
<1>7. \A x : x \in Members(u) <=> x \in Members(s) \/ x \in Members(t)
  BY <1>2, <1>3, <1>5 DEF Members
<1> QED
  BY <1>1, <1>6, <1>7 DEF u

\* Positive numbers that ascend are at least their positions.
LEMMA AscendingAbove ==
  ASSUME NEW g \in Seq(Nat \ {0}), Ascends(g), NEW i \in DOMAIN g
  PROVE  g[i] >= i
<1> DEFINE T == {k \in DOMAIN g : g[k] < k}
<1>1. DOMAIN g = 1..Len(g) /\ \A k \in DOMAIN g : g[k] \in Nat /\ g[k] >= 1
  OBVIOUS
<1>2. ASSUME T # {} PROVE FALSE
  <2>1. T \in SUBSET Nat
    BY <1>1
  <2>2. PICK k \in T : \A y \in T : k <= y
    BY <1>2, <2>1, LeastNat
  <2>3. k \in DOMAIN g /\ g[k] < k /\ k \in Nat
    BY <1>1, <2>2
  <2>4. k - 1 \in DOMAIN g /\ k - 1 < k
    BY <1>1, <2>3
  <2>5. g[k - 1] >= k - 1
    BY <1>1, <2>2, <2>3, <2>4
  <2>6. g[k - 1] < g[k]
    BY <2>3, <2>4 DEF Ascends
  <2> QED
    BY <1>1, <2>3, <2>4, <2>5, <2>6
<1> QED
  BY <1>1, <1>2

\* Positions are picked or are not.
LEMMA PickedOrNot ==
  ASSUME NEW R, NEW s \in Seq(R), NEW S \in SUBSET (DOMAIN s)
  PROVE  /\ Cardinality(S) \in Nat /\ Cardinality(DOMAIN s \ S) \in Nat
         /\ Cardinality(S) + Cardinality(DOMAIN s \ S) = Len(s)
<1>1. DOMAIN s = 1..Len(s) /\ Len(s) \in Nat
  OBVIOUS
<1>2. IsFiniteSet(1..Len(s)) /\ Cardinality(1..Len(s)) = Len(s)
  <2>1. IsFiniteSet(1..Len(s)) /\ Cardinality(1..Len(s)) = IF 1 > Len(s) THEN 0 ELSE Len(s) - 1 + 1
    BY <1>1, FS_Interval
  <2> QED
    BY <1>1, <2>1
<1>3. IsFiniteSet(S) /\ IsFiniteSet(DOMAIN s \ S)
  BY <1>1, <1>2, FS_Subset
<1>4. Cardinality(S) \in Nat /\ Cardinality(DOMAIN s \ S) \in Nat
  BY <1>3, FS_CardinalityType
<1>5. S \cup (DOMAIN s \ S) = DOMAIN s /\ S \cap (DOMAIN s \ S) = {}
  OBVIOUS
<1>6. Cardinality(DOMAIN s) = Cardinality(S) + Cardinality(DOMAIN s \ S) - Cardinality({})
  BY <1>3, <1>5, FS_Union
<1> QED
  BY <1>1, <1>2, <1>4, <1>6, FS_EmptySet

=============================================================================
