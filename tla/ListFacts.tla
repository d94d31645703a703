------------------------------ MODULE ListFacts -------------------------------
(* Lemmas about lists: the first place of a set of places, sequences that   *)
(* have an entry once, as Kore's lists do (TAILQ_* in its sources), and     *)
(* functions that are defined place by place, folds among them.             *)
EXTENDS Integers, Sequences, FiniteSets, FiniteSetsExt, SequencesExt,
        FiniteSetTheorems, SequenceTheorems, WellFoundedInduction, TLAPS

Once(s)      == \A i, j \in 1..Len(s) : s[i] = s[j] => i = j
Member(s, r) == \E i \in 1..Len(s) : s[i] = r

LEMMA Smaller == IsWellFoundedOn({p \in Nat \X Nat : p[1] < p[2]}, Nat)
  BY NatLessThanWellFounded DEF OpToRel

\* A set of places has a first one.
LEMMA LeastOf ==
  ASSUME NEW T \in SUBSET Nat, T # {}
  PROVE  Min(T) \in T /\ \A y \in T : Min(T) <= y
  <1> DEFINE R == {p \in Nat \X Nat : p[1] < p[2]}
  <1>1. IsWellFoundedOn(R, Nat)
    BY Smaller
  <1> HIDE DEF R
  <1>2. \E x \in T : \A y \in T : ~(<<y, x>> \in R)
    BY <1>1, WFMin
  <1>3. \A x, y \in T : <<y, x>> \notin R => x <= y
    BY DEF R
  <1>4. \E x \in T : \A y \in T : x <= y
    BY <1>2, <1>3
  <1> QED BY <1>4 DEF Min

\* A finite set as a list.
LEMMA FiniteToSeq ==
  ASSUME NEW S, IsFiniteSet(S)
  PROVE  /\ SetToSeq(S) \in Seq(S) /\ Once(SetToSeq(S))
         /\ \A r : Member(SetToSeq(S), r) <=> r \in S
  <1> DEFINE n == Cardinality(S)
  <1>1. n \in Nat /\ ExistsBijection(1..n, S)
    BY FS_CardinalityType
  <1> HIDE DEF n
  <1>2. \E f \in [1..n -> S] : IsInjective(f)
    BY <1>1 DEF ExistsBijection, Bijection, Injection
  <1>3. SetToSeq(S) \in [1..n -> S] /\ IsInjective(SetToSeq(S))
    BY <1>2 DEF SetToSeq, n
  <1>4. SetToSeq(S) \in Seq(S) /\ Len(SetToSeq(S)) = n
    BY <1>1, <1>3
  <1> DEFINE q == SetToSeq(S)
  <1> HIDE DEF q
  <1>5. q \in Injection(1..n, S)
    BY <1>3 DEF Injection, IsInjective, q
  <1>6. IsFiniteSet(1..n) /\ Cardinality(1..n) = n
    BY <1>1, FS_Interval
  <1>7. q \in Surjection(1..n, S)
    BY <1>5, <1>6, FS_Injection DEF n
  <1>8. \A r : Member(q, r) <=> r \in S
    BY <1>3, <1>4, <1>7 DEF Member, Surjection, q
  <1> QED BY <1>1, <1>3, <1>4, <1>8 DEF Once, IsInjective, q

\* TAILQ_CONCAT.
LEMMA Joined ==
  ASSUME NEW S, NEW s \in Seq(S), NEW t \in Seq(S), Once(s), Once(t),
         \A r : ~(Member(s, r) /\ Member(t, r))
  PROVE  /\ s \o t \in Seq(S) /\ Once(s \o t)
         /\ \A r : Member(s \o t, r) <=> Member(s, r) \/ Member(t, r)
  <1>1. /\ s \o t \in Seq(S) /\ Len(s \o t) = Len(s) + Len(t) /\ Len(s) \in Nat /\ Len(t) \in Nat
        /\ \A i \in 1..(Len(s) + Len(t)) :
             (s \o t)[i] = IF i <= Len(s) THEN s[i] ELSE t[i - Len(s)]
    OBVIOUS
  <1>2. \A i \in 1..Len(t) : (s \o t)[i + Len(s)] = t[i] /\ i + Len(s) \in 1..(Len(s) + Len(t))
    BY <1>1
  <1>3. \A i \in 1..(Len(s) + Len(t)) : i > Len(s) => i - Len(s) \in 1..Len(t)
    BY <1>1
  <1>4. \A i, j \in 1..Len(s \o t) : (s \o t)[i] = (s \o t)[j] => i = j
    <2> SUFFICES ASSUME NEW i \in 1..Len(s \o t), NEW j \in 1..Len(s \o t), (s \o t)[i] = (s \o t)[j]
                 PROVE  i = j
      OBVIOUS
    <2>1. CASE i <= Len(s) /\ j <= Len(s)
      BY <1>1, <2>1 DEF Once
    <2>2. CASE i > Len(s) /\ j > Len(s)
      <3>1. t[i - Len(s)] = t[j - Len(s)] /\ i - Len(s) \in 1..Len(t) /\ j - Len(s) \in 1..Len(t)
        BY <1>1, <1>3, <2>2
      <3>2. i - Len(s) = j - Len(s)
        BY <3>1 DEF Once
      <3> QED BY <1>1, <3>2
    <2>3. CASE i <= Len(s) /\ j > Len(s)
      <3>1. s[i] = t[j - Len(s)] /\ j - Len(s) \in 1..Len(t) /\ i \in 1..Len(s)
        BY <1>1, <1>3, <2>3
      <3> QED BY <3>1 DEF Member
    <2>4. CASE i > Len(s) /\ j <= Len(s)
      <3>1. s[j] = t[i - Len(s)] /\ i - Len(s) \in 1..Len(t) /\ j \in 1..Len(s)
        BY <1>1, <1>3, <2>4
      <3> QED BY <3>1 DEF Member
    <2> QED BY <1>1, <2>1, <2>2, <2>3, <2>4
  <1>5. ASSUME NEW r
        PROVE  Member(s \o t, r) <=> Member(s, r) \/ Member(t, r)
    <2>1. Member(s \o t, r) => Member(s, r) \/ Member(t, r)
      BY <1>1, <1>3 DEF Member
    <2>2. Member(s, r) => Member(s \o t, r)
      BY <1>1 DEF Member
    <2>3. Member(t, r) => Member(s \o t, r)
      BY <1>1, <1>2 DEF Member
    <2> QED BY <2>1, <2>2, <2>3
  <1> QED BY <1>1, <1>4, <1>5 DEF Once

\* TAILQ_INSERT_TAIL and TAILQ_INSERT_HEAD.
LEMMA Grown ==
  ASSUME NEW S, NEW s \in Seq(S), Once(s), NEW x \in S, ~Member(s, x)
  PROVE  /\ Append(s, x) \in Seq(S) /\ Once(Append(s, x))
         /\ \A r : Member(Append(s, x), r) <=> Member(s, r) \/ r = x
  <1>1. /\ Append(s, x) \in Seq(S) /\ Len(s) \in Nat /\ Len(Append(s, x)) = Len(s) + 1
        /\ \A i \in 1..(Len(s) + 1) : Append(s, x)[i] = IF i = Len(s) + 1 THEN x ELSE s[i]
    OBVIOUS
  <1> DEFINE t == Append(s, x)
  <1>2. /\ t \in Seq(S) /\ Len(t) = Len(s) + 1 /\ t[Len(s) + 1] = x
        /\ \A i \in 1..Len(t) : i \in 1..Len(s) \/ i = Len(s) + 1
        /\ \A i \in 1..Len(s) : i \in 1..Len(t) /\ t[i] = s[i]
        /\ Len(s) + 1 \in 1..Len(t)
    BY <1>1
  <1> HIDE DEF t
  <1>3. Once(t)
    BY <1>2 DEF Once, Member
  <1>4. \A r : Member(t, r) <=> Member(s, r) \/ r = x
    BY <1>2 DEF Member
  <1> QED BY <1>2, <1>3, <1>4 DEF t

\* TAILQ_REMOVE.
LEMMA Shorter ==
  ASSUME NEW S, NEW s \in Seq(S), Once(s), NEW k \in 1..Len(s)
  PROVE  /\ RemoveAt(s, k) \in Seq(S) /\ Once(RemoveAt(s, k))
         /\ \A r : Member(RemoveAt(s, k), r) <=> Member(s, r) /\ r # s[k]
  <1> DEFINE t == SubSeq(s, 1, k - 1)
             u == SubSeq(s, k + 1, Len(s))
  <1>1. /\ t \in Seq(S) /\ Len(t) = k - 1 /\ Len(s) \in Nat
        /\ \A i \in 1..(k - 1) : t[i] = s[i]
        /\ u \in Seq(S) /\ Len(u) = Len(s) - k
        /\ \A i \in 1..(Len(s) - k) : u[i] = s[k + i]
    OBVIOUS
  <1> HIDE DEF t, u
  <1>2. Once(t) /\ Once(u)
    <2>1. Once(t)
      BY <1>1 DEF Once
    <2>2. ASSUME NEW i \in 1..Len(u), NEW j \in 1..Len(u), u[i] = u[j] PROVE i = j
      <3>1. s[k + i] = s[k + j] /\ k + i \in 1..Len(s) /\ k + j \in 1..Len(s)
        BY <1>1, <2>2
      <3>2. k + i = k + j
        BY <3>1 DEF Once
      <3> QED BY <1>1, <3>2
    <2> QED BY <2>1, <2>2 DEF Once
  <1>3. \A r : Member(t, r) => Member(s, r) /\ r # s[k]
    <2>1. ASSUME NEW i \in 1..Len(t) PROVE i \in 1..Len(s) /\ t[i] = s[i] /\ i # k
      BY <1>1
    <2>2. \A i \in 1..Len(s) : i # k => s[i] # s[k]
      BY DEF Once
    <2> QED BY <2>1, <2>2 DEF Member
  <1>4. ASSUME NEW r, Member(u, r) PROVE Member(s, r) /\ r # s[k]
    <2>1. PICK i \in 1..Len(u) : u[i] = r
      BY <1>4 DEF Member
    <2>2. k + i \in 1..Len(s) /\ s[k + i] = r /\ k + i # k
      BY <1>1, <2>1
    <2> QED BY <2>2 DEF Member, Once
  <1>5. ASSUME NEW r, Member(s, r), r # s[k] PROVE Member(t, r) \/ Member(u, r)
    <2>1. PICK i \in 1..Len(s) : s[i] = r
      BY <1>5 DEF Member
    <2>2. CASE i < k
      <3>1. i \in 1..(k - 1) /\ t[i] = s[i]
        BY <1>1, <2>1, <2>2
      <3> QED BY <1>1, <2>1, <3>1 DEF Member
    <2>3. CASE i > k
      <3>1. i - k \in 1..(Len(s) - k) /\ u[i - k] = s[k + (i - k)] /\ k + (i - k) = i
        BY <1>1, <2>1, <2>3
      <3> QED BY <1>1, <2>1, <3>1 DEF Member
    <2> QED BY <1>5, <2>1, <2>2, <2>3
  <1>6. ASSUME NEW r, Member(t, r), Member(u, r) PROVE FALSE
    <2>1. PICK i \in 1..(k - 1), j \in 1..(Len(s) - k) : t[i] = r /\ u[j] = r
      BY <1>1, <1>6 DEF Member
    <2>2. s[i] = s[k + j] /\ i \in 1..Len(s) /\ k + j \in 1..Len(s)
      BY <1>1, <2>1
    <2>3. i = k + j
      BY <2>2 DEF Once
    <2> QED BY <1>1, <2>3
  <1>7. RemoveAt(s, k) = t \o u
    BY DEF RemoveAt, t, u
  <1>8. \A r : ~(Member(t, r) /\ Member(u, r))
    BY <1>6
  <1>9. /\ t \o u \in Seq(S) /\ Once(t \o u)
        /\ \A r : Member(t \o u, r) <=> Member(t, r) \/ Member(u, r)
    BY <1>1, <1>2, <1>8, Joined
  <1>10. \A r : Member(t, r) \/ Member(u, r) <=> Member(s, r) /\ r # s[k]
    BY <1>3, <1>4, <1>5
  <1> QED BY <1>7, <1>9, <1>10

\* TAILQ_REMOVE of the first.
LEMMA FirstOut ==
  ASSUME NEW S, NEW s \in Seq(S), Once(s), s # <<>>
  PROVE  /\ Head(s) \in S /\ Member(s, Head(s)) /\ Tail(s) \in Seq(S) /\ Once(Tail(s))
         /\ \A r : Member(Tail(s), r) <=> Member(s, r) /\ r # Head(s)
  <1> DEFINE t == Tail(s)
  <1>1. /\ Len(s) \in Nat /\ Len(s) >= 1 /\ Head(s) = s[1] /\ s[1] \in S
        /\ t \in Seq(S) /\ Len(t) = Len(s) - 1 /\ \A i \in 1..Len(t) : t[i] = s[i + 1]
    OBVIOUS
  <1> HIDE DEF t
  <1>2. Member(s, s[1])
    BY <1>1 DEF Member
  <1>3. Once(t)
    <2>1. ASSUME NEW i \in 1..Len(t), NEW j \in 1..Len(t), t[i] = t[j] PROVE i = j
      <3>1. s[i + 1] = s[j + 1] /\ i + 1 \in 1..Len(s) /\ j + 1 \in 1..Len(s)
        BY <1>1, <2>1
      <3> QED BY <1>1, <3>1 DEF Once
    <2> QED BY <2>1 DEF Once
  <1>4. ASSUME NEW r, Member(t, r) PROVE Member(s, r) /\ r # s[1]
    <2>1. PICK i \in 1..Len(t) : t[i] = r
      BY <1>4 DEF Member
    <2>2. i + 1 \in 1..Len(s) /\ s[i + 1] = r /\ i + 1 # 1 /\ 1 \in 1..Len(s)
      BY <1>1, <2>1
    <2> QED BY <2>2 DEF Member, Once
  <1>5. ASSUME NEW r, Member(s, r), r # s[1] PROVE Member(t, r)
    <2>1. PICK i \in 1..Len(s) : s[i] = r
      BY <1>5 DEF Member
    <2>2. i - 1 \in 1..Len(t) /\ t[i - 1] = r
      BY <1>1, <1>5, <2>1
    <2> QED BY <2>2 DEF Member
  <1> QED BY <1>1, <1>2, <1>3, <1>4, <1>5 DEF t

\* What comes after an entry.
LEMMA After ==
  ASSUME NEW S, NEW s \in Seq(S), Once(s), NEW k \in 1..Len(s)
  PROVE  LET t == SubSeq(s, k + 1, Len(s)) IN
         /\ t \in Seq(S) /\ Once(t) /\ \A r : Member(t, r) => Member(s, r) /\ r # s[k]
  <1> DEFINE u == SubSeq(s, k + 1, Len(s))
  <1>1. /\ u \in Seq(S) /\ Len(s) \in Nat /\ Len(u) = Len(s) - k
        /\ \A i \in 1..(Len(s) - k) : u[i] = s[k + i]
    OBVIOUS
  <1> HIDE DEF u
  <1>2. Once(u)
    <2>1. ASSUME NEW i \in 1..Len(u), NEW j \in 1..Len(u), u[i] = u[j] PROVE i = j
      <3>1. s[k + i] = s[k + j] /\ k + i \in 1..Len(s) /\ k + j \in 1..Len(s)
        BY <1>1, <2>1
      <3>2. k + i = k + j
        BY <3>1 DEF Once
      <3> QED BY <1>1, <3>2
    <2> QED BY <2>1 DEF Once
  <1>3. ASSUME NEW r, Member(u, r) PROVE Member(s, r) /\ r # s[k]
    <2>1. PICK i \in 1..Len(u) : u[i] = r
      BY <1>3 DEF Member
    <2>2. k + i \in 1..Len(s) /\ s[k + i] = r /\ k + i # k
      BY <1>1, <2>1
    <2> QED BY <2>2 DEF Member, Once
  <1> QED BY <1>1, <1>2, <1>3 DEF u

\* A list has as many places as entries.
LEMMA LengthOf ==
  ASSUME NEW S, NEW s \in Seq(S), Once(s)
  PROVE  Len(s) = Cardinality(Range(s))
  <1> DEFINE n == Len(s)
             T == Range(s)
  <1>1. n \in Nat /\ DOMAIN s = 1..n /\ s \in [1..n -> S]
    OBVIOUS
  <1>2. s \in [1..n -> T] /\ \A y \in T : \E i \in 1..n : s[i] = y
    BY <1>1 DEF Range
  <1>3. s \in Bijection(1..n, T)
    <2>1. \A i, j \in 1..n : s[i] = s[j] => i = j
      BY DEF Once
    <2>2. IsInjective(s)
      BY <1>1, <2>1 DEF IsInjective
    <2> HIDE DEF n, T
    <2> QED BY <1>2, <2>2 DEF Bijection, Injection, Surjection
  <1>4. IsFiniteSet(1..n) /\ Cardinality(1..n) = n
    BY <1>1, FS_Interval
  <1>5. ExistsBijection(1..n, T)
    BY <1>3 DEF ExistsBijection
  <1> HIDE DEF n, T
  <1>6. Cardinality(T) = n
    BY <1>4, <1>5, FS_Bijection
  <1> QED BY <1>6 DEF n, T

\* LIST_REMOVE, TAILQ_REMOVE.
LEMMA RemovedOnce ==
  ASSUME NEW S, NEW s \in Seq(S), Once(s), NEW x, Member(s, x)
  PROVE  /\ RemoveFirst(s, x) \in Seq(S) /\ Once(RemoveFirst(s, x))
         /\ Len(RemoveFirst(s, x)) = Len(s) - 1
         /\ \A r : Member(RemoveFirst(s, x), r) <=> Member(s, r) /\ r # x
  <1> DEFINE T == {i \in 1..Len(s) : s[i] = x}
  <1>1. T \in SUBSET Nat /\ T # {} /\ \A i \in T : i \in 1..Len(s) /\ s[i] = x
    BY DEF Member
  <1>2. RemoveFirst(s, x) = RemoveAt(s, Min(T))
    BY <1>1 DEF RemoveFirst, SelectInSeq
  <1> HIDE DEF T
  <1>3. PICK k \in 1..Len(s) : k = Min(T) /\ s[k] = x
    BY <1>1, LeastOf
  <1>4. Len(RemoveAt(s, k)) = Len(s) - 1
    <2> DEFINE t == SubSeq(s, 1, k - 1)
               u == SubSeq(s, k + 1, Len(s))
    <2>1. t \in Seq(S) /\ u \in Seq(S) /\ Len(t) = k - 1 /\ Len(u) = Len(s) - k /\ Len(s) \in Nat
      OBVIOUS
    <2> HIDE DEF t, u
    <2>2. Len(t \o u) = Len(t) + Len(u)
      BY <2>1
    <2>3. RemoveAt(s, k) = t \o u
      BY DEF RemoveAt, t, u
    <2>4. Len(RemoveAt(s, k)) = Len(t) + Len(u)
      BY <2>2, <2>3
    <2> QED BY <1>3, <2>1, <2>4
  <1> QED BY <1>2, <1>3, <1>4, Shorter

\* Members of a list are of the kind that it is a list of.
LEMMA MemberIn == ASSUME NEW S, NEW s \in Seq(S), NEW x, Member(s, x) PROVE x \in S
  BY DEF Member

\* A list in the order of a time of its entries.
Sorted(s, at) == \A i, j \in 1..Len(s) : i < j => at[s[i]] <= at[s[j]]

LEMMA JoinedAt ==
  ASSUME NEW S, NEW s \in Seq(S), NEW t \in Seq(S)
  PROVE  /\ s \o t \in Seq(S) /\ Len(s \o t) = Len(s) + Len(t)
         /\ \A i \in 1..(Len(s) + Len(t)) :
              (s \o t)[i] = IF i <= Len(s) THEN s[i] ELSE t[i - Len(s)]
  OBVIOUS

\* What stays in a list stays in its order.
LEMMA StaysSorted ==
  ASSUME NEW S, NEW s \in Seq(S), NEW at \in [S -> Nat], Sorted(s, at), NEW k \in 1..Len(s)
  PROVE  Sorted(RemoveAt(s, k), at)
  <1> DEFINE t == SubSeq(s, 1, k - 1)
             u == SubSeq(s, k + 1, Len(s))
  <1>1. /\ t \in Seq(S) /\ Len(t) = k - 1 /\ \A i \in 1..(k - 1) : t[i] = s[i]
        /\ u \in Seq(S) /\ Len(u) = Len(s) - k /\ \A i \in 1..(Len(s) - k) : u[i] = s[k + i]
        /\ Len(s) \in Nat /\ k \in Nat
    OBVIOUS
  <1>2. RemoveAt(s, k) = t \o u
    BY DEF RemoveAt
  <1> HIDE DEF t, u
  <1> DEFINE o == t \o u
  <1>3. Len(o) = Len(s) - 1 /\ \A i \in 1..Len(o) : o[i] = IF i < k THEN s[i] ELSE s[i + 1]
    <2>1. /\ Len(o) = Len(t) + Len(u)
          /\ \A i \in 1..(Len(t) + Len(u)) : o[i] = IF i <= Len(t) THEN t[i] ELSE u[i - Len(t)]
      BY <1>1, JoinedAt
    <2> HIDE DEF o
    <2>2. ASSUME NEW i \in 1..Len(o) PROVE o[i] = IF i < k THEN s[i] ELSE s[i + 1]
      <3>1. CASE i < k
        <4>1. i \in 1..(k - 1) /\ i \in 1..(Len(t) + Len(u)) /\ i <= Len(t)
          BY <1>1, <2>1, <3>1
        <4>2. o[i] = t[i] /\ t[i] = s[i]
          BY <1>1, <2>1, <4>1
        <4> QED BY <3>1, <4>2
      <3>2. CASE ~(i < k)
        <4>0. /\ i - Len(t) \in 1..(Len(s) - k) /\ ~(i <= Len(t))
              /\ i \in 1..(Len(t) + Len(u))
          BY <1>1, <2>1, <3>2
        <4>1. o[i] = u[i - Len(t)] /\ i - Len(t) \in 1..(Len(s) - k)
          BY <2>1, <4>0
        <4>2. u[i - Len(t)] = s[k + (i - Len(t))]
          BY <1>1, <4>1
        <4>3. k + (i - Len(t)) = i + 1
          BY <1>1
        <4> QED BY <3>2, <4>1, <4>2, <4>3
      <3> QED BY <3>1, <3>2
    <2> QED BY <1>1, <2>1, <2>2
  <1> HIDE DEF o
  <1>4. ASSUME NEW i \in 1..Len(o), NEW j \in 1..Len(o), i < j PROVE at[o[i]] <= at[o[j]]
    <2> DEFINE a == IF i < k THEN i ELSE i + 1
               b == IF j < k THEN j ELSE j + 1
    <2>0. /\ i \in Nat /\ j \in Nat /\ k \in Nat /\ Len(s) \in Nat
          /\ 1 <= i /\ 1 <= j /\ i <= Len(s) - 1 /\ j <= Len(s) - 1
      BY <1>1, <1>3
    <2>1. a \in 1..Len(s) /\ b \in 1..Len(s) /\ a < b
      BY <1>4, <2>0
    <2>2. o[i] = s[a] /\ o[j] = s[b]
      BY <1>3
    <2> HIDE DEF a, b
    <2> QED BY <2>1, <2>2 DEF Sorted
  <1>5. Sorted(o, at)
    BY <1>4 DEF Sorted
  <1> QED BY <1>2, <1>5 DEF o

LEMMA TailSorted ==
  ASSUME NEW S, NEW s \in Seq(S), s # <<>>, NEW at \in [S -> Nat], Sorted(s, at)
  PROVE  Sorted(Tail(s), at)
  <1> DEFINE t == Tail(s)
  <1>1. /\ t \in Seq(S) /\ Len(s) \in Nat /\ Len(s) >= 1 /\ Len(t) = Len(s) - 1
        /\ \A i \in 1..Len(t) : t[i] = s[i + 1]
    OBVIOUS
  <1> HIDE DEF t
  <1>2. ASSUME NEW i \in 1..Len(t), NEW j \in 1..Len(t), i < j PROVE at[t[i]] <= at[t[j]]
    <2>1. i + 1 \in 1..Len(s) /\ j + 1 \in 1..Len(s) /\ i + 1 < j + 1
      BY <1>1, <1>2
    <2> QED BY <1>1, <2>1 DEF Sorted
  <1>3. Sorted(t, at)
    BY <1>2 DEF Sorted
  <1> QED BY <1>3 DEF t

\* The entries that are not later are the first ones.
LEMMA FirstOnes ==
  ASSUME NEW S, NEW s \in Seq(S), NEW at \in [S -> Nat], Sorted(s, at), NEW v \in Nat
  PROVE  LET n == Cardinality({i \in DOMAIN s : at[s[i]] <= v})
         IN n \in 0..Len(s) /\ \A i \in 1..Len(s) : i <= n <=> at[s[i]] <= v
  <1> DEFINE T == {i \in 1..Len(s) : at[s[i]] <= v}
             C == {i \in 1..Len(s) : ~(at[s[i]] <= v)}
  <1>1. Len(s) \in Nat /\ DOMAIN s = 1..Len(s) /\ \A i \in 1..Len(s) : at[s[i]] \in Nat
    OBVIOUS
  <1>2. \E m \in 0..Len(s) : T = 1..m
    <2>1. CASE C = {}
      <3>1. T = 1..Len(s)
        BY <2>1
      <3> QED BY <1>1, <3>1
    <2>2. CASE C # {}
      <3>1. C \in SUBSET Nat
        OBVIOUS
      <3>2. Min(C) \in C /\ \A y \in C : Min(C) <= y
        BY <2>2, <3>1, LeastOf
      <3> DEFINE c == Min(C)
      <3>3. c \in 1..Len(s) /\ ~(at[s[c]] <= v) /\ \A y \in C : c <= y
        BY <3>2
      <3> HIDE DEF c
      <3>4. ASSUME NEW i \in 1..Len(s), i < c PROVE i \in T
        <4>1. i \notin C
          BY <3>3, <3>4
        <4> QED BY <4>1
      <3>5. ASSUME NEW i \in 1..Len(s), i >= c PROVE i \notin T
        <4>1. at[s[c]] <= at[s[i]]
          BY <1>1, <3>3, <3>5 DEF Sorted
        <4> QED BY <1>1, <3>3, <4>1
      <3>6. T = 1..(c - 1)
        <4>1. \A i \in T : i \in 1..(c - 1)
          BY <1>1, <3>3, <3>5
        <4>2. \A i \in 1..(c - 1) : i \in T
          BY <1>1, <3>3, <3>4
        <4>3. T \subseteq 1..(c - 1) /\ 1..(c - 1) \subseteq T
          BY <4>1, <4>2
        <4> QED BY <4>3
      <3>7. c - 1 \in 0..Len(s)
        BY <1>1, <3>3
      <3> QED BY <3>6, <3>7
    <2> QED BY <2>1, <2>2
  <1>3. PICK m \in 0..Len(s) : T = 1..m
    BY <1>2
  <1>4. Cardinality(T) = m
    <2>1. m \in Nat /\ 1 \in Int /\ m \in Int
      BY <1>1
    <2>2. Cardinality(1..m) = m
      BY <2>1, FS_Interval
    <2> QED BY <1>3, <2>2
  <1>5. \A i \in 1..Len(s) : i <= m <=> at[s[i]] <= v
    BY <1>3
  <1> QED BY <1>1, <1>4, <1>5

\* Before the first entry that is later than v.
Placed(s, x, at, v) ==
  LET n == Cardinality({i \in DOMAIN s : at[s[i]] <= v})
  IN SubSeq(s, 1, n) \o <<x>> \o SubSeq(s, n + 1, Len(s))

\* kore_timer_add keeps the order.
LEMMA InsertedOf ==
  ASSUME NEW S, NEW s \in Seq(S), Once(s), NEW x \in S, ~Member(s, x),
         NEW at \in [S -> Nat], Sorted(s, at), NEW v \in Nat
  PROVE  LET u == Placed(s, x, at, v)
         IN /\ u \in Seq(S) /\ Once(u) /\ Sorted(u, [at EXCEPT ![x] = v])
            /\ \A r : Member(u, r) <=> Member(s, r) \/ r = x
  <1> DEFINE n == Cardinality({i \in DOMAIN s : at[s[i]] <= v})
             p == SubSeq(s, 1, n)
             q == SubSeq(s, n + 1, Len(s))
             u == p \o <<x>> \o q
             to == [at EXCEPT ![x] = v]
  <1>1. n \in 0..Len(s) /\ \A i \in 1..Len(s) : i <= n <=> at[s[i]] <= v
    BY FirstOnes
  <1> HIDE DEF n
  <1>2. /\ p \in Seq(S) /\ Len(p) = n /\ \A i \in 1..n : p[i] = s[i]
        /\ q \in Seq(S) /\ Len(q) = Len(s) - n /\ \A i \in 1..(Len(s) - n) : q[i] = s[n + i]
        /\ Len(s) \in Nat /\ n \in Nat
    BY <1>1
  <1> HIDE DEF p, q
  <1> DEFINE a == p \o <<x>>
  <1>3. /\ a \in Seq(S) /\ Len(a) = n + 1
        /\ \A i \in 1..(n + 1) : a[i] = IF i <= n THEN p[i] ELSE x
    BY <1>2
  <1>4. u = a \o q
    OBVIOUS
  <1> HIDE DEF a
  <1>5. /\ u \in Seq(S) /\ Len(u) = Len(s) + 1
        /\ \A i \in 1..(Len(s) + 1) : u[i] = IF i <= n + 1 THEN a[i] ELSE q[i - (n + 1)]
    <2>1. /\ a \o q \in Seq(S) /\ Len(a \o q) = Len(a) + Len(q)
          /\ \A i \in 1..(Len(a) + Len(q)) :
               (a \o q)[i] = IF i <= Len(a) THEN a[i] ELSE q[i - Len(a)]
      <3>1. a \in Seq(S) /\ q \in Seq(S)
        BY <1>2, <1>3
      <3> HIDE DEF u
      <3>2. a \o q \in Seq(S)
        BY <3>1, JoinedAt
      <3>3. Len(a \o q) = Len(a) + Len(q)
        BY <3>1, JoinedAt
      <3>4. \A i \in 1..(Len(a) + Len(q)) :
              (a \o q)[i] = IF i <= Len(a) THEN a[i] ELSE q[i - Len(a)]
        BY <3>1, JoinedAt
      <3> QED BY <3>2, <3>3, <3>4
    <2>2. Len(a) + Len(q) = Len(s) + 1
      BY <1>2, <1>3
    <2> HIDE DEF u
    <2> QED BY <1>3, <1>4, <2>1, <2>2
  <1> HIDE DEF u
  <1>a. /\ Len(s) \in Nat /\ n \in Nat /\ n <= Len(s) /\ Len(u) = Len(s) + 1
        /\ 1..Len(u) = 1..(Len(s) + 1)
    BY <1>1, <1>2, <1>5
  <1>6. \A i \in 1..n : u[i] = s[i]
    BY <1>2, <1>3, <1>5
  <1>7. n + 1 \in 1..Len(u) /\ u[n + 1] = x
    BY <1>1, <1>2, <1>3, <1>5
  <1>8. \A i \in (n + 1)..Len(s) : u[i + 1] = s[i]
    <2>1. ASSUME NEW i \in (n + 1)..Len(s) PROVE u[i + 1] = s[i]
      <3>1. i + 1 \in 1..(Len(s) + 1) /\ ~(i + 1 <= n + 1) /\ i - n \in 1..(Len(s) - n)
        BY <1>a
      <3>2. u[i + 1] = q[(i + 1) - (n + 1)]
        BY <1>5, <3>1
      <3>3. (i + 1) - (n + 1) = i - n /\ n + (i - n) = i
        BY <1>2
      <3> QED BY <1>2, <3>1, <3>2, <3>3
    <2> QED BY <2>1
  <1>9. \A i \in 1..Len(u) : i > n + 1 =>
          i - 1 \in 1..Len(s) /\ ~(i - 1 <= n) /\ u[i] = s[i - 1]
    <2>1. ASSUME NEW i \in 1..Len(u), i > n + 1
          PROVE  i - 1 \in 1..Len(s) /\ ~(i - 1 <= n) /\ u[i] = s[i - 1]
      <3>1. /\ i - 1 \in (n + 1)..Len(s) /\ (i - 1) + 1 = i
            /\ i - 1 \in 1..Len(s) /\ ~(i - 1 <= n)
        BY <1>a, <2>1
      <3> QED BY <1>8, <3>1
    <2> QED BY <2>1
  <1>10. \A i \in 1..Len(s) : s[i] \in S /\ s[i] # x
    BY DEF Member
  <1>11. \A r : Member(u, r) <=> Member(s, r) \/ r = x
    <2>1. ASSUME NEW r, Member(u, r) PROVE Member(s, r) \/ r = x
      <3>1. PICK i \in 1..Len(u) : u[i] = r
        BY <2>1 DEF Member
      <3>2. \/ i \in 1..Len(s) /\ s[i] = r
            \/ r = x
            \/ i - 1 \in 1..Len(s) /\ s[i - 1] = r
        BY <1>a, <1>6, <1>7, <1>9, <3>1
      <3> QED BY <3>2 DEF Member
    <2>2. ASSUME NEW r, Member(s, r) PROVE Member(u, r)
      <3>1. PICK i \in 1..Len(s) : s[i] = r
        BY <2>2 DEF Member
      <3>2. CASE i <= n
        <4>1. i \in 1..Len(u) /\ u[i] = r
          BY <1>a, <1>6, <3>1, <3>2
        <4> QED BY <4>1 DEF Member
      <3>3. CASE ~(i <= n)
        <4>1. i + 1 \in 1..Len(u) /\ u[i + 1] = r
          BY <1>a, <1>8, <3>1, <3>3
        <4> QED BY <4>1 DEF Member
      <3> QED BY <3>2, <3>3
    <2> QED BY <1>7, <2>1, <2>2 DEF Member
  <1>12. Once(u)
    <2>1. ASSUME NEW i \in 1..Len(u), NEW j \in 1..Len(u), u[i] = u[j], i < j PROVE FALSE
      <3>1. CASE j <= n
        <4>1. i \in 1..Len(s) /\ j \in 1..Len(s) /\ s[i] = s[j]
          BY <1>1, <1>2, <1>6, <2>1, <3>1
        <4> QED BY <2>1, <4>1 DEF Once
      <3>2. CASE j = n + 1
        <4>1. i \in 1..Len(s) /\ s[i] = x
          BY <1>1, <1>2, <1>6, <1>7, <2>1, <3>2
        <4> QED BY <1>10, <4>1
      <3>3. CASE j > n + 1
        <4>1. j - 1 \in 1..Len(s) /\ ~(j - 1 <= n) /\ u[j] = s[j - 1]
          BY <1>9, <3>3
        <4>2. CASE i <= n
          <5>1. i \in 1..Len(s) /\ s[i] = s[j - 1] /\ i # j - 1
            BY <1>a, <1>6, <2>1, <4>1, <4>2
          <5> QED BY <4>1, <5>1 DEF Once
        <4>3. CASE i = n + 1
          BY <1>7, <1>10, <2>1, <4>1, <4>3
        <4>4. CASE i > n + 1
          <5>a. i - 1 \in 1..Len(s) /\ u[i] = s[i - 1]
            BY <1>9, <4>4
          <5>b. i - 1 # j - 1
            BY <1>a, <2>1
          <5>1. i - 1 \in 1..Len(s) /\ s[i - 1] = s[j - 1] /\ i - 1 # j - 1
            BY <2>1, <4>1, <5>a, <5>b
          <5> QED BY <4>1, <5>1 DEF Once
        <4> QED BY <1>2, <4>2, <4>3, <4>4
      <3> QED BY <1>2, <3>1, <3>2, <3>3
    <2>2. ASSUME NEW i \in 1..Len(u), NEW j \in 1..Len(u), u[i] = u[j] PROVE i = j
      BY <1>a, <2>1, <2>2
    <2> QED BY <2>2 DEF Once
  <1>13. to[x] = v /\ \A r \in S : r # x => to[r] = at[r]
    OBVIOUS
  <1> HIDE DEF to
  <1>14. ASSUME NEW i \in 1..Len(u), NEW j \in 1..Len(u), i < j PROVE to[u[i]] <= to[u[j]]
    <2>1. \A k \in 1..Len(s) : to[s[k]] = at[s[k]] /\ at[s[k]] \in Nat
      BY <1>10, <1>13
    <2>2. CASE j <= n
      <3>1. i \in 1..n /\ j \in 1..n
        BY <1>a, <1>14, <2>2
      <3>2. i \in 1..Len(s) /\ j \in 1..Len(s)
        BY <1>a, <3>1
      <3>3. u[i] = s[i] /\ u[j] = s[j]
        BY <1>6, <3>1
      <3> QED BY <1>14, <2>1, <3>2, <3>3 DEF Sorted
    <2>3. CASE j = n + 1
      <3>0. i \in 1..n
        BY <1>a, <1>14, <2>3
      <3>1. i \in 1..Len(s) /\ u[i] = s[i] /\ i <= n
        BY <1>a, <1>6, <3>0
      <3> QED BY <1>1, <1>7, <1>13, <2>1, <2>3, <3>1
    <2>4. CASE j > n + 1
      <3>1. j - 1 \in 1..Len(s) /\ u[j] = s[j - 1] /\ ~(j - 1 <= n)
        BY <1>9, <2>4
      <3>2. CASE i <= n
        <4>0. i \in 1..n
          BY <1>a, <3>2
        <4>1. i \in 1..Len(s) /\ u[i] = s[i] /\ i < j - 1
          BY <1>a, <1>6, <2>4, <4>0
        <4> QED BY <2>1, <3>1, <4>1 DEF Sorted
      <3>3. CASE i = n + 1
        <4>1. at[s[j - 1]] \in Nat /\ ~(at[s[j - 1]] <= v)
          BY <1>1, <2>1, <3>1
        <4>2. to[u[j]] = at[s[j - 1]]
          BY <2>1, <3>1
        <4>3. to[u[i]] = v
          BY <1>7, <1>13, <3>3
        <4> QED BY <4>1, <4>2, <4>3
      <3>4. CASE i > n + 1
        <4>1. i - 1 \in 1..Len(s) /\ u[i] = s[i - 1] /\ i - 1 < j - 1
          BY <1>a, <1>9, <1>14, <3>4
        <4> QED BY <2>1, <3>1, <4>1 DEF Sorted
      <3> QED BY <1>2, <3>2, <3>3, <3>4
    <2> QED BY <1>2, <2>2, <2>3, <2>4
  <1>15. Sorted(u, to)
    BY <1>14 DEF Sorted
  <1>16. u = Placed(s, x, at, v)
    BY DEF u, p, q, n, Placed
  <1> QED BY <1>5, <1>11, <1>12, <1>15, <1>16 DEF to

\* A function of the numbers that begins with v0 and goes on as h says.
CanFollow(V, v0, h) ==
  \E f \in [Nat -> V] : f[0] = v0 /\ \A n \in Nat : f[n + 1] = h[<<n, f[n]>>]

LEMMA RecursiveOnNat ==
  ASSUME NEW V, NEW v0 \in V, NEW h \in [Nat \X V -> V]
  PROVE  CanFollow(V, v0, h)
  <1> DEFINE Ok(n, g) == g[0] = v0 /\ \A i \in Nat : i + 1 <= n => g[i + 1] = h[<<i, g[i]>>]
             T == {n \in Nat : \A g \in [0..n -> V] : ~Ok(n, g)}
  <1>1. T = {}
    <2> SUFFICES ASSUME T # {} PROVE FALSE
      OBVIOUS
    <2>1. PICK m \in T : \A y \in T : m <= y
      <3>1. T \in SUBSET Nat
        OBVIOUS
      <3> HIDE DEF T
      <3> QED BY <3>1, LeastOf
    <2>2. m \in Nat /\ \A g \in [0..m -> V] : ~Ok(m, g)
      BY <2>1
    <2>3. m # 0
      <3> DEFINE g == [i \in 0..0 |-> v0]
      <3>1. g \in [0..0 -> V] /\ g[0] = v0
        OBVIOUS
      <3>2. Ok(0, g)
        BY <3>1
      <3> HIDE DEF Ok
      <3> QED BY <2>2, <3>1, <3>2
    <2>4. m - 1 \in Nat /\ m - 1 \notin T
      <3> HIDE DEF T
      <3>1. m - 1 \in Nat /\ ~(m <= m - 1)
        BY <2>2, <2>3
      <3> QED BY <2>1, <3>1
    <2>5. PICK g \in [0..(m - 1) -> V] : Ok(m - 1, g)
      BY <2>4
    <2> DEFINE last == h[<<m - 1, g[m - 1]>>]
               new == [i \in 0..m |-> IF i = m THEN last ELSE g[i]]
    <2>6. last \in V
      <3>1. g[m - 1] \in V
        BY <2>4
      <3>2. <<m - 1, g[m - 1]>> \in Nat \X V
        BY <2>4, <3>1
      <3> QED BY <3>2
    <2>7. new \in [0..m -> V] /\ new[m] = last /\ \A i \in 0..(m - 1) : new[i] = g[i]
      <3> HIDE DEF last
      <3> QED BY <2>2, <2>3, <2>6
    <2>8. g[0] = v0 /\ \A i \in Nat : i + 1 <= m - 1 => g[i + 1] = h[<<i, g[i]>>]
      BY <2>5
    <2> HIDE DEF new
    <2>9. new[0] = v0
      BY <2>2, <2>3, <2>7, <2>8
    <2>10. ASSUME NEW i \in Nat, i + 1 <= m PROVE new[i + 1] = h[<<i, new[i]>>]
      <3>1. new[i] = g[i]
        BY <2>2, <2>7, <2>10
      <3>2. CASE i + 1 = m
        <4>1. i = m - 1
          BY <2>2, <3>2
        <4>2. last = h[<<i, g[i]>>]
          BY <4>1
        <4> HIDE DEF last
        <4> QED BY <2>7, <3>1, <3>2, <4>2
      <3>3. CASE i + 1 # m
        <4>1. i + 1 \in 0..(m - 1) /\ i + 1 <= m - 1
          BY <2>2, <2>10, <3>3
        <4> QED BY <2>7, <2>8, <3>1, <4>1
      <3> QED BY <3>2, <3>3
    <2>11. Ok(m, new)
      BY <2>9, <2>10
    <2> HIDE DEF Ok
    <2> QED BY <2>2, <2>7, <2>11
  <1>2. \A n \in Nat : \E g \in [0..n -> V] : Ok(n, g)
    BY <1>1
  <1> DEFINE G(n) == CHOOSE g \in [0..n -> V] : Ok(n, g)
             f == [n \in Nat |-> G(n)[n]]
  <1>3. \A n \in Nat : G(n) \in [0..n -> V] /\ Ok(n, G(n))
    <2> HIDE DEF Ok
    <2> QED BY <1>2
  <1>4. \A n \in Nat : G(n)[0] = v0
    BY <1>3
  <1>5. \A n, i \in Nat : i + 1 <= n => G(n)[i + 1] = h[<<i, G(n)[i]>>]
    BY <1>3
  <1> HIDE DEF G
  <1>6. \A i, n, k \in Nat : i <= n /\ i <= k => G(n)[i] = G(k)[i]
    <2> DEFINE U == {i \in Nat : \E n, k \in Nat : i <= n /\ i <= k /\ G(n)[i] # G(k)[i]}
    <2> SUFFICES ASSUME U # {} PROVE FALSE
      OBVIOUS
    <2>1. PICK i \in U : \A y \in U : i <= y
      <3>1. U \in SUBSET Nat
        OBVIOUS
      <3> HIDE DEF U
      <3> QED BY <3>1, LeastOf
    <2>2. PICK n \in Nat, k \in Nat : i <= n /\ i <= k /\ G(n)[i] # G(k)[i]
      BY <2>1
    <2>3. i \in Nat /\ i # 0
      BY <1>4, <2>1, <2>2
    <2>4. i - 1 \in Nat /\ i - 1 \notin U /\ i - 1 <= n /\ i - 1 <= k
      BY <2>1, <2>2, <2>3
    <2>5. G(n)[i - 1] = G(k)[i - 1]
      BY <2>4
    <2> HIDE DEF U
    <2>6. \A b \in Nat : i <= b => G(b)[i] = h[<<i - 1, G(b)[i - 1]>>]
      <3> DEFINE j == i - 1
      <3>1. j \in Nat /\ i = j + 1
        BY <2>3
      <3> HIDE DEF j
      <3>2. \A b \in Nat : j + 1 <= b => G(b)[j + 1] = h[<<j, G(b)[j]>>]
        BY <1>5, <3>1
      <3>3. \A b \in Nat : i <= b => G(b)[i] = h[<<j, G(b)[j]>>]
        BY <3>1, <3>2
      <3> QED BY <3>3 DEF j
    <2> QED BY <2>2, <2>5, <2>6
  <1>7. f \in [Nat -> V]
    <2>1. \A n \in Nat : G(n)[n] \in V
      <3>1. \A n \in Nat : G(n) \in [0..n -> V] /\ n \in 0..n
        BY <1>3
      <3> QED BY <3>1
    <2> QED BY <2>1
  <1>8. f[0] = v0
    BY <1>4
  <1>9. \A n \in Nat : f[n + 1] = h[<<n, f[n]>>]
    <2>1. ASSUME NEW n \in Nat PROVE f[n + 1] = h[<<n, f[n]>>]
      <3>1. n + 1 \in Nat /\ n <= n + 1 /\ n <= n /\ n + 1 <= n + 1
        OBVIOUS
      <3>2. G(n + 1)[n + 1] = h[<<n, G(n + 1)[n]>>]
        BY <1>5, <3>1
      <3>3. G(n + 1)[n] = G(n)[n]
        BY <1>6, <3>1
      <3> QED BY <3>1, <3>2, <3>3
    <2> QED BY <2>1
  <1> QED BY <1>7, <1>8, <1>9 DEF CanFollow

\* Induction, over the set of the numbers for which something holds.
LEMMA EveryNumber ==
  ASSUME NEW T, 0 \in T, \A k \in Nat : k \in T => k + 1 \in T
  PROVE  \A k \in Nat : k \in T
  <1> DEFINE U == {k \in Nat : k \notin T}
  <1> SUFFICES ASSUME U # {} PROVE FALSE
    OBVIOUS
  <1>1. PICK k \in U : \A y \in U : k <= y
    <2>1. U \in SUBSET Nat
      OBVIOUS
    <2> HIDE DEF U
    <2> QED BY <2>1, LeastOf
  <1>2. k # 0 /\ k \in Nat
    BY <1>1
  <1>3. k - 1 \in Nat /\ k - 1 \notin U
    BY <1>1, <1>2
  <1>4. k - 1 \in T
    BY <1>3
  <1> DEFINE j == k - 1
  <1>5. j + 1 = k /\ j \in Nat /\ j \in T
    BY <1>2, <1>4
  <1> HIDE DEF j
  <1> QED BY <1>1, <1>5

\* The last of an initial piece, and what is left without it; the last of any
\* set of places.
LEMMA LastPlace ==
  /\ \A k \in Nat : /\ Max(1..(k + 1)) = k + 1 /\ (1..(k + 1)) \ {k + 1} = 1..k
                    /\ 1..(k + 1) # {}
  /\ \A n \in Nat : \A s \in SUBSET (1..n) :
       s # {} => Max(s) \in s /\ \A x \in s : x <= Max(s)
  <1>1. ASSUME NEW n \in Nat, NEW s \in SUBSET (1..n), s # {}
        PROVE  Max(s) \in s /\ \A x \in s : x <= Max(s)
    <2> DEFINE T == {n - x : x \in s}
    <2>1. T \in SUBSET Nat /\ T # {}
      <3>1. \A x \in s : n - x \in Nat
        BY <1>1
      <3> QED BY <1>1, <3>1
    <2>2. Min(T) \in T /\ \A y \in T : Min(T) <= y
      <3> HIDE DEF T
      <3> QED BY <2>1, LeastOf
    <2>3. PICK x \in s : \A y \in s : n - x <= n - y
      BY <2>2
    <2>4. \A y \in s : y <= x
      BY <2>3, <1>1
    <2> QED BY <2>4 DEF Max
  <1>2. ASSUME NEW k \in Nat
        PROVE  /\ Max(1..(k + 1)) = k + 1 /\ (1..(k + 1)) \ {k + 1} = 1..k
               /\ 1..(k + 1) # {}
    <2>1. k + 1 \in 1..(k + 1) /\ k + 1 \in Nat
      OBVIOUS
    <2>2. Max(1..(k + 1)) \in 1..(k + 1) /\ \A x \in 1..(k + 1) : x <= Max(1..(k + 1))
      BY <1>1, <2>1
    <2>3. Max(1..(k + 1)) = k + 1
      BY <2>1, <2>2
    <2>4. (1..(k + 1)) \ {k + 1} = 1..k
      <3>1. \A x : x \in (1..(k + 1)) \ {k + 1} <=> x \in 1..k
        OBVIOUS
      <3> QED BY <3>1
    <2> QED BY <2>1, <2>3, <2>4
  <1> QED BY <1>1, <1>2

\* What a fold over n places takes place by place: it is a function of the sets
\* of places.
CanFold(n, V, base, h) ==
  \E it \in [SUBSET (1..n) -> V] :
    \A s \in SUBSET (1..n) :
      it[s] = IF s = {} THEN base ELSE h[<<Max(s), it[s \ {Max(s)}]>>]

LEMMA FoldExists ==
  ASSUME NEW n \in Nat, NEW V, NEW base \in V, NEW h \in [(1..n) \X V -> V]
  PROVE  CanFold(n, V, base, h)
  <1> DEFINE P == SUBSET (1..n)
             F == [P -> V]
             f0 == [s \in P |-> base]
             Step(g) == [s \in P |-> IF s = {} THEN base ELSE h[<<Max(s), g[s \ {Max(s)}]>>]]
             w == [p \in Nat \X F |-> Step(p[2])]
  <1>1. f0 \in F
    OBVIOUS
  <1>2. ASSUME NEW g \in F PROVE Step(g) \in F
    <2>1. ASSUME NEW s \in P, s # {} PROVE h[<<Max(s), g[s \ {Max(s)}]>>] \in V
      <3>1. Max(s) \in 1..n
        BY <2>1, LastPlace
      <3>2. g[s \ {Max(s)}] \in V
        OBVIOUS
      <3> QED BY <3>1, <3>2
    <2> QED BY <2>1
  <1>3. w \in [Nat \X F -> F]
    <2> HIDE DEF F, Step
    <2> QED BY <1>2
  <1>4. CanFollow(F, f0, w)
    <2> HIDE DEF F, f0, w
    <2> QED BY <1>1, <1>3, RecursiveOnNat
  <1>5. PICK f \in [Nat -> F] : f[0] = f0 /\ \A k \in Nat : f[k + 1] = w[<<k, f[k]>>]
    BY <1>4 DEF CanFollow
  <1>6. \A k \in Nat : f[k] \in F /\ f[k + 1] = Step(f[k])
    <2> HIDE DEF F, Step, f0
    <2>1. \A k \in Nat : f[k] \in F
      BY <1>5
    <2> QED BY <1>5, <2>1
  <1> HIDE DEF w, f0
  <1>7. \A k \in Nat : k \in {k2 \in Nat : \A s \in P : s \subseteq 1..k2 => f[k2 + 1][s] = f[k2][s]}
    <2> DEFINE T == {k \in Nat : \A s \in P : s \subseteq 1..k => f[k + 1][s] = f[k][s]}
    <2>1. 0 \in T
      <3>1. f[0 + 1][{}] = base /\ f[0][{}] = base
        <4>1. {} \in P /\ 0 \in Nat
          OBVIOUS
        <4>2. f[0][{}] = base
          BY <1>5, <4>1 DEF f0
        <4>3. f[0 + 1] = Step(f[0])
          BY <1>6, <4>1
        <4>4. Step(f[0])[{}] = base
          BY <4>1
        <4> QED BY <4>2, <4>3, <4>4
      <3>2. \A s : s \subseteq 1..0 => s = {}
        OBVIOUS
      <3> QED BY <3>1, <3>2
    <2>2. ASSUME NEW k \in Nat, k \in T PROVE k + 1 \in T
      <3>1. SUFFICES ASSUME NEW s \in P, s \subseteq 1..(k + 1)
                     PROVE  f[(k + 1) + 1][s] = f[k + 1][s]
        OBVIOUS
      <3> DEFINE u == s \ {Max(s)}
      <3>2. /\ f[(k + 1) + 1][s] = IF s = {} THEN base ELSE h[<<Max(s), f[k + 1][u]>>]
            /\ f[k + 1][s] = IF s = {} THEN base ELSE h[<<Max(s), f[k][u]>>]
        <4>1. \A g : Step(g)[s] = IF s = {} THEN base ELSE h[<<Max(s), g[u]>>]
          OBVIOUS
        <4>2. f[(k + 1) + 1] = Step(f[k + 1]) /\ f[k + 1] = Step(f[k])
          <5> HIDE DEF Step
          <5> QED BY <1>6
        <4> HIDE DEF Step, u
        <4> QED BY <4>1, <4>2
      <3>3. s # {} => u \in P /\ u \subseteq 1..k
        <4>1. SUFFICES ASSUME s # {} PROVE u \in P /\ u \subseteq 1..k
          OBVIOUS
        <4>2. Max(s) \in s /\ \A x \in s : x <= Max(s)
          BY <4>1, LastPlace
        <4>3. \A x \in s : x \in 1..(k + 1)
          BY <3>1
        <4>4. \A x \in u : x \in 1..k
          <5>1. ASSUME NEW x \in u PROVE x \in 1..k
            <6>1. x \in s /\ x # Max(s) /\ x <= Max(s)
              BY <4>2
            <6>2. x \in 1..(k + 1) /\ Max(s) \in 1..(k + 1)
              BY <6>1, <4>2, <4>3
            <6>3. \A a, b \in 1..(k + 1) : a # b /\ a <= b => a \in 1..k
              OBVIOUS
            <6> QED BY <6>1, <6>2, <6>3
          <5> QED BY <5>1
        <4> QED BY <4>4
      <3>4. s # {} => f[k + 1][u] = f[k][u]
        BY <3>3, <2>2
      <3> QED BY <3>2, <3>4
    <2> HIDE DEF T
    <2>3. \A k \in Nat : k \in T
      BY <2>1, <2>2, EveryNumber
    <2> QED BY <2>3 DEF T
  <1>8. \A s \in P : f[n + 1][s] = f[n][s]
    BY <1>7
  <1>9. \A s \in P : f[n + 1][s] = IF s = {} THEN base ELSE h[<<Max(s), f[n][s \ {Max(s)}]>>]
    BY <1>6
  <1>10. f[n] \in F
    BY <1>6
  <1> QED BY <1>8, <1>9, <1>10 DEF CanFold

\* A value that n steps make of the first one, each of its number and the value
\* before.
Stepped(n, V, base, h, x) ==
  \E g \in [0..n -> V] : g[0] = base /\ x = g[n] /\ \A i \in 1..n : g[i] = h[<<i, g[i - 1]>>]

\* A fold over n places is made of a step per place.
LEMMA FoldStepped ==
  ASSUME NEW n \in Nat, NEW V, NEW base \in V, NEW h \in [(1..n) \X V -> V], NEW c,
         c[{}] = base,
         \A s \in SUBSET (1..n) : s # {} /\ c[s \ {Max(s)}] \in V => c[s] = h[<<Max(s), c[s \ {Max(s)}]>>]
  PROVE  Stepped(n, V, base, h, c[1..n])
  <1> DEFINE g == [i \in 0..n |-> c[1..i]]
  <1>1. ASSUME NEW k \in Nat, k + 1 <= n, c[1..k] \in V
        PROVE  c[1..(k + 1)] = h[<<k + 1, c[1..k]>>] /\ c[1..(k + 1)] \in V
    <2>0. Max(1..(k + 1)) = k + 1
      BY LastPlace
    <2>a. k + 1 \in 1..n /\ 1..(k + 1) \in SUBSET (1..n)
      BY <1>1
    <2>b. 1..(k + 1) # {} /\ (1..(k + 1)) \ {k + 1} = 1..k
      OBVIOUS
    <2>1. /\ 1..(k + 1) # {} /\ Max(1..(k + 1)) = k + 1 /\ (1..(k + 1)) \ {k + 1} = 1..k
          /\ 1..(k + 1) \in SUBSET (1..n) /\ k + 1 \in 1..n
      BY <2>0, <2>a, <2>b
    <2>2. c[1..(k + 1)] = h[<<Max(1..(k + 1)), c[(1..(k + 1)) \ {Max(1..(k + 1))}]>>]
      BY <2>1, <1>1
    <2>3. h[<<k + 1, c[1..k]>>] \in V
      BY <2>1, <1>1
    <2> QED BY <2>1, <2>2, <2>3
  <1>2. 1..0 = {}
    OBVIOUS
  <1> DEFINE T == {k \in Nat : k <= n => c[1..k] \in V}
  <1>3. \A k \in Nat : k \in T
    <2>1. 0 \in T
      BY <1>2
    <2>2. ASSUME NEW k \in Nat, k \in T PROVE k + 1 \in T
      <3>1. SUFFICES ASSUME k + 1 <= n PROVE c[1..(k + 1)] \in V
        OBVIOUS
      <3>2. k <= n
        BY <3>1
      <3>3. c[1..k] \in V
        BY <2>2, <3>2
      <3> QED BY <1>1, <3>1, <3>3
    <2> HIDE DEF T
    <2> QED BY <2>1, <2>2, EveryNumber
  <1>4. g \in [0..n -> V]
    BY <1>3
  <1>5. ASSUME NEW i \in 1..n PROVE g[i] = h[<<i, g[i - 1]>>]
    <2> DEFINE k == i - 1
    <2>1. k \in Nat /\ i = k + 1 /\ k + 1 <= n /\ k \in 0..n /\ i \in 0..n
      OBVIOUS
    <2>2. g[i] = c[1..i] /\ g[i - 1] = c[1..k]
      BY <2>1
    <2> HIDE DEF k, g
    <2>3. c[1..k] \in V
      BY <1>3, <2>1
    <2>4. c[1..(k + 1)] = h[<<k + 1, c[1..k]>>]
      BY <1>1, <2>1, <2>3
    <2> QED BY <2>1, <2>2, <2>4
  <1>6. g[0] = base /\ c[1..n] = g[n]
    BY <1>2
  <1> QED BY <1>4, <1>5, <1>6 DEF Stepped

\* A piece of a sequence, place by place.
LEMMA PieceIs ==
  ASSUME NEW S, NEW s \in Seq(S), NEW a \in Nat, NEW n \in Nat, a + n <= Len(s)
  PROVE  SubSeq(s, a + 1, a + n) = [i \in 1..n |-> s[a + i]]
  <1>1. \A i \in (a + 1)..(a + n) : s[i] \in S
    <2>1. \A i \in (a + 1)..(a + n) : i \in 1..Len(s)
      OBVIOUS
    <2> QED BY <2>1
  <1>2. /\ SubSeq(s, a + 1, a + n) \in Seq(S)
        /\ Len(SubSeq(s, a + 1, a + n)) = IF a + 1 <= a + n THEN (a + n) - (a + 1) + 1 ELSE 0
        /\ \A i \in 1..((a + n) - (a + 1) + 1) :
              SubSeq(s, a + 1, a + n)[i] = s[(a + 1) + i - 1]
    BY <1>1, SubSeqProperties
  <1> DEFINE w == SubSeq(s, a + 1, a + n)
  <1>3. Len(w) = n /\ \A i \in 1..n : w[i] = s[a + i]
    <2>1. (a + n) - (a + 1) + 1 = n /\ \A i \in 1..n : (a + 1) + i - 1 = a + i
      OBVIOUS
    <2>2. n = 0 \/ a + 1 <= a + n
      OBVIOUS
    <2> QED BY <1>2, <2>1, <2>2
  <1>4. w \in Seq(S)
    BY <1>2
  <1> HIDE DEF w
  <1>5. w = [i \in 1..n |-> s[a + i]]
    BY <1>3, <1>4
  <1> QED BY <1>5 DEF w

\* What is left of a sequence without one of its places.
LEMMA WithoutOne ==
  ASSUME NEW S, NEW s \in Seq(S), NEW k \in 1..Len(s)
  PROVE  /\ RemoveAt(s, k) \in Seq(S) /\ Len(RemoveAt(s, k)) = Len(s) - 1
         /\ \A i \in 1..(Len(s) - 1) : RemoveAt(s, k)[i] = IF i < k THEN s[i] ELSE s[i + 1]
  <1> DEFINE a == SubSeq(s, 1, k - 1)
             b == SubSeq(s, k + 1, Len(s))
  <1>1. k \in Nat /\ k >= 1 /\ k <= Len(s) /\ Len(s) \in Nat
    OBVIOUS
  <1>2. a \in Seq(S) /\ Len(a) = k - 1 /\ \A i \in 1..(k - 1) : a[i] = s[i]
    <2>1. \A i \in 1..(k - 1) : i \in 1..Len(s) /\ s[i] \in S
      BY <1>1
    <2>2. /\ a \in Seq(S) /\ Len(a) = IF 1 <= k - 1 THEN (k - 1) - 1 + 1 ELSE 0
          /\ \A i \in 1..((k - 1) - 1 + 1) : a[i] = s[1 + i - 1]
      BY <1>1, <2>1, SubSeqProperties
    <2> HIDE DEF a
    <2> QED BY <1>1, <2>2
  <1>3. b \in Seq(S) /\ Len(b) = Len(s) - k /\ \A i \in 1..(Len(s) - k) : b[i] = s[k + i]
    <2>1. \A i \in (k + 1)..Len(s) : i \in 1..Len(s) /\ s[i] \in S
      BY <1>1
    <2>2. /\ b \in Seq(S) /\ Len(b) = IF k + 1 <= Len(s) THEN Len(s) - (k + 1) + 1 ELSE 0
          /\ \A i \in 1..(Len(s) - (k + 1) + 1) : b[i] = s[(k + 1) + i - 1]
      BY <1>1, <2>1, SubSeqProperties
    <2> HIDE DEF b
    <2>3. \A i \in 1..(Len(s) - k) : i \in 1..(Len(s) - (k + 1) + 1) /\ (k + 1) + i - 1 = k + i
      BY <1>1
    <2>4. Len(b) = Len(s) - k
      BY <1>1, <2>2
    <2> QED BY <2>2, <2>3, <2>4
  <1> HIDE DEF a, b
  <1>4. /\ a \o b \in Seq(S) /\ Len(a \o b) = Len(a) + Len(b)
        /\ \A i \in 1..(Len(a) + Len(b)) : (a \o b)[i] = IF i <= Len(a) THEN a[i] ELSE b[i - Len(a)]
    BY <1>2, <1>3, ConcatProperties
  <1>5. RemoveAt(s, k) = a \o b
    BY DEF RemoveAt, a, b
  <1>6. ASSUME NEW i \in 1..(Len(s) - 1)
        PROVE  (a \o b)[i] = IF i < k THEN s[i] ELSE s[i + 1]
    <2>1. i \in 1..(Len(a) + Len(b)) /\ i \in Nat
      BY <1>1, <1>2, <1>3
    <2>2. CASE i < k
      <3>1. i <= Len(a) /\ i \in 1..(k - 1)
        BY <1>1, <1>2, <2>2
      <3> QED BY <1>2, <1>4, <2>1, <2>2, <3>1
    <2>3. CASE ~(i < k)
      <3> DEFINE j == i - Len(a)
      <3>1. ~(i <= Len(a)) /\ j \in 1..(Len(s) - k) /\ k + j = i + 1
        BY <1>1, <1>2, <2>3
      <3> HIDE DEF j
      <3>2. (a \o b)[i] = b[j]
        BY <1>4, <2>1, <3>1 DEF j
      <3>3. b[j] = s[k + j]
        BY <1>3, <3>1
      <3> QED BY <2>3, <3>1, <3>2, <3>3
    <2> QED BY <2>2, <2>3
  <1>7. Len(a) + Len(b) = Len(s) - 1
    BY <1>1, <1>2, <1>3
  <1> QED BY <1>4, <1>5, <1>6, <1>7

\* A sequence that has grown, without its last place and the one before.
LEMMA LastOut ==
  ASSUME NEW S, NEW s \in Seq(S), NEW x \in S
  PROVE  /\ RemoveAt(Append(s, x), Len(s) + 1) = s
         /\ Len(s) > 0 => RemoveAt(Append(s, x), Len(s)) = Append(RemoveAt(s, Len(s)), x)
  <1> DEFINE t == Append(s, x)
             m == Len(s)
  <1>1. /\ t \in Seq(S) /\ Len(t) = m + 1 /\ t[m + 1] = x /\ \A i \in 1..m : t[i] = s[i]
        /\ m \in Nat
    BY AppendProperties
  <1>2. RemoveAt(t, m + 1) = s
    <2> HIDE DEF t, m
    <2> DEFINE w == RemoveAt(t, m + 1)
    <2>1. /\ w \in Seq(S) /\ Len(w) = Len(t) - 1
          /\ \A i \in 1..(Len(t) - 1) : w[i] = IF i < m + 1 THEN t[i] ELSE t[i + 1]
      <3>1. m + 1 \in 1..Len(t)
        BY <1>1
      <3> QED BY <1>1, <3>1, WithoutOne
    <2> HIDE DEF w
    <2>2. Len(w) = m /\ \A i \in 1..m : w[i] = s[i]
      BY <1>1, <2>1
    <2>3. w = s
      BY <2>1, <2>2, SeqEqual DEF m
    <2> QED BY <2>3 DEF w
  <1>3. ASSUME m > 0 PROVE RemoveAt(t, m) = Append(RemoveAt(s, m), x)
    <2> HIDE DEF t
    <2> DEFINE w == RemoveAt(t, m)
               y == RemoveAt(s, m)
    <2>1. m \in 1..Len(t) /\ m \in 1..Len(s)
      BY <1>1, <1>3
    <2>2. /\ w \in Seq(S) /\ Len(w) = Len(t) - 1
          /\ \A i \in 1..(Len(t) - 1) : w[i] = IF i < m THEN t[i] ELSE t[i + 1]
      BY <1>1, <2>1, WithoutOne
    <2>3. /\ y \in Seq(S) /\ Len(y) = m - 1
          /\ \A i \in 1..(m - 1) : y[i] = IF i < m THEN s[i] ELSE s[i + 1]
      BY <2>1, WithoutOne
    <2> HIDE DEF w, y
    <2>4. /\ Append(y, x) \in Seq(S) /\ Len(Append(y, x)) = (m - 1) + 1 /\ Append(y, x)[(m - 1) + 1] = x
          /\ \A i \in 1..(m - 1) : Append(y, x)[i] = y[i]
      BY <2>3, AppendProperties
    <2> HIDE DEF m
    <2>5. Len(w) = m /\ Len(Append(y, x)) = m
      BY <1>1, <2>2, <2>4
    <2>6. ASSUME NEW i \in 1..m PROVE w[i] = Append(y, x)[i]
      <3>1. CASE i < m
        <4>1. i \in 1..(m - 1) /\ i \in 1..(Len(t) - 1)
          BY <1>1, <3>1
        <4>2. w[i] = t[i] /\ t[i] = s[i] /\ Append(y, x)[i] = y[i] /\ y[i] = s[i]
          BY <1>1, <2>2, <2>3, <2>4, <3>1, <4>1
        <4> QED BY <4>2
      <3>2. CASE i = m
        <4>1. i \in 1..(Len(t) - 1) /\ (m - 1) + 1 = m
          BY <1>1, <3>2
        <4>2. w[i] = t[m + 1]
          BY <2>2, <3>2, <4>1, <1>1
        <4> QED BY <1>1, <2>4, <3>2, <4>1, <4>2
      <3>3. i < m \/ i = m
        BY <1>1
      <3> QED BY <3>1, <3>2, <3>3
    <2>7. w = Append(y, x)
      BY <2>2, <2>4, <2>5, <2>6, SeqEqual
    <2> QED BY <2>7 DEF w, y
  <1> QED BY <1>2, <1>3

\* A sequence of two.
LEMMA TwoOf == ASSUME NEW S, NEW hi \in S, NEW lo \in S PROVE <<hi>> \o <<lo>> = <<hi, lo>>
  <1>1. Len(<<hi>> \o <<lo>>) = 2 /\ (<<hi>> \o <<lo>>)[1] = hi /\ (<<hi>> \o <<lo>>)[2] = lo
    OBVIOUS
  <1>2. <<hi>> \in Seq(S) /\ <<lo>> \in Seq(S)
    OBVIOUS
  <1>4. <<hi, lo>> \in Seq(S) /\ Len(<<hi, lo>>) = 2
    OBVIOUS
  <1>5. \A i \in 1..2 : (<<hi>> \o <<lo>>)[i] = <<hi, lo>>[i]
    BY <1>1
  <1>6. <<hi>> \o <<lo>> \in Seq(S)
    BY <1>2
  <1> DEFINE x == <<hi>> \o <<lo>>
             y == <<hi, lo>>
  <1> HIDE DEF x, y
  <1>7. x = y
    BY <1>1, <1>4, <1>5, <1>6, SeqEqual DEF x, y
  <1> QED BY <1>7 DEF x, y
-----------------------------------------------------------------------------
(* Lists that are joined into one (FlattenSeq).                            *)

\* The places where the lists that are joined end.
Laid(ss, e) ==
  /\ e \in [0..Len(ss) -> Nat] /\ e[0] = 0 /\ e[Len(ss)] = Len(FlattenSeq(ss))
  /\ \A i \in 1..Len(ss) :
       /\ e[i] = e[i - 1] + Len(ss[i])
       /\ \A u \in 1..Len(ss[i]) : FlattenSeq(ss)[e[i - 1] + u] = ss[i][u]
EndsOf(ss) == CHOOSE e : Laid(ss, e)

\* What the proof needs of lists of lists: V are the lists.
Joins(V, n, ss) ==
  /\ Len(ss) = n /\ (n = 0 => ss = <<>>) /\ <<>> \in V
  /\ \A i \in 1..n : ss[i] \in V
  /\ \A s \in V : Len(s) \in Nat /\ <<>> \o s = s
  /\ \A s, t \in V :
       /\ s \o t \in V /\ Len(s \o t) = Len(s) + Len(t)
       /\ \A b \in 1..(Len(s) + Len(t)) :
            (s \o t)[b] = IF b <= Len(s) THEN s[b] ELSE t[b - Len(s)]

\* A list of lists is joined one after the other.
GrowsUp(V, n, ss, g) ==
  /\ g \in [0..n -> V] /\ g[0] = <<>> /\ FlattenSeq(ss) = g[n]
  /\ \A i \in 1..n : g[i] = g[i - 1] \o ss[i] /\ g[i - 1] \in V /\ g[i] \in V

LEMMA OneByOne ==
  ASSUME NEW V, NEW n \in Nat, NEW ss, Joins(V, n, ss)
  PROVE  \E g : GrowsUp(V, n, ss, g)
  <1> DEFINE h == [q \in Nat \X V |-> IF q[1] + 1 \in 1..n THEN q[2] \o ss[q[1] + 1] ELSE q[2]]
  <1>1. \A i \in 1..n : ss[i] \in V
    BY DEF Joins
  <1>2. h \in [Nat \X V -> V]
    <2>1. \A s, t \in V : s \o t \in V
      BY DEF Joins
    <2> QED BY <1>1, <2>1
  <1>3. PICK g \in [Nat -> V] : g[0] = <<>> /\ \A i \in Nat : g[i + 1] = h[<<i, g[i]>>]
    <2>1. <<>> \in V
      BY DEF Joins
    <2> HIDE DEF h
    <2>2. CanFollow(V, <<>>, h)
      BY <1>2, <2>1, RecursiveOnNat
    <2> QED BY <2>2 DEF CanFollow
  <1>4. \A i \in 1..n : g[i] = g[i - 1] \o ss[i] /\ g[i - 1] \in V /\ g[i] \in V
    <2> SUFFICES ASSUME NEW i \in 1..n
                 PROVE  g[i] = g[i - 1] \o ss[i] /\ g[i - 1] \in V /\ g[i] \in V
      OBVIOUS
    <2> DEFINE j == i - 1
    <2>1. j \in Nat /\ i = j + 1 /\ j + 1 \in 1..n
      BY <1>1
    <2> HIDE DEF j
    <2>2. g[j] \in V /\ g[j + 1] \in V /\ g[j + 1] = h[<<j, g[j]>>]
      <3> HIDE DEF h
      <3> QED BY <1>3, <2>1
    <2>3. g[j + 1] = g[j] \o ss[j + 1]
      BY <2>1, <2>2
    <2> QED BY <2>1, <2>2, <2>3 DEF j
  <1> HIDE DEF h
  <1> DEFINE Is(b) == b = [i \in 1..n |-> IF i = 1 THEN ss[i] ELSE b[i - 1] \o ss[i]]
             c == CHOOSE b : Is(b)
             b0 == [i \in 1..n |-> g[i]]
  <1>5. Is(b0)
    <2>1. ASSUME NEW i \in 1..n
          PROVE  b0[i] = IF i = 1 THEN ss[i] ELSE b0[i - 1] \o ss[i]
      <3>1. CASE i = 1
        <4>1. g[0] \o ss[1] = ss[1]
          BY <1>1, <1>3, <3>1 DEF Joins
        <4>2. g[i] = g[i - 1] \o ss[i]
          BY <1>4
        <4>3. i - 1 = 0
          BY <3>1
        <4> QED BY <3>1, <4>1, <4>2, <4>3
      <3>2. CASE i # 1
        <4>1. i - 1 \in 1..n /\ b0[i - 1] = g[i - 1]
          BY <1>1, <3>2
        <4> QED BY <1>4, <3>2, <4>1
      <3> QED BY <3>1, <3>2
    <2> QED BY <2>1
  <1>6. c = [i \in 1..n |-> IF i = 1 THEN ss[i] ELSE c[i - 1] \o ss[i]]
    <2>1. Is(c)
      <3> HIDE DEF Is, b0
      <3> QED BY <1>5
    <2> HIDE DEF c
    <2> QED BY <2>1
  <1>7. n # 0 => FlattenSeq(ss) = c[n]
    <2>1. Len(ss) = n
      BY DEF Joins
    <2> QED BY Zenon, <2>1 DEF FlattenSeq, c
  <1> HIDE DEF c, Is, b0
  <1>8. \A i \in 1..n : c[i] = g[i]
    <2> DEFINE T == {i \in Nat : i + 1 \in 1..n => c[i + 1] = g[i + 1]}
    <2>1. 0 \in T
      <3>1. ASSUME 1 \in 1..n PROVE c[1] = g[1]
        <4>1. c[1] = ss[1]
          BY <1>6, <3>1
        <4>2. g[1] = g[0] \o ss[1]
          <5>1. 1 - 1 = 0
            OBVIOUS
          <5> QED BY <1>4, <3>1, <5>1
        <4>3. g[0] \o ss[1] = ss[1]
          BY <1>1, <1>3, <3>1 DEF Joins
        <4> QED BY <4>1, <4>2, <4>3
      <3> QED BY <3>1
    <2>2. ASSUME NEW i \in Nat, i \in T PROVE i + 1 \in T
      <3>1. ASSUME (i + 1) + 1 \in 1..n PROVE c[(i + 1) + 1] = g[(i + 1) + 1]
        <4> DEFINE j == (i + 1) + 1
        <4>1. j \in 1..n /\ j # 1 /\ j - 1 = i + 1 /\ i + 1 \in 1..n
          BY <1>1, <3>1
        <4> HIDE DEF j
        <4>2. c[j] = c[j - 1] \o ss[j]
          BY <1>6, <4>1
        <4>3. g[j] = g[j - 1] \o ss[j]
          BY <1>4, <4>1
        <4>4. c[i + 1] = g[i + 1]
          BY <2>2, <4>1
        <4> QED BY <4>1, <4>2, <4>3, <4>4 DEF j
      <3> QED BY <3>1
    <2> HIDE DEF T
    <2>3. \A i \in Nat : i \in T
      BY <2>1, <2>2, EveryNumber
    <2>4. ASSUME NEW i \in 1..n PROVE c[i] = g[i]
      <3>1. i - 1 \in Nat /\ (i - 1) + 1 = i
        BY <1>1
      <3> QED BY <2>3, <3>1 DEF T
    <2> QED BY <2>4
  <1>9. FlattenSeq(ss) = g[n]
    <2>1. CASE n = 0
      <3>1. FlattenSeq(ss) = ss
        BY <2>1 DEF FlattenSeq, Joins
      <3>2. ss = <<>>
        BY <2>1 DEF Joins
      <3> QED BY <1>3, <2>1, <3>1, <3>2
    <2>2. CASE n # 0
      <3>1. n \in 1..n
        BY <2>2
      <3> QED BY <1>7, <1>8, <2>2, <3>1
    <2> QED BY <2>1, <2>2
  <1> DEFINE q == [i \in 0..n |-> g[i]]
  <1>10. q \in [0..n -> V] /\ \A i \in 0..n : q[i] = g[i]
    <2>1. \A i \in 0..n : g[i] \in V
      BY <1>3
    <2> QED BY <2>1
  <1>11. 0 \in 0..n /\ n \in 0..n /\ \A i \in 1..n : i \in 0..n /\ i - 1 \in 0..n
    OBVIOUS
  <1> HIDE DEF q
  <1>12. GrowsUp(V, n, ss, q)
    BY <1>3, <1>4, <1>9, <1>10, <1>11 DEF GrowsUp
  <1> QED BY <1>12

LEMMA JoinedUp ==
  ASSUME NEW V, NEW n \in Nat, NEW ss, Joins(V, n, ss)
  PROVE  FlattenSeq(ss) \in V /\ Laid(ss, EndsOf(ss))
  <1>1. \A i \in 1..n : ss[i] \in V
    BY DEF Joins
  <1>2. PICK g : GrowsUp(V, n, ss, g)
    BY OneByOne
  <1>3. g \in [0..n -> V] /\ g[0] = <<>>
    BY <1>2 DEF GrowsUp
  <1>4. \A i \in 1..n : g[i] = g[i - 1] \o ss[i] /\ g[i - 1] \in V /\ g[i] \in V
    BY <1>2 DEF GrowsUp
  <1>9. FlattenSeq(ss) = g[n]
    BY <1>2 DEF GrowsUp
  <1> DEFINE e == [i \in 0..n |-> Len(g[i])]
  <1>10. e \in [0..n -> Nat] /\ e[0] = 0 /\ e[n] = Len(FlattenSeq(ss))
    <2>1. \A i \in 0..n : g[i] \in V /\ Len(g[i]) \in Nat
      <3>1. \A i \in 0..n : g[i] \in V
        BY <1>3
      <3> QED BY <3>1 DEF Joins
    <2>2. Len(g[0]) = 0
      BY <1>3
    <2> QED BY <1>1, <1>9, <2>1, <2>2
  <1>11. \A i \in 1..n : e[i] = e[i - 1] + Len(ss[i])
    <2> SUFFICES ASSUME NEW i \in 1..n PROVE e[i] = e[i - 1] + Len(ss[i])
      OBVIOUS
    <2>1. i \in 0..n /\ i - 1 \in 0..n /\ e[i] = Len(g[i]) /\ e[i - 1] = Len(g[i - 1])
      BY <1>1
    <2>2. Len(g[i - 1] \o ss[i]) = Len(g[i - 1]) + Len(ss[i])
      BY <1>1, <1>4 DEF Joins
    <2> QED BY <1>4, <2>1, <2>2
  <1> DEFINE At(m, i) == \A u \in 1..Len(ss[i]) : e[i - 1] + u <= e[m] /\ g[m][e[i - 1] + u] = ss[i][u]
             U == {m \in Nat : m <= n => \A i \in 1..m : At(m, i)}
  <1>12. 0 \in U
    OBVIOUS
  <1>13. ASSUME NEW m \in Nat, m \in U PROVE m + 1 \in U
    <2>1. ASSUME m + 1 <= n, NEW i \in 1..(m + 1), NEW u \in 1..Len(ss[i])
          PROVE  e[i - 1] + u <= e[m + 1] /\ g[m + 1][e[i - 1] + u] = ss[i][u]
      <3> DEFINE x == g[m]
                 y == ss[m + 1]
      <3>1. m + 1 \in 1..n /\ (m + 1) - 1 = m /\ m \in 0..n
        BY <1>1, <2>1
      <3>2. g[m + 1] = x \o y /\ x \in V /\ y \in V
        BY <1>1, <1>4, <3>1
      <3>3. e[m] = Len(x) /\ e[m + 1] = Len(x) + Len(y) /\ Len(x) \in Nat /\ Len(y) \in Nat
        <4>1. e[m] = Len(x) /\ e[m + 1] = Len(g[m + 1])
          BY <3>1
        <4>2. Len(x) \in Nat /\ Len(y) \in Nat /\ Len(x \o y) = Len(x) + Len(y)
          <5> HIDE DEF x, y
          <5> QED BY <3>2 DEF Joins
        <4> QED BY <3>2, <4>1, <4>2
      <3>4. \A b \in 1..(Len(x) + Len(y)) : (x \o y)[b] = IF b <= Len(x) THEN x[b] ELSE y[b - Len(x)]
        <4> HIDE DEF x, y
        <4> QED BY <3>2 DEF Joins
      <3> HIDE DEF x, y
      <3>5. CASE i = m + 1
        <4>1. e[i - 1] = Len(x) /\ ss[i] = y
          BY <3>1, <3>3, <3>5 DEF y
        <4>2. u \in 1..Len(y)
          BY <2>1, <4>1
        <4>3. Len(x) + u \in 1..(Len(x) + Len(y)) /\ ~(Len(x) + u <= Len(x)) /\ (Len(x) + u) - Len(x) = u
          BY <3>3, <4>2
        <4>4. (x \o y)[Len(x) + u] = y[u]
          BY <3>4, <4>3
        <4>5. e[i - 1] + u = Len(x) + u /\ Len(x) + u <= e[m + 1]
          <5> HIDE DEF e
          <5> QED BY <3>3, <4>1, <4>3
        <4>6. g[m + 1][Len(x) + u] = ss[i][u]
          BY <3>2, <4>1, <4>4
        <4> HIDE DEF e
        <4> QED BY <4>5, <4>6
      <3>6. CASE i # m + 1
        <4>1. i \in 1..m /\ m <= n
          BY <1>1, <2>1, <3>6
        <4>2. e[i - 1] + u <= e[m] /\ g[m][e[i - 1] + u] = ss[i][u]
          BY <1>13, <2>1, <4>1
        <4>3. e[i - 1] \in Nat /\ u \in Nat /\ u >= 1
          <5>1. i - 1 \in 0..n /\ Len(ss[i]) \in Nat
            BY <1>1, <4>1
          <5> HIDE DEF e
          <5> QED BY <1>10, <2>1, <5>1
        <4> DEFINE b == e[i - 1] + u
        <4>4. b \in 1..(Len(x) + Len(y)) /\ b <= Len(x) /\ b <= e[m + 1]
          <5> HIDE DEF e
          <5> QED BY <3>3, <4>2, <4>3
        <4>5. (x \o y)[b] = x[b]
          <5> HIDE DEF b
          <5> QED BY <3>4, <4>4
        <4> QED BY <3>2, <4>2, <4>4, <4>5 DEF x
      <3> QED BY <3>5, <3>6
    <2> HIDE DEF e
    <2> QED BY <2>1
  <1>14. \A i \in 1..n : At(n, i)
    <2> HIDE DEF U
    <2>1. \A m \in Nat : m \in U
      BY <1>12, <1>13, EveryNumber
    <2>2. n \in U
      BY <1>1, <2>1
    <2> HIDE DEF At
    <2> QED BY <1>1, <2>2 DEF U
  <1>15. Laid(ss, e) /\ Len(ss) = n
    <2>1. \A i \in 1..n : \A u \in 1..Len(ss[i]) : FlattenSeq(ss)[e[i - 1] + u] = ss[i][u]
      BY <1>9, <1>14
    <2> HIDE DEF e
    <2> QED BY <1>10, <1>11, <2>1 DEF Laid, Joins
  <1>16. Laid(ss, EndsOf(ss))
    <2> HIDE DEF e
    <2> QED BY <1>15 DEF EndsOf
  <1> QED BY <1>3, <1>9, <1>16

LEMMA Flattened ==
  ASSUME NEW S, NEW ss \in Seq(Seq(S))
  PROVE  FlattenSeq(ss) \in Seq(S) /\ Laid(ss, EndsOf(ss))
  <1>1. /\ Len(ss) \in Nat /\ (Len(ss) = 0 => ss = <<>>)
        /\ \A i \in 1..Len(ss) : ss[i] \in Seq(S)
    OBVIOUS
  <1>2. <<>> \in Seq(S) /\ \A s \in Seq(S) : Len(s) \in Nat /\ <<>> \o s = s
    OBVIOUS
  <1>3. ASSUME NEW s \in Seq(S), NEW t \in Seq(S)
        PROVE  /\ s \o t \in Seq(S) /\ Len(s \o t) = Len(s) + Len(t)
               /\ \A b \in 1..(Len(s) + Len(t)) :
                    (s \o t)[b] = IF b <= Len(s) THEN s[b] ELSE t[b - Len(s)]
    BY JoinedAt
  <1>4. Joins(Seq(S), Len(ss), ss)
    BY <1>1, <1>2, <1>3 DEF Joins
  <1> QED BY <1>1, <1>4, JoinedUp

\* Two lists of lists, joined one behind the other.
LEMMA JoinedBehind ==
  ASSUME NEW S, NEW ss \in Seq(Seq(S)), NEW tt \in Seq(Seq(S))
  PROVE  FlattenSeq(ss \o tt) = FlattenSeq(ss) \o FlattenSeq(tt)
  <1> DEFINE V == Seq(S)
             m == Len(ss)
             n == Len(tt)
             uu == ss \o tt
  <1>1. /\ m \in Nat /\ n \in Nat /\ uu \in Seq(Seq(S)) /\ Len(uu) = m + n
        /\ \A i \in 1..(m + n) : uu[i] = IF i <= m THEN ss[i] ELSE tt[i - m]
        /\ \A i \in 1..n : tt[i] \in Seq(S)
    BY JoinedAt
  <1>2. ASSUME NEW rr \in Seq(Seq(S)) PROVE Joins(V, Len(rr), rr)
    <2>1. /\ Len(rr) \in Nat /\ (Len(rr) = 0 => rr = <<>>)
          /\ \A i \in 1..Len(rr) : rr[i] \in Seq(S)
      OBVIOUS
    <2>2. <<>> \in Seq(S) /\ \A s \in Seq(S) : Len(s) \in Nat /\ <<>> \o s = s
      OBVIOUS
    <2>3. ASSUME NEW s \in Seq(S), NEW t \in Seq(S)
          PROVE  /\ s \o t \in Seq(S) /\ Len(s \o t) = Len(s) + Len(t)
                 /\ \A b \in 1..(Len(s) + Len(t)) :
                      (s \o t)[b] = IF b <= Len(s) THEN s[b] ELSE t[b - Len(s)]
      BY JoinedAt
    <2> QED BY <2>1, <2>2, <2>3 DEF Joins
  <1>3. Joins(V, m, ss) /\ Joins(V, n, tt)
    BY <1>2
  <1>4. Joins(V, m + n, uu)
    <2>1. Joins(V, Len(uu), uu)
      <3> HIDE DEF uu, V
      <3> QED BY <1>1, <1>2
    <2> HIDE DEF uu, V, m, n
    <2> QED BY <1>1, <2>1
  <1> HIDE DEF uu, m, n
  <1>5. PICK f : GrowsUp(V, m, ss, f)
    BY <1>1, <1>3, OneByOne
  <1>6. PICK g : GrowsUp(V, n, tt, g)
    BY <1>1, <1>3, OneByOne
  <1>7. PICK h : GrowsUp(V, m + n, uu, h)
    <2>1. m + n \in Nat
      BY <1>1
    <2> QED BY <2>1, <1>4, OneByOne
  <1>8. \A i \in Nat : i <= m => h[i] = f[i]
    <2> DEFINE T == {i \in Nat : i <= m => h[i] = f[i]}
    <2>1. 0 \in T
      BY <1>5, <1>7 DEF GrowsUp
    <2>2. ASSUME NEW i \in Nat, i \in T PROVE i + 1 \in T
      <3>1. ASSUME i + 1 <= m PROVE h[i + 1] = f[i + 1]
        <4>1. i + 1 \in 1..m /\ i + 1 \in 1..(m + n) /\ (i + 1) - 1 = i /\ i <= m
          BY <1>1, <3>1
        <4>2. h[i + 1] = h[i] \o uu[i + 1] /\ f[i + 1] = f[i] \o ss[i + 1]
          BY <1>5, <1>7, <4>1 DEF GrowsUp
        <4>3. uu[i + 1] = ss[i + 1] /\ h[i] = f[i]
          BY <1>1, <2>2, <3>1, <4>1
        <4> QED BY <4>2, <4>3
      <3> QED BY <3>1
    <2> HIDE DEF T
    <2>3. \A i \in Nat : i \in T
      BY <2>1, <2>2, EveryNumber
    <2> QED BY <2>3 DEF T
  <1>9. \A i \in Nat : i <= n => h[m + i] = f[m] \o g[i]
    <2> DEFINE T == {i \in Nat : i <= n => h[m + i] = f[m] \o g[i]}
    <2>0. f[m] \in Seq(S) /\ g[0] = <<>> /\ h[m] = f[m]
      <3>1. m \in 0..m /\ m <= m
        BY <1>1
      <3> QED BY <1>1, <1>5, <1>6, <1>8, <3>1 DEF GrowsUp
    <2>1. 0 \in T
      <3>1. f[m] \o <<>> = f[m]
        BY <2>0, ConcatEmptySeq
      <3>2. m + 0 = m
        BY <1>1
      <3> QED BY <2>0, <3>1, <3>2
    <2>2. ASSUME NEW i \in Nat, i \in T PROVE i + 1 \in T
      <3>0. \A x, y, z \in Seq(S) : (x \o y) \o z = x \o (y \o z)
        BY ConcatAssociative
      <3>1. ASSUME i + 1 <= n PROVE h[m + (i + 1)] = f[m] \o g[i + 1]
        <4> DEFINE j == m + (i + 1)
        <4>1. /\ i + 1 \in 1..n /\ j \in 1..(m + n) /\ j - 1 = m + i /\ i <= n
              /\ ~(j <= m) /\ j - m = i + 1 /\ (i + 1) - 1 = i /\ i \in 0..n
          BY <1>1, <3>1
        <4> HIDE DEF j
        <4>2. h[j] = h[j - 1] \o uu[j]
          BY <1>7, <4>1 DEF GrowsUp
        <4>3. g[i + 1] = g[i] \o tt[i + 1] /\ g[i] \in Seq(S)
          BY <1>6, <4>1 DEF GrowsUp
        <4>4. h[j - 1] = f[m] \o g[i]
          BY <2>2, <4>1
        <4>5. uu[j] = tt[i + 1] /\ tt[i + 1] \in Seq(S)
          BY <1>1, <4>1
        <4>6. (f[m] \o g[i]) \o tt[i + 1] = f[m] \o (g[i] \o tt[i + 1])
          <5> HIDE DEF V, T
          <5> QED BY <2>0, <3>0, <4>3, <4>5 DEF V
        <4> QED BY <4>2, <4>3, <4>4, <4>5, <4>6 DEF j
      <3>2. i + 1 \in Nat
        OBVIOUS
      <3> QED BY <3>1, <3>2
    <2> HIDE DEF T
    <2>3. \A i \in Nat : i \in T
      BY <2>1, <2>2, EveryNumber
    <2> QED BY <2>3 DEF T
  <1>10. h[m + n] = f[m] \o g[n]
    <2>1. n <= n
      BY <1>1
    <2> QED BY <1>1, <1>9, <2>1
  <1>11. FlattenSeq(ss) = f[m] /\ FlattenSeq(tt) = g[n] /\ FlattenSeq(uu) = h[m + n]
    BY <1>5, <1>6, <1>7 DEF GrowsUp
  <1> QED BY <1>10, <1>11 DEF uu

\* Later lists end later.
LEMMA Ascending ==
  ASSUME NEW ss, NEW e, Laid(ss, e), Len(ss) \in Nat, \A i \in 1..Len(ss) : Len(ss[i]) \in Nat
  PROVE  \A i, k \in 0..Len(ss) : i <= k => e[i] <= e[k]
  <1> DEFINE n == Len(ss)
  <1>1. e \in [0..n -> Nat] /\ \A i \in 1..n : e[i] = e[i - 1] + Len(ss[i])
    BY DEF Laid
  <1> SUFFICES ASSUME NEW i \in 0..n PROVE \A k \in 0..n : i <= k => e[i] <= e[k]
    OBVIOUS
  <1> DEFINE T == {m \in Nat : i + m <= n => e[i] <= e[i + m]}
  <1>2. 0 \in T
    <2>1. i + 0 = i /\ e[i] \in Nat
      BY <1>1
    <2> QED BY <2>1
  <1>3. ASSUME NEW m \in Nat, m \in T PROVE m + 1 \in T
    <2>1. ASSUME i + (m + 1) <= n PROVE e[i] <= e[i + (m + 1)]
      <3> DEFINE b == i + (m + 1)
      <3>1. b \in 1..n /\ b - 1 = i + m /\ i + m <= n /\ i + m \in 0..n
        BY <2>1
      <3> HIDE DEF b
      <3>2. e[b] = e[b - 1] + Len(ss[b]) /\ Len(ss[b]) \in Nat
        BY <1>1, <3>1
      <3>3. e[i] <= e[i + m] /\ e[i] \in Nat /\ e[i + m] \in Nat
        BY <1>1, <1>3, <3>1
      <3>4. e[i] <= e[b]
        BY <3>1, <3>2, <3>3
      <3> QED BY <3>4 DEF b
    <2> QED BY <2>1
  <1> HIDE DEF T
  <1>4. \A m \in Nat : m \in T
    BY <1>2, <1>3, EveryNumber
  <1>5. ASSUME NEW k \in 0..n, i <= k PROVE e[i] <= e[k]
    <2> DEFINE m == k - i
    <2>1. m \in Nat /\ i + m = k /\ k <= n
      BY <1>5
    <2> HIDE DEF m
    <2>2. i + m <= n => e[i] <= e[i + m]
      BY <1>4, <2>1 DEF T
    <2> QED BY <2>1, <2>2
  <1> QED BY <1>5
=============================================================================
