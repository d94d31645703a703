-------------------------- MODULE SequentialProofs --------------------------
(* Theorems about the parts that run in one thread, for all values of      *)
(* their constants: the moving average over eight samples (Ma8Sum,         *)
(* Ma8Total), the PID loops (Pid), the builds of kodev (KoreCli), the      *)
(* configuration of Kore (KoreConfig), the checksums of messages (Crc) and *)
(* the conversions of texts and ints (Conversions), which with the loops   *)
(* and the checksums make up Numbers; and about Kore's allocator           *)
(* (KoreMemory), which threads share.                                      *)
EXTENDS Ma8Total, KoreCli, KoreMemory, Numbers, ListFacts, TLAPS

(* The buffer holds shorts and the cursor one of its slots, whatever calls *)
(* are made (test_dsp/main.c:213-242).                                     *)
THEOREM TypesHold == Spec => []TypeOK
<1>1. Init => TypeOK
  BY Ma8Assumption DEF Init, TypeOK, Slot
<1>2. TypeOK /\ [Next]_<<v, p, out>> => TypeOK'
  <2> SUFFICES ASSUME TypeOK, [Next]_<<v, p, out>> PROVE TypeOK'
    OBVIOUS
  <2>1. CASE MA8Circular_Reset
    BY <2>1, Ma8Assumption DEF TypeOK, MA8Circular_Reset, Slot
  <2>2. ASSUME NEW x \in Sample, MA8Circular(x) PROVE TypeOK'
    <3>1. x \in 0..(Short - 1)
      BY Ma8Assumption
    <3>2. v' \in [Slot -> 0..(Short - 1)] /\ p' \in Slot
      BY <2>2, <3>1 DEF TypeOK, MA8Circular, Advance, Slot
    <3>3. Total(v') \in Nat
      BY <3>2, Ma8Assumption DEF Total, Slot
    <3> DEFINE mean == Total(v') \div 8
    <3>4. mean \in Nat
      BY <3>3
    <3>5. mean % Short \in 0..(Short - 1)
      <4> HIDE DEF mean
      <4> QED BY <3>4, Ma8Assumption
    <3> QED BY <2>2, <3>2, <3>5 DEF TypeOK, MA8Circular
  <2>3. CASE UNCHANGED <<v, p, out>>
    BY <2>3 DEF TypeOK
  <2> QED BY <2>1, <2>2, <2>3 DEF Next
<1> QED BY <1>1, <1>2, PTL DEF Spec

(* Seen from the newest sample backwards, storing at the cursor and        *)
(* advancing it shifts the window by one (test_dsp/main.c:230-239).        *)
LEMMA WindowSlides ==
  ASSUME TypeOK, NEW x \in Sample, MA8Circular(x)
  PROVE  Newest' = Average!Shifted(Newest, x)
<1>1. /\ v' = [v EXCEPT ![p] = x]
      /\ p' = IF p < 7 THEN p + 1 ELSE 0
  BY DEF MA8Circular, Advance
<1>2. v \in [0..7 -> 0..(Short - 1)] /\ p \in 0..7
  BY DEF TypeOK, Slot
<1>3. ASSUME NEW i \in 1..8
      PROVE  v'[(p' - i) % 8] = IF i = 1 THEN x ELSE v[(p - (i - 1)) % 8]
  <2>1. (p' - i) % 8 = (p - (i - 1)) % 8
    BY <1>1, <1>2
  <2>2. (p - (i - 1)) % 8 = p <=> i = 1
    BY <1>2
  <2>3. (p - (i - 1)) % 8 \in 0..7
    BY <1>2
  <2> QED BY <1>1, <1>2, <2>1, <2>2, <2>3
<1>4. ASSUME NEW i \in 1..8, i # 1
      PROVE  Newest[i - 1] = v[(p - (i - 1)) % 8]
  BY <1>4 DEF Newest
<1> QED BY <1>3, <1>4 DEF Newest, Average!Shifted

(* The eight slots in the buffer's order and from the newest backwards add *)
(* up to the same (test_dsp/main.c:232-234).                               *)
LEMMA SameSum ==
  ASSUME v \in [Slot -> 0..(Short - 1)], p \in Slot
  PROVE  Total(v) = Average!Sum8(Newest)
<1>1. \A j \in 0..7 : v[j] \in Int
  BY Ma8Assumption DEF Slot
<1>2. \A i \in 1..8 : Newest[i] = v[IF i <= p THEN p - i ELSE p - i + 8]
  <2>1. \A i \in 1..8 : (p - i) % 8 = IF i <= p THEN p - i ELSE p - i + 8
    BY DEF Slot
  <2> QED BY <2>1 DEF Newest
<1>3. CASE p = 0
  <2>1. /\ Newest[1] = v[7] /\ Newest[2] = v[6] /\ Newest[3] = v[5] /\ Newest[4] = v[4]
        /\ Newest[5] = v[3] /\ Newest[6] = v[2] /\ Newest[7] = v[1] /\ Newest[8] = v[0]
    BY <1>2, <1>3
  <2> QED BY <1>1, <2>1 DEF Total, Average!Sum8
<1>4. CASE p = 1
  <2>1. /\ Newest[1] = v[0] /\ Newest[2] = v[7] /\ Newest[3] = v[6] /\ Newest[4] = v[5]
        /\ Newest[5] = v[4] /\ Newest[6] = v[3] /\ Newest[7] = v[2] /\ Newest[8] = v[1]
    BY <1>2, <1>4
  <2> QED BY <1>1, <2>1 DEF Total, Average!Sum8
<1>5. CASE p = 2
  <2>1. /\ Newest[1] = v[1] /\ Newest[2] = v[0] /\ Newest[3] = v[7] /\ Newest[4] = v[6]
        /\ Newest[5] = v[5] /\ Newest[6] = v[4] /\ Newest[7] = v[3] /\ Newest[8] = v[2]
    BY <1>2, <1>5
  <2> QED BY <1>1, <2>1 DEF Total, Average!Sum8
<1>6. CASE p = 3
  <2>1. /\ Newest[1] = v[2] /\ Newest[2] = v[1] /\ Newest[3] = v[0] /\ Newest[4] = v[7]
        /\ Newest[5] = v[6] /\ Newest[6] = v[5] /\ Newest[7] = v[4] /\ Newest[8] = v[3]
    BY <1>2, <1>6
  <2> QED BY <1>1, <2>1 DEF Total, Average!Sum8
<1>7. CASE p = 4
  <2>1. /\ Newest[1] = v[3] /\ Newest[2] = v[2] /\ Newest[3] = v[1] /\ Newest[4] = v[0]
        /\ Newest[5] = v[7] /\ Newest[6] = v[6] /\ Newest[7] = v[5] /\ Newest[8] = v[4]
    BY <1>2, <1>7
  <2> QED BY <1>1, <2>1 DEF Total, Average!Sum8
<1>8. CASE p = 5
  <2>1. /\ Newest[1] = v[4] /\ Newest[2] = v[3] /\ Newest[3] = v[2] /\ Newest[4] = v[1]
        /\ Newest[5] = v[0] /\ Newest[6] = v[7] /\ Newest[7] = v[6] /\ Newest[8] = v[5]
    BY <1>2, <1>8
  <2> QED BY <1>1, <2>1 DEF Total, Average!Sum8
<1>9. CASE p = 6
  <2>1. /\ Newest[1] = v[5] /\ Newest[2] = v[4] /\ Newest[3] = v[3] /\ Newest[4] = v[2]
        /\ Newest[5] = v[1] /\ Newest[6] = v[0] /\ Newest[7] = v[7] /\ Newest[8] = v[6]
    BY <1>2, <1>9
  <2> QED BY <1>1, <2>1 DEF Total, Average!Sum8
<1>10. CASE p = 7
  <2>1. /\ Newest[1] = v[6] /\ Newest[2] = v[5] /\ Newest[3] = v[4] /\ Newest[4] = v[3]
        /\ Newest[5] = v[2] /\ Newest[6] = v[1] /\ Newest[7] = v[0] /\ Newest[8] = v[7]
    BY <1>2, <1>10
  <2> QED BY <1>1, <2>1 DEF Total, Average!Sum8
<1> QED BY <1>3, <1>4, <1>5, <1>6, <1>7, <1>8, <1>9, <1>10 DEF Slot

(* Eight shorts add up to less than eight times the width, so the cast of  *)
(* the answer to a short loses nothing (test_dsp/main.c:241).              *)
LEMMA MeanIsShort ==
  ASSUME v \in [Slot -> 0..(Short - 1)]
  PROVE  (Total(v) \div 8) % Short = Total(v) \div 8
<1> DEFINE t == Total(v)
<1>1. t \in Nat /\ t <= 8 * (Short - 1)
  BY Ma8Assumption DEF Total, Slot
<1> HIDE DEF t
<1> DEFINE m == t \div 8
<1>2. m \in Nat /\ m < Short
  BY <1>1, Ma8Assumption
<1> HIDE DEF m
<1>3. m % Short = m
  BY <1>2, Ma8Assumption
<1> QED BY <1>3 DEF m, t

(* Every call of the filter answers the mean of the last eight samples,    *)
(* rounded down (test_dsp/main.c:226-242).                                 *)
THEOREM FilterAverages == Spec => AverageSpec
<1>1. Init => Average!Init
  <2> SUFFICES ASSUME Init PROVE Average!Init
    OBVIOUS
  <2>1. \A i \in 1..8 : v[(p - i) % 8] = 0
    BY DEF Init, Slot
  <2> QED BY <2>1 DEF Init, Average!Init, Newest
<1>2. TypeOK /\ TypeOK' /\ [Next]_<<v, p, out>>
        => [Average!Next]_<<Newest, out>>
  <2> SUFFICES ASSUME TypeOK, TypeOK', [Next]_<<v, p, out>>
               PROVE  [Average!Next]_<<Newest, out>>
    OBVIOUS
  <2>1. CASE MA8Circular_Reset
    <3>1. \A i \in 1..8 : v'[(p' - i) % 8] = 0
      BY <2>1 DEF MA8Circular_Reset, Slot
    <3>2. Average!Reset
      BY <2>1, <3>1 DEF MA8Circular_Reset, Average!Reset, Newest
    <3> QED BY <3>2 DEF Average!Next
  <2>2. ASSUME NEW x \in Sample, MA8Circular(x)
        PROVE  Average!Next
    <3>1. Newest' = Average!Shifted(Newest, x)
      BY <2>2, WindowSlides
    <3>2. Total(v') = Average!Sum8(Newest')
      <4>1. (v \in [Slot -> 0..(Short - 1)] /\ p \in Slot
               => Total(v) = Average!Sum8(Newest))'
        BY SameSum, PTL
      <4> QED BY <4>1 DEF TypeOK
    <3>3. (Total(v') \div 8) % Short = Total(v') \div 8
      <4>1. (v \in [Slot -> 0..(Short - 1)]
               => (Total(v) \div 8) % Short = Total(v) \div 8)'
        BY MeanIsShort, PTL
      <4> QED BY <4>1 DEF TypeOK
    <3>4. out' = Average!Sum8(Newest') \div 8
      BY <2>2, <3>2, <3>3 DEF MA8Circular
    <3> QED BY <3>1, <3>4 DEF Average!Next, Average!Filter
  <2>3. CASE UNCHANGED <<v, p, out>>
    BY <2>3 DEF Newest
  <2> QED BY <2>1, <2>2, <2>3 DEF Next
<1> QED BY <1>1, <1>2, TypesHold, PTL DEF Spec, AverageSpec, Average!Spec
-----------------------------------------------------------------------------
(* What TotalIsSum needs to be inductive: where the samples and the cursor *)
(* can be (test_struct_pointers/main.c:10-14).                             *)
Ma8Inv ==
  /\ v \in [Slot -> 0..(Short - 1)]
  /\ p \in Slot
  /\ out \in 0..(Short - 1)
  /\ total = Total(v)

(* Storing a sample changes the sum by the sample less the one it replaces *)
(* (test_struct_pointers/main.c:70-72).                                    *)
LEMMA SumOfReplaced ==
  ASSUME v \in [Slot -> 0..(Short - 1)], p \in Slot, NEW x \in 0..(Short - 1)
  PROVE  /\ Total([v EXCEPT ![p] = x])
              = Total(v) - v[p] + x
         /\ Total(v) >= v[p]
         /\ Total(v) \in 0..(8 * (Short - 1))
<1>1. \A j \in 0..7 : v[j] \in 0..(Short - 1)
  BY DEF Slot
<1> DEFINE w == [v EXCEPT ![p] = x]
<1>2. \A j \in 0..7 : w[j] = IF j = p THEN x ELSE v[j]
  BY DEF Slot
<1> HIDE DEF w
<1>3. p \in 0..7
  BY DEF Slot
<1>4. Total(w) = Total(v) - v[p] + x
  BY <1>1, <1>2, <1>3, Ma8Assumption, WordAssumption DEF Total
<1>5. Total(v) >= v[p]
  BY <1>1, <1>3, Ma8Assumption, WordAssumption DEF Total
<1>6. Total(v) \in 0..(8 * (Short - 1))
  BY <1>1, Ma8Assumption, WordAssumption DEF Total
<1> QED BY <1>4, <1>5, <1>6 DEF w

(* Neither the subtraction nor the addition wraps around: the total after  *)
(* a call is what it was, less the sample that leaves, plus the new one    *)
(* (test_struct_pointers/main.c:70-71).                                    *)
LEMMA NothingWraps ==
  ASSUME Ma8Inv, NEW x \in Sample, TotalCircular(x)
  PROVE  total' = Total(v')
<1>1. x \in 0..(Short - 1) /\ v[p] \in 0..(Short - 1)
  BY Ma8Assumption, WordAssumption DEF Ma8Inv
<1>2. /\ Total(v') = total - v[p] + x
      /\ total >= v[p]
      /\ total \in 0..(8 * (Short - 1))
  BY <1>1, SumOfReplaced DEF Ma8Inv, TotalCircular
<1> DEFINE less == total - v[p]
<1>3. less \in Nat /\ less < Word
  BY <1>1, <1>2, Ma8Assumption, WordAssumption
<1>4. less % Word = less
  <2> HIDE DEF less
  <2> QED BY <1>3, Ma8Assumption, WordAssumption
<1> DEFINE more == less + x
<1>5. more = Total(v')
  BY <1>1, <1>2
<1>6. v' \in [Slot -> 0..(Short - 1)]
  BY <1>1 DEF Ma8Inv, TotalCircular
<1>7. more \in Nat /\ more < Word
  <2>1. \A j \in 0..7 : v'[j] \in 0..(Short - 1)
    BY <1>6 DEF Slot
  <2>2. Total(v') \in 0..(8 * (Short - 1))
    BY <2>1, Ma8Assumption, WordAssumption DEF Total
  <2> QED BY <1>5, <2>2, Ma8Assumption, WordAssumption
<1>8. more % Word = more
  <2> HIDE DEF more
  <2> QED BY <1>7, Ma8Assumption, WordAssumption
<1>9. total' = more % Word
  BY <1>4 DEF TotalCircular, Leaving
<1> QED BY <1>5, <1>8, <1>9

(* The cast of the answer gives a short (test_struct_pointers/main.c:79).  *)
LEMMA AnswerIsShort ==
  ASSUME NEW t \in Nat
  PROVE  (t \div 8) % Short \in 0..(Short - 1)
<1> DEFINE mean == t \div 8
<1>1. mean \in Nat
  OBVIOUS
<1> HIDE DEF mean
<1>2. mean % Short \in 0..(Short - 1)
  BY <1>1, Ma8Assumption, WordAssumption
<1> QED BY <1>2 DEF mean

LEMMA InitHolds == TotalInit => Ma8Inv
BY Ma8Assumption DEF TotalInit, Init, Ma8Inv, Slot, Total

LEMMA StepHolds == Ma8Inv /\ [TotalNext]_vars => Ma8Inv'
<1> SUFFICES ASSUME Ma8Inv, [TotalNext]_vars PROVE Ma8Inv'
  OBVIOUS
<1>1. CASE TotalReset
  BY <1>1, Ma8Assumption DEF Ma8Inv, TotalReset, ClearTotal, Slot, Total
<1>2. ASSUME NEW x \in Sample, TotalCircular(x) PROVE Ma8Inv'
  <2>1. total' = Total(v')
    BY <1>2, NothingWraps
  <2>2. v' \in [Slot -> 0..(Short - 1)] /\ p' \in Slot
    <3>1. x \in 0..(Short - 1)
      BY Ma8Assumption
    <3>2. v' \in [Slot -> 0..(Short - 1)]
      BY <1>2, <3>1 DEF Ma8Inv, TotalCircular
    <3>3. p' = (IF p < 7 THEN p + 1 ELSE 0) /\ p \in 0..7
      BY <1>2 DEF Ma8Inv, TotalCircular, Advance, Slot
    <3>4. p' \in Slot
      BY <3>3 DEF Slot
    <3> QED BY <3>2, <3>4
  <2>3. total' \in Nat
    <3>1. \A j \in 0..7 : v'[j] \in Nat
      BY <2>2, Ma8Assumption DEF Slot
    <3> QED BY <2>1, <3>1 DEF Total
  <2>4. (total' \div 8) % Short \in 0..(Short - 1)
    BY <2>3, AnswerIsShort
  <2> QED BY <1>2, <2>1, <2>2, <2>4 DEF Ma8Inv, TotalCircular
<1>3. CASE UNCHANGED vars
  BY <1>3 DEF Ma8Inv, vars, Total
<1> QED BY <1>1, <1>2, <1>3 DEF TotalNext

(* The total is the sum of the samples in the buffer in every reachable    *)
(* state, so no call subtracts below zero (test_struct_pointers/main.c:70).*)
THEOREM TotalStaysSum == TotalSpec => []TotalIsSum
<1>1. Ma8Inv => TotalIsSum
  <2> SUFFICES ASSUME Ma8Inv PROVE TotalIsSum
    OBVIOUS
  <2>1. v[p] \in 0..(Short - 1)
    BY DEF Ma8Inv
  <2> QED BY <2>1, SumOfReplaced DEF Ma8Inv, TotalIsSum
<1> QED BY <1>1, InitHolds, StepHolds, PTL DEF TotalSpec

(* The filter with the running total answers, call by call, what the one   *)
(* that adds the eight samples up does (test_struct_pointers/main.c:68-80, *)
(* test_dsp/main.c:226-242).                                               *)
THEOREM SameAsRecomputed == TotalSpec => RecomputedSpec
<1>1. TotalInit => Init
  BY DEF TotalInit
<1>2. Ma8Inv /\ [TotalNext]_vars => [Next]_<<v, p, out>>
  <2> SUFFICES ASSUME Ma8Inv, [TotalNext]_vars PROVE [Next]_<<v, p, out>>
    OBVIOUS
  <2>1. CASE TotalReset
    BY <2>1 DEF TotalReset, Next, MA8Circular_Reset
  <2>2. ASSUME NEW x \in Sample, TotalCircular(x) PROVE Next
    <3>1. total' = Total(v')
      BY <2>2, NothingWraps
    <3>2. MA8Circular(x)
      BY <2>2, <3>1 DEF TotalCircular, MA8Circular
    <3> QED BY <3>2 DEF Next
  <2>3. CASE UNCHANGED vars
    BY <2>3 DEF vars
  <2> QED BY <2>1, <2>2, <2>3 DEF TotalNext
<1> QED BY <1>1, <1>2, InitHolds, StepHolds, PTL
        DEF TotalSpec, RecomputedSpec, Spec

(* So it answers the mean of the last eight samples as well                *)
(* (test_struct_pointers/main.c:68-80).                                    *)
THEOREM TotalAverages == TotalSpec => AverageSpec
BY SameAsRecomputed, FilterAverages DEF RecomputedSpec
-----------------------------------------------------------------------------
\* Division and remainder by a positive number.
LEMMA Divided ==
  ASSUME NEW d \in Nat \ {0}, NEW a \in Nat
  PROVE  /\ a \div d \in Nat
         /\ a < d => a \div d = 0
         /\ a >= d => a \div d > 0
         /\ a \div d <= a
  <1> DEFINE q == a \div d
             r == a % d
  <1>1. q \in Int /\ r \in 0..(d - 1) /\ a = d * q + r
    OBVIOUS
  <1> HIDE DEF q, r
  <1>2. q >= 0
    <2>1. SUFFICES ASSUME q <= -1 PROVE FALSE
      BY <1>1
    <2>2. d * q <= -d
      BY <1>1, <2>1
    <2> QED BY <1>1, <2>2
  <1>3. a < d => q = 0
    <2>1. SUFFICES ASSUME a < d, q >= 1 PROVE FALSE
      BY <1>1, <1>2
    <2>2. d * q >= d
      BY <1>1, <2>1
    <2> QED BY <1>1, <2>1, <2>2
  <1>4. a >= d => q > 0
    <2>1. SUFFICES ASSUME a >= d, q = 0 PROVE FALSE
      BY <1>1, <1>2
    <2> QED BY <1>1, <2>1
  <1>5. q <= a
    <2>1. d * q >= q
      BY <1>1, <1>2
    <2> QED BY <1>1, <2>1
  <1> QED BY <1>1, <1>2, <1>3, <1>4, <1>5 DEF q

\* A short is unchanged by the conversion to short, and moved by anything
\* that is not a whole turn.
LEMMA ShortSame ==
  ASSUME Loops!PidAssumption, NEW x \in -Half..(Half - 1)
  PROVE  Loops!ToShort(x) = x
  <1> DEFINE m == 2 * Half
             y == x + Half
  <1>1. m \in Nat \ {0} /\ y \in 0..(m - 1)
    BY DEF Loops!PidAssumption
  <1> HIDE DEF m, y
  <1>2. y % m = y
    BY <1>1
  <1> QED BY <1>2 DEF Loops!ToShort, Loops!PidAssumption, m, y

LEMMA ShortIsShort ==
  ASSUME Loops!PidAssumption, NEW x \in Int
  PROVE  Loops!ToShort(x) \in -Half..(Half - 1)
  <1> DEFINE m == 2 * Half
             y == x + Half
  <1>1. m \in Nat \ {0} /\ y \in Int
    BY DEF Loops!PidAssumption
  <1> HIDE DEF m, y
  <1>2. y % m \in 0..(m - 1)
    BY <1>1
  <1> QED BY <1>2 DEF Loops!ToShort, Loops!PidAssumption, m, y

LEMMA ShortMoves ==
  ASSUME Loops!PidAssumption, NEW x \in -Half..(Half - 1), NEW term \in Int,
         term # 0, term < 2 * Half, term > -2 * Half
  PROVE  Loops!ToShort(x + term) # x
  <1> DEFINE m == 2 * Half
             y == x + Half
             z == y + term
  <1>1. m \in Nat \ {0} /\ y \in 0..(m - 1) /\ z \in Int
    BY DEF Loops!PidAssumption
  <1>2. Loops!ToShort(x + term) = (z % m) - Half
    BY DEF Loops!ToShort, Loops!PidAssumption
  <1>3. term # 0 /\ term < m /\ term > -m /\ z = y + term
    BY DEF Loops!PidAssumption
  <1> HIDE DEF m, y, z
  <1>4. z % m # y
    <2> DEFINE q == z \div m
               r == z % m
    <2>1. q \in Int /\ r \in 0..(m - 1) /\ z = m * q + r
      BY <1>1
    <2> HIDE DEF q, r
    <2>2. SUFFICES ASSUME r = y PROVE FALSE
      BY DEF r
    <2>3. term = m * q
      BY <1>1, <1>3, <2>1, <2>2
    <2>4. CASE q = 0
      BY <1>1, <1>3, <2>3, <2>4
    <2>5. CASE q >= 1
      <3>1. m * q >= m
        BY <1>1, <2>1, <2>5
      <3> QED BY <1>1, <1>3, <2>3, <3>1
    <2>6. CASE q <= -1
      <3>1. m * q <= -m
        BY <1>1, <2>1, <2>6
      <3> QED BY <1>1, <1>3, <2>3, <3>1
    <2> QED BY <2>1, <2>4, <2>5, <2>6
  <1> QED BY <1>1, <1>2, <1>4, x \in Int DEF y, Loops!PidAssumption

\* What is cut off is less than the divider, and the sign stays.
LEMMA Parts ==
  ASSUME Loops!PidAssumption, NEW a \in Int
  PROVE  /\ Loops!Part(a) \in Int
         /\ Loops!Abs(a) < Divider => Loops!Part(a) = 0
         /\ Loops!Abs(a) >= Divider => Loops!Part(a) # 0
         /\ Loops!Abs(Loops!Part(a)) <= Loops!Abs(a)
  <1> DEFINE b == Loops!Abs(a)
             q == b \div Divider
  <1>1. b \in Nat /\ Divider \in Nat \ {0}
    BY DEF Loops!Abs, Loops!PidAssumption
  <1> HIDE DEF b
  <1>2. /\ q \in Nat
        /\ b < Divider => q = 0
        /\ b >= Divider => q > 0
        /\ q <= b
    BY <1>1, Divided
  <1>3. Loops!Part(a) = Loops!Sign(a) * q
    BY DEF Loops!Part, b
  <1> HIDE DEF q
  <1>4. CASE a = 0
    <2>1. Loops!Part(a) = 0 /\ b = 0
      BY <1>2, <1>3, <1>4 DEF Loops!Sign, b, Loops!Abs
    <2> QED BY <1>1, <2>1 DEF Loops!Abs, b
  <1>5. CASE a > 0
    <2>1. Loops!Part(a) = q
      BY <1>2, <1>3, <1>5 DEF Loops!Sign
    <2> QED BY <1>1, <1>2, <2>1 DEF Loops!Abs, b
  <1>6. CASE a < 0
    <2>1. Loops!Part(a) = -q
      BY <1>2, <1>3, <1>6 DEF Loops!Sign
    <2> QED BY <1>1, <1>2, <2>1 DEF Loops!Abs, b
  <1> QED BY <1>4, <1>5, <1>6

LEMMA PartOfZero == ASSUME Loops!PidAssumption PROVE Loops!Part(0) = 0
  BY Parts DEF Loops!PidAssumption, Loops!Abs

LEMMA ShortTwice ==
  ASSUME Loops!PidAssumption, NEW x \in Int
  PROVE  Loops!ToShort(Loops!ToShort(x)) = Loops!ToShort(x)
  BY ShortIsShort, ShortSame
-----------------------------------------------------------------------------
Shorts == -Half..(Half - 1)

\* What the objects hold, and what the loops have in common.
Types ==
  /\ gain \in Gains
  /\ pid \in [last_d : Shorts, error_z1 : Shorts, error_z2 : Shorts]
  /\ small \in [last_d : Shorts, ki_accumulator : -(Divider - 1)..(Divider - 1),
                error_z1 : Shorts, error_z2 : Shorts]
  /\ small.error_z1 = pid.error_z1 /\ small.error_z2 = pid.error_z2
  /\ held \in Int

\* Nothing is accumulated without an integral gain.
NothingKept == gain.ki = 0 => small.ki_accumulator = 0

\* The conjunct of SmallErrorsCount that the types do not give.
AllKept == Loops!Integrates /\ Loops!Fits => small.ki_accumulator = held

PidInv == Types /\ NothingKept /\ AllKept /\ Loops!Proportional

LEMMA Gained ==
  ASSUME Loops!PidAssumption, Types
  PROVE  /\ Half \in Nat \ {0} /\ Divider \in 1..Half
         /\ gain.kp \in 0..(2 * Half - 1)
         /\ gain.ki \in 0..(2 * Half - 1)
         /\ gain.kd \in 0..(2 * Half - 1)
  BY DEF Loops!PidAssumption, Types

LEMMA UShortIsNat ==
  ASSUME Loops!PidAssumption, NEW x \in Int
  PROVE  Loops!ToUShort(x) \in Nat
  <1> DEFINE m == 2 * Half
  <1>1. m \in Nat \ {0}
    BY DEF Loops!PidAssumption
  <1> HIDE DEF m
  <1>2. x % m \in 0..(m - 1)
    BY <1>1
  <1> QED BY <1>1, <1>2 DEF Loops!ToUShort, m

LEMMA UShortSame ==
  ASSUME Loops!PidAssumption, NEW x \in 0..(2 * Half - 1)
  PROVE  Loops!ToUShort(x) = x
  <1> DEFINE m == 2 * Half
  <1>1. m \in Nat \ {0} /\ x \in 0..(m - 1)
    BY DEF Loops!PidAssumption
  <1> HIDE DEF m
  <1>2. x % m = x
    BY <1>1
  <1> QED BY <1>2 DEF Loops!ToUShort, m

LEMMA Factors ==
  ASSUME Loops!PidAssumption, Types
  PROVE  Loops!K1 \in Nat /\ Loops!K2 \in Nat /\ Loops!K3 \in Nat /\ Loops!ToUShort(gain.kp + gain.kd) \in Nat
  BY Gained, UShortIsNat DEF Loops!K1, Loops!K2, Loops!K3

\* Every term is an integer and every output a short.
LEMMA Outputs ==
  ASSUME Loops!PidAssumption, Types, NEW e \in Shorts
  PROVE  /\ e \in Int
         /\ Loops!Older(pid) \in Int /\ Loops!Older(small) \in Int
         /\ Loops!Integral(e) \in Shorts /\ Loops!SmallAcc(e) \in Int
         /\ Loops!Output(e) \in Shorts /\ Loops!SmallOutput(e) \in Shorts
  <1>1. /\ e \in Int /\ pid.error_z1 \in Int /\ pid.error_z2 \in Int /\ pid.last_d \in Int
        /\ small.error_z1 \in Int /\ small.error_z2 \in Int /\ small.last_d \in Int
        /\ small.ki_accumulator \in Int /\ gain.ki \in Int
    BY Gained DEF Types, Shorts
  <1>2. \A a \in Int : Loops!Part(a) \in Int /\ Loops!ToShort(a) \in Int /\ Loops!ToShort(a) \in Shorts
    BY Parts, ShortIsShort, Gained DEF Shorts
  <1>3. Loops!Older(pid) \in Int /\ Loops!Older(small) \in Int
    <2>1. /\ Loops!K2 * pid.error_z1 \in Int /\ Loops!K3 * pid.error_z2 \in Int
          /\ Loops!K2 * small.error_z1 \in Int /\ Loops!K3 * small.error_z2 \in Int
      BY <1>1, Factors
    <2> QED BY <1>2, <2>1 DEF Loops!Older
  <1>4. Loops!Integral(e) \in Shorts /\ Loops!Integral(e) \in Int
    <2>1. gain.ki * e \in Int
      BY <1>1
    <2> QED BY <1>1, <1>2, <2>1 DEF Loops!Integral
  <1>5. Loops!SmallAcc(e) \in Int /\ Loops!K1 * e \in Int
    BY <1>1, <1>4, Factors DEF Loops!SmallAcc
  <1>6. Loops!Output(e) \in Shorts
    BY <1>1, <1>2, <1>3, <1>5 DEF Loops!Output
  <1>7. Loops!SmallOutput(e) \in Shorts
    BY <1>1, <1>2, <1>3, <1>5 DEF Loops!SmallOutput
  <1> QED BY <1>1, <1>3, <1>4, <1>5, <1>6, <1>7

LEMMA KeptIsSmall ==
  ASSUME Loops!PidAssumption, NEW a \in Int
  PROVE  Loops!Kept(a) \in -(Divider - 1)..(Divider - 1)
  BY DEF Loops!Kept, Loops!PidAssumption

LEMMA TypesInit == ASSUME Loops!PidAssumption, Loops!Init PROVE Types
  BY DEF Loops!Init, Types, Loops!Flushed, Loops!SmallFlushed, Shorts, Loops!PidAssumption

LEMMA TypesFlush == ASSUME Loops!PidAssumption, Types, Loops!PID_Flush_Errors PROVE Types'
  BY DEF Loops!PID_Flush_Errors, Types, Loops!Flushed, Loops!SmallFlushed, Shorts, Loops!PidAssumption

LEMMA TypesCall ==
  ASSUME Loops!PidAssumption, Types, NEW e \in Errors, Loops!Call(e)
  PROVE  Types'
  <1>1. e \in Shorts
    BY DEF Loops!PidAssumption, Shorts
  <1>2. /\ Loops!Output(e) \in Shorts /\ Loops!SmallOutput(e) \in Shorts
        /\ Loops!Kept(Loops!Integral(e)) \in -(Divider - 1)..(Divider - 1)
    BY <1>1, Outputs, KeptIsSmall, Gained DEF Shorts
  <1>3. pid' \in [last_d : Shorts, error_z1 : Shorts, error_z2 : Shorts]
    BY <1>1, <1>2 DEF Loops!Call, Loops!PID, Types
  <1>4. small' \in [last_d : Shorts, ki_accumulator : -(Divider - 1)..(Divider - 1),
                     error_z1 : Shorts, error_z2 : Shorts]
    BY <1>1, <1>2 DEF Loops!Call, Loops!PID_Small_Ki, Types
  <1>5. small'.error_z1 = pid'.error_z1 /\ small'.error_z2 = pid'.error_z2
    BY DEF Loops!Call, Loops!PID, Loops!PID_Small_Ki, Types
  <1>6. held' \in Int
    <2>1. gain.ki * e \in Int
      BY <1>1, Gained DEF Shorts
    <2> QED BY <2>1 DEF Loops!Call, Types
  <1>7. gain' \in Gains
    BY DEF Loops!Call, Types
  <1> QED BY <1>3, <1>4, <1>5, <1>6, <1>7 DEF Types

\* Without an error nothing is added: what is left in the accumulator is too
\* small for a part of it.
LEMMA Still ==
  ASSUME Loops!PidAssumption, Types
  PROVE  Loops!HoldsAtZero
  <1>1. SUFFICES ASSUME pid.error_z1 = 0, pid.error_z2 = 0
                 PROVE  Loops!Output(0) = pid.last_d /\ Loops!SmallOutput(0) = small.last_d
    BY DEF Loops!HoldsAtZero
  <1>2. Loops!ToShort(0) = 0 /\ Loops!Part(0) = 0
    BY ShortSame, PartOfZero, Gained
  <1>3. /\ pid.last_d \in Int /\ small.last_d \in Int
        /\ Loops!ToShort(pid.last_d) = pid.last_d /\ Loops!ToShort(small.last_d) = small.last_d
    BY ShortSame, Gained DEF Types, Shorts
  <1>4. Loops!Older(pid) = 0 /\ Loops!Older(small) = 0
    <2>1. Loops!K2 * 0 = 0 /\ Loops!K3 * 0 = 0
      BY Factors
    <2>2. small.error_z1 = 0 /\ small.error_z2 = 0
      BY <1>1 DEF Types
    <2> QED BY <1>1, <1>2, <2>1, <2>2 DEF Loops!Older
  <1>5. Loops!Output(0) = pid.last_d
    <2>1. Loops!K1 * 0 = 0
      BY Factors
    <2> QED BY <1>2, <1>3, <1>4, <2>1 DEF Loops!Output
  <1>6. Loops!SmallOutput(0) = small.last_d
    <2>1. gain.ki * 0 = 0 /\ Loops!ToUShort(gain.kp + gain.kd) * 0 = 0
      BY Gained, Factors
    <2>2. Loops!Integral(0) = small.ki_accumulator
      BY <2>1, ShortSame, Gained DEF Loops!Integral, Types
    <2>3. Loops!SmallAcc(0) = small.ki_accumulator
      BY <2>1, <2>2 DEF Loops!SmallAcc, Types
    <2>4. Loops!Part(Loops!SmallAcc(0)) = 0
      BY <2>3, Parts, Gained DEF Types, Loops!Abs
    <2> QED BY <1>2, <1>3, <1>4, <2>4 DEF Loops!SmallOutput
  <1> QED BY <1>5, <1>6

LEMMA NothingKeptCall ==
  ASSUME Loops!PidAssumption, Types, NothingKept, NEW e \in Errors, Loops!Call(e)
  PROVE  NothingKept' /\ (gain.ki = 0 => Loops!Integral(e) = 0)
  <1>1. SUFFICES ASSUME gain.ki = 0
                 PROVE  Loops!Integral(e) = 0 /\ small'.ki_accumulator = 0
    BY DEF NothingKept, Loops!Call
  <1>2. e \in Int
    BY DEF Loops!PidAssumption
  <1>3. Loops!Integral(e) = 0
    <2>1. gain.ki * e = 0 /\ small.ki_accumulator = 0
      BY <1>1, <1>2 DEF NothingKept
    <2> QED BY <2>1, ShortSame, Gained DEF Loops!Integral
  <1>4. Loops!Kept(0) = 0
    BY Gained DEF Loops!Kept
  <1> QED BY <1>3, <1>4 DEF Loops!Call, Loops!PID_Small_Ki

\* The term of the error before takes away what the output was.
LEMMA ProportionalCall ==
  ASSUME Loops!PidAssumption, Types, NothingKept, Loops!Proportional, NEW e \in Errors, Loops!Call(e)
  PROVE  Loops!Proportional'
  <1>1. SUFFICES ASSUME gain.ki = 0, gain.kd = 0
                 PROVE  /\ pid'.last_d = Loops!ToShort(Loops!Part(gain.kp * pid'.error_z1))
                        /\ small'.last_d = pid'.last_d
    BY DEF Loops!Proportional, Loops!Call
  <1>2. /\ pid'.last_d = Loops!Output(e) /\ pid'.error_z1 = e
        /\ small'.last_d = Loops!SmallOutput(e)
    BY DEF Loops!Call, Loops!PID, Loops!PID_Small_Ki
  <1>3. Loops!K1 = gain.kp /\ Loops!K2 = gain.kp /\ Loops!K3 = 0 /\ Loops!ToUShort(gain.kp + gain.kd) = gain.kp
    BY <1>1, Gained, UShortSame DEF Loops!K1, Loops!K2, Loops!K3
  <1>4. e \in Shorts /\ e \in Int
    BY DEF Loops!PidAssumption, Shorts
  <1>5. Loops!ToShort(0) = 0 /\ Loops!Part(0) = 0
    BY ShortSame, PartOfZero, Gained
  <1>6. Loops!Older(pid) = pid.last_d /\ Loops!Older(small) = pid.last_d
    <2>1. pid.error_z2 \in Int /\ pid.last_d \in Int
      BY Gained DEF Types, Shorts
    <2>2. Loops!K3 * pid.error_z2 = 0
      BY <1>3, <2>1
    <2>3. Loops!ToShort(Loops!Part(Loops!K2 * pid.error_z1)) = pid.last_d
      BY <1>1, <1>3 DEF Loops!Proportional
    <2> QED BY <1>5, <2>1, <2>2, <2>3 DEF Loops!Older, Types
  <1> DEFINE t == Loops!ToShort(Loops!Part(gain.kp * e))
  <1>7. t \in Int /\ Loops!ToShort(t) = t
    <2>1. gain.kp * e \in Int
      BY <1>4, Gained
    <2>2. Loops!Part(gain.kp * e) \in Int
      BY <2>1, Parts
    <2> QED BY <2>2, ShortTwice, ShortIsShort, Gained
  <1>8. Loops!SmallAcc(e) = gain.kp * e
    <2>1. Loops!Integral(e) = 0 /\ gain.kp * e \in Int
      BY <1>1, <1>4, Gained, NothingKeptCall
    <2> QED BY <1>3, <2>1 DEF Loops!SmallAcc
  <1>9. pid.last_d \in Int /\ small.last_d = pid.last_d
    BY <1>1, Gained DEF Types, Shorts, Loops!Proportional
  <1>10. Loops!Output(e) = Loops!ToShort(pid.last_d + t - pid.last_d)
    BY <1>3, <1>6 DEF Loops!Output
  <1>11. Loops!SmallOutput(e) = Loops!ToShort(pid.last_d + t - pid.last_d)
    BY <1>6, <1>8, <1>9 DEF Loops!SmallOutput
  <1> HIDE DEF t
  <1>12. pid.last_d + t - pid.last_d = t
    BY <1>7, <1>9
  <1> QED BY <1>2, <1>7, <1>10, <1>11, <1>12 DEF t

\* Either the sum is too small for a part, and is kept, or the output moves
\* and nothing is.
LEMMA AllKeptCall ==
  ASSUME Loops!PidAssumption, Types, AllKept, NEW e \in Errors, Loops!Call(e)
  PROVE  AllKept'
  <1>1. SUFFICES ASSUME Loops!Integrates, Loops!Fits
                 PROVE  small'.ki_accumulator = held'
    BY DEF AllKept, Loops!Integrates, Loops!Fits, Loops!Call
  <1> DEFINE a == small.ki_accumulator + gain.ki * e
             x == small.last_d
             term == Loops!Part(a)
  <1>2. e \in Int /\ gain.ki * e \in Int
    BY Gained DEF Loops!PidAssumption
  <1>3. a \in Int /\ Loops!Abs(a) < Half /\ a = held + gain.ki * e
    <2>1. Loops!Abs(gain.ki * e) + Divider <= Half
      BY <1>1 DEF Loops!Fits
    <2>2. small.ki_accumulator \in -(Divider - 1)..(Divider - 1) /\ Divider \in 1..Half
      BY Gained DEF Types
    <2>3. small.ki_accumulator = held
      BY <1>1 DEF AllKept
    <2> DEFINE g == gain.ki * e
    <2> HIDE DEF g
    <2>4. g \in Int /\ Loops!Abs(g) + Divider <= Half /\ a = small.ki_accumulator + g
      BY <1>2, <2>1 DEF g
    <2> QED BY <2>2, <2>3, <2>4, Gained DEF Loops!Abs, g
  <1> HIDE DEF a
  <1>4. Loops!Integral(e) = a
    <2>1. a \in -Half..(Half - 1)
      BY <1>3, Gained DEF Loops!Abs
    <2> QED BY <2>1, ShortSame DEF Loops!Integral, a
  <1>5. Loops!SmallAcc(e) = a
    <2>1. Loops!ToUShort(gain.kp + gain.kd) = 0
      BY <1>1, Gained, UShortSame DEF Loops!Integrates
    <2> QED BY <1>2, <1>3, <1>4, <2>1 DEF Loops!SmallAcc
  <1>6. Loops!Older(small) = 0
    <2>1. Loops!K2 = 0 /\ Loops!K3 = 0
      BY <1>1, Gained, UShortSame DEF Loops!Integrates, Loops!K2, Loops!K3
    <2>2. small.error_z1 \in Int /\ small.error_z2 \in Int
      BY Gained DEF Types, Shorts
    <2>3. Loops!K2 * small.error_z1 = 0 /\ Loops!K3 * small.error_z2 = 0
      BY <2>1, <2>2
    <2>4. Loops!ToShort(0) = 0 /\ Loops!Part(0) = 0
      BY ShortSame, PartOfZero, Gained
    <2> QED BY <2>3, <2>4 DEF Loops!Older
  <1>7. /\ term \in Int /\ Loops!Abs(term) < Half
        /\ Loops!Abs(a) < Divider => term = 0
        /\ Loops!Abs(a) >= Divider => term # 0
    BY <1>3, Parts, Gained DEF Loops!Abs
  <1> HIDE DEF term
  <1>8. x \in -Half..(Half - 1)
    BY DEF Types, Shorts
  <1>9. Loops!SmallOutput(e) = Loops!ToShort(x + term)
    <2>1. Loops!ToShort(term) = term
      BY <1>7, ShortSame, Gained DEF Loops!Abs
    <2>2. Loops!SmallOutput(e) = Loops!ToShort(x + term - 0)
      BY <1>5, <1>6, <2>1 DEF Loops!SmallOutput, term
    <2>3. x + term - 0 = x + term
      BY <1>7, <1>8, Gained
    <2> QED BY <2>2, <2>3
  <1> HIDE DEF x
  <1>10. /\ small'.last_d = Loops!ToShort(x + term) /\ small'.ki_accumulator = Loops!Kept(a)
         /\ held' = IF small'.last_d = x THEN a ELSE 0
    BY <1>3, <1>4, <1>9 DEF Loops!Call, Loops!PID_Small_Ki, x
  <1>11. CASE Loops!Abs(a) < Divider
    <2>1. Loops!ToShort(x + term) = x
      BY <1>7, <1>8, <1>11, ShortSame, Gained
    <2>2. Loops!Kept(a) = a
      BY <1>3, <1>11, Gained DEF Loops!Kept, Loops!Abs
    <2> QED BY <1>10, <2>1, <2>2
  <1>12. CASE Loops!Abs(a) >= Divider
    <2>1. Loops!ToShort(x + term) # x
      <3>1. term \in Int /\ term # 0 /\ term < 2 * Half /\ term > -2 * Half
        BY <1>7, <1>12, Gained DEF Loops!Abs
      <3> QED BY <1>8, <3>1, ShortMoves
    <2>2. Loops!Kept(a) = 0
      BY <1>3, <1>12, Gained DEF Loops!Kept, Loops!Abs
    <2> QED BY <1>10, <2>1, <2>2
  <1>13. Loops!Abs(a) \in Int
    BY <1>3 DEF Loops!Abs
  <1> QED BY <1>11, <1>12, <1>13, Gained
-----------------------------------------------------------------------------
LEMMA InitPid == ASSUME Loops!PidAssumption, Loops!Init PROVE PidInv
  <1>1. Loops!ToShort(Loops!Part(0)) = 0
    BY ShortSame, PartOfZero, Gained, TypesInit
  <1>2. NothingKept /\ AllKept
    BY DEF Loops!Init, Loops!Flushed, Loops!SmallFlushed, NothingKept, AllKept
  <1>3. gain.kp * 0 = 0
    BY Gained, TypesInit
  <1>4. Loops!Proportional
    BY <1>1, <1>3 DEF Loops!Init, Loops!Flushed, Loops!SmallFlushed, Loops!Proportional
  <1> QED BY <1>2, <1>4, TypesInit DEF PidInv

LEMMA NextPid == ASSUME Loops!PidAssumption, PidInv, [Loops!Next]_(Loops!vars) PROVE PidInv'
  <1> USE DEF PidInv
  <1>1. CASE Loops!PID_Flush_Errors
    <2>1. Loops!ToShort(Loops!Part(0)) = 0 /\ gain.kp * 0 = 0
      BY ShortSame, PartOfZero, Gained
    <2>2. (NothingKept /\ AllKept)'
      BY <1>1 DEF Loops!PID_Flush_Errors, Loops!SmallFlushed, NothingKept, AllKept
    <2>3. Loops!Proportional'
      BY <1>1, <2>1 DEF Loops!PID_Flush_Errors, Loops!Flushed, Loops!SmallFlushed, Loops!Proportional
    <2> QED BY <1>1, <2>2, <2>3, TypesFlush
  <1>2. CASE \E e \in Errors : Loops!Call(e)
    <2>1. PICK e \in Errors : Loops!Call(e)
      BY <1>2
    <2> QED BY <2>1, TypesCall, NothingKeptCall, ProportionalCall, AllKeptCall
  <1>3. CASE UNCHANGED Loops!vars
    BY <1>3 DEF Loops!vars, Types, NothingKept, AllKept, Loops!Integrates, Loops!Fits, Loops!Proportional,
                Loops!ToShort, Loops!Part, Loops!Abs, Loops!Sign
  <1> QED BY <1>1, <1>2, <1>3 DEF Loops!Next

LEMMA PidInvHolds == ASSUME Loops!PidAssumption PROVE Loops!Spec => []PidInv
  <1>1. Loops!Init => PidInv
    BY InitPid
  <1>2. PidInv /\ [Loops!Next]_(Loops!vars) => PidInv'
    BY NextPid
  <1> QED BY <1>1, <1>2, PTL DEF Loops!Spec

(* With no error for three calls neither loop's output moves, whatever the *)
(* gains and widths are and whatever happened before (PID, PID_Small_Ki).  *)
THEOREM OutputHoldsAtZero == ASSUME Loops!PidAssumption PROVE Loops!Spec => []Loops!HoldsAtZero
  <1>1. PidInv => Loops!HoldsAtZero
    BY Still DEF PidInv
  <1> QED BY <1>1, PidInvHolds, PTL

(* With a proportional gain alone both outputs are those of the last error *)
(* only, through any number of turns of the shorts.                        *)
THEOREM LastErrorOnly == ASSUME Loops!PidAssumption PROVE Loops!Spec => []Loops!Proportional
  <1>1. PidInv => Loops!Proportional
    BY DEF PidInv
  <1> QED BY <1>1, PidInvHolds, PTL

(* PID_Small_Ki keeps every error that is too small for its output until   *)
(* it moves, and it moves before the sum of them is a whole part.          *)
THEOREM SmallErrorsAreKept == ASSUME Loops!PidAssumption PROVE Loops!Spec => []Loops!SmallErrorsCount
  <1>1. PidInv => Loops!SmallErrorsCount
    <2>1. SUFFICES ASSUME PidInv, Loops!Integrates, Loops!Fits
                   PROVE  small.ki_accumulator = held /\ Loops!Abs(held) < Divider
      BY DEF Loops!SmallErrorsCount
    <2>2. small.ki_accumulator = held
      BY <2>1 DEF PidInv, AllKept
    <2>3. held \in -(Divider - 1)..(Divider - 1)
      BY <2>1, <2>2 DEF PidInv, Types
    <2> QED BY <2>1, <2>2, <2>3, Gained DEF Loops!Abs, PidInv
  <1> QED BY <1>1, PidInvHolds, PTL
-----------------------------------------------------------------------------
LEMMA Quotient ==
  ASSUME NEW d \in Nat \ {0}, NEW a \in Nat
  PROVE  a \div d \in Nat /\ d * (a \div d) <= a /\ a < d * (a \div d) + d
  <1> DEFINE q == a \div d
             r == a % d
  <1>1. q \in Int /\ r \in 0..(d - 1) /\ a = d * q + r
    OBVIOUS
  <1>2. q \in Nat
    BY Divided
  <1> HIDE DEF q, r
  <1>3. d * q \in Int
    BY <1>1
  <1> QED BY <1>1, <1>2, <1>3 DEF q

\* The only quotient between these.
LEMMA QuotientIs ==
  ASSUME NEW d \in Nat \ {0}, NEW x \in Int, NEW y \in Int, d * x < d * y + d
  PROVE  x <= y
  <1>1. SUFFICES ASSUME x >= y + 1 PROVE FALSE
    OBVIOUS
  <1>2. d * x >= d * (y + 1)
    BY <1>1
  <1>3. d * (y + 1) = d * y + d /\ d * x \in Int /\ d * y \in Int
    OBVIOUS
  <1> QED BY <1>2, <1>3

\* Two parts cut off apart are the whole, or one less.
LEMMA QuotientOfSum ==
  ASSUME NEW d \in Nat \ {0}, NEW a \in Nat, NEW b \in Nat
  PROVE  /\ (a + b) \div d \in {(a \div d) + (b \div d), (a \div d) + (b \div d) + 1}
         /\ d = 1 => (a + b) \div d = (a \div d) + (b \div d)
  <1> DEFINE x == a \div d
             y == b \div d
             z == (a + b) \div d
  <1>1. /\ x \in Nat /\ d * x <= a /\ a < d * x + d
        /\ y \in Nat /\ d * y <= b /\ b < d * y + d
        /\ z \in Nat /\ d * z <= a + b /\ a + b < d * z + d
    <2>1. a + b \in Nat
      OBVIOUS
    <2> QED BY <2>1, Quotient
  <1> HIDE DEF x, y, z
  <1>2. /\ d * (x + y) = d * x + d * y /\ d * (x + y + 1) = d * x + d * y + d
        /\ d * x \in Nat /\ d * y \in Nat /\ d * z \in Nat
    BY <1>1
  <1>3. d * (x + y) < d * z + d /\ d * z < d * (x + y + 1) + d
    BY <1>1, <1>2
  <1>4. x + y <= z /\ z <= x + y + 1
    BY <1>1, <1>3, QuotientIs
  <1>5. d = 1 => z = x + y
    BY <1>1
  <1> QED BY <1>1, <1>4, <1>5 DEF x, y, z

\* A part keeps the sign.
LEMMA PartOf ==
  ASSUME Loops!PidAssumption, NEW s \in {-1, 1}, NEW b \in Nat
  PROVE  Loops!Part(s * b) = s * (b \div Divider)
  <1> DEFINE q == b \div Divider
  <1>1. Divider \in Nat \ {0}
    BY DEF Loops!PidAssumption
  <1>2. q \in Nat /\ (b = 0 => q = 0)
    BY <1>1, Divided
  <1>3. Loops!Abs(s * b) = b /\ (b # 0 => Loops!Sign(s * b) = s) /\ (b = 0 => Loops!Sign(s * b) = 0)
    BY DEF Loops!Abs, Loops!Sign
  <1>4. Loops!Part(s * b) = Loops!Sign(s * b) * q
    BY <1>3 DEF Loops!Part
  <1> HIDE DEF q
  <1>5. CASE b = 0
    BY <1>2, <1>3, <1>4, <1>5 DEF q
  <1>6. CASE b # 0
    BY <1>3, <1>4, <1>6 DEF q
  <1> QED BY <1>5, <1>6

\* The conversion to short takes whole turns away, and does not see them.
LEMMA ShortTurns ==
  ASSUME Loops!PidAssumption, NEW x \in Int
  PROVE  /\ \E q \in Int : Loops!ToShort(x) = x + (2 * Half) * q
         /\ \A q \in Int : Loops!ToShort(x + (2 * Half) * q) = Loops!ToShort(x)
  <1> DEFINE m == 2 * Half
             y == x + Half
  <1>1. m \in Nat \ {0} /\ y \in Int /\ Half \in Nat
    BY DEF Loops!PidAssumption
  <1>2. Loops!ToShort(x) = (y % m) - Half
    BY DEF Loops!ToShort
  <1>3. ASSUME NEW q \in Int PROVE Loops!ToShort(x + m * q) = ((y + m * q) % m) - Half
    <2>1. x + m * q + Half = y + m * q
      BY <1>1
    <2> QED BY <2>1 DEF Loops!ToShort
  <1>4. y = x + Half
    OBVIOUS
  <1> HIDE DEF m, y
  <1>5. \E q \in Int : (y % m) - Half = x + m * q
    <2> DEFINE r == y % m
               d == y \div m
    <2>1. d \in Int /\ r \in 0..(m - 1) /\ y = m * d + r
      BY <1>1
    <2> HIDE DEF d, r
    <2>2. -d \in Int /\ m * (-d) = -(m * d) /\ m * d \in Int
      BY <1>1, <2>1
    <2>3. r - Half = x + m * (-d)
      BY <1>1, <1>4, <2>1, <2>2
    <2> QED BY <2>2, <2>3 DEF r
  <1>6. ASSUME NEW q \in Int PROVE (y + m * q) % m = y % m
    <2> DEFINE r == y % m
               d == y \div m
               z == y + m * q
               r2 == z % m
               d2 == z \div m
    <2>1. d \in Int /\ r \in 0..(m - 1) /\ y = m * d + r
      BY <1>1
    <2>2. d2 \in Int /\ r2 \in 0..(m - 1) /\ z = m * d2 + r2
      <3>1. z \in Int
        BY <1>1
      <3> HIDE DEF z
      <3> QED BY <1>1, <3>1
    <2>3. z = y + m * q
      OBVIOUS
    <2> HIDE DEF d, r, z, d2, r2
    <2>4. m * (d2 - d - q) = r - r2
      <3>1. m * (d2 - d - q) = m * d2 - m * d - m * q /\ m * d2 \in Int /\ m * d \in Int /\ m * q \in Int
        BY <1>1, <2>1, <2>2
      <3> DEFINE A == m * d2
                 B == m * d
                 C == m * q
      <3>2. A \in Int /\ B \in Int /\ C \in Int /\ r \in Int /\ r2 \in Int /\ A + r2 = (B + r) + C
        BY <1>1, <2>1, <2>2, <2>3, <3>1
      <3>3. m * (d2 - d - q) = A - B - C
        BY <3>1
      <3> HIDE DEF A, B, C
      <3>4. A - B - C = r - r2
        BY <3>2
      <3> QED BY <3>3, <3>4
    <2>5. d2 - d - q = 0
      <3> DEFINE t == d2 - d - q
      <3>1. t \in Int /\ m * t = r - r2 /\ r - r2 < m /\ r - r2 > -m
        BY <1>1, <2>1, <2>2, <2>4
      <3> HIDE DEF t
      <3>2. ~(t >= 1)
        <4>1. SUFFICES ASSUME t >= 1 PROVE FALSE
          OBVIOUS
        <4>2. m * t >= m
          BY <1>1, <3>1, <4>1
        <4> QED BY <1>1, <2>1, <2>2, <3>1, <4>2
      <3>3. ~(t <= -1)
        <4>1. SUFFICES ASSUME t <= -1 PROVE FALSE
          OBVIOUS
        <4>2. m * t <= -m
          BY <1>1, <3>1, <4>1
        <4> QED BY <1>1, <2>1, <2>2, <3>1, <4>2
      <3>4. t = 0
        BY <3>1, <3>2, <3>3
      <3> QED BY <3>4 DEF t
    <2>6. r = r2
      BY <1>1, <2>1, <2>2, <2>4, <2>5
    <2> QED BY <2>6 DEF r, r2, z
  <1> QED BY <1>2, <1>3, <1>5, <1>6 DEF m
-----------------------------------------------------------------------------
\* The factors of the two loops are the same without an integral gain, and so
\* are the outputs, if they were.
Alike == gain.ki = 0 => small.last_d = pid.last_d

LEMMA SameOutputs ==
  ASSUME Loops!PidAssumption, Types, NothingKept, Alike, gain.ki = 0, NEW e \in Shorts
  PROVE  Loops!SmallOutput(e) = Loops!Output(e)
  <1>1. e \in Int /\ gain.kp \in Int /\ gain.kd \in Int
    BY Gained DEF Shorts
  <1>2. Loops!Integral(e) = 0
    <2>1. gain.ki * e = 0 /\ small.ki_accumulator = 0
      BY <1>1 DEF NothingKept
    <2> QED BY <2>1, ShortSame, Gained DEF Loops!Integral
  <1>3. Loops!ToUShort(gain.kp + gain.kd) = Loops!K1
    <2>1. gain.kp + gain.ki + gain.kd = gain.kp + gain.kd
      BY <1>1
    <2> QED BY <2>1 DEF Loops!K1
  <1>4. Loops!SmallAcc(e) = Loops!K1 * e
    <2>1. Loops!K1 * e \in Int
      BY <1>1, Factors
    <2> QED BY <1>2, <1>3, <2>1 DEF Loops!SmallAcc
  <1>5. Loops!Older(small) = Loops!Older(pid)
    BY DEF Loops!Older, Types
  <1> QED BY <1>4, <1>5 DEF Alike, Loops!SmallOutput, Loops!Output

LEMMA AlikeCall ==
  ASSUME Loops!PidAssumption, Types, NothingKept, Alike, NEW e \in Errors, Loops!Call(e)
  PROVE  Alike'
  <1>1. e \in Shorts
    BY DEF Loops!PidAssumption, Shorts
  <1> QED BY <1>1, SameOutputs DEF Alike, Loops!Call, Loops!PID, Loops!PID_Small_Ki

LEMMA Drifts ==
  ASSUME Loops!PidAssumption, Types, NothingKept, Alike
  PROVE  Loops!SlowDrift
  <1>1. SUFFICES ASSUME gain.ki = 0, pid.error_z1 = pid.error_z2, Loops!K1 + Loops!K3 = Loops!K2
                 PROVE  /\ Loops!ToShort(Loops!Output(pid.error_z1) - pid.last_d) \in {0, -Loops!Sign(pid.error_z1)}
                        /\ Loops!SmallOutput(pid.error_z1) = Loops!Output(pid.error_z1)
    BY DEF Loops!SlowDrift
  <1> DEFINE e == pid.error_z1
             x == pid.last_d
             m == 2 * Half
             s == IF e < 0 THEN -1 ELSE 1
             n == Loops!Abs(e)
             p1 == (Loops!K1 * n) \div Divider
             p2 == (Loops!K2 * n) \div Divider
             p3 == (Loops!K3 * n) \div Divider
  <1>2. /\ e \in Shorts /\ e \in Int /\ x \in Int /\ x \in -Half..(Half - 1)
        /\ m \in Nat \ {0} /\ Half \in Nat \ {0} /\ Divider \in 1..Half /\ m = 2 * Half
    BY Gained DEF Types, Shorts
  <1>3. s \in {-1, 1} /\ n \in Nat /\ e = s * n /\ (n # 0 => Loops!Sign(e) = s) /\ (n = 0 => Loops!Sign(e) = 0)
    BY <1>2 DEF Loops!Abs, Loops!Sign
  <1>4. Loops!SmallOutput(e) = Loops!Output(e)
    BY <1>1, <1>2, SameOutputs
  <1>5. Loops!K1 \in Nat /\ Loops!K2 \in Nat /\ Loops!K3 \in Nat
    BY Factors
  <1>6. Loops!Output(e) = Loops!ToShort(x + Loops!ToShort(Loops!Part(Loops!K1 * e))
                                          - (Loops!ToShort(Loops!Part(Loops!K2 * e)) - Loops!ToShort(Loops!Part(Loops!K3 * e))))
    BY <1>1 DEF Loops!Output, Loops!Older
  <1> HIDE DEF e, s, n, m, x
  <1>7. ASSUME NEW k \in Nat
        PROVE  k * n \in Nat /\ (k * n) \div Divider \in Nat /\ Loops!Part(k * e) = s * ((k * n) \div Divider)
    <2>1. k * n \in Nat
      BY <1>3
    <2>2. k * e = s * (k * n)
      BY <1>3
    <2>3. Divider \in Nat \ {0}
      BY <1>2
    <2> DEFINE b == k * n
    <2>4. b \in Nat /\ k * e = s * b
      BY <2>1, <2>2
    <2> HIDE DEF b
    <2>5. b \div Divider \in Nat /\ Loops!Part(s * b) = s * (b \div Divider)
      BY <1>3, <2>3, <2>4, PartOf, Quotient
    <2> QED BY <2>1, <2>4, <2>5 DEF b
  <1>8. /\ p1 \in Nat /\ p2 \in Nat /\ p3 \in Nat
        /\ Loops!Part(Loops!K1 * e) = s * p1 /\ Loops!Part(Loops!K2 * e) = s * p2 /\ Loops!Part(Loops!K3 * e) = s * p3
    BY <1>5, <1>7
  <1>9. /\ p2 \in {p1 + p3, p1 + p3 + 1} /\ (Divider = 1 => p2 = p1 + p3)
        /\ (n = 0 => p2 = p1 + p3)
    <2>1. Loops!K2 * n = Loops!K1 * n + Loops!K3 * n
      BY <1>1, <1>3, <1>5
    <2>2. Loops!K1 * n \in Nat /\ Loops!K3 * n \in Nat
      BY <1>5, <1>7
    <2>3. p2 \in {p1 + p3, p1 + p3 + 1} /\ (Divider = 1 => p2 = p1 + p3)
      BY <1>2, <2>1, <2>2, QuotientOfSum
    <2>4. n = 0 => p1 = 0 /\ p2 = 0 /\ p3 = 0
      <3>1. SUFFICES ASSUME n = 0 PROVE p1 = 0 /\ p2 = 0 /\ p3 = 0
        OBVIOUS
      <3>2. Loops!K1 * n = 0 /\ Loops!K2 * n = 0 /\ Loops!K3 * n = 0
        BY <1>5, <3>1
      <3>3. 0 \div Divider = 0
        BY <1>2, Divided
      <3> QED BY <3>2, <3>3
    <2> QED BY <2>3, <2>4
  <1> HIDE DEF p1, p2, p3
  <1> DEFINE y == s * p1 - (s * p2 - s * p3)
             t1 == Loops!ToShort(s * p1)
             t2 == Loops!ToShort(s * p2)
             t3 == Loops!ToShort(s * p3)
  <1>10. s * p1 \in Int /\ s * p2 \in Int /\ s * p3 \in Int /\ y \in Int /\ y \in {0, -s}
    BY <1>3, <1>8, <1>9
  <1>11. y \in {0, -Loops!Sign(e)} /\ (Half = 1 => y = 0)
    <2>1. n = 0 \/ Divider = 1 => y = 0
      BY <1>3, <1>8, <1>9
    <2>2. Half = 1 => Divider = 1
      BY <1>2
    <2> HIDE DEF y
    <2> QED BY <1>3, <1>10, <2>1, <2>2
  <1>12. Loops!Output(e) = Loops!ToShort(x + t1 - (t2 - t3))
    BY <1>6, <1>8
  <1>13. \E q \in Int : x + t1 - (t2 - t3) = x + y + m * q
    <2>1. PICK q1 \in Int : t1 = s * p1 + m * q1
      BY <1>10, ShortTurns DEF m
    <2>2. PICK q2 \in Int : t2 = s * p2 + m * q2
      BY <1>10, ShortTurns DEF m
    <2>3. PICK q3 \in Int : t3 = s * p3 + m * q3
      BY <1>10, ShortTurns DEF m
    <2>4. /\ m * (q1 - (q2 - q3)) = m * q1 - (m * q2 - m * q3) /\ q1 - (q2 - q3) \in Int
          /\ m * q1 \in Int /\ m * q2 \in Int /\ m * q3 \in Int
      BY <1>2
    <2> DEFINE A == s * p1
               B == s * p2
               C == s * p3
               D == m * q1
               E == m * q2
               F == m * q3
    <2>5. /\ A \in Int /\ B \in Int /\ C \in Int /\ D \in Int /\ E \in Int /\ F \in Int /\ y = A - (B - C)
          /\ t1 = A + D /\ t2 = B + E /\ t3 = C + F
      BY <1>10, <2>1, <2>2, <2>3, <2>4
    <2>6. m * (q1 - (q2 - q3)) = D - (E - F)
      BY <2>4
    <2> HIDE DEF A, B, C, D, E, F, y, t1, t2, t3
    <2>7. x + t1 - (t2 - t3) = x + y + (D - (E - F))
      BY <1>2, <2>5
    <2> QED BY <2>4, <2>6, <2>7
  <1> HIDE DEF y, t1, t2, t3
  <1>14. Loops!Output(e) = Loops!ToShort(x + y)
    <2>1. PICK q \in Int : x + t1 - (t2 - t3) = x + y + m * q
      BY <1>13
    <2>2. x + y \in Int
      BY <1>2, <1>10
    <2> QED BY <1>12, <2>1, <2>2, ShortTurns DEF m
  <1>15. Loops!ToShort(Loops!Output(e) - x) = Loops!ToShort(y)
    <2>1. x + y \in Int
      BY <1>2, <1>10
    <2>2. PICK q \in Int : Loops!ToShort(x + y) = x + y + m * q
      BY <2>1, ShortTurns DEF m
    <2>3. Loops!Output(e) - x = y + m * q
      <3>1. m * q \in Int
        BY <1>2
      <3> QED BY <1>2, <1>10, <1>14, <2>2, <3>1
    <2> QED BY <1>10, <2>3, ShortTurns DEF m
  <1>16. Loops!ToShort(y) = y
    <2>1. y \in -Half..(Half - 1)
      BY <1>2, <1>3, <1>10, <1>11
    <2> QED BY <2>1, ShortSame
  <1> QED BY <1>4, <1>11, <1>15, <1>16 DEF e, x
-----------------------------------------------------------------------------
\* What errors of one sign have come to, by their sign s: what the loops have
\* in their outputs, what is held, and the sum of it all.
Losses(s) ==
  /\ s * sum >= 0
  /\ s * sum < Half * Divider =>
       /\ 0 <= s * pid.last_d /\ s * pid.last_d <= s * small.last_d
       /\ 0 <= s * held /\ s * held < Divider
       /\ Divider * (s * small.last_d) + s * held <= s * sum

NoneLost ==
  /\ sum \in Int /\ signs \subseteq {-1, 1}
  /\ Loops!Integrates /\ Loops!Fits => \A s \in {-1, 1} : signs \subseteq {s} => Losses(s)

\* The two outputs, when they only integrate.
LEMMA Integrated ==
  ASSUME Loops!PidAssumption, Types, AllKept, Loops!Integrates, Loops!Fits, NEW e \in Errors, Loops!Call(e)
  PROVE  LET g == gain.ki * e
             a == held + g
         IN /\ g \in Int /\ Loops!Abs(g) + Divider <= Half /\ a \in Int
            /\ pid'.last_d = Loops!ToShort(pid.last_d + Loops!Part(g))
            /\ small'.last_d = Loops!ToShort(small.last_d + Loops!Part(a))
            /\ held' = IF small'.last_d = small.last_d THEN a ELSE 0
            /\ sum' = sum + g
  <1> DEFINE g == gain.ki * e
             a == held + g
  <1>1. g \in Int /\ Loops!Abs(g) + Divider <= Half
    BY Gained DEF Loops!PidAssumption, Loops!Fits
  <1>2. a \in Int /\ Loops!Abs(a) < Half /\ held = small.ki_accumulator
    <2>1. held = small.ki_accumulator /\ held \in -(Divider - 1)..(Divider - 1)
      BY DEF AllKept, Types
    <2> HIDE DEF g
    <2> QED BY <1>1, <2>1, Gained DEF Loops!Abs
  <1>3. Loops!Integral(e) = a
    <2>1. a \in -Half..(Half - 1)
      <3> HIDE DEF a
      <3> QED BY <1>2, Gained DEF Loops!Abs
    <2> QED BY <1>2, <2>1, ShortSame DEF Loops!Integral
  <1>4. e \in Int /\ gain.ki \in 0..(2 * Half - 1) /\ gain.kp = 0 /\ gain.kd = 0
    BY Gained DEF Loops!PidAssumption, Loops!Integrates
  <1>5. Loops!K1 = gain.ki /\ Loops!K2 = 0 /\ Loops!K3 = 0 /\ Loops!ToUShort(gain.kp + gain.kd) = 0
    BY <1>4, Gained, UShortSame DEF Loops!K1, Loops!K2, Loops!K3
  <1>6. Loops!Older(small) = 0 /\ Loops!Older(pid) = 0
    <2>2. small.error_z1 \in Int /\ small.error_z2 \in Int /\ pid.error_z1 \in Int /\ pid.error_z2 \in Int
      BY Gained DEF Types, Shorts
    <2>3. /\ Loops!K2 * small.error_z1 = 0 /\ Loops!K3 * small.error_z2 = 0
          /\ Loops!K2 * pid.error_z1 = 0 /\ Loops!K3 * pid.error_z2 = 0
      BY <1>5, <2>2
    <2>4. Loops!ToShort(0) = 0 /\ Loops!Part(0) = 0
      BY ShortSame, PartOfZero, Gained
    <2> QED BY <2>3, <2>4 DEF Loops!Older
  <1>7. Loops!SmallAcc(e) = a
    <2>1. 0 * e = 0
      BY <1>4
    <2> QED BY <1>2, <1>3, <1>5, <2>1 DEF Loops!SmallAcc
  <1>8. \A b \in Int : Loops!Abs(b) < Half => Loops!Part(b) \in Int /\ Loops!ToShort(Loops!Part(b)) = Loops!Part(b)
    <2> SUFFICES ASSUME NEW b \in Int, Loops!Abs(b) < Half
                 PROVE  Loops!Part(b) \in Int /\ Loops!ToShort(Loops!Part(b)) = Loops!Part(b)
      OBVIOUS
    <2> DEFINE c == Loops!Part(b)
    <2>1. c \in Int /\ Loops!Abs(c) <= Loops!Abs(b)
      BY Parts
    <2> HIDE DEF c
    <2>2. c \in -Half..(Half - 1)
      BY <2>1, Gained DEF Loops!Abs
    <2> QED BY <2>1, <2>2, ShortSame DEF c
  <1>9. Loops!Abs(g) < Half
    BY <1>1, Gained DEF Loops!Abs
  <1>10. pid.last_d \in Int /\ small.last_d \in Int
    BY Gained DEF Types, Shorts
  <1> HIDE DEF g, a
  <1>11. pid'.last_d = Loops!ToShort(pid.last_d + Loops!Part(g))
    <2>1. Loops!Output(e) = Loops!ToShort(pid.last_d + Loops!Part(g) - 0)
      BY <1>1, <1>5, <1>6, <1>8, <1>9 DEF Loops!Output, g
    <2>2. pid.last_d + Loops!Part(g) - 0 = pid.last_d + Loops!Part(g)
      BY <1>1, <1>8, <1>9, <1>10
    <2> QED BY <2>1, <2>2 DEF Loops!Call, Loops!PID
  <1>12. small'.last_d = Loops!ToShort(small.last_d + Loops!Part(a))
    <2>1. Loops!SmallOutput(e) = Loops!ToShort(small.last_d + Loops!Part(a) - 0)
      BY <1>2, <1>6, <1>7, <1>8 DEF Loops!SmallOutput
    <2>2. small.last_d + Loops!Part(a) - 0 = small.last_d + Loops!Part(a)
      BY <1>2, <1>8, <1>10
    <2> QED BY <2>1, <2>2 DEF Loops!Call, Loops!PID_Small_Ki
  <1>13. /\ held' = IF small'.last_d = small.last_d THEN a ELSE 0
         /\ sum' = sum + g
    BY DEF Loops!Call, a, g
  <1> QED BY <1>1, <1>2, <1>11, <1>12, <1>13 DEF a, g

\* The sums of a call, all of one sign: y and x what the outputs were, h what
\* was held, g what is new and t what it had come to.
LEMMA Summed ==
  ASSUME NEW D \in Nat \ {0}, NEW H \in Nat \ {0}, NEW y \in Nat, NEW x \in Nat, y <= x,
         NEW h \in Nat, h < D, NEW g \in Nat, NEW t \in Nat, D * x + h <= t, t + g < H * D
  PROVE  LET u == g \div D
             q == (h + g) \div D
         IN /\ u \in Nat /\ q \in Nat /\ y + u <= x + q /\ x + q < H
            /\ D * (x + q) + (IF q = 0 THEN h + g ELSE 0) <= t + g
            /\ q = 0 => h + g < D
  <1> DEFINE u == g \div D
             q == (h + g) \div D
  <1>1. /\ u \in Nat /\ D * u <= g /\ g < D * u + D
        /\ q \in Nat /\ D * q <= h + g /\ h + g < D * q + D
    <2>1. h + g \in Nat
      OBVIOUS
    <2> QED BY <2>1, Quotient
  <1> HIDE DEF u, q
  <1>2. D * (x + q) = D * x + D * q /\ D * x \in Nat /\ D * q \in Nat /\ D * u \in Nat
    BY <1>1
  <1>3. u <= q
    <2>1. D * u < D * q + D
      BY <1>1, <1>2
    <2> QED BY <1>1, <2>1, QuotientIs
  <1>4. D * (x + q) <= t + g
    BY <1>1, <1>2
  <1>5. x + q < H
    <2>1. D * H = D * (H - 1) + D /\ D * H = H * D /\ H * D \in Nat /\ D * (H - 1) \in Int
      OBVIOUS
    <2>2. D * (x + q) < D * (H - 1) + D
      BY <1>2, <1>4, <2>1
    <2>3. x + q <= H - 1
      BY <1>1, <2>2, QuotientIs
    <2> QED BY <1>1, <2>3
  <1>6. q = 0 => h + g < D /\ D * (x + q) + (h + g) <= t + g
    BY <1>1, <1>2
  <1>7. y + u <= x + q
    BY <1>1, <1>3
  <1>8. D * (x + q) + (IF q = 0 THEN h + g ELSE 0) <= t + g
    <2>1. CASE q = 0
      BY <1>6, <2>1
    <2>2. CASE q # 0
      BY <1>2, <1>4, <2>2
    <2> QED BY <2>1, <2>2
  <1> QED BY <1>1, <1>5, <1>6, <1>7, <1>8 DEF u, q

LEMMA NoneLostCall ==
  ASSUME Loops!PidAssumption, Types, AllKept, NoneLost, NEW e \in Errors, Loops!Call(e)
  PROVE  NoneLost'
  <1>1. gain' = gain /\ signs' = signs \cup ({Loops!Sign(e)} \ {0}) /\ e \in Int
    BY DEF Loops!Call, Loops!PidAssumption
  <1>2. sum' \in Int /\ signs' \subseteq {-1, 1}
    <2>1. gain.ki * e \in Int
      BY <1>1, Gained
    <2>2. sum' \in Int
      BY <2>1 DEF Loops!Call, NoneLost
    <2>3. Loops!Sign(e) \in {-1, 0, 1}
      BY DEF Loops!Sign
    <2> QED BY <1>1, <2>2, <2>3 DEF NoneLost
  <1>3. ASSUME Loops!Integrates, Loops!Fits, NEW s \in {-1, 1}, signs' \subseteq {s}
        PROVE  Losses(s)'
    <2> DEFINE g == gain.ki * e
               a == held + g
               G == s * g
               y == pid.last_d
               x == small.last_d
               h == s * held
               t == s * sum
               A == h + G
               u == G \div Divider
               q == A \div Divider
    <2>1. signs \subseteq {s} /\ (e # 0 => Loops!Sign(e) = s)
      BY <1>1, <1>3 DEF Loops!Sign
    <2>2. Losses(s)
      BY <1>3, <2>1 DEF NoneLost
    <2>3. /\ g \in Int /\ a \in Int
          /\ pid'.last_d = Loops!ToShort(y + Loops!Part(g)) /\ small'.last_d = Loops!ToShort(x + Loops!Part(a))
          /\ held' = (IF small'.last_d = x THEN a ELSE 0) /\ sum' = sum + g
      BY <1>3, Integrated
    <2>4. G \in Nat
      <3>1. gain.ki \in Nat
        BY Gained
      <3>2. s * e \in Nat
        BY <1>1, <2>1 DEF Loops!Sign
      <3>3. s * (gain.ki * e) = gain.ki * (s * e)
        BY <1>1, <3>1
      <3>4. gain.ki * (s * e) \in Nat
        BY <3>1, <3>2
      <3> QED BY <3>3, <3>4
    <2>5. /\ y \in Int /\ x \in Int /\ held \in Int /\ sum \in Int /\ Half \in Nat \ {0} /\ Divider \in Nat \ {0}
      BY Gained DEF Types, Shorts, NoneLost
    <2>6. t \in Int /\ t >= 0 /\ s * sum' = t + G
      <3> HIDE DEF g
      <3> QED BY <2>2, <2>3, <2>5 DEF Losses
    <2> HIDE DEF g, a, y, x, G
    <2>13. Half * Divider \in Nat
      BY <2>5
    <2>7. CASE t + G < Half * Divider
      <3>1. /\ s * y \in Nat /\ s * x \in Nat /\ s * y <= s * x /\ h \in Nat /\ h < Divider
            /\ Divider * (s * x) + h <= t
        <4>1. t < Half * Divider
          BY <2>4, <2>6, <2>7, <2>13
        <4>2. /\ 0 <= s * y /\ s * y <= s * x /\ 0 <= h /\ h < Divider
              /\ Divider * (s * x) + h <= t
          BY <2>2, <4>1 DEF Losses, y, x
        <4>3. s * y \in Int /\ s * x \in Int /\ h \in Int
          BY <2>5
        <4> QED BY <4>2, <4>3
      <3> HIDE DEF h, t, A
      <3>2. A \in Nat /\ a = s * A /\ g = s * G
        <4>1. g = s * G
          BY <2>3 DEF G
        <4>2. held = s * h
          BY <2>5 DEF h
        <4> QED BY <2>3, <2>4, <3>1, <4>1, <4>2 DEF A, a
      <3> DEFINE X == s * x
                 Y == s * y
      <3>3. /\ u \in Nat /\ q \in Nat /\ Y + u <= X + q /\ X + q < Half
            /\ Divider * (X + q) + (IF q = 0 THEN A ELSE 0) <= t + G
            /\ q = 0 => A < Divider
        <4>1. X \in Nat /\ Y \in Nat /\ Y <= X /\ Divider * X + h <= t /\ t \in Nat
          BY <2>6, <3>1
        <4> HIDE DEF X, Y
        <4> QED BY <2>4, <2>5, <2>7, <3>1, <4>1, Summed DEF A
      <3>4. Loops!Part(g) = s * u /\ Loops!Part(a) = s * q
        <4>1. Loops!Part(s * G) = s * u /\ Loops!Part(s * A) = s * q
          BY <2>4, <3>2, PartOf
        <4> QED BY <3>2, <4>1
      <3> HIDE DEF u, q
      <3>5. pid'.last_d = y + s * u /\ small'.last_d = x + s * q
        <4>1. /\ y + s * u \in -Half..(Half - 1) /\ x + s * q \in -Half..(Half - 1)
          BY <2>5, <3>1, <3>3
        <4> QED BY <2>3, <3>4, <4>1, ShortSame
      <3>6. (small'.last_d = x <=> q = 0)
        BY <2>5, <3>3, <3>5
      <3>7. /\ s * pid'.last_d = Y + u /\ s * small'.last_d = X + q
            /\ s * held' = (IF q = 0 THEN A ELSE 0)
        <4>1. s * pid'.last_d = Y + u /\ s * small'.last_d = X + q
          BY <2>5, <3>3, <3>5
        <4>2. s * held' = (IF q = 0 THEN A ELSE 0)
          BY <2>3, <3>2, <3>6
        <4> QED BY <4>1, <4>2
      <3>8. /\ 0 <= s * pid'.last_d /\ s * pid'.last_d <= s * small'.last_d
            /\ 0 <= s * held' /\ s * held' < Divider
            /\ Divider * (s * small'.last_d) + s * held' <= s * sum'
        <4>1. 0 <= Y + u
          BY <3>1, <3>3
        <4> HIDE DEF X, Y
        <4>2. Divider * (s * small'.last_d) + s * held' <= s * sum'
          BY <2>6, <3>3, <3>7
        <4>3. 0 <= s * held' /\ s * held' < Divider
          BY <2>5, <3>2, <3>3, <3>7
        <4> QED BY <3>3, <3>7, <4>1, <4>2, <4>3
      <3> QED BY <2>4, <2>6, <3>8 DEF Losses
    <2>8. CASE ~(t + G < Half * Divider)
      BY <2>4, <2>6, <2>8 DEF Losses
    <2> QED BY <2>7, <2>8
  <1>4. (Loops!Integrates' => Loops!Integrates) /\ (Loops!Fits' => Loops!Fits)
    BY <1>1 DEF Loops!Integrates, Loops!Fits
  <1> QED BY <1>2, <1>3, <1>4 DEF NoneLost

LEMMA NoneLostAtFirst ==
  ASSUME Loops!PidAssumption, pid.last_d = 0, small.last_d = 0, held = 0, sum = 0, signs = {}
  PROVE  NoneLost
  <1>1. Divider \in Nat \ {0} /\ Half \in Nat
    BY DEF Loops!PidAssumption
  <1>2. ASSUME NEW s \in {-1, 1} PROVE Losses(s)
    BY <1>1 DEF Losses
  <1> QED BY <1>2 DEF NoneLost

LEMMA LosesNoMore ==
  ASSUME Loops!PidAssumption, Types, NoneLost
  PROVE  Loops!LosesLess
  <1>1. SUFFICES ASSUME Loops!Integrates, Loops!Fits, signs # {-1, 1}, Loops!Abs(sum) < Half * Divider
                 PROVE  /\ Loops!Abs(pid.last_d) <= Loops!Abs(small.last_d)
                        /\ (Divider * Loops!Abs(small.last_d)) + Loops!Abs(held) <= Loops!Abs(sum)
    BY DEF Loops!LosesLess
  <1>2. PICK s \in {-1, 1} : signs \subseteq {s}
    BY <1>1 DEF NoneLost
  <1>3. Losses(s)
    BY <1>1, <1>2 DEF NoneLost
  <1>4. pid.last_d \in Int /\ small.last_d \in Int /\ held \in Int /\ sum \in Int /\ Divider \in Nat /\ Half \in Nat
    BY Gained DEF Types, Shorts, NoneLost
  <1>5. s * sum = Loops!Abs(sum)
    BY <1>3, <1>4 DEF Losses, Loops!Abs
  <1>6. /\ 0 <= s * pid.last_d /\ s * pid.last_d <= s * small.last_d
        /\ 0 <= s * held /\ Divider * (s * small.last_d) + s * held <= s * sum
    BY <1>1, <1>3, <1>5 DEF Losses
  <1>7. \A b \in Int : 0 <= s * b => Loops!Abs(b) = s * b
    BY DEF Loops!Abs
  <1>8. Loops!Abs(pid.last_d) = s * pid.last_d /\ Loops!Abs(small.last_d) = s * small.last_d /\ Loops!Abs(held) = s * held
    <2>1. 0 <= s * small.last_d
      BY <1>4, <1>6
    <2> QED BY <1>4, <1>6, <1>7, <2>1
  <1> QED BY <1>5, <1>6, <1>8
-----------------------------------------------------------------------------
LoopsInv == PidInv /\ Alike /\ NoneLost

LEMMA NextLoops == ASSUME Loops!PidAssumption, LoopsInv, [Loops!Next]_(Loops!vars) PROVE (Alike /\ NoneLost)'
  <1> USE DEF LoopsInv, PidInv
  <1>1. CASE Loops!PID_Flush_Errors
    <2>1. /\ pid'.last_d = 0 /\ small'.last_d = 0 /\ held' = 0 /\ sum' = 0 /\ signs' = {} /\ gain' = gain
      BY <1>1 DEF Loops!PID_Flush_Errors, Loops!Flushed, Loops!SmallFlushed
    <2>2. ASSUME NEW s \in {-1, 1} PROVE Losses(s)'
      <3>1. Divider \in Nat \ {0} /\ Half \in Nat
        BY DEF Loops!PidAssumption
      <3> QED BY <2>1, <3>1 DEF Losses
    <2>3. NoneLost'
      BY <2>1, <2>2 DEF NoneLost
    <2> QED BY <2>1, <2>3 DEF Alike
  <1>2. CASE \E e \in Errors : Loops!Call(e)
    BY <1>2, AlikeCall, NoneLostCall
  <1>3. CASE UNCHANGED Loops!vars
    BY <1>3 DEF Loops!vars, Alike, NoneLost, Losses, Loops!Integrates, Loops!Fits, Loops!Abs
  <1> QED BY <1>1, <1>2, <1>3 DEF Loops!Next

LEMMA LoopsInvHolds == ASSUME Loops!PidAssumption PROVE Loops!Spec => []LoopsInv
  <1>1. Loops!Init => LoopsInv
    <2>1. SUFFICES ASSUME Loops!Init PROVE Alike /\ NoneLost
      BY InitPid DEF LoopsInv
    <2>2. pid.last_d = 0 /\ small.last_d = 0 /\ held = 0 /\ sum = 0 /\ signs = {}
      BY <2>1 DEF Loops!Init, Loops!Flushed, Loops!SmallFlushed
    <2> QED BY <2>2, NoneLostAtFirst DEF Alike
  <1>2. LoopsInv /\ [Loops!Next]_(Loops!vars) => LoopsInv'
    BY NextPid, NextLoops DEF LoopsInv
  <1> QED BY <1>1, <1>2, PTL DEF Loops!Spec

(* A constant error that nothing integrates moves the outputs by one at    *)
(* most in a call, against the error, for any gains whose factors add up   *)
(* and any widths, wrapped around or not (PID, PID_Small_Ki).              *)
THEOREM DriftIsSlow == ASSUME Loops!PidAssumption PROVE Loops!Spec => []Loops!SlowDrift
  <1>1. LoopsInv => Loops!SlowDrift
    BY Drifts DEF LoopsInv, PidInv
  <1> QED BY <1>1, LoopsInvHolds, PTL

(* Of errors of one sign PID_Small_Ki loses no more than PID, whatever the *)
(* integral gain and the errors are, until an output wraps around.         *)
THEOREM SmallLosesLess == ASSUME Loops!PidAssumption PROVE Loops!Spec => []Loops!LosesLess
  <1>1. LoopsInv => Loops!LosesLess
    BY LosesNoMore DEF LoopsInv, PidInv
  <1> QED BY <1>1, LoopsInvHolds, PTL
-----------------------------------------------------------------------------
CliTypes ==
  /\ app \in {"none", "some", "files"} /\ cert \in {"none", "directory", "files"}
  /\ now \in Nat /\ src \in [Sources -> Nat] /\ cfile \in [Assets -> Nat]
  /\ obj \in [Sources -> Objects \cup {None}]
  /\ linked \in [Sources -> Objects \cup {None}] \cup {None}
  /\ dotflavor \in Flavors /\ flavor \in Flavors
  /\ pc \in Steps \cup Sources
  /\ reg \in [Sources -> Nat] /\ unread \subseteq Assets /\ todo \subseteq Sources
  /\ relink \in BOOLEAN /\ hasty \subseteq Sources

Built    == {s \in Sources : obj[s] # None}
Building == {"kore", "assets", "compile", "certs", "link", "said"} \cup Sources
Stale(s) == src[s] # 0 /\ RequiresBuild(s)

\* Nothing was edited at a time that is yet to come.
InThePast == \A s \in Sources : src[s] <= now

\* A version is known by its second, unless it was edited in a hurry.
SecondTells ==
  \A s \in Sources \ hasty : reg[s] # 0 /\ Mtime(reg[s]) = Mtime(src[s]) => reg[s] = src[s]

\* There is nothing to build before there are files.
Empty ==
  app # "files" =>
    /\ pc \in {"idle", "create"} /\ now = 0 /\ Built = {} /\ linked = None
    /\ \A s \in Sources : src[s] = 0

\* What waits for its compilation needs one, and is taken as it was found.
TodoIsStale ==
  \A s \in todo : /\ reg[s] # 0 /\ reg[s] <= src[s] /\ (pc = s \/ s \in hasty \/ Stale(s))
                  /\ s \in Assets => s \notin unread /\ cfile[s] = reg[s]

\* Before the compilations nothing was compiled, after them nothing waits.
Phases ==
  /\ pc = "cleaned" => Built = {}
  /\ pc \notin Building => todo = {} /\ \A s \in Sources : reg[s] = 0
  /\ pc \in {"kore", "assets"} => ~relink
  /\ pc = "kore" => unread = Assets
  /\ pc \in {"compile", "certs", "link", "said"} \cup Sources => unread = {}
  /\ pc \in {"certs", "link", "said"} => todo = {}
  /\ \A s \in Sources : pc = s =>
       s \in todo /\ s \in Built /\ reg[s] <= obj[s].code /\ obj[s].code <= src[s]

\* The object of a registered source that needs no compilation (any more)
\* is not older than the source was found.
UpToDate ==
  pc \in Building =>
    \A s \in Sources \ todo : reg[s] # 0 =>
      s \in Built /\ (s \in hasty \/ obj[s].code >= reg[s])

TimesInv ==
  CliTypes /\ InThePast /\ SecondTells /\ Empty /\ TodoIsStale /\ Phases /\ UpToDate /\ TimesAreTrue
-----------------------------------------------------------------------------
Clear == trouble \subseteq {"create", "certs", "compile"} /\ hasty = {}

\* The objects are of the flavor that is built.
SameFlavor ==
  Clear =>
    /\ pc \in Building => flavor = dotflavor
    /\ pc # "clean" => \A s \in Built : obj[s].flags = Cflags(dotflavor)

\* Who has an object is a source, and is registered when its turn has come.
BuiltAreThere ==
  Clear /\ pc \notin {"clean", "cleaned"} =>
    \A s \in Built : /\ src[s] # 0
                     /\ pc \in Building /\ s \notin unread => reg[s] # 0

Matches == \A s \in Built : linked[s] = obj[s]

\* What was linked is of the objects, or the next link has a reason.
LinkHasReason ==
  Clear /\ ~Single /\ linked # None /\ pc # "clean" =>
    \/ Matches
    \/ pc \in Building \ {"said"} /\ (relink \/ todo # {} \/ \E s \in unread : Stale(s))
    \/ pc \notin Building /\ \E s \in Sources : Stale(s)

\* The certificate is made before the first link.
CertInv ==
  /\ pc = "create" => cert = "directory"
  /\ cert = "none" \/ pc = "certs" => linked = None
  /\ pc \in {"link", "said"} => cert # "none"
  /\ cert = "directory" /\ pc \notin {"create", "certs"} =>
       trouble \cap {"create", "certs"} # {}
-----------------------------------------------------------------------------
(* Each action keeps the times true.                                       *)

\* A time in seconds is a number: only that two are alike matters.
LEMMA Seconds == ASSUME CliAssumption, NEW t \in Nat PROVE Mtime(t) \in Nat
  <1>1. PerSecond \in Nat \ {0}
    BY DEF CliAssumption
  <1> DEFINE q == t \div PerSecond
  <1>2. q \in Nat
    BY <1>1, Divided
  <1> QED BY <1>2 DEF Mtime

LEMMA InitTimes == ASSUME CliAssumption, CliInit PROVE TimesInv
  <1>1. /\ Built = {} /\ app \in {"none", "files"} /\ pc = "idle" /\ todo = {} /\ linked = None
        /\ reg = [s \in Sources |-> 0] /\ cfile = [s \in Assets |-> 0]
        /\ obj \in [Sources -> Objects \cup {None}]
    BY DEF CliInit, Nothing, Built
  <1>2. now \in {0, 1} /\ src = [s \in Sources |-> now] /\ (app # "files" => now = 0)
    BY DEF CliInit
  <1>3. CliTypes
    <2>1. cert = "none" /\ dotflavor = "dev" /\ flavor = "dev" /\ unread = {} /\ relink = FALSE /\ hasty = {}
      BY DEF CliInit
    <2>2. src \in [Sources -> Nat] /\ reg \in [Sources -> Nat] /\ cfile \in [Assets -> Nat] /\ now \in Nat
      BY <1>1, <1>2
    <2> QED BY <1>1, <2>1, <2>2 DEF CliTypes, CliAssumption, Steps
  <1>4. InThePast /\ SecondTells /\ Empty
    BY <1>1, <1>2 DEF InThePast, SecondTells, Empty
  <1>5. TodoIsStale /\ Phases /\ UpToDate /\ TimesAreTrue
    BY <1>1 DEF TodoIsStale, Phases, UpToDate, TimesAreTrue, Built, Building, Steps, CliAssumption
  <1> QED BY <1>3, <1>4, <1>5 DEF TimesInv

LEMMA CreateTimes ==
  ASSUME CliAssumption, TimesInv, Create \/ Created
  PROVE  TimesInv'
  <1>1. /\ UNCHANGED <<cfile, obj, linked, dotflavor, local, hasty>> /\ pc \in {"idle", "create"}
        /\ pc' \in {"idle", "create"} /\ app' \in {"some", "files", app} /\ cert' \in {"directory", "files", cert}
        /\ \/ src' = src /\ now' = now /\ (app = "files" <=> app' = "files")
           \/ /\ app = "some" /\ app' = "files" /\ now' = 1
              /\ \E s \in Sources : src' = [src EXCEPT ![s] = 1]
    BY DEF Create, Created
  <1>2. app # "files" => now = 0 /\ Built = {} /\ \A s \in Sources : src[s] = 0
    BY DEF TimesInv, Empty
  <1>3. CliTypes' /\ Empty'
    BY <1>1 DEF TimesInv, CliTypes, Empty, Steps, local, Built
  <1>4. CliTypes /\ \A s \in Built : obj[s].time \in Nat /\ obj[s].code \in Nat
    BY DEF TimesInv, CliTypes, Built, Objects
  <1>5. InThePast' /\ SecondTells'
    <2>1. \A s \in Sources : reg'[s] = 0
      BY <1>1 DEF TimesInv, Phases, Building, CliAssumption, Steps, local
    <2> QED BY <1>1, <1>2, <1>4, <2>1 DEF TimesInv, InThePast, SecondTells, CliTypes
  <1>6. TodoIsStale' /\ Phases' /\ UpToDate'
    BY <1>1 DEF CliAssumption, TimesInv, TodoIsStale, Phases, UpToDate, Building, Steps, local, Built
  <1>7. TimesAreTrue'
    <2>1. /\ UNCHANGED <<obj, hasty>> /\ (app = "files" => src' = src)
          /\ \A s \in Sources : pc # s
      BY <1>1 DEF CliAssumption, Steps
    <2>2. app # "files" => \A s \in Sources : obj[s] = None
      BY <1>2 DEF Built
    <2>3. TimesAreTrue
      BY DEF TimesInv
    <2> QED BY <2>1, <2>2, <2>3 DEF TimesAreTrue
  <1> QED BY <1>3, <1>5, <1>6, <1>7 DEF TimesInv

LEMMA BuildTimes ==
  ASSUME CliAssumption, TimesInv, NEW f \in Flavors, Build(f)
  PROVE  TimesInv'
  <1>1. CliTypes /\ InThePast /\ TimesAreTrue /\ pc = "idle"
    BY DEF TimesInv, Build
  <1>2. /\ Built' = Built /\ \A s \in Sources : Stale(s)' = Stale(s)
        /\ todo' = {s \in Sources \ Assets : Stale(s)} /\ unread' = Assets
        /\ now' = now /\ src' = src /\ cfile' = cfile /\ obj' = obj /\ hasty' = hasty
    BY DEF Build, onDisk, Built, Stale, RequiresBuild
  <1>3. \A s \in Sources : reg'[s] = IF s \in Assets THEN 0 ELSE src[s]
    BY DEF Build
  <1>4. src \in [Sources -> Nat] /\ now \in Nat
    BY <1>1 DEF CliTypes
  <1>5. InThePast' /\ SecondTells'
    BY <1>1, <1>2, <1>3, <1>4 DEF InThePast, SecondTells
  <1>6. TodoIsStale'
    BY <1>2, <1>3, <1>4 DEF TodoIsStale, Stale
  <1>7. UpToDate'
    <2> SUFFICES ASSUME NEW s \in Sources \ todo', reg'[s] # 0
                 PROVE  s \in Built /\ (s \in hasty \/ obj[s].code >= reg'[s])
      BY <1>2 DEF UpToDate
    <2>1. reg'[s] = src[s] /\ ~Stale(s)
      BY <1>2, <1>3
    <2>2. obj[s] # None /\ obj[s].time = Mtime(src[s])
      BY <2>1 DEF Stale, RequiresBuild
    <2>3. pc # s
      BY <1>1 DEF CliAssumption, Steps
    <2> QED BY <1>1, <1>4, <2>1, <2>2, <2>3 DEF Built, TimesAreTrue
  <1>8. CliTypes' /\ Empty'
    BY DEF Build, TimesInv, CliTypes, Empty, CliAssumption, Steps, onDisk, Built
  <1>9. Phases'
    <2>1. /\ pc' \in {"kore", "assets"} /\ ~relink' /\ pc' \in Building /\ pc' \notin Sources
      BY DEF Build, Building, CliAssumption, Steps
    <2> QED BY <1>2, <2>1 DEF Phases
  <1>10. TimesAreTrue'
    BY <1>1, <1>2 DEF TimesAreTrue, CliAssumption, Steps
  <1> QED BY <1>5, <1>6, <1>7, <1>8, <1>9, <1>10 DEF TimesInv

LEMMA BuildAssetTimes ==
  ASSUME CliAssumption, TimesInv, NEW s \in Assets, BuildAsset(s)
  PROVE  TimesInv'
  <1> USE DEF BuildAsset, CliAssumption, TimesInv, CliTypes, Built
  <1>1. CliTypes' /\ InThePast' /\ SecondTells' /\ Empty'
    BY DEF InThePast, SecondTells, Empty
  <1>2. TodoIsStale' /\ Phases' /\ TimesAreTrue'
    BY DEF TodoIsStale, Phases, Stale, RequiresBuild, Steps, Building, TimesAreTrue
  <1>3. UpToDate'
    BY DEF UpToDate, Building, RequiresBuild, Steps, TimesAreTrue, TodoIsStale
  <1> QED BY <1>1, <1>2, <1>3

LEMMA CompileTimes ==
  ASSUME CliAssumption, TimesInv, NEW s \in Sources, CompileSourceFile(s)
  PROVE  TimesInv'
  <1>1. s \in todo /\ s \notin Steps /\ unread = {}
    BY DEF CompileSourceFile, CliAssumption, TimesInv, Phases
  <1>2. reg[s] <= Compiled(s) /\ Compiled(s) <= src[s] /\ Compiled(s) # 0
    BY <1>1 DEF TodoIsStale, Compiled, TimesInv, CompileSourceFile, CliTypes
  <1>3. obj'[s] = [time |-> Mtime(now), code |-> Compiled(s), flags |-> Cflags(flavor)]
    BY DEF CompileSourceFile, TimesInv, CliTypes
  <1>4. obj'[s] \in Objects /\ s \in Built'
    BY <1>2, <1>3, Seconds DEF Built, Objects, Cflags, Compiled, TimesInv, CliTypes, CliAssumption
  <1>5. Phases'
    BY <1>1, <1>2, <1>3, <1>4 DEF Phases, Steps, Building, CompileSourceFile, local
  <1>6. CliTypes' /\ InThePast' /\ SecondTells' /\ Empty' /\ TimesAreTrue'
    BY <1>1, <1>3, <1>4 DEF CompileSourceFile, TimesInv, CliTypes, InThePast, SecondTells, Empty, TimesAreTrue, Built,
       local, CliAssumption, Steps
  <1>7. TodoIsStale' /\ UpToDate'
    BY <1>1, <1>3, <1>4 DEF CompileSourceFile, TimesInv, CliTypes, TodoIsStale, UpToDate, Stale, RequiresBuild,
       Built, Building, local, CliAssumption, Steps
  <1> QED BY <1>5, <1>6, <1>7 DEF TimesInv

LEMMA UtimesTimes ==
  ASSUME CliAssumption, TimesInv, NEW s \in Sources, Utimes(s)
  PROVE  TimesInv'
  <1>1. /\ obj \in [Sources -> Objects \cup {None}] /\ reg \in [Sources -> Nat]
        /\ s \in Built /\ reg[s] <= obj[s].code /\ obj[s].code <= src[s] /\ reg[s] # 0
        /\ obj[s].code \in Nat /\ src[s] \in Nat
    BY DEF TimesInv, CliTypes, Phases, Utimes, TodoIsStale, Built, Objects
  <1>2. /\ obj[s] \in Objects
        /\ obj'[s] = [time |-> Mtime(reg[s]), code |-> obj[s].code, flags |-> obj[s].flags]
        /\ \A r \in Sources \ {s} : obj'[r] = obj[r]
    BY <1>1 DEF Built, Objects, TimeOf, Utimes
  <1>3. obj'[s] \in Objects /\ Built' = Built
    BY <1>1, <1>2, Seconds DEF Objects, Built, CliAssumption
  <1>4. CliTypes'
    BY <1>3 DEF CliTypes, TimesInv, Steps, Utimes
  <1>5. InThePast' /\ SecondTells'
    BY DEF TimesInv, Utimes, InThePast, SecondTells
  <1>6. Empty' /\ Phases'
    BY <1>3 DEF Utimes, TimesInv, Empty, Phases, CliAssumption, Steps, Building
  <1>8. TimesAreTrue'
    <2>1. /\ UNCHANGED <<src, hasty>> /\ pc = s
          /\ obj'[s].time = Mtime(reg[s]) /\ obj'[s].code = obj[s].code
          /\ \A r \in Sources \ {s} : r # pc /\ obj'[r] = obj[r]
      BY <1>2 DEF Utimes
    <2>2. TimesAreTrue /\ SecondTells
      BY DEF TimesInv
    <2>3. s \notin hasty /\ Mtime(reg[s]) = Mtime(src[s]) => obj[s].code = src[s]
      BY <1>1, <2>2 DEF SecondTells
    <2> QED BY <2>1, <2>2, <2>3 DEF TimesAreTrue
  <1>7. TodoIsStale' /\ UpToDate'
    BY <1>1, <1>2, <1>3 DEF Utimes, TimesInv, CliTypes, TodoIsStale, UpToDate, Stale, RequiresBuild, Building,
       CliAssumption, Steps
  <1> QED BY <1>4, <1>5, <1>6, <1>7, <1>8 DEF TimesInv

LEMMA BuildFailsTimes ==
  ASSUME CliAssumption, TimesInv, BuildFails
  PROVE  TimesInv'
  <1>1. /\ Ends /\ linked' \in {linked, None}
        /\ UNCHANGED <<app, cert, now, src, cfile, obj, dotflavor, hasty>>
    BY DEF BuildFails, Exits, onDisk
  <1>2. pc \in Building /\ pc \notin Sources
    BY DEF BuildFails, Building, CliAssumption, Steps
  <1>3. CliTypes' /\ Empty' /\ TodoIsStale' /\ Phases' /\ UpToDate'
    BY <1>1, <1>2 DEF TimesInv, CliTypes, Empty, TodoIsStale, Phases, UpToDate, Ends, Steps, Building, Built,
       CliAssumption
  <1>4. InThePast' /\ SecondTells' /\ TimesAreTrue'
    BY <1>1, <1>2 DEF TimesInv, InThePast, SecondTells, TimesAreTrue, Ends
  <1> QED BY <1>3, <1>4 DEF TimesInv

\* What a compiler leaves over is none of the object, or one of its kind.
LEMMA Left ==
  ASSUME CliAssumption, TimesInv, NEW s \in Sources, CompilerFails(s)
  PROVE  /\ pc = s /\ Ends /\ UNCHANGED <<app, cert, now, src, cfile, linked, dotflavor>>
         /\ obj' = [obj EXCEPT ![s] = obj'[s]] /\ obj'[s] \in Objects \cup {None}
         /\ s \in Built /\ (obj'[s] # None => obj'[s].flags = obj[s].flags)
         /\ hasty \subseteq hasty' /\ hasty' \subseteq hasty \cup {s}
         /\ s \notin hasty' => obj'[s] = None \/ obj'[s].time # Mtime(src[s])
         /\ trouble' = trouble \cup {"compile"}
  <1>1. s \in Built /\ obj[s] \in Objects /\ obj \in [Sources -> Objects \cup {None}] /\ pc = s /\ now \in Nat
    BY DEF TimesInv, Phases, CliTypes, Built, CompilerFails
  <1>2. obj[s].time \in Nat /\ obj[s].code \in Nat /\ obj[s].flags \in SUBSET (Flavors \cup {"_default"})
    BY <1>1 DEF Objects
  <1>3. PICK left \in LeftOver(s) :
          /\ obj' = [obj EXCEPT ![s] = left]
          /\ hasty' = IF left # None /\ left.time = Mtime(src[s]) THEN hasty \cup {s} ELSE hasty
    BY DEF CompilerFails
  <1>4. obj'[s] = left
    BY <1>1, <1>3
  <1>5. left \in Objects \cup {None} /\ (left # None => left.flags = obj[s].flags)
    <2>1. CASE left = None
      BY <2>1
    <2>2. CASE left # None
      <3>1. PICK second \in obj[s].time..Mtime(now), code \in {0, obj[s].code} :
              left = [time |-> second, code |-> code, flags |-> obj[s].flags]
        BY <2>2 DEF LeftOver
      <3>2. second \in Nat /\ code \in Nat
        BY <1>1, <1>2, Seconds
      <3> QED BY <1>2, <3>1, <3>2 DEF Objects
    <2> QED BY <2>1, <2>2
  <1>6. Ends /\ UNCHANGED <<app, cert, now, src, cfile, linked, dotflavor>> /\ trouble' = trouble \cup {"compile"}
    BY DEF CompilerFails, Exits
  <1> QED BY <1>1, <1>3, <1>4, <1>5, <1>6

LEMMA CompilerFailsTimes ==
  ASSUME CliAssumption, TimesInv, NEW s \in Sources, CompilerFails(s)
  PROVE  TimesInv'
  <1>1. /\ pc = s /\ Ends /\ UNCHANGED <<app, cert, now, src, cfile, linked, dotflavor>>
        /\ \A r \in Sources \ {s} : obj'[r] = obj[r]
        /\ obj' \in [Sources -> Objects \cup {None}]
        /\ hasty \subseteq hasty' /\ hasty' \subseteq hasty \cup {s}
        /\ s \notin hasty' => obj'[s] = None \/ obj'[s].time # Mtime(src[s])
    BY Left DEF TimesInv, CliTypes
  <1>2. pc \in Building /\ pc' = "idle" /\ pc' \notin Building
    BY <1>1 DEF Building, Ends, CliAssumption, Steps
  <1>3. CliTypes'
    BY <1>1, <1>2 DEF TimesInv, CliTypes, Ends, Steps, CliAssumption
  <1>4. Empty'
    BY <1>1, <1>2 DEF TimesInv, Empty, Building, CliAssumption, Steps
  <1>5. TodoIsStale' /\ Phases' /\ UpToDate' /\ InThePast' /\ SecondTells'
    BY <1>1, <1>2 DEF TimesInv, TodoIsStale, Phases, UpToDate, InThePast, SecondTells, Ends, CliAssumption, Steps
  <1>6. TimesAreTrue'
    BY <1>1, <1>2 DEF TimesInv, TimesAreTrue
  <1> QED BY <1>3, <1>4, <1>5, <1>6 DEF TimesInv

\* The steps of a build that change no source, object or registration.
LEMMA MovesTimes ==
  ASSUME CliAssumption, TimesInv,
         CompileKore \/ AssetsAreBuilt \/ GenerateCerts \/ CertsAreMade \/ Link \/ NothingToDo
  PROVE  TimesInv'
  <1> USE DEF CompileKore, AssetsAreBuilt, GenerateCerts, CertsAreMade, Link, NothingToDo, onDisk, local
  <1>1. /\ UNCHANGED <<app, now, src, cfile, obj, dotflavor, flavor, unread, reg, todo, relink, hasty>>
        /\ {pc, pc'} \subseteq {"kore", "assets", "compile", "certs", "link", "said"}
    OBVIOUS
  <1>2. CliTypes' /\ Empty'
    BY <1>1 DEF TimesInv, CliTypes, Steps, Empty
  <1>3. InThePast' /\ SecondTells' /\ TimesAreTrue'
    BY <1>1 DEF TimesInv, InThePast, SecondTells, TimesAreTrue, CliAssumption, Steps
  <1>4. TodoIsStale' /\ UpToDate'
    <2>1. /\ pc \in Building /\ (\A s \in Sources : pc # s /\ pc' # s) /\ TodoIsStale /\ UpToDate /\ CliTypes
      BY <1>1 DEF Building, CliAssumption, Steps, TimesInv
    <2>2. TodoIsStale'
      BY <1>1, <2>1 DEF TodoIsStale, Stale, RequiresBuild, CliTypes
    <2>3. UpToDate'
      BY <1>1, <2>1 DEF UpToDate, Built
    <2> QED BY <2>2, <2>3
  <1>5. Phases'
    BY <1>1 DEF TimesInv, Phases, Building, Built, CliAssumption, Steps
  <1> QED BY <1>2, <1>3, <1>4, <1>5 DEF TimesInv

\* The end of a build, and kodev clean and kodev flavor.
LEMMA CleanTimes ==
  ASSUME CliAssumption, TimesInv,
         \/ BuildEnds \/ Clean \/ (\E f \in Flavors : FlavorChange(f))
         \/ CleanupFiles \/ Unlinks \/ CleanFails
  PROVE  TimesInv'
  <1>1. /\ UNCHANGED <<app, cert, now, src, cfile>> /\ pc' \in {"idle", "clean", "cleaned"}
        /\ app # "files" => pc \notin {"idle", "create"}
        /\ pc' = "cleaned" => Built' = {}
        /\ linked' \in {linked, None} /\ pc \in {"idle", "clean", "cleaned", "said"}
    BY DEF BuildEnds, Clean, FlavorChange, CleanupFiles, Unlinks, CleanFails, Ends, Exits, onDisk, Built, Nothing
  <1>2. /\ (obj' = obj /\ hasty' = hasty) \/ (obj' = Nothing /\ hasty' = {})
        /\ reg' = reg \/ reg' = [s \in Sources |-> 0]
        /\ unread' \in {unread, {}} /\ todo' \in {todo, {}} /\ relink' \in {relink, FALSE}
        /\ flavor' \in {flavor, "dev"} /\ dotflavor' \in Flavors \cup {dotflavor}
    BY DEF BuildEnds, Clean, FlavorChange, CleanupFiles, Unlinks, CleanFails, Ends, Exits, onDisk, local
  <1>3. todo = {}
    BY <1>1 DEF TimesInv, Phases, Building, CliAssumption, Steps
  <1>4. CliTypes'
    <2>1. obj' \in [Sources -> Objects \cup {None}] /\ reg' \in [Sources -> Nat]
      BY <1>2 DEF TimesInv, CliTypes, Nothing
    <2>2. CliTypes
      BY DEF TimesInv
    <2>3. /\ app' = app /\ cert' = cert /\ now' = now /\ src' = src /\ cfile' = cfile
          /\ linked' \in [Sources -> Objects \cup {None}] \cup {None}
      BY <1>1, <2>2 DEF CliTypes
    <2>4. dotflavor' \in Flavors /\ flavor' \in Flavors
      BY <1>2, <2>2 DEF CliTypes, CliAssumption
    <2>5. unread' \subseteq Assets /\ todo' \subseteq Sources /\ relink' \in BOOLEAN /\ hasty' \subseteq Sources
      BY <1>2, <2>2 DEF CliTypes
    <2>6. pc' \in Steps
      BY <1>1 DEF Steps
    <2> QED BY <2>1, <2>2, <2>3, <2>4, <2>5, <2>6 DEF CliTypes
  <1>7. Empty'
    BY <1>1 DEF TimesInv, Empty
  <1>8. \A s \in Sources : reg'[s] \in {reg[s], 0} /\ obj'[s] \in {obj[s], None}
    BY <1>2 DEF TimesInv, CliTypes, Nothing
  <1>9. \A s \in Sources : reg'[s] = 0
    <2>1. CASE BuildEnds
      BY <2>1 DEF BuildEnds, Ends
    <2>2. CASE pc # "said"
      BY <1>1, <1>8, <2>2 DEF TimesInv, Phases, Building, CliAssumption, Steps
    <2> QED BY <2>1, <2>2 DEF Clean, FlavorChange, CleanupFiles, Unlinks, CleanFails
  <1>10. pc \notin Sources /\ pc' \notin Sources
    BY <1>1 DEF CliAssumption, Steps
  <1>5. InThePast' /\ SecondTells' /\ TimesAreTrue'
    <2>1. \A s \in Sources : obj'[s] = None \/ (obj'[s] = obj[s] /\ hasty' = hasty)
      BY <1>2 DEF TimesInv, CliTypes, Nothing
    <2> QED BY <1>1, <1>9, <1>10, <2>1 DEF TimesInv, InThePast, SecondTells, TimesAreTrue
  <1>6. TodoIsStale' /\ UpToDate' /\ Phases'
    BY <1>1, <1>2, <1>3, <1>9, <1>10 DEF TodoIsStale, UpToDate, Phases, Building, CliAssumption, Steps
  <1> QED BY <1>4, <1>5, <1>6, <1>7 DEF TimesInv

\* A second that a source gets is new to its object, or it was in a hurry.
LEMMA EditTimes ==
  ASSUME CliAssumption, TimesInv, NEW s \in Sources, Edit(s) \/ Deletes(s)
  PROVE  TimesInv'
  <1>1. /\ CliTypes /\ InThePast /\ SecondTells /\ Empty /\ TodoIsStale /\ Phases /\ UpToDate /\ TimesAreTrue
        /\ UNCHANGED <<app, cert, cfile, obj, linked, dotflavor, pc, flavor, unread, reg, todo, relink>>
    BY DEF TimesInv, Edit, Deletes, local
  <1>2. \A r \in Sources \ {s} : src'[r] = src[r] /\ (r \in hasty' <=> r \in hasty)
    BY <1>1 DEF Edit, Deletes, CliTypes
  <1>3. /\ src' \in [Sources -> Nat] /\ now \in Nat /\ now' \in Nat /\ now <= now'
        /\ hasty \subseteq hasty' /\ hasty' \subseteq Sources
    BY <1>1 DEF Edit, Deletes, CliTypes
  <1>4. CliTypes'
    BY <1>1, <1>3 DEF CliTypes
  <1>5. CASE Deletes(s)
    <2>1. /\ pc = "idle" /\ src'[s] = 0 /\ now' = now /\ hasty' = hasty /\ todo = {} /\ pc \notin Building
          /\ (\A r \in Sources : reg[r] = 0) /\ src[s] # 0
      BY <1>1, <1>5 DEF Deletes, Phases, CliTypes, Building, CliAssumption, Steps
    <2>2. Empty' /\ InThePast' /\ SecondTells' /\ TimesAreTrue'
      BY <1>1, <1>2, <1>3, <2>1 DEF Empty, InThePast, SecondTells, TimesAreTrue, CliTypes, Built
    <2>3. TodoIsStale' /\ Phases' /\ UpToDate'
      BY <1>1, <2>1 DEF TodoIsStale, Phases, UpToDate, CliAssumption, Steps
    <2> QED BY <1>4, <2>2, <2>3 DEF TimesInv
  <1>6. CASE Edit(s)
    <2>1. /\ src'[s] = now' /\ now' = now + 1 /\ app = "files" /\ src[s] <= now /\ src[s] \in Nat
      BY <1>1, <1>6 DEF Edit, CliTypes, InThePast
    <2>2. s \notin hasty' => ~SameSecond(s)
      BY <1>6 DEF Edit
    <2>3. s \notin hasty' =>
            /\ obj[s] = None \/ pc = s \/ obj[s].time # Mtime(src'[s])
            /\ reg[s] = 0 \/ Mtime(reg[s]) # Mtime(src'[s])
      BY <2>1, <2>2 DEF SameSecond
    <2>4. Empty' /\ InThePast'
      BY <1>1, <1>2, <1>3, <2>1 DEF Empty, InThePast, CliTypes
    <2>5. SecondTells' /\ TimesAreTrue'
      BY <1>1, <1>2, <2>3 DEF SecondTells, TimesAreTrue
    <2>6. \A r \in Sources : src[r] <= src'[r] /\ src[r] \in Nat /\ reg[r] \in Nat
      BY <1>1, <1>2, <2>1 DEF CliTypes
    <2>7. TodoIsStale'
      <3> SUFFICES ASSUME NEW r \in todo
                   PROVE  /\ reg[r] # 0 /\ reg[r] <= src'[r] /\ (pc = r \/ r \in hasty' \/ Stale(r)')
                          /\ r \in Assets => r \notin unread /\ cfile[r] = reg[r]
        BY <1>1 DEF TodoIsStale
      <3>1. /\ r \in Sources /\ reg[r] # 0 /\ reg[r] <= src[r] /\ (pc = r \/ r \in hasty \/ Stale(r))
            /\ r \in Assets => r \notin unread /\ cfile[r] = reg[r]
        BY <1>1 DEF TodoIsStale, CliTypes
      <3>2. reg[r] <= src'[r]
        BY <1>3, <2>6, <3>1
      <3>3. CASE r # s
        BY <1>1, <1>2, <3>1, <3>2, <3>3 DEF Stale, RequiresBuild
      <3>4. CASE r = s
        BY <1>1, <1>3, <2>1, <2>3, <3>1, <3>2, <3>4 DEF Stale, RequiresBuild
      <3> QED BY <3>3, <3>4
    <2>8. Phases'
      <3>1. ASSUME NEW r \in Sources, pc = r
            PROVE  r \in Built /\ obj[r].code \in Nat /\ obj[r].code <= src[r]
        BY <1>1, <3>1 DEF Phases, Built, CliTypes, Objects
      <3>2. \A r \in Sources : pc = r => obj[r].code <= src'[r]
        BY <2>6, <3>1, <1>3
      <3> QED BY <1>1, <3>2 DEF Phases, Built
    <2>9. UpToDate'
      BY <1>1, <1>3 DEF UpToDate, Built
    <2> QED BY <1>4, <2>4, <2>5, <2>7, <2>8, <2>9 DEF TimesInv
  <1> QED BY <1>5, <1>6

LEMMA PassesTimes ==
  ASSUME CliAssumption, TimesInv, Passes
  PROVE  TimesInv'
  <1>1. /\ CliTypes /\ InThePast /\ SecondTells /\ Empty /\ TodoIsStale /\ Phases /\ UpToDate /\ TimesAreTrue
        /\ UNCHANGED <<app, cert, src, cfile, obj, linked, dotflavor, pc, flavor, unread, reg, todo, relink, hasty>>
        /\ app = "files" /\ now' = now + 1
    BY DEF TimesInv, Passes, local
  <1>2. CliTypes' /\ InThePast'
    BY <1>1 DEF CliTypes, InThePast
  <1>3. SecondTells' /\ Empty' /\ TodoIsStale' /\ Phases' /\ UpToDate' /\ TimesAreTrue'
    BY <1>1 DEF SecondTells, Empty, TodoIsStale, Phases, UpToDate, TimesAreTrue, Built, Stale, RequiresBuild
  <1> QED BY <1>2, <1>3 DEF TimesInv

-----------------------------------------------------------------------------
(* Each action keeps what was linked, or is going to be, true.             *)

SaysInv == SameFlavor /\ BuiltAreThere /\ LinkHasReason /\ CertInv /\ WhatItSays

LEMMA InitSays == ASSUME CliAssumption, CliInit PROVE SaysInv
  BY DEF CliInit, SaysInv, SameFlavor, BuiltAreThere, LinkHasReason, CertInv, WhatItSays, Building, Built, Nothing,
     CliAssumption, Steps

LEMMA CreateSays ==
  ASSUME CliAssumption, TimesInv, SaysInv, Create \/ Created
  PROVE  SaysInv'
  <1> USE DEF SaysInv, Create, Created, local, Building, CliAssumption, Steps
  <1>1. Clear' => Clear
    BY DEF Clear
  <1>2. app # "files" => Built = {} /\ linked = None
    BY DEF TimesInv, Empty
  <1>3. SameFlavor' /\ BuiltAreThere'
    BY <1>1, <1>2 DEF SameFlavor, BuiltAreThere, Built
  <1>4. LinkHasReason'
    BY <1>1, <1>2 DEF LinkHasReason, Matches, Built, Stale, RequiresBuild
  <1>5. CertInv' /\ WhatItSays'
    BY <1>2 DEF CertInv, WhatItSays
  <1> QED BY <1>3, <1>4, <1>5

LEMMA BuildSays ==
  ASSUME CliAssumption, TimesInv, SaysInv, NEW f \in Flavors, Build(f)
  PROVE  SaysInv'
  <1> USE DEF SaysInv, Build, onDisk, Built, Building, CliAssumption, Steps
  <1>1. SameFlavor'
    BY DEF SameFlavor, Clear
  <1>2. BuiltAreThere'
    BY DEF BuiltAreThere, Clear
  <1>3. LinkHasReason'
    BY DEF LinkHasReason, Matches, Clear, Stale, RequiresBuild
  <1>4. CertInv' /\ WhatItSays'
    BY DEF CertInv, WhatItSays
  <1> QED BY <1>1, <1>2, <1>3, <1>4

LEMMA BuildAssetSays ==
  ASSUME CliAssumption, TimesInv, SaysInv, NEW s \in Assets, BuildAsset(s)
  PROVE  SaysInv'
  <1> USE DEF SaysInv, BuildAsset, Built, Building, CliAssumption, Steps, TimesInv, CliTypes
  <1>1. SameFlavor' /\ CertInv' /\ WhatItSays'
    BY DEF SameFlavor, CertInv, WhatItSays, Clear
  <1>2. BuiltAreThere'
    BY DEF BuiltAreThere, Clear
  <1>3. LinkHasReason'
    BY DEF LinkHasReason, Matches, Clear, Stale, RequiresBuild
  <1> QED BY <1>1, <1>2, <1>3

LEMMA CompileSays ==
  ASSUME CliAssumption, TimesInv, SaysInv, NEW s \in Sources, CompileSourceFile(s)
  PROVE  SaysInv'
  <1> USE DEF SaysInv, CompileSourceFile, local, Built, Building, CliAssumption, Steps, TimesInv, CliTypes
  <1>1. SameFlavor' /\ CertInv' /\ WhatItSays'
    BY DEF SameFlavor, CertInv, WhatItSays, Clear
  <1>2. BuiltAreThere'
    BY DEF BuiltAreThere, Clear, TodoIsStale, Stale
  <1>3. LinkHasReason'
    BY DEF LinkHasReason
  <1> QED BY <1>1, <1>2, <1>3

LEMMA UtimesSays ==
  ASSUME CliAssumption, TimesInv, SaysInv, NEW s \in Sources, Utimes(s)
  PROVE  SaysInv'
  <1>1. /\ UNCHANGED <<cert, src, linked, dotflavor, flavor, unread, reg, trouble, hasty>>
        /\ pc = s /\ pc' = "compile" /\ relink'
    BY DEF Utimes
  <1>2. Built' = Built /\ \A r \in Built : obj'[r].flags = obj[r].flags
    <2>1. obj[s] \in Objects /\ obj \in [Sources -> Objects \cup {None}] /\ reg[s] \in Nat
      BY DEF Utimes, TimesInv, CliTypes, Phases, Built
    <2>2. /\ obj'[s] = [time |-> Mtime(reg[s]), code |-> obj[s].code, flags |-> obj[s].flags]
          /\ \A r \in Sources \ {s} : obj'[r] = obj[r]
      BY <2>1 DEF Utimes, TimeOf, Objects
    <2>3. obj'[s] \in Objects
      BY <2>1, <2>2, Seconds DEF Objects
    <2> QED BY <2>1, <2>2, <2>3 DEF Built, CliAssumption
  <1>3. SameFlavor' /\ BuiltAreThere'
    BY <1>1, <1>2 DEF SaysInv, SameFlavor, BuiltAreThere, Clear, Building, CliAssumption, Steps
  <1>4. LinkHasReason' /\ CertInv' /\ WhatItSays'
    BY <1>1 DEF SaysInv, LinkHasReason, CertInv, WhatItSays, Building, CliAssumption, Steps
  <1> QED BY <1>3, <1>4 DEF SaysInv

\* The certificate, the link and the last words of a build.
LEMMA LinkSays ==
  ASSUME CliAssumption, TimesInv, SaysInv,
         CompileKore \/ AssetsAreBuilt \/ GenerateCerts \/ CertsAreMade \/ Link \/ NothingToDo
  PROVE  SaysInv'
  <1> USE DEF SaysInv, CompileKore, AssetsAreBuilt, GenerateCerts, CertsAreMade, Link, NothingToDo,
              onDisk, local, Building
  <1>1. SameFlavor' /\ BuiltAreThere'
    BY DEF SameFlavor, BuiltAreThere, Clear, Built
  <1>2. LinkHasReason'
    <2>1. CASE CompileKore
      BY <2>1 DEF LinkHasReason, Matches, Clear, Stale, RequiresBuild, Built, MustLink, Registered, BuiltAreThere,
         CertInv, TimesInv, Phases, CliAssumption, Steps
    <2>2. CASE AssetsAreBuilt
      BY <2>2 DEF LinkHasReason, Matches, Clear, Stale, RequiresBuild, Built, MustLink, Registered, BuiltAreThere,
         CertInv, TimesInv, Phases, CliAssumption, Steps
    <2>3. CASE GenerateCerts
      BY <2>3 DEF LinkHasReason, Matches, Clear, Stale, RequiresBuild, Built, MustLink, Registered, BuiltAreThere,
         CertInv, TimesInv, Phases, CliAssumption, Steps
    <2>4. CASE CertsAreMade
      BY <2>4 DEF LinkHasReason, Matches, Clear, Stale, RequiresBuild, Built, MustLink, Registered, BuiltAreThere,
         CertInv, TimesInv, Phases, CliAssumption, Steps
    <2>5. CASE Link
      BY <2>5 DEF LinkHasReason, Matches, Clear, Stale, RequiresBuild, Built, MustLink, Registered, BuiltAreThere,
         CertInv, TimesInv, Phases, CliAssumption, Steps
    <2>6. CASE NothingToDo
      BY <2>6 DEF LinkHasReason, Matches, Clear, Stale, RequiresBuild, Built, MustLink, Registered, BuiltAreThere,
         CertInv, TimesInv, Phases, CliAssumption, Steps
    <2> QED BY <2>1, <2>2, <2>3, <2>4, <2>5, <2>6
  <1>3. CertInv'
    BY DEF CertInv
  <1>4. WhatItSays'
    <2>1. CASE pc' # "said"
      BY <2>1 DEF WhatItSays
    <2>2. CASE pc' = "said"
      <3>1. /\ pc = "link" /\ UNCHANGED <<cert, reg, flavor, trouble, hasty>>
            /\ \/ linked' = [s \in Sources |-> IF s \in Registered THEN obj[s] ELSE None]
               \/ ~MustLink /\ linked' = linked
        BY <2>2
      <3>2. \A s \in Registered : s \in Built /\ (s \in hasty \/ obj[s].code >= reg[s])
        BY <3>1 DEF TimesInv, Phases, UpToDate, Registered
      <3>3. Clear => \A s \in Built : obj[s].flags = Cflags(flavor)
        BY <3>1 DEF SameFlavor
      <3>4. trouble \cap {"create", "certs"} = {} => cert = "files"
        BY <3>1, <1>3 DEF CertInv, TimesInv, CliTypes
      <3>5. ASSUME Clear
            PROVE  /\ linked' # None \/ Registered = {}
                   /\ \A s \in Registered : linked'[s] = obj[s]
        <4>1. CASE linked' = [s \in Sources |-> IF s \in Registered THEN obj[s] ELSE None]
          BY <4>1 DEF CliAssumption, TimesInv, CliTypes, Registered
        <4>2. CASE ~MustLink /\ linked' = linked
          BY <3>1, <3>2, <3>5, <4>2 DEF MustLink, LinkHasReason, Matches, Registered, TimesInv, Phases
        <4> QED BY <3>1, <4>1, <4>2
      <3>6. Registered' = Registered
        BY <3>1 DEF Registered
      <3> QED BY <3>1, <3>2, <3>3, <3>4, <3>5, <3>6 DEF WhatItSays, Clear, Built
    <2> QED BY <2>1, <2>2
  <1> QED BY <1>1, <1>2, <1>3, <1>4

\* What was compiled when a build fails is linked by a later one: there is
\* more to compile, or the failure is one that is excepted.
LEMMA BuildFailsSays ==
  ASSUME CliAssumption, TimesInv, SaysInv, BuildFails
  PROVE  SaysInv'
  <1>1. /\ Ends /\ linked' \in {linked, None} /\ UNCHANGED <<cert, src, dotflavor, obj, hasty>>
        /\ pc \in {"kore", "assets", "compile", "certs", "link"}
        /\ pc # "link" => linked' = linked
    BY DEF BuildFails, Exits, onDisk
  <1>2. trouble' = trouble \cup {IF pc = "certs" THEN "certs"
                                  ELSE IF pc = "link" \/ (pc = "compile" /\ todo = {}) THEN "link"
                                  ELSE "compile"}
    BY DEF BuildFails, Exits
  <1>4. Clear' => Clear /\ linked' = linked /\ pc # "link" /\ (pc = "compile" => todo # {})
    BY <1>1, <1>2 DEF Clear
  <1>6. pc' = "idle" /\ pc' \notin Building /\ pc \in Building \ {"said"}
    BY <1>1 DEF Ends, Building, CliAssumption, Steps
  <1>7. SameFlavor' /\ BuiltAreThere'
    BY <1>1, <1>4, <1>6 DEF SaysInv, SameFlavor, BuiltAreThere, Built
  <1>8. LinkHasReason'
    <2>1. SUFFICES ASSUME Clear', ~Single, linked' # None
                   PROVE  Matches' \/ \E s \in Sources : Stale(s)'
      BY <1>6 DEF LinkHasReason
    <2>2. CASE pc = "certs"
      BY <1>4, <2>1, <2>2 DEF SaysInv, CertInv
    <2>4. CASE pc \in {"kore", "assets", "compile"}
      <3>2. Matches \/ todo # {} \/ \E s \in unread : Stale(s)
        BY <1>4, <1>6, <2>1, <2>4 DEF SaysInv, LinkHasReason, TimesInv, Phases
      <3>3. todo \cup unread \subseteq Sources /\ \A s \in todo : Stale(s)
        <4>1. hasty = {} /\ pc \notin Sources
          BY <1>4, <2>1, <2>4 DEF Clear, CliAssumption, Steps
        <4> QED BY <4>1 DEF TimesInv, CliTypes, TodoIsStale, CliAssumption
      <3>4. (Matches => Matches') /\ \A s \in Sources : Stale(s)' = Stale(s)
        BY <1>1, <1>4, <2>1 DEF Matches, Stale, RequiresBuild, Built
      <3> QED BY <3>2, <3>3, <3>4
    <2> QED BY <1>1, <1>4, <2>1, <2>2, <2>4
  <1>9. CertInv' /\ WhatItSays'
    BY <1>1, <1>2, <1>6 DEF SaysInv, CertInv, WhatItSays
  <1> QED BY <1>7, <1>8, <1>9 DEF SaysInv

LEMMA CompilerFailsSays ==
  ASSUME CliAssumption, TimesInv, SaysInv, NEW s \in Sources, CompilerFails(s)
  PROVE  SaysInv'
  <1>1. /\ pc = s /\ Ends /\ UNCHANGED <<cert, src, linked, dotflavor>>
        /\ \A r \in Sources \ {s} : obj'[r] = obj[r]
        /\ s \in Built /\ (obj'[s] # None => obj'[s].flags = obj[s].flags)
        /\ hasty \subseteq hasty' /\ (s \notin hasty' => obj'[s] = None \/ obj'[s].time # Mtime(src[s]))
        /\ trouble' = trouble \cup {"compile"}
    BY Left DEF TimesInv, CliTypes
  <1>2. pc \in Building /\ pc \notin Steps /\ pc' = "idle" /\ pc' \notin Building
    BY <1>1 DEF Building, Ends, CliAssumption, Steps
  <1>3. Clear' => Clear /\ s \notin hasty'
    BY <1>1 DEF Clear
  <1>4. src[s] # 0
    BY <1>1 DEF TimesInv, CliTypes, Phases, TodoIsStale
  <1>5. SameFlavor'
    BY <1>1, <1>2, <1>3 DEF SaysInv, SameFlavor, Built, Steps
  <1>6. BuiltAreThere'
    BY <1>1, <1>2, <1>3 DEF SaysInv, BuiltAreThere, Built, Steps
  <1>7. LinkHasReason'
    <2>1. s \notin hasty' => Stale(s)'
      BY <1>1, <1>4 DEF Stale, RequiresBuild
    <2> QED BY <1>2, <1>3, <2>1 DEF LinkHasReason
  <1>8. CertInv' /\ WhatItSays'
    BY <1>1, <1>2 DEF SaysInv, CertInv, WhatItSays, Steps
  <1> QED BY <1>5, <1>6, <1>7, <1>8 DEF SaysInv

LEMMA CleanSays ==
  ASSUME CliAssumption, TimesInv, SaysInv,
         \/ BuildEnds \/ Clean \/ (\E f \in Flavors : FlavorChange(f))
         \/ CleanupFiles \/ Unlinks \/ CleanFails
  PROVE  SaysInv'
  <1>1. CASE BuildEnds
    BY <1>1 DEF BuildEnds, Ends, onDisk, SaysInv, SameFlavor, BuiltAreThere, LinkHasReason, Matches, Clear, Built, CertInv,
       WhatItSays, Building, CliAssumption, Steps
  <1>2. CASE Clean \/ \E f \in Flavors : FlavorChange(f)
    BY <1>2 DEF Clean, FlavorChange, onDisk, local, SaysInv, SameFlavor, BuiltAreThere, LinkHasReason, Clear, Built, CertInv,
       WhatItSays, Building, CliAssumption, Steps
  <1>3. CASE CleanupFiles
    BY <1>3 DEF CleanupFiles, Nothing, local, SaysInv, SameFlavor, BuiltAreThere, LinkHasReason, Matches, Clear, Built, CertInv,
       WhatItSays, Building, CliAssumption, Steps
  <1>4. CASE Unlinks
    <2>1. Built' = {} /\ pc' = "idle" /\ pc = "cleaned" /\ (linked' = None \/ Single) /\ hasty' = hasty
          /\ linked' \in {linked, None} /\ cert' = cert
          /\ trouble' \cap {"create", "certs"} = trouble \cap {"create", "certs"}
      BY <1>4 DEF Unlinks, Built, TimesInv, Phases
    <2> QED BY <2>1 DEF SaysInv, SameFlavor, BuiltAreThere, LinkHasReason, Building, CertInv, WhatItSays,
       CliAssumption, Steps
  <1>5. CASE CleanFails
    <2>1. ~Clear' /\ pc' = "idle" /\ pc \in {"clean", "cleaned"} /\ linked' = linked /\ cert' = cert
          /\ trouble \subseteq trouble'
      BY <1>5 DEF CleanFails, Exits, Ends, onDisk, Clear
    <2> QED BY <2>1 DEF SaysInv, SameFlavor, BuiltAreThere, LinkHasReason, CertInv, WhatItSays
  <1> QED BY <1>1, <1>2, <1>3, <1>4, <1>5

LEMMA EditSays ==
  ASSUME CliAssumption, TimesInv, SaysInv, NEW s \in Sources, Edit(s) \/ Deletes(s)
  PROVE  SaysInv'
  <1> USE DEF SaysInv, Edit, Deletes, local, Clear, Building, TimesInv, CliTypes, CliAssumption, Steps
  <1>1. SameFlavor' /\ CertInv' /\ WhatItSays'
    BY DEF SameFlavor, CertInv, WhatItSays, Built, Registered
  <1>2. CASE Deletes(s)
    BY <1>1, <1>2 DEF BuiltAreThere, LinkHasReason
  <1>3. CASE Edit(s)
    <2>1. src'[s] # 0 /\ \A r \in Sources \ {s} : src'[r] = src[r]
      BY <1>3
    <2>2. BuiltAreThere'
      BY <1>3, <2>1 DEF BuiltAreThere, Built
    <2>3. hasty' = {} => hasty = {} /\ (pc = s \/ Stale(s)')
      BY <1>3, <2>1 DEF Stale, RequiresBuild, SameSecond
    <2>4. LinkHasReason'
      <3>1. SUFFICES ASSUME Clear', ~Single, linked' # None, pc' # "clean"
                     PROVE  \/ Matches'
                            \/ pc' \in Building \ {"said"} /\ (relink' \/ todo' # {} \/ \E r \in unread' : Stale(r)')
                            \/ pc' \notin Building /\ \E r \in Sources : Stale(r)'
        BY DEF LinkHasReason
      <3>2. /\ UNCHANGED <<pc, linked, obj, relink, todo, unread>> /\ Clear /\ (pc = s \/ Stale(s)')
            /\ \A r \in Sources \ {s} : Stale(r)' = Stale(r)
        BY <1>3, <2>1, <2>3, <3>1 DEF Stale, RequiresBuild
      <3>3. CASE Matches
        BY <3>2, <3>3 DEF Matches, Built
      <3>4. CASE pc \in Building \ {"said"} /\ (relink \/ todo # {} \/ \E r \in unread : Stale(r))
        <4>1. pc = s => todo # {}
          BY DEF Phases
        <4> QED BY <3>2, <3>4, <4>1
      <3>5. CASE pc \notin Building /\ \E r \in Sources : Stale(r)
        BY <3>2, <3>5
      <3> QED BY <3>1, <3>2, <3>3, <3>4, <3>5 DEF LinkHasReason
    <2> QED BY <1>1, <2>2, <2>4
  <1> QED BY <1>2, <1>3

LEMMA PassesSays ==
  ASSUME CliAssumption, TimesInv, SaysInv, Passes
  PROVE  SaysInv'
  <1>1. UNCHANGED <<cert, src, obj, linked, dotflavor, pc, flavor, unread, reg, todo, relink, trouble, hasty>>
    BY DEF Passes, local
  <1> QED BY <1>1 DEF SaysInv, SameFlavor, BuiltAreThere, LinkHasReason, CertInv, WhatItSays, Clear, Built,
     Stale, RequiresBuild, Matches, Registered
-----------------------------------------------------------------------------
CliInv == TimesInv /\ SaysInv

LEMMA NextCli ==
  ASSUME CliAssumption, CliInv, [CliNext]_cliVars
  PROVE  CliInv'
  <1> USE DEF CliInv
  <1>1. CASE CliNext
    <2> USE DEF CliNext
    <2>1. CASE Create \/ Created
      BY <2>1, CreateTimes, CreateSays
    <2>2. CASE \E f \in Flavors : Build(f)
      BY <2>2, BuildTimes, BuildSays
    <2>3. CASE \E s \in Assets : BuildAsset(s)
      BY <2>3, BuildAssetTimes, BuildAssetSays
    <2>4. CASE \E s \in Sources : CompileSourceFile(s) \/ Utimes(s)
      BY <2>4, CompileTimes, CompileSays, UtimesTimes, UtimesSays
    <2>5. CASE CompileKore \/ AssetsAreBuilt \/ GenerateCerts \/ CertsAreMade \/ Link \/ NothingToDo
      BY <2>5, MovesTimes, LinkSays
    <2>6. CASE BuildFails \/ Passes
      BY <2>6, BuildFailsTimes, BuildFailsSays, PassesTimes, PassesSays
    <2>7. CASE \/ BuildEnds \/ Clean \/ (\E f \in Flavors : FlavorChange(f))
               \/ CleanupFiles \/ Unlinks \/ CleanFails
      BY <2>7, CleanTimes, CleanSays
    <2>8. CASE \E s \in Sources : Edit(s) \/ Deletes(s)
      BY <2>8, EditTimes, EditSays
    <2>9. CASE \E s \in Sources : CompilerFails(s)
      BY <2>9, CompilerFailsTimes, CompilerFailsSays
    <2> QED BY <1>1, <2>1, <2>2, <2>3, <2>4, <2>5, <2>6, <2>7, <2>8, <2>9
  <1>2. CASE UNCHANGED cliVars
    BY <1>2 DEF cliVars, onDisk, local, TimesInv, CliTypes, InThePast, SecondTells, Empty, TodoIsStale, Phases,
       UpToDate, TimesAreTrue, SaysInv, SameFlavor, BuiltAreThere, LinkHasReason, CertInv, WhatItSays, Built, Stale, RequiresBuild,
       Matches, Clear, Registered
  <1> QED BY <1>1, <1>2

(* An object with the time of a source is of that source, and what kodev   *)
(* says it built is what was asked for: whatever is edited meanwhile, and  *)
(* whatever fails but the link, as long as no second holds two versions of *)
(* a source or its version and an object that was left over - however      *)
(* short a second is, with sources of different base names (cli_build,     *)
(* cli_file_requires_build).                                               *)
THEOREM BuildsStayTrue == ASSUME CliAssumption PROVE CliSpec => []BuildsAreTrue
  <1>1. CliInit => CliInv
    BY InitTimes, InitSays DEF CliInv
  <1>2. CliInv /\ [CliNext]_cliVars => CliInv'
    BY NextCli
  <1>3. CliInv => BuildsAreTrue
    BY DEF CliInv, TimesInv, SaysInv, BuildsAreTrue
  <1> QED BY <1>1, <1>2, <1>3, PTL DEF CliSpec
-----------------------------------------------------------------------------
Stages == {"idle", "free old", "lock", "get", "remove", "put", "unlock"}
Addr  == Nat \X Nat
Tags  == [ptr : Addr, id : Ids]
Calls == [op : {"none", "get", "put"}, block : Pools, len : Nat,
          ptr : Addr \cup {Null}, old : Addr \cup {Null}]

MemoryTypes ==
  /\ freelist \in [Pools -> Seq(Addr)] /\ elms \in [Pools -> Nat] /\ inuse \in [Pools -> Int]
  /\ lock \in [Pools -> {0, 1}] /\ busy \in SUBSET Addr
  /\ holds \in [Threads -> SUBSET Addr] /\ len \in [Live -> Nat]
  /\ step \in [Threads -> Stages] /\ job \in [Threads -> Calls]
  /\ tags \in Seq(Tags)

\* Who is between pool_lock and pool_unlock has the lock of its pool.
Locked(t) == step[t] \in {"get", "remove", "put", "unlock"}
LockInv ==
  /\ \A t \in Threads : Locked(t) => lock[job[t].block] = 1
  /\ \A t, u \in Threads : Locked(t) /\ Locked(u) /\ job[t].block = job[u].block => t = u

\* What a call is about, at each of its steps.
CallOf(t) ==
  /\ step[t] \in {"get", "remove"} => job[t].op = "get"
  /\ step[t] = "put" => job[t].op = "put"
  /\ step[t] \in {"lock", "unlock"} => job[t].op \in {"get", "put"}
  /\ job[t].op = "get" => job[t].len <= Largest /\ job[t].block = Index(job[t].len)
  /\ job[t].op = "put" \/ step[t] \in {"remove", "unlock"} =>
       job[t].ptr \in Addr /\ job[t].ptr[1] = job[t].block
  /\ step[t] = "remove" => Member(freelist[job[t].block], job[t].ptr)
CallInv == \A t \in Threads : CallOf(t)

\* An entry that a thread puts back, or has just been given.
OnTheWay(t) ==
  \/ step[t] \in {"lock", "put"} /\ job[t].op = "put"
  \/ step[t] = "unlock" /\ job[t].op = "get"
Has(t, x) == x \in holds[t] \/ (OnTheWay(t) /\ x = job[t].ptr)

OwnerInv ==
  /\ \A t, u \in Threads : \A x \in Addr : Has(t, x) /\ Has(u, x) => t = u
  /\ \A t \in Threads : OnTheWay(t) => job[t].ptr \notin holds[t]
  /\ \A t \in Threads : \A x \in Addr : Has(t, x) /\ x[1] # Blocks => x \in busy

PoolsInv ==
  \A b \in Pools :
    /\ Once(freelist[b])
    /\ \A x \in Addr : Member(freelist[b], x) => x \notin busy /\ x[1] = b /\ x[2] <= elms[b]
    /\ \A x \in busy : x[1] = b => x[2] <= elms[b]
    /\ elms[b] = inuse[b] + Len(freelist[b])

\* The length before an address says which pool it is from.
LengthInv ==
  \A t \in Threads : \A x \in holds[t] :
    IF x[1] = Blocks THEN ~(len[x] <= Largest)
    ELSE len[x] <= Largest /\ Index(len[x]) = x[1]

TagsInv ==
  /\ Once(tags)
  /\ \A g \in Tags : Member(tags, g) => g.ptr \in holds[Main]
  /\ \A g, h \in Tags :
       Member(tags, g) /\ Member(tags, h) /\ (g.ptr = h.ptr \/ g.id = h.id) => g = h

MemoryInv ==
  MemoryTypes /\ LockInv /\ CallInv /\ OwnerInv /\ PoolsInv /\ LengthInv /\ TagsInv
-----------------------------------------------------------------------------
LEMMA UntaggedOf ==
  ASSUME MemoryTypes, TagsInv, NEW ptr \in Addr
  PROVE  /\ Untagged(ptr) \in Seq(Tags) /\ Once(Untagged(ptr))
         /\ \A g \in Tags : Member(Untagged(ptr), g) <=> Member(tags, g) /\ g.ptr # ptr
  <1> DEFINE T == {i \in 1..Len(tags) : tags[i].ptr = ptr}
  <1>0. tags \in Seq(Tags) /\ Once(tags)
    BY DEF MemoryTypes, TagsInv
  <1>1. CASE T = {}
    <2>1. Untagged(ptr) = tags
      BY <1>1 DEF Untagged, RemoveFirstMatch
    <2>2. \A g : Member(tags, g) => g.ptr # ptr
      BY <1>1 DEF Member
    <2> QED BY <1>0, <2>1, <2>2
  <1>2. CASE T # {}
    <2>1. T \in SUBSET Nat /\ \A i \in T : i \in 1..Len(tags) /\ tags[i].ptr = ptr
      BY <1>0
    <2>2. Untagged(ptr) = RemoveAt(tags, Min(T))
      BY <1>2 DEF Untagged, RemoveFirstMatch, SelectInSeq
    <2> HIDE DEF T
    <2>3. PICK k \in 1..Len(tags) : k = Min(T) /\ tags[k].ptr = ptr
      BY <1>2, <2>1, LeastOf
    <2>4. tags[k] \in Tags /\ Member(tags, tags[k])
      BY <1>0 DEF Member
    <2>5. \A g \in Tags : Member(tags, g) => (g.ptr # ptr <=> g # tags[k])
      BY <2>3, <2>4 DEF TagsInv
    <2> QED BY <1>0, <2>2, <2>3, <2>5, Shorter
  <1> QED BY <1>1, <1>2

\* memblock_index: the first pool whose entries are long enough.
LEMMA IndexOf ==
  ASSUME MemoryAssumption, NEW n \in Nat, n <= Largest
  PROVE  Index(n) \in Pools /\ n <= BlockSize(Index(n))
  <1> DEFINE T == {b \in Pools : n <= BlockSize(b)}
  <1>1. T \in SUBSET Nat /\ Blocks - 1 \in T
    BY DEF MemoryAssumption, Pools, Largest
  <1>2. Min(T) \in T /\ \A y \in T : Min(T) <= y
    BY <1>1, LeastOf
  <1> DEFINE m == Min(T)
  <1>3. m \in Pools /\ n <= BlockSize(m) /\ \A c \in Pools : n <= BlockSize(c) => m <= c
    BY <1>2
  <1> HIDE DEF T, m
  <1> QED BY <1>3 DEF Index

\* What pool_region_create adds.
LEMMA RegionOf ==
  ASSUME NEW b \in Nat, NEW e \in Nat, NEW n \in Nat \ {0}
  PROVE  /\ Region(b, e, n) \in Seq(Addr) /\ Once(Region(b, e, n)) /\ Len(Region(b, e, n)) = n
         /\ \A x : Member(Region(b, e, n), x) => x[1] = b /\ e < x[2] /\ x[2] <= e + n
  <1> DEFINE r == Region(b, e, n)
  <1>1. /\ Len(r) = n
        /\ \A i \in 1..n : r[i] = <<b, e + n - i + 1>> /\ e + n - i + 1 \in Nat
    BY DEF Region
  <1>2. r \in Seq(Addr)
    BY DEF Region, Addr
  <1> HIDE DEF r
  <1>3. Once(r)
    <2>1. ASSUME NEW i \in 1..n, NEW j \in 1..n, r[i] = r[j] PROVE i = j
      <3>1. <<b, e + n - i + 1>> = <<b, e + n - j + 1>>
        BY <1>1, <2>1
      <3>2. e + n - i + 1 = e + n - j + 1
        BY <3>1
      <3> QED BY <3>2
    <2> QED BY <1>1, <2>1 DEF Once
  <1>4. ASSUME NEW x, Member(r, x) PROVE x[1] = b /\ e < x[2] /\ x[2] <= e + n
    <2>1. PICK i \in 1..n : x = <<b, e + n - i + 1>>
      BY <1>1, <1>4 DEF Member
    <2>2. x[1] = b /\ x[2] = e + n - i + 1
      BY <2>1
    <2> QED BY <2>2
  <1> QED BY <1>1, <1>2, <1>3, <1>4 DEF r
-----------------------------------------------------------------------------
LEMMA MemoryStart == ASSUME MemoryAssumption, MemoryInit PROVE MemoryInv
  <1> USE DEF MemoryInit, MemoryAssumption, Pools
  <1>1. \A b \in Pools :
          /\ freelist[b] \in Seq(Addr) /\ Once(freelist[b]) /\ Len(freelist[b]) = Elements
          /\ \A x : Member(freelist[b], x) => x[1] = b /\ x[2] <= Elements
    <2> SUFFICES ASSUME NEW b \in Pools
                 PROVE  /\ freelist[b] \in Seq(Addr) /\ Once(freelist[b]) /\ Len(freelist[b]) = Elements
                        /\ \A x : Member(freelist[b], x) => x[1] = b /\ x[2] <= Elements
      OBVIOUS
    <2>1. freelist[b] = Region(b, 0, Elements) /\ b \in Nat
      OBVIOUS
    <2> QED BY <2>1, RegionOf
  <1>2. Live = {}
    BY DEF Live
  <1>3. MemoryTypes
    <2>1. job \in [Threads -> Calls]
      BY DEF NoJob, Calls
    <2>2. len \in [Live -> Nat]
      BY <1>2
    <2> QED BY <1>1, <2>1, <2>2 DEF MemoryTypes, Stages
  <1>4. LockInv
    BY DEF LockInv, Locked
  <1>5. CallInv
    BY DEF CallInv, CallOf, Locked, NoJob
  <1>6. OwnerInv
    BY DEF OwnerInv, Has, OnTheWay
  <1>7. PoolsInv
    BY <1>1 DEF PoolsInv
  <1>8. LengthInv
    BY DEF LengthInv
  <1>9. TagsInv
    BY DEF TagsInv, Once, Member
  <1> QED BY <1>3, <1>4, <1>5, <1>6, <1>7, <1>8, <1>9 DEF MemoryInv

\* What is not pooled is no pool.
LEMMA PoolsAreNot ==
  ASSUME MemoryAssumption
  PROVE  \A b \in Pools : b # Blocks
  BY DEF MemoryAssumption, Pools

\* A call that begins, with a block of a pool to get.
LEMMA MallocStep ==
  ASSUME MemoryAssumption, MemoryInv, NEW t \in Threads, NEW n \in Lengths,
         NEW old \in Addr \cup {Null}, Malloc(t, n, old)
  PROVE  MemoryInv'
  <1> DEFINE m == IF n = 0 THEN Unit ELSE n
  <1>0. m \in Nat /\ step[t] = "idle" /\ UNCHANGED <<freelist, elms, inuse, lock, busy, tags>>
    BY DEF MemoryAssumption, Malloc, pools
  <1>a. MemoryTypes /\ LockInv /\ CallInv /\ OwnerInv /\ PoolsInv /\ LengthInv /\ TagsInv
    BY DEF MemoryInv
  <1>1. CASE m <= Largest
    <2> DEFINE j == [op |-> "get", block |-> Index(m), len |-> m, ptr |-> Null, old |-> old]
    <2>1. /\ job' = [job EXCEPT ![t] = j] /\ step' = [step EXCEPT ![t] = "lock"]
          /\ UNCHANGED <<holds, len>>
      BY <1>1 DEF Malloc, Sets
    <2>2. j \in Calls /\ j.op = "get" /\ j.len <= Largest /\ j.block = Index(j.len)
      BY <1>0, <1>1, IndexOf DEF Calls
    <2> HIDE DEF j, m
    <2>3. /\ job' \in [Threads -> Calls] /\ step' \in [Threads -> Stages]
          /\ \A u \in Threads : u # t => job'[u] = job[u] /\ step'[u] = step[u]
          /\ job'[t] = j /\ step'[t] = "lock"
      BY <1>a, <2>1, <2>2 DEF MemoryTypes, Stages
    <2>4. \A u \in Threads : (Locked(u)' <=> Locked(u)) /\ (OnTheWay(u)' <=> OnTheWay(u))
      BY <1>0, <2>2, <2>3 DEF Locked, OnTheWay
    <2>5. \A u \in Threads : Locked(u) \/ OnTheWay(u) => job'[u] = job[u] /\ step'[u] = step[u]
      BY <1>0, <2>3 DEF Locked, OnTheWay
    <2>6. MemoryTypes'
      BY <1>a, <1>0, <2>1, <2>3 DEF MemoryTypes, Live
    <2>7. LockInv'
      BY <1>a, <1>0, <2>4, <2>5 DEF LockInv
    <2>8. CallInv'
      BY <1>a, <1>0, <2>2, <2>3 DEF CallInv, CallOf, Locked
    <2>9. \A u \in Threads : \A x : Has(u, x)' <=> Has(u, x)
      BY <2>1, <2>4, <2>5 DEF Has
    <2>10. OwnerInv'
      BY <1>a, <1>0, <2>1, <2>4, <2>5, <2>9 DEF OwnerInv
    <2> QED BY <1>a, <1>0, <2>1, <2>6, <2>7, <2>8, <2>10 DEF MemoryInv, PoolsInv, LengthInv, TagsInv
  <1>2. CASE ~(m <= Largest)
    <2>1. PICK k \in 1..MaxLarge :
            /\ <<Blocks, k>> \notin Live
            /\ len' = With(len, <<Blocks, k>>, m)
            /\ holds' = [holds EXCEPT ![t] = @ \cup {<<Blocks, k>>}]
            /\ Sets(t, [NoJob EXCEPT !.old = old], IF old = Null THEN "idle" ELSE "free old")
      BY <1>2 DEF Malloc
    <2> DEFINE a == <<Blocks, k>>
               j == [NoJob EXCEPT !.old = old]
               at == IF old = Null THEN "idle" ELSE "free old"
    <2>2. a \in Addr /\ a[1] = Blocks
      BY DEF Addr, MemoryAssumption
    <2>3. j \in Calls /\ j.op = "none" /\ at \in {"idle", "free old"}
      BY DEF NoJob, Calls, Pools, MemoryAssumption
    <2>4. /\ a \notin Live /\ len' = With(len, a, m)
          /\ holds' = [holds EXCEPT ![t] = @ \cup {a}]
          /\ job' = [job EXCEPT ![t] = j] /\ step' = [step EXCEPT ![t] = at]
      BY <2>1 DEF Sets
    <2> HIDE DEF a, j, at, m
    <2>5. /\ job' \in [Threads -> Calls] /\ step' \in [Threads -> Stages]
          /\ holds' \in [Threads -> SUBSET Addr]
          /\ \A u \in Threads : u # t => job'[u] = job[u] /\ step'[u] = step[u] /\ holds'[u] = holds[u]
          /\ job'[t] = j /\ step'[t] = at /\ holds'[t] = holds[t] \cup {a}
      BY <1>a, <2>2, <2>3, <2>4 DEF MemoryTypes, Stages
    <2>6. \A u \in Threads : (Locked(u)' <=> Locked(u)) /\ (OnTheWay(u)' <=> OnTheWay(u))
      BY <1>0, <2>3, <2>5 DEF Locked, OnTheWay
    <2>7. \A u \in Threads : Locked(u) \/ OnTheWay(u) => job'[u] = job[u] /\ step'[u] = step[u]
      BY <1>0, <2>5 DEF Locked, OnTheWay
    <2>8. Live' = Live \cup {a} /\ \A u \in Threads : a \notin holds[u]
      BY <2>4, <2>5 DEF Live
    <2>9. /\ len' \in [Live' -> Nat] /\ len'[a] = m
          /\ \A x \in Live : x # a /\ len'[x] = len[x]
      BY <1>a, <1>0, <2>4, <2>8 DEF MemoryTypes, With
    <2>10. MemoryTypes'
      BY <1>a, <1>0, <2>5, <2>9 DEF MemoryTypes
    <2>11. LockInv'
      BY <1>a, <1>0, <2>6, <2>7 DEF LockInv
    <2>12. CallInv'
      <3>1. CallOf(t)'
        BY <2>3, <2>5 DEF CallOf
      <3>2. ASSUME NEW u \in Threads, u # t PROVE CallOf(u)'
        <4>1. freelist' = freelist /\ job'[u] = job[u] /\ step'[u] = step[u] /\ CallOf(u)
          BY <1>a, <1>0, <2>5, <3>2 DEF CallInv
        <4> QED BY <4>1 DEF CallOf
      <3> QED BY <3>1, <3>2 DEF CallInv
    <2>13. \A u \in Threads : \A x : Has(u, x)' <=> Has(u, x) \/ (u = t /\ x = a)
      BY <2>5, <2>6, <2>7 DEF Has
    <2>14. \A u \in Threads : ~Has(u, a)
      <3>1. \A u \in Threads : OnTheWay(u) => job[u].ptr[1] = job[u].block /\ job[u].block \in Pools
        BY <1>a DEF CallInv, CallOf, OnTheWay, MemoryTypes, Calls
      <3>2. a[1] \notin Pools
        BY <2>2 DEF Pools, MemoryAssumption
      <3> QED BY <2>8, <3>1, <3>2 DEF Has
    <2>15. OwnerInv'
      <3>1. \A u, w \in Threads : \A x \in Addr : Has(u, x)' /\ Has(w, x)' => u = w
        BY <1>a, <2>13, <2>14 DEF OwnerInv
      <3>2. \A u \in Threads : OnTheWay(u)' => job'[u].ptr \notin holds'[u]
        BY <1>a, <2>5, <2>6, <2>7, <2>14 DEF OwnerInv, Has
      <3>3. \A u \in Threads : \A x \in Addr : Has(u, x)' /\ x[1] # Blocks => x \in busy
        BY <1>a, <2>2, <2>13 DEF OwnerInv
      <3> QED BY <1>0, <3>1, <3>2, <3>3 DEF OwnerInv
    <2>16. LengthInv'
      <3>1. \A u \in Threads : \A x \in holds[u] : x \in Live
        BY DEF Live
      <3> QED BY <1>a, <1>2, <2>2, <2>5, <2>9, <3>1 DEF LengthInv
    <2>17. TagsInv'
      BY <1>a, <1>0, <2>5 DEF TagsInv, MemoryAssumption
    <2> QED BY <1>a, <1>0, <2>10, <2>11, <2>12, <2>15, <2>16, <2>17 DEF MemoryInv, PoolsInv
  <1> QED BY <1>1, <1>2

\* A free, which looks at the length for the pool and takes the tag off.
LEMMA FreeStep ==
  ASSUME MemoryAssumption, MemoryInv, NEW t \in Threads, NEW ptr \in holds[t], Free(t, ptr)
  PROVE  MemoryInv'
  <1>a. MemoryTypes /\ LockInv /\ CallInv /\ OwnerInv /\ PoolsInv /\ LengthInv /\ TagsInv
    BY DEF MemoryInv
  <1>b. ptr \in Addr /\ ptr \in Live /\ len[ptr] \in Nat
    BY <1>a DEF MemoryTypes, Live
  <1>0. /\ step[t] \in {"idle", "free old"} /\ UNCHANGED <<freelist, elms, inuse, lock, busy>>
        /\ holds' = [holds EXCEPT ![t] = @ \ {ptr}] /\ tags' = Untagged(ptr)
        /\ len' = Restrict(len, DOMAIN len \ {ptr})
    BY DEF Free, pools
  <1>1. PICK j \in Calls, at \in {"idle", "lock"} :
          /\ job' = [job EXCEPT ![t] = j] /\ step' = [step EXCEPT ![t] = at]
          /\ at = "lock" => j.op = "put" /\ j.ptr = ptr /\ ptr[1] = j.block
          /\ at = "idle" => j.op = "none" /\ ptr[1] = Blocks
          /\ j.op # "get"
    <2>1. CASE len[ptr] <= Largest
      <3> DEFINE j == [op |-> "put", block |-> Index(len[ptr]), len |-> 0, ptr |-> ptr, old |-> Null]
      <3>1. job' = [job EXCEPT ![t] = j] /\ step' = [step EXCEPT ![t] = "lock"]
        BY <2>1 DEF Free, Sets
      <3>2. Index(len[ptr]) \in Pools
        BY <1>b, <2>1, IndexOf
      <3>4. j \in Calls /\ j.op = "put" /\ j.ptr = ptr /\ j.block = Index(len[ptr])
        BY <1>b, <3>2 DEF Calls
      <3>5. ptr[1] = Index(len[ptr])
        BY <1>a, <2>1 DEF LengthInv
      <3> HIDE DEF j
      <3> QED BY <3>1, <3>4, <3>5
    <2>2. CASE ~(len[ptr] <= Largest)
      <3>1. job' = [job EXCEPT ![t] = NoJob] /\ step' = [step EXCEPT ![t] = "idle"]
        BY <2>2 DEF Free, Sets
      <3>2. NoJob \in Calls /\ NoJob.op = "none"
        BY DEF NoJob, Calls, Pools, MemoryAssumption
      <3>3. ptr[1] = Blocks
        BY <1>a, <2>2 DEF LengthInv
      <3> QED BY <3>1, <3>2, <3>3
    <2> QED BY <2>1, <2>2
  <1>2. /\ job' \in [Threads -> Calls] /\ step' \in [Threads -> Stages]
        /\ holds' \in [Threads -> SUBSET Addr]
        /\ \A u \in Threads : u # t => job'[u] = job[u] /\ step'[u] = step[u] /\ holds'[u] = holds[u]
        /\ job'[t] = j /\ step'[t] = at /\ holds'[t] = holds[t] \ {ptr}
    BY <1>a, <1>0, <1>1 DEF MemoryTypes, Stages
  <1>3. \A u \in Threads : ptr \in holds[u] => u = t
    BY <1>a, <1>b DEF OwnerInv, Has
  <1>4. Live' = Live \ {ptr}
    BY <1>2, <1>3 DEF Live
  <1>5. len' \in [Live' -> Nat] /\ \A x \in Live' : len'[x] = len[x]
    BY <1>a, <1>0, <1>4 DEF MemoryTypes, Restrict
  <1>6. /\ tags' \in Seq(Tags) /\ Once(tags')
        /\ \A g \in Tags : Member(tags', g) <=> Member(tags, g) /\ g.ptr # ptr
    BY <1>a, <1>b, <1>0, UntaggedOf
  <1>7. MemoryTypes'
    BY <1>a, <1>0, <1>2, <1>5, <1>6 DEF MemoryTypes
  <1>8. \A u \in Threads : (Locked(u)' <=> Locked(u)) /\ (Locked(u) => job'[u] = job[u])
    BY <1>0, <1>1, <1>2 DEF Locked
  <1>9. LockInv'
    BY <1>a, <1>0, <1>8 DEF LockInv
  <1>10. CallInv'
    BY <1>a, <1>b, <1>0, <1>1, <1>2 DEF CallInv, CallOf
  <1>11. \A u \in Threads : u # t => (OnTheWay(u)' <=> OnTheWay(u)) /\ job'[u] = job[u]
    BY <1>2 DEF OnTheWay
  <1>12. OnTheWay(t)' => job'[t].ptr = ptr /\ ptr[1] # Blocks
    BY <1>1, <1>2 DEF OnTheWay, Calls, Pools, MemoryAssumption
  <1>13. \A u \in Threads : \A x : Has(u, x)' => Has(u, x)
    BY <1>2, <1>11, <1>12 DEF Has
  <1>14. OwnerInv'
    <2>1. \A u \in Threads : OnTheWay(u)' => job'[u].ptr \notin holds'[u]
      BY <1>a, <1>2, <1>11, <1>12 DEF OwnerInv
    <2>2. \A u, w \in Threads : \A x \in Addr : Has(u, x)' /\ Has(w, x)' => u = w
      BY <1>a, <1>13 DEF OwnerInv
    <2>3. \A u \in Threads : \A x \in Addr : Has(u, x)' /\ x[1] # Blocks => x \in busy
      BY <1>a, <1>13 DEF OwnerInv
    <2> QED BY <1>0, <2>1, <2>2, <2>3 DEF OwnerInv
  <1>15. LengthInv'
    <2>1. \A u \in Threads : \A x \in holds'[u] : x \in Live' /\ x \in holds[u]
      BY <1>2 DEF Live
    <2> QED BY <1>a, <1>5, <2>1 DEF LengthInv
  <1>16. TagsInv'
    <2>1. \A g \in Tags : Member(tags', g) => g.ptr \in holds'[Main]
      BY <1>a, <1>2, <1>6 DEF TagsInv, MemoryAssumption
    <2> QED BY <1>a, <1>6, <2>1 DEF TagsInv
  <1> QED BY <1>a, <1>0, <1>7, <1>9, <1>10, <1>14, <1>15, <1>16 DEF MemoryInv, PoolsInv

\* Only the owner of a lock goes on behind it.
LEMMA PoolLockStep ==
  ASSUME MemoryAssumption, MemoryInv, NEW t \in Threads, PoolLock(t)
  PROVE  MemoryInv'
  <1>a. MemoryTypes /\ LockInv /\ CallInv /\ OwnerInv /\ PoolsInv /\ LengthInv /\ TagsInv
    BY DEF MemoryInv
  <1> DEFINE b == job[t].block
  <1>0. /\ step[t] = "lock" /\ lock[b] = 0 /\ lock' = [lock EXCEPT ![b] = 1]
        /\ step' = [step EXCEPT ![t] = job[t].op]
        /\ UNCHANGED <<freelist, elms, inuse, busy, len, tags, holds, job>>
    BY DEF PoolLock, LockFree
  <1>1. b \in Pools /\ job[t].op \in {"get", "put"}
    BY <1>a, <1>0 DEF MemoryTypes, Calls, CallInv, CallOf
  <1> HIDE DEF b
  <1>2. /\ step' \in [Threads -> Stages] /\ step'[t] = job[t].op
        /\ \A u \in Threads : u # t => step'[u] = step[u]
        /\ lock' \in [Pools -> {0, 1}] /\ lock'[b] = 1 /\ \A c \in Pools : c # b => lock'[c] = lock[c]
    BY <1>a, <1>0, <1>1 DEF MemoryTypes, Stages
  <1>3. MemoryTypes'
    BY <1>a, <1>0, <1>2 DEF MemoryTypes, Live
  <1>4. \A u \in Threads : u # t => (Locked(u)' <=> Locked(u))
    BY <1>2 DEF Locked
  <1>5. LockInv'
    <2>1. \A u \in Threads : Locked(u) => job[u].block # b
      BY <1>a, <1>0 DEF LockInv
    <2>2. \A u \in Threads : job[u].block \in Pools
      BY <1>a DEF MemoryTypes, Calls
    <2> QED BY <1>a, <1>0, <1>2, <1>4, <2>1, <2>2 DEF LockInv, b
  <1>6. CallInv'
    BY <1>a, <1>0, <1>1, <1>2 DEF CallInv, CallOf
  <1>7. \A u \in Threads : OnTheWay(u)' <=> OnTheWay(u)
    BY <1>0, <1>1, <1>2 DEF OnTheWay
  <1>8. OwnerInv'
    BY <1>a, <1>0, <1>7 DEF OwnerInv, Has
  <1> QED BY <1>a, <1>0, <1>3, <1>5, <1>6, <1>8 DEF MemoryInv, PoolsInv, LengthInv, TagsInv

\* The first entry of the list, of which there is one, is free.
LEMMA PoolGetStep ==
  ASSUME MemoryAssumption, MemoryInv, NEW t \in Threads, PoolGet(t)
  PROVE  MemoryInv'
  <1>a. MemoryTypes /\ LockInv /\ CallInv /\ OwnerInv /\ PoolsInv /\ LengthInv /\ TagsInv
    BY DEF MemoryInv
  <1> DEFINE b == job[t].block
             list == IF freelist[b] = <<>> THEN Region(b, elms[b], Growth) ELSE freelist[b]
             n == IF freelist[b] = <<>> THEN elms[b] + Growth ELSE elms[b]
             e == Head(list)
  <1>0. step[t] = "get" /\ job[t].op = "get" /\ b \in Pools /\ b \in Nat
    BY <1>a DEF PoolGet, CallInv, CallOf, MemoryTypes, Calls, Pools
  <1>1. /\ list \in Seq(Addr) /\ Once(list) /\ list # <<>> /\ n \in Nat
        /\ \A x \in Addr : Member(list, x) => x \notin busy /\ x[1] = b /\ x[2] <= n
        /\ \A x \in busy : x[1] = b => x[2] <= n
        /\ n = inuse[b] + Len(list)
    <2>1. /\ freelist[b] \in Seq(Addr) /\ Once(freelist[b]) /\ elms[b] \in Nat /\ inuse[b] \in Int
          /\ \A x \in Addr : Member(freelist[b], x) => x \notin busy /\ x[1] = b /\ x[2] <= elms[b]
          /\ \A x \in busy : x[1] = b => x[2] <= elms[b]
          /\ \A x \in busy : x[2] \in Nat
          /\ elms[b] = inuse[b] + Len(freelist[b]) /\ Growth \in Nat \ {0}
      BY <1>a, <1>0 DEF MemoryTypes, PoolsInv, MemoryAssumption, Addr
    <2>2. CASE freelist[b] # <<>>
      BY <2>1, <2>2
    <2>3. CASE freelist[b] = <<>>
      <3>1. /\ list \in Seq(Addr) /\ Once(list) /\ Len(list) = Growth
            /\ \A x : Member(list, x) => x[1] = b /\ elms[b] < x[2] /\ x[2] <= n
        <4>1. list = Region(b, elms[b], Growth) /\ n = elms[b] + Growth
          BY <2>3
        <4> HIDE DEF list, n, b
        <4>2. b \in Nat /\ elms[b] \in Nat /\ Growth \in Nat \ {0}
          BY <1>0, <2>1
        <4>3. /\ Region(b, elms[b], Growth) \in Seq(Addr) /\ Once(Region(b, elms[b], Growth))
              /\ Len(Region(b, elms[b], Growth)) = Growth
              /\ \A x : Member(Region(b, elms[b], Growth), x) =>
                   x[1] = b /\ elms[b] < x[2] /\ x[2] <= elms[b] + Growth
          BY <4>2, RegionOf
        <4> QED BY <4>1, <4>3
      <3>2. n \in Nat /\ n = elms[b] + Growth /\ Len(freelist[b]) = 0
        BY <2>1, <2>3
      <3> HIDE DEF list, n, b
      <3>3. \A x \in Addr : x[2] \in Nat
        BY DEF Addr
      <3>4. \A x \in Addr : Member(list, x) => x \notin busy
        BY <2>1, <3>1, <3>3
      <3>5. \A x \in busy : x[1] = b => x[2] <= n
        BY <2>1, <3>2
      <3>6. list # <<>> /\ n = inuse[b] + Len(list)
        BY <2>1, <3>1, <3>2
      <3> QED BY <3>1, <3>2, <3>4, <3>5, <3>6
    <2> QED BY <2>2, <2>3
  <1>2. e \in Addr /\ Member(list, e) /\ e \notin busy /\ e[1] = b
    <2> HIDE DEF list
    <2>1. e = list[1] /\ 1 \in 1..Len(list) /\ e \in Addr
      BY <1>1
    <2>2. Member(list, e)
      BY <2>1 DEF Member
    <2> QED BY <1>1, <2>1, <2>2
  <1>3. /\ freelist' = [freelist EXCEPT ![b] = list] /\ elms' = [elms EXCEPT ![b] = n]
        /\ job' = [job EXCEPT ![t] = [job[t] EXCEPT !.ptr = e]]
        /\ step' = [step EXCEPT ![t] = "remove"]
        /\ UNCHANGED <<inuse, lock, busy, len, tags, holds>>
    BY <1>2 DEF PoolGet, Sets, Fatal
  <1>4. \A c \in Pools : freelist[c] = <<>> \/ freelist[c] # <<>>
    OBVIOUS
  <1> HIDE DEF list, n, e, b
  <1>5. /\ freelist' \in [Pools -> Seq(Addr)] /\ freelist'[b] = list
        /\ elms' \in [Pools -> Nat] /\ elms'[b] = n
        /\ \A c \in Pools : c # b => freelist'[c] = freelist[c] /\ elms'[c] = elms[c]
    BY <1>a, <1>0, <1>1, <1>3 DEF MemoryTypes
  <1>6. /\ job' \in [Threads -> Calls] /\ step' \in [Threads -> Stages]
        /\ \A u \in Threads : u # t => job'[u] = job[u] /\ step'[u] = step[u]
        /\ job'[t].op = "get" /\ job'[t].block = b /\ job'[t].len = job[t].len
        /\ job'[t].ptr = e /\ step'[t] = "remove"
    <2>1. job[t] \in Calls /\ [job[t] EXCEPT !.ptr = e] \in Calls
      BY <1>a, <1>2 DEF MemoryTypes, Calls
    <2>2. job'[t] = [job[t] EXCEPT !.ptr = e]
      BY <1>a, <1>3 DEF MemoryTypes
    <2>3. /\ job'[t].op = "get" /\ job'[t].block = b /\ job'[t].len = job[t].len
          /\ job'[t].ptr = e
      BY <1>0, <2>1, <2>2 DEF Calls, b
    <2> QED BY <1>a, <1>3, <2>1, <2>3 DEF MemoryTypes, Stages
  <1>7. MemoryTypes'
    BY <1>a, <1>3, <1>5, <1>6 DEF MemoryTypes, Live
  <1>8. LockInv'
    <2>1. \A u \in Threads : (Locked(u)' <=> Locked(u)) /\ job'[u].block = job[u].block
      BY <1>0, <1>6 DEF Locked, b
    <2> QED BY <1>a, <1>3, <2>1 DEF LockInv
  <1>9. CallInv'
    <2>1. \A u \in Threads : u # t /\ step[u] = "remove" => job[u].block # b
      BY <1>a, <1>0 DEF LockInv, Locked, b
    <2>2. \A u \in Threads : job[u].block \in Pools
      BY <1>a DEF MemoryTypes, Calls
    <2>3. job[t].op = "get" => job[t].len <= Largest /\ b = Index(job[t].len)
      BY <1>a DEF CallInv, CallOf, b
    <2>4. \A u \in Threads : u # t /\ step[u] = "remove" => Member(freelist'[job[u].block], job[u].ptr)
      BY <1>a, <1>5, <2>1, <2>2 DEF CallInv, CallOf
    <2>5. CallOf(t)'
      BY <1>0, <1>2, <1>5, <1>6, <2>3 DEF CallOf
    <2>6. \A u \in Threads : u # t => CallOf(u)'
      BY <1>a, <1>6, <2>4 DEF CallInv, CallOf
    <2> QED BY <2>5, <2>6 DEF CallInv
  <1>10. \A u \in Threads : (OnTheWay(u)' <=> OnTheWay(u)) /\ (OnTheWay(u) => job'[u] = job[u])
    BY <1>0, <1>6 DEF OnTheWay
  <1>11. OwnerInv'
    BY <1>a, <1>3, <1>10 DEF OwnerInv, Has
  <1>12. PoolsInv'
    BY <1>a, <1>1, <1>3, <1>5 DEF PoolsInv
  <1> QED BY <1>a, <1>3, <1>7, <1>8, <1>9, <1>11, <1>12 DEF MemoryInv, LengthInv, TagsInv

\* The entry leaves the list as it becomes busy.
LEMMA PoolRemoveStep ==
  ASSUME MemoryAssumption, MemoryInv, NEW t \in Threads, PoolRemove(t)
  PROVE  MemoryInv'
  <1>a. MemoryTypes /\ LockInv /\ CallInv /\ OwnerInv /\ PoolsInv /\ LengthInv /\ TagsInv
    BY DEF MemoryInv
  <1> DEFINE b == job[t].block
             e == job[t].ptr
  <1>0. /\ step[t] = "remove" /\ step' = [step EXCEPT ![t] = "unlock"]
        /\ freelist' = [freelist EXCEPT ![b] = RemoveFirst(@, e)]
        /\ busy' = busy \cup {e} /\ inuse' = [inuse EXCEPT ![b] = @ + 1]
        /\ UNCHANGED <<elms, lock, len, tags, holds, job>>
    BY DEF PoolRemove
  <1>1. /\ b \in Pools /\ b # Blocks /\ job[t].op = "get" /\ e \in Addr /\ e[1] = b
        /\ freelist[b] \in Seq(Addr) /\ Once(freelist[b]) /\ Member(freelist[b], e)
        /\ e \notin busy /\ e[2] <= elms[b] /\ elms[b] = inuse[b] + Len(freelist[b])
        /\ inuse[b] \in Int
    <2>1. b \in Pools /\ b # Blocks
      <3>1. job[t] \in Calls
        BY <1>a DEF MemoryTypes
      <3>2. b \in Pools
        BY <3>1 DEF Calls
      <3> QED BY <3>2, PoolsAreNot
    <2>2. /\ job[t].op = "get" /\ e \in Addr /\ e[1] = b /\ Member(freelist[b], e)
      BY <1>a, <1>0 DEF CallInv, CallOf
    <2>3. /\ Once(freelist[b])
          /\ \A x \in Addr : Member(freelist[b], x) => x \notin busy /\ x[2] <= elms[b]
          /\ elms[b] = inuse[b] + Len(freelist[b])
      BY <1>a, <2>1 DEF PoolsInv
    <2>4. freelist[b] \in Seq(Addr) /\ inuse[b] \in Int
      BY <1>a, <2>1 DEF MemoryTypes
    <2> QED BY <2>1, <2>2, <2>3, <2>4
  <1> DEFINE list == RemoveFirst(freelist[b], e)
  <1>2. /\ list \in Seq(Addr) /\ Once(list) /\ Len(list) = Len(freelist[b]) - 1
        /\ \A x : Member(list, x) <=> Member(freelist[b], x) /\ x # e
    BY <1>1, RemovedOnce
  <1>3. /\ freelist' \in [Pools -> Seq(Addr)] /\ freelist'[b] = list
        /\ inuse' \in [Pools -> Int] /\ inuse'[b] = inuse[b] + 1
        /\ \A c \in Pools : c # b => freelist'[c] = freelist[c] /\ inuse'[c] = inuse[c]
        /\ busy' \in SUBSET Addr
        /\ step' \in [Threads -> Stages] /\ step'[t] = "unlock"
        /\ \A u \in Threads : u # t => step'[u] = step[u]
    <2>1. freelist' = [freelist EXCEPT ![b] = list]
      BY <1>0
    <2> HIDE DEF b, e, list
    <2>2. /\ freelist' \in [Pools -> Seq(Addr)] /\ freelist'[b] = list
          /\ \A c \in Pools : c # b => freelist'[c] = freelist[c]
      BY <1>a, <1>1, <1>2, <2>1 DEF MemoryTypes
    <2>3. /\ inuse' \in [Pools -> Int] /\ inuse'[b] = inuse[b] + 1
          /\ \A c \in Pools : c # b => inuse'[c] = inuse[c]
      BY <1>a, <1>0, <1>1 DEF MemoryTypes
    <2>4. /\ busy' \in SUBSET Addr /\ step' \in [Threads -> Stages] /\ step'[t] = "unlock"
          /\ \A u \in Threads : u # t => step'[u] = step[u]
      BY <1>a, <1>0, <1>1 DEF MemoryTypes, Stages
    <2> QED BY <2>2, <2>3, <2>4
  <1>4. Len(freelist[b]) \in Nat
    BY <1>1
  <1> HIDE DEF b, e, list
  <1>5. MemoryTypes'
    BY <1>a, <1>0, <1>3 DEF MemoryTypes, Live
  <1>6. LockInv'
    <2>1. \A u \in Threads : Locked(u)' <=> Locked(u)
      BY <1>0, <1>3 DEF Locked
    <2> QED BY <1>a, <1>0, <2>1 DEF LockInv
  <1>7. CallInv'
    <2>1. \A u \in Threads : u # t /\ step[u] = "remove" => job[u].block # b
      BY <1>a, <1>0 DEF LockInv, Locked, b
    <2>2. \A u \in Threads : job[u].block \in Pools
      BY <1>a DEF MemoryTypes, Calls
    <2>3. CallOf(t)'
      BY <1>a, <1>0, <1>1, <1>3 DEF CallInv, CallOf, b, e
    <2>4. \A u \in Threads : u # t => CallOf(u)'
      BY <1>a, <1>0, <1>3, <2>1, <2>2 DEF CallInv, CallOf
    <2> QED BY <2>3, <2>4 DEF CallInv
  <1>8. /\ \A u \in Threads : u # t => (OnTheWay(u)' <=> OnTheWay(u))
        /\ OnTheWay(t)' /\ ~OnTheWay(t)
    BY <1>0, <1>1, <1>3 DEF OnTheWay
  <1>9. \A u \in Threads : \A x : Has(u, x)' <=> Has(u, x) \/ (u = t /\ x = e)
    BY <1>0, <1>8 DEF Has, e
  <1>10. \A u \in Threads : ~Has(u, e)
    BY <1>a, <1>1 DEF OwnerInv
  <1>11. OwnerInv'
    <2>1. \A u, w \in Threads : \A x \in Addr : Has(u, x)' /\ Has(w, x)' => u = w
      BY <1>a, <1>9, <1>10 DEF OwnerInv
    <2>2. \A u \in Threads : OnTheWay(u)' => job'[u].ptr \notin holds'[u]
      BY <1>a, <1>0, <1>8, <1>10 DEF OwnerInv, Has, e
    <2>3. \A u \in Threads : \A x \in Addr : Has(u, x)' /\ x[1] # Blocks => x \in busy'
      BY <1>a, <1>0, <1>9 DEF OwnerInv
    <2> QED BY <2>1, <2>2, <2>3 DEF OwnerInv
  <1>12. PoolsInv'
    <2> SUFFICES ASSUME NEW c \in Pools
                 PROVE  /\ Once(freelist'[c])
                        /\ \A x \in Addr : Member(freelist'[c], x) =>
                             x \notin busy' /\ x[1] = c /\ x[2] <= elms'[c]
                        /\ \A x \in busy' : x[1] = c => x[2] <= elms'[c]
                        /\ elms'[c] = inuse'[c] + Len(freelist'[c])
      BY DEF PoolsInv
    <2>1. CASE c = b
      <3>1. \A x \in Addr : Member(freelist'[c], x) => x \notin busy' /\ x[1] = c /\ x[2] <= elms'[c]
        BY <1>a, <1>0, <1>1, <1>2, <1>3, <2>1 DEF PoolsInv
      <3>2. \A x \in busy' : x[1] = c => x[2] <= elms'[c]
        BY <1>a, <1>0, <1>1, <2>1 DEF PoolsInv
      <3>3. Once(freelist'[c])
        BY <1>2, <1>3, <2>1
      <3>4. elms'[c] = inuse'[c] + Len(freelist'[c])
        BY <1>0, <1>1, <1>2, <1>3, <1>4, <2>1
      <3> QED BY <3>1, <3>2, <3>3, <3>4
    <2>2. CASE c # b
      BY <1>a, <1>0, <1>1, <1>3, <2>2 DEF PoolsInv
    <2> QED BY <2>1, <2>2
  <1> QED BY <1>a, <1>0, <1>5, <1>6, <1>7, <1>11, <1>12 DEF MemoryInv, LengthInv, TagsInv

\* The entry comes back to the list as it becomes free: it was busy, and
\* nobody else has it.
LEMMA PoolPutStep ==
  ASSUME MemoryAssumption, MemoryInv, NEW t \in Threads, PoolPut(t)
  PROVE  MemoryInv'
  <1>a. MemoryTypes /\ LockInv /\ CallInv /\ OwnerInv /\ PoolsInv /\ LengthInv /\ TagsInv
    BY DEF MemoryInv
  <1> DEFINE b == job[t].block
             e == job[t].ptr
             list == <<e>> \o freelist[b]
  <1>0. step[t] = "put" /\ job[t].op = "put" /\ OnTheWay(t)
    BY <1>a DEF PoolPut, CallInv, CallOf, OnTheWay
  <1>1. /\ b \in Pools /\ b # Blocks /\ e \in Addr /\ e[1] = b /\ e \in busy
        /\ freelist[b] \in Seq(Addr) /\ Once(freelist[b]) /\ ~Member(freelist[b], e)
        /\ e[2] <= elms[b] /\ elms[b] = inuse[b] + Len(freelist[b]) /\ inuse[b] \in Int
    <2>1. b \in Pools /\ b # Blocks /\ e \in Addr /\ e[1] = b
      BY <1>a, <1>0 DEF MemoryTypes, Calls, CallInv, CallOf, Pools, MemoryAssumption
    <2>2. e \in busy
      BY <1>a, <1>0, <2>1 DEF OwnerInv, Has
    <2> QED BY <1>a, <2>1, <2>2 DEF MemoryTypes, PoolsInv
  <1>2. /\ step' = [step EXCEPT ![t] = "unlock"] /\ freelist' = [freelist EXCEPT ![b] = list]
        /\ busy' = busy \ {e} /\ inuse' = [inuse EXCEPT ![b] = @ - 1]
        /\ UNCHANGED <<elms, lock, len, tags, holds, job>>
    BY <1>1 DEF PoolPut
  <1> HIDE DEF b, e
  <1>3. /\ list \in Seq(Addr) /\ Once(list) /\ Len(list) = Len(freelist[b]) + 1
        /\ \A x : Member(list, x) <=> Member(freelist[b], x) \/ x = e
    <2>1. <<e>> \in Seq(Addr) /\ Once(<<e>>) /\ \A x : Member(<<e>>, x) <=> x = e
      BY <1>1 DEF Once, Member
    <2>2. \A x : ~(Member(<<e>>, x) /\ Member(freelist[b], x))
      BY <1>1, <2>1
    <2>3. /\ <<e>> \o freelist[b] \in Seq(Addr) /\ Once(<<e>> \o freelist[b])
          /\ \A x : Member(<<e>> \o freelist[b], x) <=> Member(<<e>>, x) \/ Member(freelist[b], x)
      BY <1>1, <2>1, <2>2, Joined
    <2>4. Len(<<e>> \o freelist[b]) = Len(freelist[b]) + 1
      BY <1>1
    <2> QED BY <2>1, <2>3, <2>4
  <1> HIDE DEF list
  <1>4. /\ freelist' \in [Pools -> Seq(Addr)] /\ freelist'[b] = list
        /\ inuse' \in [Pools -> Int] /\ inuse'[b] = inuse[b] - 1
        /\ \A c \in Pools : c # b => freelist'[c] = freelist[c] /\ inuse'[c] = inuse[c]
        /\ busy' \in SUBSET Addr
        /\ step' \in [Threads -> Stages] /\ step'[t] = "unlock"
        /\ \A u \in Threads : u # t => step'[u] = step[u]
    <2>1. /\ freelist' \in [Pools -> Seq(Addr)] /\ freelist'[b] = list
          /\ \A c \in Pools : c # b => freelist'[c] = freelist[c]
      BY <1>a, <1>1, <1>2, <1>3 DEF MemoryTypes
    <2>2. /\ inuse' \in [Pools -> Int] /\ inuse'[b] = inuse[b] - 1
          /\ \A c \in Pools : c # b => inuse'[c] = inuse[c]
      BY <1>a, <1>1, <1>2 DEF MemoryTypes
    <2>3. /\ busy' \in SUBSET Addr /\ step' \in [Threads -> Stages] /\ step'[t] = "unlock"
          /\ \A u \in Threads : u # t => step'[u] = step[u]
      BY <1>a, <1>2 DEF MemoryTypes, Stages
    <2> QED BY <2>1, <2>2, <2>3
  <1>5. Len(freelist[b]) \in Nat
    BY <1>1
  <1>6. MemoryTypes'
    BY <1>a, <1>2, <1>4 DEF MemoryTypes, Live
  <1>7. LockInv'
    <2>1. \A u \in Threads : Locked(u)' <=> Locked(u)
      BY <1>0, <1>4 DEF Locked
    <2> QED BY <1>a, <1>2, <2>1 DEF LockInv
  <1>8. CallInv'
    <2>1. \A u \in Threads : u # t /\ step[u] = "remove" => job[u].block # b
      BY <1>a, <1>0 DEF LockInv, Locked, b
    <2>2. \A u \in Threads : job[u].block \in Pools
      BY <1>a DEF MemoryTypes, Calls
    <2>3. CallOf(t)'
      BY <1>a, <1>0, <1>1, <1>2, <1>4 DEF CallInv, CallOf, b, e
    <2>4. \A u \in Threads : u # t => CallOf(u)'
      BY <1>a, <1>2, <1>4, <2>1, <2>2 DEF CallInv, CallOf
    <2> QED BY <2>3, <2>4 DEF CallInv
  <1>9. /\ \A u \in Threads : u # t => (OnTheWay(u)' <=> OnTheWay(u))
        /\ ~OnTheWay(t)'
    BY <1>0, <1>2, <1>4 DEF OnTheWay
  <1>10. \A u \in Threads : \A x : Has(u, x)' => Has(u, x) /\ x # e
    <2>1. Has(t, e) /\ e \notin holds[t]
      BY <1>a, <1>0 DEF Has, OwnerInv, e
    <2>2. \A u \in Threads : Has(u, e) => u = t
      BY <1>a, <1>1, <2>1 DEF OwnerInv
    <2>3. \A u \in Threads : \A x : Has(u, x)' => Has(u, x)
      BY <1>2, <1>9 DEF Has
    <2>4. \A x : x = e => ~Has(t, x)'
      BY <1>2, <1>9, <2>1 DEF Has
    <2> QED BY <2>2, <2>3, <2>4
  <1>11. OwnerInv'
    <2>1. \A u, w \in Threads : \A x \in Addr : Has(u, x)' /\ Has(w, x)' => u = w
      BY <1>a, <1>10 DEF OwnerInv
    <2>2. \A u \in Threads : OnTheWay(u)' => job'[u].ptr \notin holds'[u]
      BY <1>a, <1>2, <1>9 DEF OwnerInv
    <2>3. \A u \in Threads : \A x \in Addr : Has(u, x)' /\ x[1] # Blocks => x \in busy'
      BY <1>a, <1>2, <1>10 DEF OwnerInv
    <2> QED BY <2>1, <2>2, <2>3 DEF OwnerInv
  <1>12. PoolsInv'
    <2> SUFFICES ASSUME NEW c \in Pools
                 PROVE  /\ Once(freelist'[c])
                        /\ \A x \in Addr : Member(freelist'[c], x) =>
                             x \notin busy' /\ x[1] = c /\ x[2] <= elms'[c]
                        /\ \A x \in busy' : x[1] = c => x[2] <= elms'[c]
                        /\ elms'[c] = inuse'[c] + Len(freelist'[c])
      BY DEF PoolsInv
    <2>1. CASE c = b
      BY <1>a, <1>1, <1>2, <1>3, <1>4, <1>5, <2>1 DEF PoolsInv
    <2>2. CASE c # b
      BY <1>a, <1>1, <1>2, <1>4, <2>2 DEF PoolsInv
    <2> QED BY <2>1, <2>2
  <1> QED BY <1>a, <1>2, <1>6, <1>7, <1>8, <1>11, <1>12 DEF MemoryInv, LengthInv, TagsInv

\* The lock is free again, and what was got is the caller's, with its length.
LEMMA PoolUnlockStep ==
  ASSUME MemoryAssumption, MemoryInv, NEW t \in Threads, PoolUnlock(t)
  PROVE  MemoryInv'
  <1>a. MemoryTypes /\ LockInv /\ CallInv /\ OwnerInv /\ PoolsInv /\ LengthInv /\ TagsInv
    BY DEF MemoryInv
  <1> DEFINE b == job[t].block
             e == job[t].ptr
  <1>0. /\ step[t] = "unlock" /\ job[t].op \in {"get", "put"} /\ Locked(t)
        /\ lock[b] = 1 /\ b \in Pools /\ b # Blocks /\ e \in Addr /\ e[1] = b
        /\ job[t].old \in Addr \cup {Null} /\ job[t].len \in Nat
    <2>1. step[t] = "unlock" /\ Locked(t)
      BY DEF PoolUnlock, Locked
    <2>2. job[t] \in Calls
      BY <1>a DEF MemoryTypes
    <2>3. b \in Pools /\ job[t].old \in Addr \cup {Null} /\ job[t].len \in Nat
      BY <2>2 DEF Calls
    <2>4. job[t].op \in {"get", "put"} /\ e \in Addr /\ e[1] = b
      BY <1>a, <2>1 DEF CallInv, CallOf
    <2>5. lock[b] = 1
      BY <1>a, <2>1 DEF LockInv
    <2> QED BY <2>1, <2>3, <2>4, <2>5, PoolsAreNot
  <1>1. PICK j \in Calls, at \in {"idle", "free old"} :
          /\ job' = [job EXCEPT ![t] = j] /\ step' = [step EXCEPT ![t] = at]
          /\ j.op = "none"
    <2>1. CASE job[t].old = Null
      <3>1. job' = [job EXCEPT ![t] = NoJob] /\ step' = [step EXCEPT ![t] = "idle"]
        BY <1>0, <2>1 DEF PoolUnlock, Sets, Fatal
      <3>2. NoJob \in Calls /\ NoJob.op = "none"
        BY DEF NoJob, Calls, Pools, MemoryAssumption
      <3> QED BY <3>1, <3>2
    <2>2. CASE job[t].old # Null
      <3> DEFINE j == [NoJob EXCEPT !.old = job[t].old]
      <3>1. job' = [job EXCEPT ![t] = j] /\ step' = [step EXCEPT ![t] = "free old"]
        BY <1>0, <2>2 DEF PoolUnlock, Sets, Fatal
      <3>2. j \in Calls /\ j.op = "none"
        BY <1>0 DEF NoJob, Calls, Pools, MemoryAssumption
      <3> HIDE DEF j
      <3> QED BY <3>1, <3>2
    <2> QED BY <2>1, <2>2
  <1>2. /\ lock' = [lock EXCEPT ![b] = 0] /\ UNCHANGED <<freelist, elms, inuse, busy, tags>>
        /\ IF job[t].op = "get"
           THEN len' = With(len, e, job[t].len) /\ holds' = [holds EXCEPT ![t] = @ \cup {e}]
           ELSE UNCHANGED <<len, holds>>
    BY <1>0 DEF PoolUnlock, Fatal
  <1> DEFINE got == IF job[t].op = "get" THEN {e} ELSE {}
  <1>3. /\ job' \in [Threads -> Calls] /\ step' \in [Threads -> Stages]
        /\ holds' \in [Threads -> SUBSET Addr]
        /\ \A u \in Threads : u # t => job'[u] = job[u] /\ step'[u] = step[u] /\ holds'[u] = holds[u]
        /\ job'[t] = j /\ step'[t] = at /\ holds'[t] = holds[t] \cup got
        /\ lock' \in [Pools -> {0, 1}]
        /\ \A c \in Pools : c # b => lock'[c] = lock[c]
    <2>1. holds' = [holds EXCEPT ![t] = @ \cup got]
      BY <1>a, <1>2 DEF MemoryTypes
    <2>2. got \subseteq Addr
      BY <1>0
    <2> HIDE DEF b, e, got
    <2>3. /\ holds' \in [Threads -> SUBSET Addr] /\ holds'[t] = holds[t] \cup got
          /\ \A u \in Threads : u # t => holds'[u] = holds[u]
      BY <1>a, <2>1, <2>2 DEF MemoryTypes
    <2>4. /\ job' \in [Threads -> Calls] /\ step' \in [Threads -> Stages]
          /\ \A u \in Threads : u # t => job'[u] = job[u] /\ step'[u] = step[u]
          /\ job'[t] = j /\ step'[t] = at
      BY <1>a, <1>1 DEF MemoryTypes, Stages
    <2>5. lock' \in [Pools -> {0, 1}] /\ \A c \in Pools : c # b => lock'[c] = lock[c]
      BY <1>a, <1>0, <1>2 DEF MemoryTypes
    <2> QED BY <2>3, <2>4, <2>5
  <1>4. \A x \in got : x = e /\ OnTheWay(t) /\ job[t].op = "get" /\ \A u \in Threads : x \notin holds[u]
    BY <1>a, <1>0 DEF OwnerInv, Has, OnTheWay
  <1>5. /\ Live' = Live \cup got /\ len' \in [Live' -> Nat]
        /\ \A x \in Live : x \notin got /\ len'[x] = len[x]
        /\ \A x \in got : len'[x] = job[t].len
    <2>1. Live' = Live \cup got
      <3> HIDE DEF got
      <3>1. /\ \A x : x \in Live <=> \E u \in Threads : x \in holds[u]
            /\ \A x : x \in Live' <=> \E u \in Threads : x \in holds'[u]
        BY DEF Live
      <3>2. /\ \A u \in Threads : u # t => holds'[u] = holds[u]
            /\ holds'[t] = holds[t] \cup got
        BY <1>3
      <3>3. \A x : x \in Live' => x \in Live \cup got
        BY <3>1, <3>2
      <3>4. \A x : x \in Live \cup got => x \in Live'
        BY <3>1, <3>2
      <3> QED BY <3>3, <3>4
    <2>2. \A x \in Live : x \notin got
      BY <1>4 DEF Live
    <2>3. CASE got = {}
      <3>1. UNCHANGED len
        BY <1>2, <2>3
      <3> QED BY <1>a, <2>1, <2>2, <2>3, <3>1 DEF MemoryTypes
    <2>4. CASE got = {e}
      <3>1. len' = With(len, e, job[t].len)
        BY <1>2, <2>4
      <3> HIDE DEF got, e
      <3> QED BY <1>a, <1>0, <2>1, <2>2, <2>4, <3>1 DEF MemoryTypes, With
    <2> QED BY <2>3, <2>4
  <1> HIDE DEF b, e
  <1>6. MemoryTypes'
    BY <1>a, <1>2, <1>3, <1>5 DEF MemoryTypes
  <1>7. /\ \A u \in Threads : u # t => (Locked(u)' <=> Locked(u)) /\ (OnTheWay(u)' <=> OnTheWay(u))
        /\ ~Locked(t)' /\ ~OnTheWay(t)'
    BY <1>1, <1>3 DEF Locked, OnTheWay
  <1>8. LockInv'
    <2>1. \A u \in Threads : u # t /\ Locked(u) => job[u].block # b
      BY <1>a, <1>0 DEF LockInv, b
    <2>2. \A u \in Threads : job[u].block \in Pools
      BY <1>a DEF MemoryTypes, Calls
    <2>3. ASSUME NEW u \in Threads, Locked(u)' PROVE lock'[job'[u].block] = 1
      <3>1. u # t /\ Locked(u) /\ job'[u] = job[u]
        BY <1>3, <1>7, <2>3
      <3>2. job[u].block \in Pools /\ job[u].block # b /\ lock[job[u].block] = 1
        BY <1>a, <2>1, <2>2, <3>1 DEF LockInv
      <3> QED BY <1>3, <3>1, <3>2
    <2>4. \A u, w \in Threads : Locked(u)' /\ Locked(w)' /\ job'[u].block = job'[w].block => u = w
      BY <1>a, <1>3, <1>7 DEF LockInv
    <2> QED BY <2>3, <2>4 DEF LockInv
  <1>9. CallInv'
    <2>1. CallOf(t)'
      BY <1>1, <1>3 DEF CallOf
    <2>2. ASSUME NEW u \in Threads, u # t PROVE CallOf(u)'
      <3>1. job'[u] = job[u] /\ step'[u] = step[u] /\ freelist' = freelist
        BY <1>2, <1>3, <2>2
      <3> QED BY <1>a, <3>1 DEF CallInv, CallOf
    <2> QED BY <2>1, <2>2 DEF CallInv
  <1>10. \A u \in Threads : \A x : Has(u, x)' => Has(u, x)
    <2>1. \A x \in got : Has(t, x)
      BY <1>4 DEF Has, e
    <2> HIDE DEF got
    <2> QED BY <1>3, <1>7, <2>1 DEF Has
  <1>11. OwnerInv'
    <2>1. \A u, w \in Threads : \A x \in Addr : Has(u, x)' /\ Has(w, x)' => u = w
      BY <1>a, <1>10 DEF OwnerInv
    <2>2. \A u \in Threads : OnTheWay(u)' => job'[u].ptr \notin holds'[u]
      BY <1>a, <1>3, <1>7 DEF OwnerInv
    <2>3. \A u \in Threads : \A x \in Addr : Has(u, x)' /\ x[1] # Blocks => x \in busy
      BY <1>a, <1>10 DEF OwnerInv
    <2> QED BY <1>2, <2>1, <2>2, <2>3 DEF OwnerInv
  <1>12. LengthInv'
    <2>1. \A u \in Threads : \A x \in holds[u] : x \in Live
      BY DEF Live
    <2>2. job[t].op = "get" => job[t].len <= Largest /\ e[1] = Index(job[t].len) /\ e[1] # Blocks
      BY <1>a, <1>0 DEF CallInv, CallOf, b
    <2>3. \A x \in got : x = e /\ job[t].op = "get"
      BY <1>4
    <2> HIDE DEF got
    <2>4. \A x \in got : x[1] # Blocks /\ len'[x] <= Largest /\ Index(len'[x]) = x[1]
      BY <1>5, <2>2, <2>3
    <2>5. \A u \in Threads : \A x \in holds[u] :
            IF x[1] = Blocks THEN ~(len'[x] <= Largest)
            ELSE len'[x] <= Largest /\ Index(len'[x]) = x[1]
      BY <1>a, <1>5, <2>1 DEF LengthInv
    <2>6. \A u \in Threads : \A x \in holds'[u] : x \in holds[u] \/ x \in got
      BY <1>3
    <2> QED BY <2>4, <2>5, <2>6 DEF LengthInv
  <1>13. TagsInv'
    BY <1>a, <1>2, <1>3 DEF TagsInv, MemoryAssumption
  <1> QED BY <1>a, <1>2, <1>6, <1>8, <1>9, <1>11, <1>12, <1>13 DEF MemoryInv, PoolsInv

\* A tag is new, and of memory that is alive.
LEMMA TagStep ==
  ASSUME MemoryAssumption, MemoryInv, NEW ptr \in holds[Main], NEW id \in Ids, Tag(ptr, id)
  PROVE  MemoryInv'
  <1>a. MemoryTypes /\ LockInv /\ CallInv /\ OwnerInv /\ PoolsInv /\ LengthInv /\ TagsInv
    BY DEF MemoryInv
  <1> DEFINE new == [ptr |-> ptr, id |-> id]
  <1>0. /\ tags' = Append(tags, new) /\ Untagged(ptr) = tags /\ Lookup(id) = {}
        /\ UNCHANGED <<freelist, elms, inuse, lock, busy, len, holds, step, job>>
    BY DEF Tag, pools, threads
  <1>1. ptr \in Addr /\ new \in Tags /\ new.ptr = ptr /\ new.id = id
    BY <1>a DEF MemoryTypes, MemoryAssumption, Tags
  <1> HIDE DEF new
  <1>2. \A g \in Tags : Member(tags, g) => g.ptr # ptr /\ g.id # id
    <2>1. \A g \in Tags : Member(tags, g) => g.ptr # ptr
      BY <1>a, <1>0, <1>1, UntaggedOf
    <2>2. \A i \in 1..Len(tags) : tags[i].id # id
      <3>1. \A i \in DOMAIN tags : tags[i].id = id => tags[i].ptr \in Lookup(id)
        BY DEF Lookup
      <3>2. DOMAIN tags = 1..Len(tags)
        BY <1>a DEF MemoryTypes
      <3> QED BY <1>0, <3>1, <3>2
    <2> QED BY <2>1, <2>2 DEF Member
  <1>3. /\ tags' \in Seq(Tags) /\ Once(tags')
        /\ \A g : Member(tags', g) <=> Member(tags, g) \/ g = new
    <2>1. tags \in Seq(Tags) /\ Once(tags) /\ ~Member(tags, new)
      BY <1>a, <1>1, <1>2 DEF MemoryTypes, TagsInv
    <2> QED BY <1>0, <1>1, <2>1, Grown
  <1>4. MemoryTypes'
    BY <1>a, <1>0, <1>3 DEF MemoryTypes, Live
  <1>5. TagsInv'
    BY <1>a, <1>0, <1>1, <1>2, <1>3 DEF TagsInv
  <1>6. LockInv' /\ CallInv' /\ OwnerInv'
    BY <1>a, <1>0 DEF LockInv, Locked, CallInv, CallOf, OwnerInv, Has, OnTheWay
  <1> QED BY <1>a, <1>0, <1>4, <1>5, <1>6 DEF MemoryInv, PoolsInv, LengthInv

LEMMA MemoryNextStep ==
  ASSUME MemoryAssumption, MemoryInv, [MemoryNext]_memoryVars
  PROVE  MemoryInv'
  <1>1. \A t \in Threads : \A ptr \in holds[t] : ptr \in Addr
    BY DEF MemoryInv, MemoryTypes
  <1>2. CASE \E t \in Threads, n \in Lengths : Malloc(t, n, Null)
    BY <1>2, MallocStep
  <1>3. CASE \E t \in Threads, n \in Lengths : \E ptr \in holds[t] : Realloc(t, ptr, n)
    BY <1>1, <1>3, MallocStep DEF Realloc
  <1>4. CASE \E t \in Threads : \E ptr \in holds[t] : Free(t, ptr)
    BY <1>4, FreeStep
  <1>5. CASE \E ptr \in holds[Main], id \in Ids : Tag(ptr, id)
    BY <1>5, TagStep
  <1>6. ASSUME NEW t \in Threads,
               PoolLock(t) \/ PoolGet(t) \/ PoolRemove(t) \/ PoolPut(t) \/ PoolUnlock(t)
        PROVE  MemoryInv'
    BY <1>6, PoolLockStep, PoolGetStep, PoolRemoveStep, PoolPutStep, PoolUnlockStep
  <1>7. CASE UNCHANGED memoryVars
    <2>1. UNCHANGED <<freelist, elms, inuse, lock, busy, len, tags, holds, step, job>>
      BY <1>7 DEF memoryVars, pools, threads
    <2>2. MemoryTypes' /\ LockInv' /\ CallInv'
      BY <2>1 DEF MemoryInv, MemoryTypes, Live, LockInv, Locked, CallInv, CallOf
    <2>3. OwnerInv' /\ PoolsInv'
      BY <2>1 DEF MemoryInv, OwnerInv, Has, OnTheWay, PoolsInv
    <2>4. LengthInv' /\ TagsInv'
      BY <2>1 DEF MemoryInv, LengthInv, TagsInv
    <2> QED BY <2>2, <2>3, <2>4 DEF MemoryInv
  <1> QED BY <1>2, <1>3, <1>4, <1>5, <1>6, <1>7 DEF MemoryNext

LEMMA MemoryInvIsRight == ASSUME MemoryAssumption, MemoryInv PROVE MemoryIsRight
  <1>a. MemoryTypes /\ LockInv /\ CallInv /\ OwnerInv /\ PoolsInv /\ LengthInv /\ TagsInv
    BY DEF MemoryInv
  <1>1. Exclusive
    <2> SUFFICES ASSUME NEW t \in Threads, NEW ptr \in holds[t]
                 PROVE  /\ \A u \in Threads \ {t} : ptr \notin holds[u]
                        /\ ptr[1] # Blocks => /\ ptr \in busy /\ ptr \notin ToSet(freelist[ptr[1]])
                                              /\ len[ptr] <= BlockSize(ptr[1])
      BY DEF Exclusive
    <2>1. ptr \in Addr /\ Has(t, ptr) /\ ptr \in Live /\ len[ptr] \in Nat
      BY <1>a DEF MemoryTypes, Has, Live
    <2>2. \A u \in Threads \ {t} : ptr \notin holds[u]
      BY <1>a, <2>1 DEF OwnerInv, Has
    <2>3. ASSUME ptr[1] # Blocks
          PROVE  ptr \in busy /\ ptr \notin ToSet(freelist[ptr[1]]) /\ len[ptr] <= BlockSize(ptr[1])
      <3>1. ptr \in busy
        BY <1>a, <2>1, <2>3 DEF OwnerInv
      <3>2. len[ptr] <= Largest /\ Index(len[ptr]) = ptr[1]
        BY <1>a, <2>3 DEF LengthInv
      <3>3. ptr[1] \in Pools /\ len[ptr] <= BlockSize(ptr[1])
        BY <2>1, <3>2, IndexOf
      <3>4. freelist[ptr[1]] \in Seq(Addr) /\ ~Member(freelist[ptr[1]], ptr)
        BY <1>a, <2>1, <3>1, <3>3 DEF MemoryTypes, PoolsInv
      <3> QED BY <3>1, <3>3, <3>4 DEF ToSet, Member
    <2> QED BY <2>2, <2>3
  <1>2. Counted
    <2>1. \A b \in Pools : DOMAIN freelist[b] = 1..Len(freelist[b])
      BY <1>a DEF MemoryTypes
    <2>2. \A b \in Pools : IsInjective(freelist[b])
      BY <1>a, <2>1 DEF PoolsInv, Once, IsInjective
    <2>3. \A b \in Pools : elms[b] = inuse[b] + Len(freelist[b])
      BY <1>a DEF PoolsInv
    <2> QED BY <2>2, <2>3 DEF Counted
  <1>3. TagsAreLive
    <2> SUFFICES ASSUME NEW i \in DOMAIN tags
                 PROVE  tags[i].ptr \in holds[Main] /\ Lookup(tags[i].id) = {tags[i].ptr}
      BY DEF TagsAreLive
    <2>1. /\ DOMAIN tags = 1..Len(tags)
          /\ \A k \in 1..Len(tags) : tags[k] \in Tags /\ Member(tags, tags[k])
      BY <1>a DEF MemoryTypes, Member
    <2>2. \A k \in 1..Len(tags) : tags[k].id = tags[i].id => tags[k] = tags[i]
      BY <1>a, <2>1 DEF TagsInv
    <2>3. tags[i].ptr \in holds[Main]
      BY <1>a, <2>1 DEF TagsInv
    <2>4. Lookup(tags[i].id) = {tags[i].ptr}
      BY <2>1, <2>2 DEF Lookup
    <2> QED BY <2>3, <2>4
  <1>4. \A t \in Threads : step[t] # "fatal"
    BY <1>a DEF MemoryTypes, Stages
  <1> QED BY <1>1, <1>2, <1>3, <1>4 DEF MemoryIsRight

(* No address is given out twice, each is as long as was asked for, a pool *)
(* counts what it has, a tag finds memory that is alive, and no call finds *)
(* an entry in the wrong state, however many threads allocate (mem.c,      *)
(* pool.c).                                                                *)
THEOREM MemoryStaysRight == ASSUME MemoryAssumption PROVE MemorySpec => []MemoryIsRight
  <1>1. MemoryInit => MemoryInv
    BY MemoryStart
  <1>2. MemoryInv /\ [MemoryNext]_memoryVars => MemoryInv'
    BY MemoryNextStep
  <1>3. MemoryInv => MemoryIsRight
    BY MemoryInvIsRight
  <1> QED BY <1>1, <1>2, <1>3, PTL DEF MemorySpec
-----------------------------------------------------------------------------
(* What Kore is told (KoreConfig).                                         *)
CONSTANTS Names, Covers, Paths, AuthNames, ValidatorNames, Functions, Modules,
          Exports, Directives, MaxLines, MaxDepth, MaxEach

VARIABLES phase, lines, depth, at, domains, auths, validators, modules, numbers, users, built

Config == INSTANCE KoreConfig

\* What a params line is open for is what its arguments are checked by.
Methods == {"get", "post"}
Params  ==
  {q \in [method : Methods, flags : SUBSET {"query"}, validator : Nat, line : BOOLEAN \X Methods] :
     /\ q.method = q.line[2]
     /\ "query" \in q.flags <=> (q.line[1] \/ q.line[2] = "get")}

Rcall    == Modules \X Nat
Handlers ==
  [type : {"static", "dynamic"}, path : Paths, func : Functions, rcall : Rcall, auth : Nat,
   methods : SUBSET Methods, params : SUBSET Params]
Domains  == [name : Names, handlers : Seq(Handlers),
             set : SUBSET {"certfile", "certkey", "client_verify", "accesslog"}]
Auths    == [name : AuthNames, type : {None, "cookie", "header", "request"},
             value : {None, "given"}, redirect : {None, "given"}, validator : Nat]
Checks   == [name : ValidatorNames, type : {"regex", "function"},
             arg : Functions \cup {None}, rcall : Rcall \cup {None}]
Loads    == [path : Modules, mtime : Nat, onload : Functions \cup {None}]
Opens  == [domain : Nat, handler : Nat, auth : Nat, method : Methods \cup {None},
             flags : SUBSET {"query"}, line : (BOOLEAN \X Methods) \cup {None}]

ConfigTypes ==
  /\ domains \in Seq(Domains) /\ auths \in Seq(Auths) /\ validators \in Seq(Checks)
  /\ modules \in Seq(Loads) /\ at \in Opens /\ built \in [Modules -> Nat]

\* A name is of the domain that has it: those before do not match it.
Fits(a, b) == a = b \/ <<a, b>> \in Covers
ReachInv ==
  \A i, d \in 1..Len(domains) : i < d => ~Fits(domains[i].name, domains[d].name)

\* What is open is there; an authentication block without a validator is open.
OpenInv ==
  /\ at.domain <= Len(domains) /\ at.auth <= Len(auths)
  /\ at.handler = 0 => at.flags = {}
  /\ at.handler # 0 =>
       /\ at.domain # 0 /\ at.handler <= Len(domains[at.domain].handlers)
       /\ at.line \in BOOLEAN \X Methods /\ at.method = at.line[2]
       /\ "query" \in at.flags <=> (at.line[1] \/ at.line[2] = "get")

AuthInv ==
  /\ \A a \in 1..Len(auths) : auths[a].validator = 0 => a = at.auth
  /\ \A d \in 1..Len(domains) : \A h \in 1..Len(domains[d].handlers) :
       domains[d].handlers[h].auth <= Len(auths)

\* A call is of the first of the loaded modules that has the function.
Having(ms, f)  == {j \in 1..Len(ms) : f \in Exports[ms[j].path][ms[j].mtime]}
Right(ms, f, call) == Having(ms, f) # {} /\ call = Config!Getcall(ms, f)
CallsInv ==
  phase # "fatal" =>
    /\ \A d \in 1..Len(domains) : \A h \in 1..Len(domains[d].handlers) :
         Right(modules, domains[d].handlers[h].func, domains[d].handlers[h].rcall)
    /\ \A c \in 1..Len(validators) : validators[c].type = "function" =>
         Right(modules, validators[c].arg, validators[c].rcall)

ConfigInv == ConfigTypes /\ ReachInv /\ OpenInv /\ AuthInv /\ CallsInv
-----------------------------------------------------------------------------
LEMMA ConfigLeast ==
  ASSUME NEW I \in SUBSET (Nat \ {0})
  PROVE  /\ Config!Least(I) \in Nat
         /\ I = {} => Config!Least(I) = 0
         /\ I # {} => Config!Least(I) \in I /\ \A i \in I : Config!Least(I) <= i
  <1>1. Config!Min(I) = Min(I)
    BY DEF Config!Min, Min
  <1>2. I # {} => Min(I) \in I /\ \A i \in I : Min(I) <= i
    BY LeastOf
  <1> DEFINE m == Min(I)
  <1>3. Config!Least(I) = IF I = {} THEN 0 ELSE m
    BY <1>1 DEF Config!Least
  <1> HIDE DEF m
  <1>4. I # {} => m \in I /\ \A i \in I : m <= i
    BY <1>2 DEF m
  <1>5. CASE I = {}
    BY <1>3, <1>5
  <1>6. CASE I # {}
    <2>1. m \in I /\ \A i \in I : m <= i
      BY <1>4, <1>6
    <2> QED BY <1>3, <1>6, <2>1
  <1> QED BY <1>5, <1>6

\* The least of a set of places does not change when later ones are added.
LEMMA LeastStays ==
  ASSUME NEW I \in SUBSET (Nat \ {0}), NEW J \in SUBSET (Nat \ {0}), I # {}, I \subseteq J,
         \A i \in I : \A j \in J \ I : i < j
  PROVE  Config!Least(J) = Config!Least(I)
  <1> DEFINE a == Config!Least(I)
             b == Config!Least(J)
  <1>1. a \in I /\ \A i \in I : a <= i
    BY ConfigLeast
  <1>2. b \in J /\ \A i \in J : b <= i
    BY ConfigLeast
  <1> HIDE DEF a, b
  <1>3. b \in I
    BY <1>1, <1>2
  <1>4. a <= b /\ b <= a /\ a \in Nat /\ b \in Nat
    BY <1>1, <1>2, <1>3
  <1>5. a = b
    BY <1>4
  <1> QED BY <1>5 DEF a, b

LEMMA GetcallOf ==
  ASSUME NEW ms \in Seq(Loads), NEW f
  PROVE  /\ Having(ms, f) \in SUBSET (Nat \ {0})
         /\ Config!Getcall(ms, f) =
              IF Having(ms, f) = {} THEN None
              ELSE <<ms[Config!Least(Having(ms, f))].path, ms[Config!Least(Having(ms, f))].mtime>>
         /\ Having(ms, f) # {} => Config!Getcall(ms, f) \in Rcall
         /\ Config!Getcall(ms, f) # None => Right(ms, f, Config!Getcall(ms, f))
  <1> DEFINE I == Having(ms, f)
             i == Config!Least(I)
  <1>1. I \in SUBSET (Nat \ {0}) /\ I \subseteq 1..Len(ms) /\ DOMAIN ms = 1..Len(ms)
    BY DEF Having
  <1>2. Config!Getcall(ms, f) = IF i = 0 THEN None ELSE <<ms[i].path, ms[i].mtime>>
    BY <1>1 DEF Config!Getcall, Having
  <1>3. (I = {} => i = 0) /\ (I # {} => i \in I)
    BY <1>1, ConfigLeast
  <1> HIDE DEF I, i
  <1>4. I # {} => i # 0 /\ ms[i] \in Loads
    <2>1. \A j \in I : j # 0 /\ j \in 1..Len(ms)
      BY <1>1
    <2>2. \A j \in 1..Len(ms) : ms[j] \in Loads
      OBVIOUS
    <2> QED BY <1>3, <2>1, <2>2
  <1>5. Config!Getcall(ms, f) = IF I = {} THEN None ELSE <<ms[i].path, ms[i].mtime>>
    BY <1>2, <1>3, <1>4
  <1>6. I # {} => <<ms[i].path, ms[i].mtime>> \in Rcall
    BY <1>4 DEF Loads, Rcall
  <1>7. I # {} => Config!Getcall(ms, f) \in Rcall
    BY <1>5, <1>6
  <1>8. Config!Getcall(ms, f) # None => I # {}
    BY <1>5
  <1> QED BY <1>1, <1>5, <1>7, <1>8 DEF Right, I, i

\* A module that is loaded behind the others takes no call.
LEMMA RightStays ==
  ASSUME NEW ms \in Seq(Loads), NEW m \in Loads, NEW f, NEW call, Right(ms, f, call)
  PROVE  Right(Append(ms, m), f, call)
  <1> DEFINE t == Append(ms, m)
             I == Having(ms, f)
             J == Having(t, f)
  <1>1. t \in Seq(Loads) /\ Len(t) = Len(ms) + 1 /\ Len(ms) \in Nat
        /\ \A j \in 1..Len(ms) : t[j] = ms[j]
    OBVIOUS
  <1> HIDE DEF t
  <1>2. I = {j \in 1..Len(ms) : f \in Exports[ms[j].path][ms[j].mtime]}
    BY DEF Having
  <1>3. J = {j \in 1..Len(t) : f \in Exports[t[j].path][t[j].mtime]}
    BY DEF Having
  <1>4. I \subseteq J /\ \A j \in J : j \notin I => j = Len(ms) + 1
    BY <1>1, <1>2, <1>3
  <1>5. I # {} /\ call = Config!Getcall(ms, f)
    BY DEF Right
  <1>6. I \in SUBSET (Nat \ {0}) /\ J \in SUBSET (Nat \ {0}) /\ I \subseteq 1..Len(ms)
    BY <1>1, <1>2, GetcallOf
  <1>7. \A i \in I : \A j \in J \ I : i < j
    BY <1>1, <1>4, <1>6
  <1> DEFINE i == Config!Least(I)
  <1>8. Config!Least(J) = i /\ i \in I
    BY <1>4, <1>5, <1>6, <1>7, LeastStays, ConfigLeast
  <1>9. Config!Getcall(ms, f) = <<ms[i].path, ms[i].mtime>>
    BY <1>5, GetcallOf
  <1> HIDE DEF i
  <1>10. J # {}
    BY <1>4, <1>5
  <1>11. Config!Getcall(t, f) = <<t[i].path, t[i].mtime>>
    BY <1>1, <1>8, <1>10, GetcallOf
  <1>12. t[i] = ms[i]
    BY <1>1, <1>6, <1>8
  <1> QED BY <1>5, <1>9, <1>10, <1>11, <1>12 DEF Right, t
-----------------------------------------------------------------------------
LEMMA InitConfig == ASSUME Config!Init PROVE ConfigInv
  <1>1. domains = <<>> /\ auths = <<>> /\ validators = <<>> /\ modules = <<>>
    BY DEF Config!Init
  <1>2. built \in [Modules -> Nat] /\ at = Config!Closed
    BY DEF Config!Init
  <1>3. /\ domains \in Seq(Domains) /\ auths \in Seq(Auths) /\ validators \in Seq(Checks)
        /\ modules \in Seq(Loads)
    BY <1>1
  <1>4. Len(domains) = 0 /\ Len(auths) = 0 /\ Len(validators) = 0
    BY <1>1
  <1>5. /\ at \in Opens
        /\ at.domain = 0 /\ at.handler = 0 /\ at.auth = 0 /\ at.flags = {}
    BY <1>2 DEF Config!Closed, Opens
  <1>6. ConfigTypes
    BY <1>2, <1>3, <1>5 DEF ConfigTypes
  <1>7. ReachInv /\ OpenInv /\ AuthInv /\ CallsInv
    BY <1>4, <1>5 DEF ReachInv, OpenInv, AuthInv, CallsInv
  <1> QED BY <1>6, <1>7 DEF ConfigInv

\* Whatever only says how far Kore is.
LEMMA OnlyPhase ==
  ASSUME ConfigInv, UNCHANGED <<at, domains, auths, validators, modules>>,
         built' \in [Modules -> Nat], phase' = "fatal" \/ phase # "fatal"
  PROVE  ConfigInv'
  <1>1. ConfigTypes'
    BY DEF ConfigInv, ConfigTypes
  <1>2. ReachInv' /\ OpenInv' /\ AuthInv'
    BY DEF ConfigInv, ReachInv, OpenInv, AuthInv
  <1>3. CallsInv'
    BY DEF ConfigInv, CallsInv
  <1> QED BY <1>1, <1>2, <1>3 DEF ConfigInv

LEMMA OnlyAt ==
  ASSUME ConfigInv, UNCHANGED <<phase, domains, auths, validators, modules, built>>,
         at' \in Opens, OpenInv',
         at'.auth = at.auth \/ \A a \in 1..Len(auths) : auths[a].validator # 0
  PROVE  ConfigInv'
  <1>1. ConfigTypes'
    BY DEF ConfigInv, ConfigTypes
  <1>2. ReachInv' /\ AuthInv' /\ CallsInv'
    BY DEF ConfigInv, ReachInv, AuthInv, CallsInv
  <1> QED BY <1>1, <1>2 DEF ConfigInv

\* What a directive changes in one domain that is there.
LEMMA OneDomain ==
  ASSUME ConfigInv, NEW d \in 1..Len(domains), NEW X \in Domains, X.name = domains[d].name,
         Len(domains[d].handlers) <= Len(X.handlers),
         \A h \in 1..Len(X.handlers) : X.handlers[h].auth <= Len(auths),
         phase # "fatal" => \A h \in 1..Len(X.handlers) :
           Right(modules, X.handlers[h].func, X.handlers[h].rcall),
         domains' = [domains EXCEPT ![d] = X],
         UNCHANGED <<phase, at, auths, validators, modules, built>>
  PROVE  ConfigInv'
  <1>1. domains \in Seq(Domains) /\ at \in Opens
    BY DEF ConfigInv, ConfigTypes
  <1>2. /\ domains' \in Seq(Domains) /\ Len(domains') = Len(domains)
        /\ \A i \in 1..Len(domains) : domains'[i] = IF i = d THEN X ELSE domains[i]
    BY <1>1
  <1>3. ConfigTypes'
    BY <1>2 DEF ConfigInv, ConfigTypes
  <1>4. \A i \in 1..Len(domains) : domains'[i].name = domains[i].name
    BY <1>2
  <1>5. ReachInv'
    BY <1>2, <1>4 DEF ConfigInv, ReachInv, Fits
  <1>6. OpenInv'
    <2>1. \A i \in 1..Len(domains) :
            /\ Len(domains[i].handlers) <= Len(domains'[i].handlers)
            /\ Len(domains[i].handlers) \in Nat /\ Len(domains'[i].handlers) \in Nat
      <3>1. \A Y \in Domains : Len(Y.handlers) \in Nat
        BY DEF Domains
      <3>2. \A i \in 1..Len(domains) : domains[i] \in Domains /\ domains'[i] \in Domains
        BY <1>1, <1>2
      <3> QED BY <1>2, <3>1, <3>2
    <2>2. at.domain \in Nat /\ at.handler \in Nat
      BY <1>1 DEF Opens
    <2>3. at.handler # 0 => at.domain \in 1..Len(domains)
      BY <2>2 DEF ConfigInv, OpenInv
    <2>4. at.handler # 0 => at.handler <= Len(domains'[at.domain].handlers)
      BY <2>1, <2>2, <2>3 DEF ConfigInv, OpenInv
    <2>5. Len(domains') = Len(domains) /\ at' = at /\ auths' = auths
      BY <1>2
    <2> QED BY <2>4, <2>5 DEF ConfigInv, OpenInv
  <1>7. AuthInv'
    BY <1>2 DEF ConfigInv, AuthInv
  <1>8. CallsInv'
    <2>1. phase # "fatal" => \A i \in 1..Len(domains) : \A h \in 1..Len(domains'[i].handlers) :
            Right(modules, domains'[i].handlers[h].func, domains'[i].handlers[h].rcall)
      BY <1>2 DEF ConfigInv, CallsInv
    <2>2. phase # "fatal" => \A c \in 1..Len(validators) : validators[c].type = "function" =>
            Right(modules, validators[c].arg, validators[c].rcall)
      BY DEF ConfigInv, CallsInv
    <2>3. Len(domains') = Len(domains) /\ phase' = phase /\ modules' = modules /\ validators' = validators
      BY <1>2
    <2> QED BY <2>1, <2>2, <2>3 DEF CallsInv
  <1> QED BY <1>3, <1>5, <1>6, <1>7, <1>8 DEF ConfigInv

\* What a directive changes in the authentication block that is open.
LEMMA OneAuth ==
  ASSUME ConfigInv, at.auth # 0, NEW X \in Auths, auths' = [auths EXCEPT ![at.auth] = X],
         UNCHANGED <<phase, at, domains, validators, modules, built>>
  PROVE  ConfigInv'
  <1>1. auths \in Seq(Auths) /\ at \in Opens
    BY DEF ConfigInv, ConfigTypes
  <1>2. at.auth \in 1..Len(auths)
    BY <1>1 DEF ConfigInv, OpenInv, Opens
  <1>3. /\ auths' \in Seq(Auths) /\ Len(auths') = Len(auths)
        /\ \A a \in 1..Len(auths) : a # at.auth => auths'[a] = auths[a]
    BY <1>1, <1>2
  <1>4. ConfigTypes'
    BY <1>3 DEF ConfigInv, ConfigTypes
  <1>5. ReachInv' /\ CallsInv'
    BY DEF ConfigInv, ReachInv, CallsInv
  <1>6. OpenInv' /\ AuthInv'
    BY <1>3 DEF ConfigInv, OpenInv, AuthInv
  <1> QED BY <1>4, <1>5, <1>6 DEF ConfigInv
-----------------------------------------------------------------------------
\* What is looked up is a place of its list, or 0.
LEMMA Lookups ==
  ASSUME ConfigTypes
  PROVE  /\ \A n : Config!DomainLookup(domains, n) \in 0..Len(domains)
         /\ \A n : Config!DomainLookup(domains, n) = 0 =>
              \A d \in 1..Len(domains) : ~Fits(domains[d].name, n)
         /\ \A d \in 1..Len(domains) : Config!DomainLookup(domains, domains[d].name) \in 1..Len(domains)
         /\ \A a : Config!AuthLookup(a) \in 0..Len(auths)
         /\ \A c : Config!ValidatorLookup(c) \in Nat
         /\ \A q : \A d \in 1..Len(domains) : Config!HandlerOf(d, q) \in 0..Len(domains[d].handlers)
  <1>0. /\ domains \in Seq(Domains) /\ auths \in Seq(Auths) /\ validators \in Seq(Checks)
        /\ Len(domains) \in Nat /\ Len(auths) \in Nat
        /\ DOMAIN domains = 1..Len(domains) /\ DOMAIN auths = 1..Len(auths)
        /\ DOMAIN validators = 1..Len(validators)
    BY DEF ConfigTypes
  <1> DEFINE D(n) == {d \in 1..Len(domains) : Fits(domains[d].name, n)}
             A(a) == {i \in 1..Len(auths) : auths[i].name = a}
             V(c) == {i \in 1..Len(validators) : validators[i].name = c}
             H(d, q) == {h \in 1..Len(domains[d].handlers) : domains[d].handlers[h].path = q}
  <1>1. \A n : Config!DomainLookup(domains, n) = Config!Least(D(n))
    BY <1>0 DEF Config!DomainLookup, Fits
  <1>2. \A n : D(n) \in SUBSET (Nat \ {0}) /\ D(n) \subseteq 1..Len(domains)
    BY <1>0
  <1>3. \A a : Config!AuthLookup(a) = Config!Least(A(a))
    BY <1>0 DEF Config!AuthLookup
  <1>4. \A a : A(a) \in SUBSET (Nat \ {0}) /\ A(a) \subseteq 1..Len(auths)
    BY <1>0
  <1>5. \A c : Config!ValidatorLookup(c) = Config!Least(V(c)) /\ V(c) \in SUBSET (Nat \ {0})
    BY <1>0 DEF Config!ValidatorLookup
  <1>6. ASSUME NEW d \in 1..Len(domains), NEW q
        PROVE  Config!HandlerOf(d, q) \in 0..Len(domains[d].handlers)
    <2>1. domains[d] \in Domains
      BY <1>0
    <2>2. domains[d].handlers \in Seq(Handlers)
      BY <2>1 DEF Domains
    <2>3. DOMAIN domains[d].handlers = 1..Len(domains[d].handlers) /\ Len(domains[d].handlers) \in Nat
      BY <2>2
    <2>4. Config!HandlerOf(d, q) = Config!Least(H(d, q))
      BY <2>3 DEF Config!HandlerOf
    <2>5. H(d, q) \in SUBSET (Nat \ {0}) /\ H(d, q) \subseteq 1..Len(domains[d].handlers)
      BY <2>3
    <2> HIDE DEF H
    <2>6. Config!Least(H(d, q)) = 0 \/ Config!Least(H(d, q)) \in H(d, q)
      BY <2>5, ConfigLeast
    <2> QED BY <2>3, <2>4, <2>5, <2>6
  <1>7. \A d \in 1..Len(domains) : d \in D(domains[d].name)
    BY DEF Fits
  <1>7a. \A n, d : d \in D(n) <=> d \in 1..Len(domains) /\ Fits(domains[d].name, n)
    OBVIOUS
  <1> HIDE DEF D, A, V, H
  <1>8. ASSUME NEW n
        PROVE  /\ Config!DomainLookup(domains, n) \in 0..Len(domains)
               /\ Config!DomainLookup(domains, n) = 0 => D(n) = {}
               /\ D(n) # {} => Config!DomainLookup(domains, n) \in 1..Len(domains)
    <2>1. D(n) \in SUBSET (Nat \ {0}) /\ D(n) \subseteq 1..Len(domains)
      BY <1>2
    <2>2. D(n) # {} => Config!Least(D(n)) \in D(n)
      BY <2>1, ConfigLeast
    <2>3. D(n) = {} => Config!Least(D(n)) = 0
      BY <2>1, ConfigLeast
    <2>4. Config!DomainLookup(domains, n) = Config!Least(D(n))
      BY <1>1
    <2> QED BY <1>0, <2>1, <2>2, <2>3, <2>4
  <1>9. \A n : Config!DomainLookup(domains, n) = 0 =>
              \A d \in 1..Len(domains) : ~Fits(domains[d].name, n)
    BY <1>7a, <1>8
  <1>10. \A d \in 1..Len(domains) : Config!DomainLookup(domains, domains[d].name) \in 1..Len(domains)
    BY <1>7, <1>8
  <1>11. ASSUME NEW a PROVE Config!AuthLookup(a) \in 0..Len(auths)
    <2>1. A(a) \in SUBSET (Nat \ {0}) /\ A(a) \subseteq 1..Len(auths)
      BY <1>4
    <2>2. Config!Least(A(a)) = 0 \/ Config!Least(A(a)) \in A(a)
      BY <2>1, ConfigLeast
    <2>3. Config!AuthLookup(a) = Config!Least(A(a))
      BY <1>3
    <2> QED BY <1>0, <2>1, <2>2, <2>3
  <1>12. ASSUME NEW c PROVE Config!ValidatorLookup(c) \in Nat
    <2>1. V(c) \in SUBSET (Nat \ {0}) /\ Config!ValidatorLookup(c) = Config!Least(V(c))
      BY <1>5
    <2> QED BY <2>1, ConfigLeast
  <1> QED BY <1>6, <1>8, <1>9, <1>10, <1>11, <1>12
-----------------------------------------------------------------------------
(* Each directive.                                                         *)

LEMMA ConfigClose == ASSUME ConfigInv, Config!Close PROVE ConfigInv'
  <1>1. /\ at \in Opens /\ phase' = phase /\ built' = built
        /\ UNCHANGED <<domains, auths, validators, modules>>
    BY DEF ConfigInv, ConfigTypes, Config!Close, Config!Reads, Config!tree
  <1>2. CASE Config!CloseHandler
    <2>1. at' = [at EXCEPT !.handler = 0, !.method = None, !.flags = {}, !.line = None]
      BY <1>2 DEF Config!CloseHandler, Config!Reset
    <2>2. /\ at' \in Opens /\ at'.domain = at.domain /\ at'.auth = at.auth
          /\ at'.handler = 0 /\ at'.flags = {}
      BY <1>1, <2>1 DEF Opens
    <2>3. OpenInv'
      BY <1>1, <2>2 DEF ConfigInv, OpenInv
    <2> QED BY <1>1, <2>2, <2>3, OnlyAt
  <1>3. CASE Config!CloseAuth
    <2>1. at' = [at EXCEPT !.auth = 0] /\ at.handler = 0 /\ at.auth # 0 /\ auths[at.auth].validator # 0
      BY <1>3 DEF Config!CloseAuth, Config!HasValidator
    <2>2. /\ at' \in Opens /\ at'.domain = at.domain /\ at'.auth = 0
          /\ at'.handler = 0 /\ at'.flags = at.flags
      BY <1>1, <2>1 DEF Opens
    <2>3. Len(auths) \in Nat
      BY DEF ConfigInv, ConfigTypes
    <2>4. OpenInv'
      BY <1>1, <2>1, <2>2, <2>3 DEF ConfigInv, OpenInv
    <2>5. \A a \in 1..Len(auths) : auths[a].validator # 0
      BY <2>1 DEF ConfigInv, AuthInv
    <2> QED BY <1>1, <2>2, <2>4, <2>5, OnlyAt
  <1>4. CASE Config!CloseDomain
    <2>1. at' = [at EXCEPT !.domain = 0] /\ at.handler = 0
      BY <1>4 DEF Config!CloseDomain
    <2>2. /\ at' \in Opens /\ at'.domain = 0 /\ at'.auth = at.auth
          /\ at'.handler = 0 /\ at'.flags = at.flags
      BY <1>1, <2>1 DEF Opens
    <2>3. Len(domains) \in Nat
      BY DEF ConfigInv, ConfigTypes
    <2>4. OpenInv'
      BY <1>1, <2>1, <2>2, <2>3 DEF ConfigInv, OpenInv
    <2> QED BY <1>1, <2>2, <2>4, OnlyAt
  <1> QED BY <1>2, <1>3, <1>4 DEF Config!Close

LEMMA ConfigParams ==
  ASSUME ConfigInv, NEW qs \in BOOLEAN, NEW m \in Methods, NEW q \in Paths, Config!Params(qs, m, q)
  PROVE  ConfigInv'
  <1>1. /\ at \in Opens /\ phase' = phase /\ built' = built
        /\ UNCHANGED <<domains, auths, validators, modules>>
    BY DEF ConfigInv, ConfigTypes, Config!Params, Config!Reads, Config!tree
  <1> DEFINE h  == Config!HandlerOf(at.domain, q)
             fs == (IF qs THEN {"query"} ELSE at.flags) \cup (IF m = "get" THEN {"query"} ELSE {})
  <1>2. at.domain # 0 /\ at.handler = 0 /\ h # 0
    BY DEF Config!Params, Config!ParamsOk
  <1>3. at.domain \in 1..Len(domains) /\ at.flags = {}
    BY <1>1, <1>2 DEF ConfigInv, OpenInv, Opens
  <1>4. h \in 1..Len(domains[at.domain].handlers)
    <2>1. h \in 0..Len(domains[at.domain].handlers)
      BY <1>3, Lookups DEF ConfigInv
    <2> QED BY <1>2, <2>1
  <1>5. at' = [at EXCEPT !.handler = h, !.method = m, !.flags = fs, !.line = <<qs, m>>]
    BY DEF Config!Params
  <1>6. h \in Nat /\ h <= Len(domains[at.domain].handlers)
    BY <1>4
  <1>7. fs \in SUBSET {"query"} /\ ("query" \in fs <=> qs \/ m = "get")
    BY <1>3
  <1> HIDE DEF h, fs
  <1>8. /\ at' \in Opens /\ at'.domain = at.domain /\ at'.auth = at.auth
        /\ at'.handler = h /\ at'.flags = fs /\ at'.method = m /\ at'.line = <<qs, m>>
    BY <1>1, <1>5, <1>6, <1>7 DEF Opens
  <1>9. OpenInv'
    BY <1>1, <1>2, <1>6, <1>7, <1>8 DEF ConfigInv, OpenInv
  <1> QED BY <1>1, <1>8, <1>9, OnlyAt

LEMMA ConfigLoad ==
  ASSUME ConfigInv, NEW m \in Modules, NEW f \in Functions \cup {None}, Config!Load(m, f)
  PROVE  ConfigInv'
  <1> DEFINE x == [path |-> m, mtime |-> built[m], onload |-> f]
  <1>1. /\ modules' = Append(modules, x) /\ phase' = phase /\ built' = built
        /\ UNCHANGED <<at, domains, auths, validators>> /\ phase = "parse"
    BY DEF Config!Load, Config!Reads
  <1>2. modules \in Seq(Loads) /\ x \in Loads
    BY DEF ConfigInv, ConfigTypes, Loads
  <1> HIDE DEF x
  <1>3. modules' \in Seq(Loads)
    BY <1>1, <1>2
  <1>4. ConfigTypes'
    BY <1>1, <1>3 DEF ConfigInv, ConfigTypes
  <1>5. ReachInv' /\ OpenInv' /\ AuthInv'
    BY <1>1 DEF ConfigInv, ReachInv, OpenInv, AuthInv
  <1>6. \A g, call : Right(modules, g, call) => Right(modules', g, call)
    BY <1>1, <1>2, RightStays
  <1>7. CallsInv'
    BY <1>1, <1>6 DEF ConfigInv, CallsInv
  <1> QED BY <1>4, <1>5, <1>7 DEF ConfigInv

LEMMA ConfigDomain == ASSUME ConfigInv, NEW n \in Names, Config!Domain(n) PROVE ConfigInv'
  <1> DEFINE x == [name |-> n, handlers |-> <<>>, set |-> {}]
             l == Config!DomainLookup(domains', n)
  <1>1. /\ domains' = Append(domains, x) /\ at' = [at EXCEPT !.domain = l]
        /\ phase' = phase /\ built' = built /\ UNCHANGED <<auths, validators, modules>>
    BY DEF Config!Domain, Config!Reads
  <1>2. at.domain = 0 /\ \A d \in 1..Len(domains) : ~Fits(domains[d].name, n)
    BY Lookups DEF Config!Domain, Config!DomainNewOk, ConfigInv
  <1>3. x \in Domains /\ domains \in Seq(Domains) /\ at \in Opens /\ x.handlers = <<>> /\ x.name = n
    BY DEF ConfigInv, ConfigTypes, Domains
  <1> HIDE DEF x, l
  <1>4. /\ domains' \in Seq(Domains) /\ Len(domains') = Len(domains) + 1 /\ Len(domains) \in Nat
        /\ domains'[Len(domains) + 1] = x
        /\ \A i \in 1..Len(domains) : domains'[i] = domains[i]
    BY <1>1, <1>3
  <1>5. l \in 0..Len(domains')
    <2> DEFINE I == {d \in DOMAIN domains' : domains'[d].name = n \/ <<domains'[d].name, n>> \in Covers}
    <2>1. DOMAIN domains' = 1..Len(domains') /\ l = Config!Least(I)
      BY <1>4 DEF l, Config!DomainLookup
    <2>2. I \in SUBSET (Nat \ {0}) /\ I \subseteq 1..Len(domains')
      BY <1>4, <2>1
    <2> HIDE DEF I
    <2>3. Config!Least(I) = 0 \/ Config!Least(I) \in I
      BY <2>2, ConfigLeast
    <2>4. l = 0 \/ l \in 1..Len(domains')
      BY <2>1, <2>2, <2>3
    <2>5. Len(domains') \in Nat
      BY <1>4
    <2> QED BY <2>4, <2>5
  <1>6. at.handler = 0 /\ at.flags = {} /\ at.auth <= Len(auths)
    BY <1>2 DEF ConfigInv, OpenInv
  <1>7. l \in Nat /\ l <= Len(domains')
    BY <1>4, <1>5
  <1>8. at' \in Opens /\ at'.domain = l /\ at'.handler = 0 /\ at'.flags = {} /\ at'.auth = at.auth
    BY <1>1, <1>3, <1>6, <1>7 DEF Opens
  <1>9. ConfigTypes'
    BY <1>1, <1>4, <1>8 DEF ConfigInv, ConfigTypes
  <1>10. OpenInv'
    BY <1>1, <1>6, <1>7, <1>8 DEF OpenInv
  <1>11. ReachInv'
    <2>1. ASSUME NEW i \in 1..Len(domains'), NEW d \in 1..Len(domains'), i < d
          PROVE  ~Fits(domains'[i].name, domains'[d].name)
      <3>1. i \in 1..Len(domains) /\ domains'[i] = domains[i]
        BY <1>4, <2>1
      <3>2. CASE d = Len(domains) + 1
        BY <1>2, <1>3, <1>4, <3>1, <3>2
      <3>3. CASE d # Len(domains) + 1
        <4>1. d \in 1..Len(domains) /\ domains'[d] = domains[d]
          BY <1>4, <2>1, <3>3
        <4> QED BY <2>1, <3>1, <4>1 DEF ConfigInv, ReachInv
      <3> QED BY <3>2, <3>3
    <2> QED BY <2>1 DEF ReachInv
  <1>12. \A d \in 1..Len(domains') :
           (d \in 1..Len(domains) /\ domains'[d] = domains[d]) \/ 1..Len(domains'[d].handlers) = {}
    BY <1>3, <1>4
  <1>13. AuthInv'
    BY <1>1, <1>8, <1>12 DEF ConfigInv, AuthInv
  <1>14. CallsInv'
    <2>1. phase # "fatal" => \A d \in 1..Len(domains') : \A h \in 1..Len(domains'[d].handlers) :
            Right(modules, domains'[d].handlers[h].func, domains'[d].handlers[h].rcall)
      BY <1>12 DEF ConfigInv, CallsInv
    <2>2. phase # "fatal" => \A c \in 1..Len(validators) : validators[c].type = "function" =>
            Right(modules, validators[c].arg, validators[c].rcall)
      BY DEF ConfigInv, CallsInv
    <2> QED BY <1>1, <2>1, <2>2 DEF CallsInv
  <1> QED BY <1>9, <1>10, <1>11, <1>13, <1>14 DEF ConfigInv

\* The open domain, and its handlers.
LEMMA OpenDomain ==
  ASSUME ConfigInv, at.domain # 0
  PROVE  /\ at.domain \in 1..Len(domains) /\ domains[at.domain] \in Domains
         /\ domains[at.domain].handlers \in Seq(Handlers)
         /\ Len(domains[at.domain].handlers) \in Nat
  <1>1. at \in Opens /\ domains \in Seq(Domains)
    BY DEF ConfigInv, ConfigTypes
  <1>2. at.domain \in 1..Len(domains)
    BY <1>1 DEF ConfigInv, OpenInv, Opens
  <1>3. domains[at.domain] \in Domains
    BY <1>1, <1>2
  <1>4. domains[at.domain].handlers \in Seq(Handlers)
    BY <1>3 DEF Domains
  <1> QED BY <1>2, <1>3, <1>4

LEMMA ConfigOnce ==
  ASSUME ConfigInv, NEW what \in {"certfile", "certkey", "client_verify", "accesslog"}, Config!Once(what)
  PROVE  ConfigInv'
  <1> DEFINE d == at.domain
             X == [domains[d] EXCEPT !.set = @ \cup {what}]
  <1>1. /\ d # 0 /\ domains' = [domains EXCEPT ![d] = X]
        /\ UNCHANGED <<phase, at, auths, validators, modules, built>>
    BY DEF Config!Once, Config!OnceOk, Config!Reads
  <1>2. d \in 1..Len(domains) /\ domains[d] \in Domains
    BY <1>1, OpenDomain
  <1>3. X \in Domains /\ X.name = domains[d].name /\ X.handlers = domains[d].handlers
    BY <1>2 DEF Domains
  <1> HIDE DEF X
  <1>4. Len(X.handlers) \in Nat /\ Len(domains[d].handlers) <= Len(X.handlers)
    BY <1>1, <1>3, OpenDomain
  <1>5. \A h \in 1..Len(X.handlers) : X.handlers[h].auth <= Len(auths)
    BY <1>2, <1>3 DEF ConfigInv, AuthInv
  <1>6. phase # "fatal" => \A h \in 1..Len(X.handlers) :
          Right(modules, X.handlers[h].func, X.handlers[h].rcall)
    BY <1>2, <1>3 DEF ConfigInv, CallsInv
  <1> QED BY <1>1, <1>2, <1>3, <1>4, <1>5, <1>6, OneDomain

\* A handler of the open domain that is given another of its fields.
LEMMA OneHandler ==
  ASSUME ConfigInv, at.domain # 0, NEW h \in 1..Len(domains[at.domain].handlers), NEW Y \in Handlers,
         Y.auth = domains[at.domain].handlers[h].auth, Y.func = domains[at.domain].handlers[h].func,
         Y.rcall = domains[at.domain].handlers[h].rcall,
         domains' = [domains EXCEPT ![at.domain].handlers[h] = Y],
         UNCHANGED <<phase, at, auths, validators, modules, built>>
  PROVE  ConfigInv'
  <1> DEFINE d  == at.domain
             hs == [domains[d].handlers EXCEPT ![h] = Y]
             X  == [domains[d] EXCEPT !.handlers = hs]
  <1>1. d \in 1..Len(domains) /\ domains[d] \in Domains /\ domains[d].handlers \in Seq(Handlers)
        /\ Len(domains[d].handlers) \in Nat
    BY OpenDomain
  <1>2. domains' = [domains EXCEPT ![d] = X]
    OBVIOUS
  <1>3. /\ hs \in Seq(Handlers) /\ Len(hs) = Len(domains[d].handlers) /\ hs[h] = Y
        /\ \A i \in 1..Len(hs) : i # h => hs[i] = domains[d].handlers[i]
    BY <1>1
  <1> HIDE DEF hs
  <1>4. X \in Domains /\ X.name = domains[d].name /\ X.handlers = hs
    BY <1>1, <1>3 DEF Domains
  <1> HIDE DEF X
  <1>5. \A i \in 1..Len(hs) : /\ hs[i].auth = domains[d].handlers[i].auth
                             /\ hs[i].func = domains[d].handlers[i].func
                             /\ hs[i].rcall = domains[d].handlers[i].rcall
    BY <1>3
  <1>6. \A i \in 1..Len(X.handlers) : X.handlers[i].auth <= Len(auths)
    BY <1>1, <1>3, <1>4, <1>5 DEF ConfigInv, AuthInv
  <1>7. phase # "fatal" => \A i \in 1..Len(X.handlers) :
          Right(modules, X.handlers[i].func, X.handlers[i].rcall)
    BY <1>1, <1>3, <1>4, <1>5 DEF ConfigInv, CallsInv
  <1>8. Len(domains[d].handlers) <= Len(X.handlers)
    BY <1>1, <1>3, <1>4
  <1> QED BY <1>1, <1>2, <1>4, <1>6, <1>7, <1>8, OneDomain

LEMMA ConfigRestrict ==
  ASSUME ConfigInv, NEW q \in Paths, NEW ms \in {{"get"}, {"post"}}, Config!RestrictTo(q, ms)
  PROVE  ConfigInv'
  <1> DEFINE d == at.domain
             h == Config!HandlerOf(d, q)
             Y == [domains[d].handlers[h] EXCEPT !.methods = ms]
  <1>1. /\ d # 0 /\ h # 0 /\ domains' = [domains EXCEPT ![d].handlers[h] = Y]
        /\ UNCHANGED <<phase, at, auths, validators, modules, built>>
    BY DEF Config!RestrictTo, Config!RestrictOk, Config!Reads
  <1>2. d \in 1..Len(domains) /\ domains[d].handlers \in Seq(Handlers) /\ Len(domains[d].handlers) \in Nat
    BY <1>1, OpenDomain
  <1>3. h \in 1..Len(domains[d].handlers)
    <2>1. h \in 0..Len(domains[d].handlers)
      BY <1>2, Lookups DEF ConfigInv
    <2> QED BY <1>1, <1>2, <2>1
  <1> HIDE DEF h
  <1>4. domains[d].handlers[h] \in Handlers
    BY <1>2, <1>3
  <1>5. /\ Y \in Handlers /\ Y.auth = domains[d].handlers[h].auth
        /\ Y.func = domains[d].handlers[h].func /\ Y.rcall = domains[d].handlers[h].rcall
    BY <1>4 DEF Handlers, Methods
  <1> HIDE DEF Y
  <1> QED BY <1>1, <1>3, <1>5, OneHandler

LEMMA ConfigValidate == ASSUME ConfigInv, NEW c, Config!Validate(c) PROVE ConfigInv'
  <1> DEFINE d == at.domain
             h == at.handler
             x == [method |-> at.method, flags |-> at.flags,
                   validator |-> Config!ValidatorLookup(c), line |-> at.line]
             Y == [domains[d].handlers[h] EXCEPT !.params = @ \cup {x}]
  <1>1. /\ h # 0 /\ domains' = [domains EXCEPT ![d].handlers[h] = Y]
        /\ UNCHANGED <<phase, at, auths, validators, modules, built>>
    BY DEF Config!Validate, Config!ValidateOk, Config!Reads
  <1>2. /\ d # 0 /\ h <= Len(domains[d].handlers)
        /\ at.line \in BOOLEAN \X Methods /\ at.method = at.line[2]
        /\ "query" \in at.flags <=> (at.line[1] \/ at.line[2] = "get")
    BY <1>1 DEF ConfigInv, OpenInv
  <1>3. at \in Opens /\ Config!ValidatorLookup(c) \in Nat
    BY Lookups DEF ConfigInv, ConfigTypes
  <1>4. h \in Nat /\ at.flags \in SUBSET {"query"} /\ at.method \in Methods
    BY <1>2, <1>3 DEF Opens
  <1>5. x \in Params
    BY <1>2, <1>3, <1>4 DEF Params
  <1> HIDE DEF x
  <1>6. domains[d].handlers \in Seq(Handlers) /\ Len(domains[d].handlers) \in Nat
    BY <1>2, OpenDomain
  <1>7. h \in 1..Len(domains[d].handlers)
    BY <1>1, <1>2, <1>4, <1>6
  <1>8. domains[d].handlers[h] \in Handlers
    BY <1>6, <1>7
  <1>9. /\ Y \in Handlers /\ Y.auth = domains[d].handlers[h].auth
        /\ Y.func = domains[d].handlers[h].func /\ Y.rcall = domains[d].handlers[h].rcall
    BY <1>5, <1>8 DEF Handlers
  <1> HIDE DEF Y
  <1> QED BY <1>1, <1>2, <1>7, <1>9, OneHandler

LEMMA ConfigHandler ==
  ASSUME ConfigInv, NEW type \in {"static", "dynamic"}, NEW q \in Paths, NEW f \in Functions,
         NEW a \in AuthNames \cup {None}, Config!HandlerNew(type, q, f, a)
  PROVE  ConfigInv'
  <1> DEFINE au == IF a = None THEN 0 ELSE Config!AuthLookup(a)
             rc == Config!Getcall(modules, f)
             x  == [type |-> type, path |-> q, func |-> f, rcall |-> rc, auth |-> au,
                    methods |-> {"get", "post"}, params |-> {}]
             d  == Config!DomainLookup(domains, domains[at.domain].name)
             hs == Append(domains[d].handlers, x)
             X  == [domains[d] EXCEPT !.handlers = hs]
  <1>1. /\ at.domain # 0 /\ rc # None /\ domains' = [domains EXCEPT ![d].handlers = hs]
        /\ UNCHANGED <<phase, at, auths, validators, modules, built>>
    BY DEF Config!HandlerNew, Config!HandlerOk, Config!Reads
  <1>2. domains' = [domains EXCEPT ![d] = X]
    BY <1>1
  <1>3. /\ modules \in Seq(Loads) /\ auths \in Seq(Auths) /\ domains \in Seq(Domains)
        /\ Len(auths) \in Nat
    BY DEF ConfigInv, ConfigTypes
  <1>4. Right(modules, f, rc) /\ rc \in Rcall
    BY <1>1, <1>3, GetcallOf DEF Right
  <1>5. au \in Nat /\ au <= Len(auths)
    <2>1. Config!AuthLookup(a) \in 0..Len(auths)
      BY Lookups DEF ConfigInv
    <2> QED BY <1>3, <2>1
  <1> HIDE DEF au, rc
  <1>6. x \in Handlers /\ x.auth = au /\ x.func = f /\ x.rcall = rc
    BY <1>4, <1>5 DEF Handlers, Methods
  <1> HIDE DEF x
  <1>7. d \in 1..Len(domains)
    BY <1>1, OpenDomain, Lookups DEF ConfigInv
  <1> HIDE DEF d
  <1>8. domains[d] \in Domains
    BY <1>3, <1>7
  <1>9. domains[d].handlers \in Seq(Handlers) /\ Len(domains[d].handlers) \in Nat
    BY <1>8 DEF Domains
  <1>10. /\ hs \in Seq(Handlers) /\ Len(hs) = Len(domains[d].handlers) + 1
         /\ hs[Len(domains[d].handlers) + 1] = x
         /\ \A i \in 1..Len(domains[d].handlers) : hs[i] = domains[d].handlers[i]
    BY <1>6, <1>9
  <1> HIDE DEF hs
  <1>11. X \in Domains /\ X.name = domains[d].name /\ X.handlers = hs
    BY <1>8, <1>10 DEF Domains
  <1> HIDE DEF X
  <1>12. \A i \in 1..Len(hs) : (i \in 1..Len(domains[d].handlers) /\ hs[i] = domains[d].handlers[i]) \/ hs[i] = x
    BY <1>9, <1>10
  <1>13. \A i \in 1..Len(X.handlers) : X.handlers[i].auth <= Len(auths)
    BY <1>5, <1>6, <1>7, <1>11, <1>12 DEF ConfigInv, AuthInv
  <1>14. phase # "fatal" => \A i \in 1..Len(X.handlers) :
           Right(modules, X.handlers[i].func, X.handlers[i].rcall)
    BY <1>4, <1>6, <1>7, <1>11, <1>12 DEF ConfigInv, CallsInv
  <1>15. Len(domains[d].handlers) <= Len(X.handlers)
    BY <1>9, <1>10, <1>11
  <1> QED BY <1>1, <1>2, <1>7, <1>11, <1>13, <1>14, <1>15, OneDomain

LEMMA ConfigValidator ==
  ASSUME ConfigInv, NEW c \in ValidatorNames, NEW type \in {"regex", "function"},
         NEW arg \in Functions \cup {None}, Config!Validator(c, type, arg)
  PROVE  ConfigInv'
  <1> DEFINE rc == Config!Getcall(modules, arg)
             x  == [name |-> c, type |-> type, arg |-> arg,
                    rcall |-> IF type = "function" THEN rc ELSE None]
  <1>1. /\ validators' = Append(validators, x) /\ (type = "function" => rc # None)
        /\ UNCHANGED <<phase, at, domains, auths, modules, built>>
    BY DEF Config!Validator, Config!ValidatorOk, Config!Reads
  <1>2. modules \in Seq(Loads) /\ validators \in Seq(Checks)
    BY DEF ConfigInv, ConfigTypes
  <1>3. type = "function" => Right(modules, arg, rc) /\ rc \in Rcall
    BY <1>1, <1>2, GetcallOf DEF Right
  <1> HIDE DEF rc
  <1>4. x \in Checks /\ x.type = type /\ x.arg = arg /\ (type = "function" => x.rcall = rc)
    BY <1>3 DEF Checks
  <1> HIDE DEF x
  <1>5. /\ validators' \in Seq(Checks) /\ Len(validators') = Len(validators) + 1
        /\ validators'[Len(validators) + 1] = x /\ Len(validators) \in Nat
        /\ \A i \in 1..Len(validators) : validators'[i] = validators[i]
    BY <1>1, <1>2, <1>4
  <1>6. ConfigTypes'
    BY <1>1, <1>5 DEF ConfigInv, ConfigTypes
  <1>7. ReachInv' /\ OpenInv' /\ AuthInv'
    BY <1>1 DEF ConfigInv, ReachInv, OpenInv, AuthInv
  <1>8. \A i \in 1..Len(validators') :
          (i \in 1..Len(validators) /\ validators'[i] = validators[i]) \/ validators'[i] = x
    BY <1>5
  <1>9. CallsInv'
    <2>1. phase # "fatal" => \A i \in 1..Len(validators') : validators'[i].type = "function" =>
            Right(modules, validators'[i].arg, validators'[i].rcall)
      BY <1>3, <1>4, <1>8 DEF ConfigInv, CallsInv
    <2>2. phase # "fatal" => \A d \in 1..Len(domains) : \A h \in 1..Len(domains[d].handlers) :
            Right(modules, domains[d].handlers[h].func, domains[d].handlers[h].rcall)
      BY DEF ConfigInv, CallsInv
    <2> QED BY <1>1, <2>1, <2>2 DEF CallsInv
  <1> QED BY <1>6, <1>7, <1>9 DEF ConfigInv

LEMMA ConfigAuthentication ==
  ASSUME ConfigInv, NEW a \in AuthNames, Config!Authentication(a) PROVE ConfigInv'
  <1> DEFINE x == [name |-> a, type |-> None, value |-> None, redirect |-> None, validator |-> 0]
  <1>1. /\ auths' = Append(auths, x) /\ at' = [at EXCEPT !.auth = Len(auths) + 1] /\ at.auth = 0
        /\ UNCHANGED <<phase, domains, validators, modules, built>>
    BY DEF Config!Authentication, Config!AuthOk, Config!Reads
  <1>2. x \in Auths /\ auths \in Seq(Auths) /\ at \in Opens
    BY DEF ConfigInv, ConfigTypes, Auths
  <1> HIDE DEF x
  <1>3. /\ auths' \in Seq(Auths) /\ Len(auths') = Len(auths) + 1 /\ Len(auths) \in Nat
        /\ \A i \in 1..Len(auths) : auths'[i] = auths[i]
    BY <1>1, <1>2
  <1> DEFINE n == Len(auths) + 1
  <1>3a. n \in Nat /\ at' = [at EXCEPT !.auth = n]
    BY <1>1, <1>3
  <1> HIDE DEF n
  <1>3b. /\ at' \in Opens /\ at'.auth = n /\ at'.domain = at.domain
         /\ at'.handler = at.handler /\ at'.method = at.method /\ at'.flags = at.flags
         /\ at'.line = at.line
    BY <1>2, <1>3a DEF Opens
  <1>4. /\ at' \in Opens /\ at'.auth = Len(auths) + 1 /\ at'.domain = at.domain
        /\ at'.handler = at.handler /\ at'.method = at.method /\ at'.flags = at.flags
        /\ at'.line = at.line
    BY <1>3b DEF n
  <1>5. ConfigTypes'
    BY <1>1, <1>3, <1>4 DEF ConfigInv, ConfigTypes
  <1>6. ReachInv' /\ CallsInv'
    BY <1>1 DEF ConfigInv, ReachInv, CallsInv
  <1>7. OpenInv'
    BY <1>1, <1>3, <1>4 DEF ConfigInv, OpenInv
  <1>8. AuthInv'
    <2>1. \A i \in 1..Len(auths) : auths'[i].validator # 0
      <3>1. \A i \in 1..Len(auths) : auths[i].validator = 0 => i = 0
        BY <1>1 DEF ConfigInv, AuthInv
      <3> QED BY <1>3, <3>1
    <2>2. \A i \in 1..Len(auths') : i \in 1..Len(auths) \/ i = at'.auth
      BY <1>3, <1>4
    <2>3. \A i \in 1..Len(auths') : auths'[i].validator = 0 => i = at'.auth
      BY <2>1, <2>2
    <2>4. ASSUME NEW d \in 1..Len(domains), NEW h \in 1..Len(domains[d].handlers)
          PROVE  domains[d].handlers[h].auth <= Len(auths')
      <3>1. domains[d].handlers[h].auth <= Len(auths)
        BY DEF ConfigInv, AuthInv
      <3>2. domains[d] \in Domains
        BY DEF ConfigInv, ConfigTypes
      <3>3. domains[d].handlers \in Seq(Handlers)
        BY <3>2 DEF Domains
      <3>4. domains[d].handlers[h] \in Handlers
        BY <3>3
      <3>5. domains[d].handlers[h].auth \in Nat
        BY <3>4 DEF Handlers
      <3> QED BY <1>3, <3>1, <3>5
    <2>5. domains' = domains
      BY <1>1
    <2> QED BY <2>3, <2>4, <2>5 DEF AuthInv
  <1> QED BY <1>5, <1>6, <1>7, <1>8 DEF ConfigInv

LEMMA OpenAuth ==
  ASSUME ConfigInv, at.auth # 0
  PROVE  auths[at.auth] \in Auths
  <1>1. at \in Opens /\ auths \in Seq(Auths)
    BY DEF ConfigInv, ConfigTypes
  <1>2. at.auth \in 1..Len(auths)
    BY <1>1 DEF ConfigInv, OpenInv, Opens
  <1> QED BY <1>1, <1>2

LEMMA ConfigAuthSets ==
  ASSUME ConfigInv,
         \/ Config!AuthSets("type", {"cookie", "header", "request"})
         \/ Config!AuthSets("value", {"given"})
         \/ Config!AuthSets("redirect", {"given"})
  PROVE  ConfigInv'
  <1>1. at.auth # 0 /\ UNCHANGED <<phase, at, domains, validators, modules, built>>
    BY DEF Config!AuthSets, Config!Reads
  <1>2. auths[at.auth] \in Auths
    BY <1>1, OpenAuth
  <1>3. CASE Config!AuthSets("type", {"cookie", "header", "request"})
    <2>1. PICK x \in {"cookie", "header", "request"} :
            auths' = [auths EXCEPT ![at.auth] = [@ EXCEPT !["type"] = x]]
      BY <1>3 DEF Config!AuthSets
    <2> DEFINE X == [auths[at.auth] EXCEPT !["type"] = x]
    <2>2. X \in Auths
      BY <1>2 DEF Auths
    <2>3. auths' = [auths EXCEPT ![at.auth] = X]
      BY <2>1
    <2> QED BY <1>1, <2>2, <2>3, OneAuth
  <1>4. CASE Config!AuthSets("value", {"given"})
    <2>1. auths' = [auths EXCEPT ![at.auth] = [@ EXCEPT !["value"] = "given"]]
      BY <1>4 DEF Config!AuthSets
    <2> DEFINE X == [auths[at.auth] EXCEPT !["value"] = "given"]
    <2>2. X \in Auths
      BY <1>2 DEF Auths
    <2>3. auths' = [auths EXCEPT ![at.auth] = X]
      BY <2>1
    <2> QED BY <1>1, <2>2, <2>3, OneAuth
  <1>5. CASE Config!AuthSets("redirect", {"given"})
    <2>1. auths' = [auths EXCEPT ![at.auth] = [@ EXCEPT !["redirect"] = "given"]]
      BY <1>5 DEF Config!AuthSets
    <2> DEFINE X == [auths[at.auth] EXCEPT !["redirect"] = "given"]
    <2>2. X \in Auths
      BY <1>2 DEF Auths
    <2>3. auths' = [auths EXCEPT ![at.auth] = X]
      BY <2>1
    <2> QED BY <1>1, <2>2, <2>3, OneAuth
  <1> QED BY <1>3, <1>4, <1>5

LEMMA ConfigAuthValidator ==
  ASSUME ConfigInv, NEW c, Config!AuthValidator(c) PROVE ConfigInv'
  <1> DEFINE X == [auths[at.auth] EXCEPT !.validator = Config!ValidatorLookup(c)]
  <1>1. /\ at.auth # 0 /\ auths' = [auths EXCEPT ![at.auth] = X]
        /\ UNCHANGED <<phase, at, domains, validators, modules, built>>
    BY DEF Config!AuthValidator, Config!AuthValidatorOk, Config!Reads
  <1>2. auths[at.auth] \in Auths /\ Config!ValidatorLookup(c) \in Nat
    BY <1>1, OpenAuth, Lookups DEF ConfigInv
  <1>3. X \in Auths
    BY <1>2 DEF Auths
  <1> HIDE DEF X
  <1> QED BY <1>1, <1>3, OneAuth

LEMMA ConfigReload == ASSUME ConfigInv, NEW refused, Config!Reload(refused) PROVE ConfigInv'
  <1> DEFINE ms == Config!Reloaded(refused)
             Gone == \/ \E i \in DOMAIN ms : ms[i].onload \notin Exports[ms[i].path][ms[i].mtime] \cup {None}
                     \/ \E d \in DOMAIN domains : \E h \in DOMAIN domains[d].handlers :
                          Config!Getcall(ms, domains[d].handlers[h].func) = None
                     \/ \E c \in DOMAIN validators :
                          validators[c].type = "function" /\ Config!Getcall(ms, validators[c].arg) = None
  <1>1. /\ modules \in Seq(Loads) /\ domains \in Seq(Domains) /\ validators \in Seq(Checks)
        /\ built \in [Modules -> Nat]
    BY DEF ConfigInv, ConfigTypes
  <1>2. ms \in Seq(Loads)
    <2>1. ASSUME NEW i \in DOMAIN modules PROVE ms[i] \in Loads
      <3>0. modules[i] \in Loads
        BY <1>1
      <3>1. modules[i].path \in Modules /\ built[modules[i].path] \in Nat
        BY <1>1, <3>0 DEF Loads
      <3>2. [modules[i] EXCEPT !.mtime = built[modules[i].path]] \in Loads
        BY <3>0, <3>1 DEF Loads
      <3>3. ms[i] = modules[i] \/ ms[i] = [modules[i] EXCEPT !.mtime = built[modules[i].path]]
        BY DEF Config!Reloaded
      <3> QED BY <3>0, <3>2, <3>3
    <2>2. ms = [i \in 1..Len(modules) |-> ms[i]] /\ DOMAIN modules = 1..Len(modules) /\ Len(modules) \in Nat
      BY <1>1 DEF Config!Reloaded
    <2> QED BY <2>1, <2>2
  <1>3. /\ modules' = ms /\ UNCHANGED <<at, auths, built>> /\ phase = "running"
        /\ Gone => phase' = "fatal" /\ domains' = domains /\ validators' = validators
        /\ ~Gone => /\ phase' = phase
                    /\ domains' = [d \in DOMAIN domains |->
                         [domains[d] EXCEPT !.handlers = Config!Recalled(ms, domains[d].handlers)]]
                    /\ validators' = [c \in DOMAIN validators |->
                         IF validators[c].type = "function"
                         THEN [validators[c] EXCEPT !.rcall = Config!Getcall(ms, validators[c].arg)]
                         ELSE validators[c]]
    BY DEF Config!Reload
  <1> HIDE DEF ms
  <1>4. CASE Gone
    <2>1. ConfigTypes'
      BY <1>2, <1>3, <1>4 DEF ConfigInv, ConfigTypes
    <2>2. ReachInv' /\ OpenInv' /\ AuthInv' /\ CallsInv'
      BY <1>3, <1>4 DEF ConfigInv, ReachInv, OpenInv, AuthInv, CallsInv
    <2> QED BY <2>1, <2>2 DEF ConfigInv
  <1>5. CASE ~Gone
    <2>1. ASSUME NEW d \in 1..Len(domains)
          PROVE  /\ domains'[d] \in Domains /\ domains'[d].name = domains[d].name
                 /\ Len(domains'[d].handlers) = Len(domains[d].handlers)
                 /\ \A h \in 1..Len(domains[d].handlers) :
                      /\ domains'[d].handlers[h].auth = domains[d].handlers[h].auth
                      /\ Right(ms, domains'[d].handlers[h].func, domains'[d].handlers[h].rcall)
      <3> DEFINE hs == domains[d].handlers
                 gs == Config!Recalled(ms, hs)
      <3>1. d \in DOMAIN domains /\ domains[d] \in Domains
        BY <1>1
      <3>2. hs \in Seq(Handlers) /\ DOMAIN hs = 1..Len(hs) /\ Len(hs) \in Nat
        BY <3>1 DEF Domains
      <3>3. domains'[d] = [domains[d] EXCEPT !.handlers = gs]
        BY <1>3, <1>5, <3>1
      <3>4. ASSUME NEW h \in 1..Len(hs)
            PROVE  /\ gs[h] \in Handlers /\ gs[h].auth = hs[h].auth
                   /\ Right(ms, gs[h].func, gs[h].rcall)
        <4> DEFINE rc == Config!Getcall(ms, hs[h].func)
        <4>1. hs[h] \in Handlers
          BY <3>2
        <4>2. rc # None
          BY <1>5, <3>1, <3>2
        <4>3. Right(ms, hs[h].func, rc) /\ rc \in Rcall
          BY <1>2, <4>2, GetcallOf DEF Right
        <4>4. gs[h] = [hs[h] EXCEPT !.rcall = rc]
          BY <3>2 DEF Config!Recalled
        <4> HIDE DEF rc
        <4>5. gs[h] \in Handlers /\ gs[h].auth = hs[h].auth /\ gs[h].func = hs[h].func /\ gs[h].rcall = rc
          BY <4>1, <4>3, <4>4 DEF Handlers
        <4> QED BY <4>3, <4>5
      <3>5. gs = [h \in 1..Len(hs) |-> gs[h]]
        BY <3>2 DEF Config!Recalled
      <3> HIDE DEF gs
      <3>5a. \A h \in 1..Len(hs) : gs[h] \in Handlers
        BY <3>4
      <3>6. gs \in Seq(Handlers) /\ Len(gs) = Len(hs)
        <4> DEFINE n == Len(hs)
        <4>1. n \in Nat /\ gs = [h \in 1..n |-> gs[h]] /\ \A h \in 1..n : gs[h] \in Handlers
          BY <3>2, <3>5, <3>5a
        <4> HIDE DEF n
        <4>2. gs \in Seq(Handlers) /\ Len(gs) = n
          BY <4>1
        <4> QED BY <4>2 DEF n
      <3>7. domains'[d] \in Domains /\ domains'[d].name = domains[d].name /\ domains'[d].handlers = gs
        BY <3>1, <3>3, <3>6 DEF Domains
      <3> QED BY <3>4, <3>6, <3>7
    <2>2. ASSUME NEW c \in 1..Len(validators)
          PROVE  /\ validators'[c] \in Checks
                 /\ validators'[c].type = "function" => Right(ms, validators'[c].arg, validators'[c].rcall)
      <3> DEFINE rc == Config!Getcall(ms, validators[c].arg)
      <3>1. c \in DOMAIN validators /\ validators[c] \in Checks
        BY <1>1
      <3>2. validators'[c] = IF validators[c].type = "function"
                             THEN [validators[c] EXCEPT !.rcall = rc] ELSE validators[c]
        BY <1>3, <1>5, <3>1
      <3>3. validators[c].type = "function" => rc # None
        BY <1>5, <3>1
      <3>4. validators[c].type = "function" => Right(ms, validators[c].arg, rc) /\ rc \in Rcall
        BY <1>2, <3>3, GetcallOf DEF Right
      <3> HIDE DEF rc
      <3>5. CASE validators[c].type = "function"
        <4>1. /\ validators'[c] \in Checks /\ validators'[c].arg = validators[c].arg
              /\ validators'[c].rcall = rc
          BY <3>1, <3>2, <3>4, <3>5 DEF Checks
        <4> QED BY <3>4, <3>5, <4>1
      <3>6. CASE validators[c].type # "function"
        BY <3>1, <3>2, <3>6
      <3> QED BY <3>5, <3>6
    <2>3. /\ DOMAIN domains = 1..Len(domains) /\ Len(domains) \in Nat
          /\ DOMAIN validators = 1..Len(validators) /\ Len(validators) \in Nat
      BY <1>1
    <2>4. /\ domains' = [d \in 1..Len(domains) |-> domains'[d]]
          /\ validators' = [c \in 1..Len(validators) |-> validators'[c]]
      <3>1. domains' = [d \in 1..Len(domains) |->
                [domains[d] EXCEPT !.handlers = Config!Recalled(ms, domains[d].handlers)]]
        BY <1>3, <1>5, <2>3
      <3>2. validators' = [c \in 1..Len(validators) |->
                IF validators[c].type = "function"
                THEN [validators[c] EXCEPT !.rcall = Config!Getcall(ms, validators[c].arg)]
                ELSE validators[c]]
        BY <1>3, <1>5, <2>3
      <3>3. domains' = [d \in 1..Len(domains) |-> domains'[d]]
        BY <3>1
      <3>4. validators' = [c \in 1..Len(validators) |-> validators'[c]]
        BY <3>2
      <3> QED BY <3>3, <3>4
    <2>5. domains' \in Seq(Domains) /\ Len(domains') = Len(domains)
      BY <2>1, <2>3, <2>4
    <2>6. validators' \in Seq(Checks) /\ Len(validators') = Len(validators)
      BY <2>2, <2>3, <2>4
    <2>7. ConfigTypes'
      BY <1>2, <1>3, <2>5, <2>6 DEF ConfigInv, ConfigTypes
    <2>8. ReachInv'
      BY <2>1, <2>5 DEF ConfigInv, ReachInv, Fits
    <2>9. OpenInv'
      <3>1. at \in Opens
        BY DEF ConfigInv, ConfigTypes
      <3>2. at.handler # 0 => at.domain \in 1..Len(domains)
        BY <3>1 DEF ConfigInv, OpenInv, Opens
      <3>3. at.handler # 0 => Len(domains'[at.domain].handlers) = Len(domains[at.domain].handlers)
        BY <2>1, <3>2
      <3> QED BY <1>3, <2>5, <3>3 DEF ConfigInv, OpenInv
    <2>10. AuthInv'
      BY <1>3, <2>1, <2>5 DEF ConfigInv, AuthInv
    <2>11. CallsInv'
      BY <1>3, <2>1, <2>2, <2>5, <2>6 DEF CallsInv
    <2> QED BY <2>7, <2>8, <2>9, <2>10, <2>11 DEF ConfigInv
  <1> QED BY <1>4, <1>5

LEMMA ConfigNext ==
  ASSUME Config!ConfigAssumption, ConfigInv, [Config!Next]_(Config!vars) PROVE ConfigInv'
  <1>1. built \in [Modules -> Nat] /\ Exports \in [Modules -> Seq(SUBSET Functions)]
    BY DEF Config!ConfigAssumption, ConfigInv, ConfigTypes
  <1>2. CASE \/ Config!Include \/ Config!IncludeEnds \/ Config!Wrong
             \/ \E o \in Config!Options, class \in {"below", "least", "most", "above"} : Config!Number(o, class)
             \/ \E u \in {"root", "runas", "keymgr_root", "keymgr_runas"} : Config!User(u)
             \/ \E root, nochroot, norunas \in BOOLEAN : Config!Finish(root, nochroot, norunas)
             \/ UNCHANGED Config!vars
    <2>1. UNCHANGED <<at, domains, auths, validators, modules, built>>
      BY <1>2 DEF Config!Include, Config!IncludeEnds, Config!Wrong, Config!Number, Config!User,
         Config!Finish, Config!vars, Config!tree, Config!Reads
    <2>2. phase' = "fatal" \/ phase' = phase \/ phase = "parse"
      BY <1>2 DEF Config!Include, Config!IncludeEnds, Config!Wrong, Config!Number, Config!User,
         Config!Finish, Config!vars, Config!Reads
    <2>3. phase' = "fatal" \/ phase # "fatal"
      BY <2>2
    <2> QED BY <1>1, <2>1, <2>3, OnlyPhase
  <1>3. ASSUME NEW m \in Modules, NEW b \in {0} \cup DOMAIN Exports[m], Config!Install(m, b)
        PROVE  ConfigInv'
    <2>1. b \in Nat
      <3>1. Exports[m] \in Seq(SUBSET Functions)
        BY <1>1
      <3>2. DOMAIN Exports[m] \subseteq Nat
        BY <3>1
      <3> QED BY <3>2
    <2>2. /\ UNCHANGED <<phase, at, domains, auths, validators, modules>> /\ phase = "running"
          /\ built' = [built EXCEPT ![m] = b]
      BY <1>3 DEF Config!Install, Config!tree
    <2>3. built' \in [Modules -> Nat]
      BY <1>1, <2>1, <2>2
    <2> QED BY <2>2, <2>3, OnlyPhase
  <1>4. ASSUME Config!Line PROVE ConfigInv'
    BY <1>2, <1>4, ConfigClose, ConfigLoad, ConfigDomain, ConfigOnce, ConfigHandler, ConfigRestrict,
       ConfigValidator, ConfigValidate, ConfigAuthValidator, ConfigParams, ConfigAuthentication,
       ConfigAuthSets DEF Config!Line, Methods
  <1> QED BY <1>2, <1>3, <1>4, ConfigReload DEF Config!Next
-----------------------------------------------------------------------------
\* What follows from the invariant.
LEMMA Reachable == ConfigInv => Config!DomainsAreReachable
  <1> SUFFICES ASSUME ConfigInv, NEW d \in DOMAIN domains
               PROVE  Config!DomainLookup(domains, domains[d].name) = d
    BY DEF Config!DomainsAreReachable
  <1> DEFINE I == {i \in DOMAIN domains :
                     domains[i].name = domains[d].name \/ <<domains[i].name, domains[d].name>> \in Covers}
  <1>1. domains \in Seq(Domains)
    BY DEF ConfigInv, ConfigTypes
  <1>2. DOMAIN domains = 1..Len(domains) /\ Len(domains) \in Nat
    BY <1>1
  <1>3. I \in SUBSET (Nat \ {0}) /\ d \in I /\ I \subseteq 1..Len(domains)
    BY <1>2
  <1>4. \A i \in I : ~(i < d)
    BY <1>2 DEF ConfigInv, ReachInv, Fits
  <1>5. Config!DomainLookup(domains, domains[d].name) = Config!Least(I)
    BY DEF Config!DomainLookup
  <1> HIDE DEF I
  <1>6. Config!Least(I) \in I /\ Config!Least(I) <= d
    BY <1>3, ConfigLeast
  <1>7. d \in Nat /\ Config!Least(I) \in Nat /\ ~(Config!Least(I) < d)
    BY <1>2, <1>3, <1>4, <1>6
  <1>8. Config!Least(I) = d
    BY <1>6, <1>7
  <1> QED BY <1>5, <1>8

LEMMA Declared == ConfigInv => Config!ParamsAsDeclared
  <1> SUFFICES ASSUME ConfigInv, NEW d \in DOMAIN domains, NEW h \in DOMAIN domains[d].handlers,
                      NEW m \in {"get", "post"}, NEW query \in BOOLEAN
               PROVE  Config!Accepts(domains[d].handlers[h], m, query) =
                        {q \in domains[d].handlers[h].params :
                           q.line[2] = m /\ query = (q.line[1] \/ m = "get")}
    BY DEF Config!ParamsAsDeclared
  <1> DEFINE qs == domains[d].handlers[h].params
  <1>1. domains[d] \in Domains
    BY DEF ConfigInv, ConfigTypes
  <1>2. domains[d].handlers \in Seq(Handlers)
    BY <1>1 DEF Domains
  <1>3. domains[d].handlers[h] \in Handlers
    BY <1>2
  <1>4. qs \in SUBSET Params
    BY <1>3 DEF Handlers
  <1>5. Config!Accepts(domains[d].handlers[h], m, query) =
          {q \in qs : q.method = m /\ query = ("query" \in q.flags)}
    BY DEF Config!Accepts
  <1> HIDE DEF qs
  <1>6. ASSUME NEW q \in qs
        PROVE  (q.method = m /\ query = ("query" \in q.flags)) <=>
               (q.line[2] = m /\ query = (q.line[1] \/ m = "get"))
    <2>1. q.method = q.line[2] /\ ("query" \in q.flags <=> (q.line[1] \/ q.line[2] = "get"))
      BY <1>4 DEF Params
    <2>2. CASE q.line[2] = m
      <3>1. "query" \in q.flags <=> (q.line[1] \/ m = "get")
        BY <2>1, <2>2
      <3>2. ("query" \in q.flags) = (q.line[1] \/ m = "get")
        BY <3>1
      <3> QED BY <2>1, <2>2, <3>2
    <2>3. CASE q.line[2] # m
      BY <2>1, <2>3
    <2> QED BY <2>2, <2>3
  <1>7. {q \in qs : q.method = m /\ query = ("query" \in q.flags)} =
        {q \in qs : q.line[2] = m /\ query = (q.line[1] \/ m = "get")}
    BY <1>6
  <1> QED BY <1>5, <1>7 DEF qs

LEMMA CrashesKnown == ConfigInv => Config!CrashesAreKnown
  <1> SUFFICES ASSUME ConfigInv, NEW d \in DOMAIN domains, NEW q \in Paths, NEW m \in {"get", "post"},
                      Config!Answer(domains[d].name, q, m, "good") = "crash"
               PROVE  LET hdlr == Config!HandlerFind(domains[d].name, q)
                      IN hdlr.auth = at.auth \/ (auths[hdlr.auth].value = None /\ auths[hdlr.auth].type # "request")
    BY DEF Config!CrashesAreKnown
  <1> DEFINE n    == domains[d].name
             l    == Config!DomainLookup(domains, n)
             hs   == IF l = 0 THEN <<>> ELSE domains[l].handlers
             I    == {i \in DOMAIN hs : hs[i].type = "dynamic" \/ hs[i].path = q}
             h    == Config!Least(I)
             hdlr == Config!HandlerFind(n, q)
  <1>1. hdlr = IF h = 0 THEN None ELSE hs[h]
    BY DEF Config!HandlerFind
  <1>2. hdlr # None /\ hdlr.auth # 0 /\ Config!AuthRun(auths[hdlr.auth], "good") = "crash"
    BY DEF Config!Answer
  <1>3. \/ auths[hdlr.auth].validator = 0
        \/ auths[hdlr.auth].type # "request" /\ auths[hdlr.auth].value = None
    BY <1>2 DEF Config!AuthRun
  <1>4. domains \in Seq(Domains) /\ d \in 1..Len(domains)
    BY DEF ConfigInv, ConfigTypes
  <1>5. l \in 1..Len(domains)
    BY <1>4, Lookups DEF ConfigInv
  <1> HIDE DEF l
  <1>6. hs = domains[l].handlers /\ domains[l] \in Domains
    BY <1>4, <1>5
  <1> HIDE DEF hs
  <1>7. hs \in Seq(Handlers)
    BY <1>6 DEF Domains
  <1>8. I \in SUBSET (Nat \ {0}) /\ I \subseteq 1..Len(hs)
    BY <1>7
  <1> HIDE DEF I
  <1>9. h = 0 \/ h \in 1..Len(hs)
    BY <1>8, ConfigLeast
  <1> HIDE DEF h, hdlr
  <1>10. hdlr = hs[h] /\ h \in 1..Len(hs)
    BY <1>1, <1>2, <1>9
  <1>11. hdlr.auth <= Len(auths)
    BY <1>5, <1>6, <1>10 DEF ConfigInv, AuthInv
  <1>12. hdlr.auth \in Nat /\ Len(auths) \in Nat
    <2>1. hdlr \in Handlers
      BY <1>7, <1>10
    <2> QED BY <2>1 DEF Handlers, ConfigInv, ConfigTypes
  <1>13. hdlr.auth \in 1..Len(auths)
    BY <1>2, <1>11, <1>12
  <1>14. auths[hdlr.auth].validator = 0 => hdlr.auth = at.auth
    BY <1>13 DEF ConfigInv, AuthInv
  <1>15. hdlr.auth = at.auth \/ (auths[hdlr.auth].value = None /\ auths[hdlr.auth].type # "request")
    BY <1>3, <1>14
  <1> QED BY <1>15 DEF hdlr

LEMMA CallsFresh == ConfigInv => Config!CallsAreFresh
  <1> SUFFICES ASSUME ConfigInv, phase = "running"
               PROVE  /\ \A d \in DOMAIN domains : \A h \in DOMAIN domains[d].handlers :
                           domains[d].handlers[h].rcall = Config!Getcall(modules, domains[d].handlers[h].func)
                      /\ \A c \in DOMAIN validators : validators[c].type = "function" =>
                           validators[c].rcall = Config!Getcall(modules, validators[c].arg)
    BY DEF Config!CallsAreFresh
  <1>1. domains \in Seq(Domains) /\ validators \in Seq(Checks)
    BY DEF ConfigInv, ConfigTypes
  <1>2. DOMAIN domains = 1..Len(domains) /\ DOMAIN validators = 1..Len(validators)
    BY <1>1
  <1>3. \A d \in 1..Len(domains) : DOMAIN domains[d].handlers = 1..Len(domains[d].handlers)
    <2> TAKE d \in 1..Len(domains)
    <2>1. domains[d] \in Domains
      BY <1>1
    <2>2. domains[d].handlers \in Seq(Handlers)
      BY <2>1 DEF Domains
    <2> QED BY <2>2
  <1> QED BY <1>2, <1>3 DEF ConfigInv, CallsInv, Right

(* What the configuration promises (config.c, domain.c, module.c, auth.c)  *)
(* holds after any lines and reloads: a domain is found under its own      *)
(* name, an argument is checked where its params line says, a request      *)
(* crashes a worker in the two known cases only, and no call of a page     *)
(* handler or validator goes into a module that was replaced.              *)
THEOREM ConfigurationStaysRight ==
  ASSUME Config!ConfigAssumption
  PROVE  Config!Spec => []Config!ConfigurationHolds
  <1>1. Config!Init => ConfigInv
    BY InitConfig
  <1>2. ConfigInv /\ [Config!Next]_(Config!vars) => ConfigInv'
    BY ConfigNext
  <1>3. ConfigInv => Config!ConfigurationHolds
    BY Reachable, Declared, CrashesKnown, CallsFresh DEF Config!ConfigurationHolds
  <1> QED BY <1>1, <1>2, <1>3, PTL DEF Config!Spec
-----------------------------------------------------------------------------
(* The checksums of messages (Crc).                                        *)
\* A width of a checksum and the polynomial that divides it.
Divides(w, poly) == w \in {8, 16} /\ poly \in SUBSET (0..(w - 1))
Wide(w)          == SUBSET (0..(w - 1))
Octet             == SUBSET (0..7)

\* The bits of what the loops are made of.
LEMMA XorIs == ASSUME NEW a, NEW b, NEW i PROVE i \in Sums!Xor(a, b) <=> ~(i \in a <=> i \in b)
  BY DEF Sums!Xor

LEMMA UpIs ==
  ASSUME NEW a \in SUBSET Nat, NEW n \in Nat
  PROVE  /\ Sums!Up(a, n) \in SUBSET Nat
         /\ \A i \in Int : i \in Sums!Up(a, n) <=> i - n \in a
  <1>1. \A j \in a : j + n \in Nat /\ (j + n) - n = j
    OBVIOUS
  <1>2. \A i \in Int : i - n \in a => i = (i - n) + n
    OBVIOUS
  <1> QED BY <1>1, <1>2 DEF Sums!Up

\* Sets of numbers with the same numbers are the same.
LEMMA SameBits ==
  ASSUME NEW a \in SUBSET Nat, NEW b \in SUBSET Nat, \A i \in Nat : i \in a <=> i \in b
  PROVE  a = b
  OBVIOUS

LEMMA XorIn == ASSUME NEW S, NEW a \in SUBSET S, NEW b \in SUBSET S PROVE Sums!Xor(a, b) \in SUBSET S
  BY DEF Sums!Xor

LEMMA WideIs == ASSUME NEW w \in {8, 16} PROVE Wide(w) \subseteq SUBSET Nat /\ {} \in Wide(w)
  BY DEF Wide

LEMMA ShlIs ==
  ASSUME NEW w \in {8, 16}, NEW a \in Wide(w)
  PROVE  /\ Sums!Shl(a, w) \in Wide(w)
         /\ \A i \in Nat : i \in Sums!Shl(a, w) <=> i - 1 \in a /\ i # w
  <1>1. a \in SUBSET Nat
    BY WideIs
  <1>2. Sums!Up(a, 1) \in SUBSET Nat /\ \A i \in Int : i \in Sums!Up(a, 1) <=> i - 1 \in a
    BY <1>1, UpIs
  <1>3. \A i \in Nat : i \in Sums!Shl(a, w) <=> i - 1 \in a /\ i # w
    BY <1>2 DEF Sums!Shl
  <1>4. Sums!Shl(a, w) \in SUBSET Nat
    BY <1>2 DEF Sums!Shl
  <1>5. ASSUME NEW i \in Sums!Shl(a, w) PROVE i \in 0..(w - 1)
    <2>1. i \in Nat /\ i - 1 \in 0..(w - 1) /\ i # w
      BY <1>3, <1>4 DEF Wide
    <2> QED BY <2>1
  <1>6. Sums!Shl(a, w) \in Wide(w)
    BY <1>5 DEF Wide
  <1> QED BY <1>3, <1>6

LEMMA BitIn ==
  ASSUME NEW w, NEW poly, Divides(w, poly), NEW a \in Wide(w)
  PROVE  Sums!Bit(a, w, poly) \in Wide(w)
  <1>1. w \in {8, 16} /\ poly \in SUBSET (0..(w - 1))
    BY DEF Divides
  <1>2. Sums!Shl(a, w) \in SUBSET (0..(w - 1))
    BY <1>1, ShlIs DEF Wide
  <1>3. Sums!Xor(Sums!Shl(a, w), poly) \in SUBSET (0..(w - 1))
    BY <1>1, <1>2, XorIn
  <1> QED BY <1>2, <1>3 DEF Sums!Bit, Wide

\* Eight bits are shifted out one by one.
EightSteps(a, w, poly, x) ==
  \E g \in [0..8 -> Wide(w)] :
    g[0] = a /\ x = g[8] /\ \A i \in 1..8 : g[i] = Sums!Bit(g[i - 1], w, poly)

LEMMA EightAre ==
  ASSUME NEW w, NEW poly, Divides(w, poly), NEW a \in Wide(w)
  PROVE  EightSteps(a, w, poly, Sums!EightBits(a, w, poly))
  <1> DEFINE V == Wide(w)
             h == [q \in (1..8) \X V |-> Sums!Bit(q[2], w, poly)]
  <1>1. h \in [(1..8) \X V -> V]
    <2> HIDE DEF V
    <2>1. \A b \in V : Sums!Bit(b, w, poly) \in V
      BY BitIn DEF V
    <2> QED BY <2>1
  <1>2. \A i \in 1..8, b \in V : h[<<i, b>>] = Sums!Bit(b, w, poly)
    <2> HIDE DEF V
    <2> QED OBVIOUS
  <1> HIDE DEF V, h
  <1>3. a \in V
    BY DEF V
  <1>4. PICK it \in [SUBSET (1..8) -> V] :
          \A s \in SUBSET (1..8) : it[s] = IF s = {} THEN a ELSE h[<<Max(s), it[s \ {Max(s)}]>>]
    <2>1. CanFold(8, V, a, h)
      BY <1>1, <1>3, FoldExists
    <2> QED BY <2>1 DEF CanFold
  <1> DEFINE Is(i) ==
        i = [s \in SUBSET (1..8) |->
               IF s = {} THEN a ELSE Sums!Bit(i[s \ {Sums!Max(s)}], w, poly)]
      c == CHOOSE i : Is(i)
  <1>m. \A s : Sums!Max(s) = Max(s)
    BY DEF Max, Sums!Max
  <1>5. Is(it)
    <2>1. ASSUME NEW s \in SUBSET (1..8), s # {}
          PROVE  h[<<Max(s), it[s \ {Max(s)}]>>] = Sums!Bit(it[s \ {Max(s)}], w, poly)
      <3>1. Max(s) \in 1..8 /\ s \ {Max(s)} \in SUBSET (1..8)
        BY <2>1, LastPlace
      <3> QED BY <1>2, <1>4, <3>1
    <2> QED BY <1>4, <1>m, <2>1
  <1>6. Is(c)
    <2> HIDE DEF Is
    <2> QED BY <1>5
  <1>7. Sums!EightBits(a, w, poly) = c[1..8]
    BY DEF Sums!EightBits, Sums!FoldLeft, Sums!MapThenFoldSet
  <1> HIDE DEF c
  <1>8. c[{}] = a
    BY <1>6
  <1>9. \A s \in SUBSET (1..8) : s # {} /\ c[s \ {Max(s)}] \in V => c[s] = h[<<Max(s), c[s \ {Max(s)}]>>]
    <2>1. ASSUME NEW s \in SUBSET (1..8), s # {}, c[s \ {Max(s)}] \in V
          PROVE  c[s] = h[<<Max(s), c[s \ {Max(s)}]>>]
      <3>1. Max(s) \in 1..8
        BY <2>1, LastPlace
      <3>2. c[s] = Sums!Bit(c[s \ {Max(s)}], w, poly)
        BY <1>6, <1>m, <2>1
      <3> QED BY <1>2, <2>1, <3>1, <3>2
    <2> QED BY <2>1
  <1>10. Stepped(8, V, a, h, c[1..8])
    BY <1>1, <1>3, <1>8, <1>9, FoldStepped
  <1>11. PICK g \in [0..8 -> V] : g[0] = a /\ c[1..8] = g[8] /\ \A i \in 1..8 : g[i] = h[<<i, g[i - 1]>>]
    BY <1>10 DEF Stepped
  <1>12. \A i \in 1..8 : g[i] = Sums!Bit(g[i - 1], w, poly)
    <2>1. \A i \in 1..8 : g[i - 1] \in V
      BY <1>11
    <2> QED BY <1>2, <1>11, <2>1
  <1> QED BY <1>7, <1>11, <1>12 DEF EightSteps, V

\* A checksum takes a byte after the other.
Fed(crc, byte, w, poly) == Sums!EightBits(Sums!Xor(crc, Sums!Up(byte, w - 8)), w, poly)

LEMMA FedIn ==
  ASSUME NEW w, NEW poly, Divides(w, poly), NEW crc \in Wide(w), NEW byte \in Octet
  PROVE  Sums!Xor(crc, Sums!Up(byte, w - 8)) \in Wide(w) /\ Fed(crc, byte, w, poly) \in Wide(w)
  <1>1. w \in {8, 16} /\ w - 8 \in Nat
    BY DEF Divides
  <1>2. byte \in SUBSET Nat
    BY DEF Octet
  <1>3. Sums!Up(byte, w - 8) \in SUBSET Nat /\ \A i \in Int : i \in Sums!Up(byte, w - 8) <=> i - (w - 8) \in byte
    BY <1>1, <1>2, UpIs
  <1>4. Sums!Up(byte, w - 8) \in SUBSET (0..(w - 1))
    <2>1. ASSUME NEW i \in Sums!Up(byte, w - 8) PROVE i \in 0..(w - 1)
      <3>1. i \in Nat
        BY <1>3, <2>1
      <3>2. i - (w - 8) \in byte
        BY <1>3, <2>1, <3>1
      <3>3. i - (w - 8) \in 0..7
        BY <3>2 DEF Octet
      <3> QED BY <1>1, <3>1, <3>3
    <2> QED BY <2>1
  <1>5. Sums!Xor(crc, Sums!Up(byte, w - 8)) \in Wide(w)
    <2>1. crc \in SUBSET (0..(w - 1))
      BY DEF Wide
    <2>2. Sums!Xor(crc, Sums!Up(byte, w - 8)) \in SUBSET (0..(w - 1))
      BY <1>4, <2>1 DEF Sums!Xor
    <2> QED BY <2>2 DEF Wide
  <1>6. \E g \in [0..8 -> Wide(w)] : Fed(crc, byte, w, poly) = g[8]
    <2>1. EightSteps(Sums!Xor(crc, Sums!Up(byte, w - 8)), w, poly, Fed(crc, byte, w, poly))
      BY <1>5, EightAre DEF Fed
    <2> QED BY <2>1 DEF EightSteps
  <1> QED BY <1>5, <1>6

SumSteps(m, w, poly, x) ==
  \E g \in [0..Len(m) -> Wide(w)] :
    g[0] = {} /\ x = g[Len(m)] /\ \A i \in 1..Len(m) : g[i] = Fed(g[i - 1], m[i], w, poly)

LEMMA SumIs ==
  ASSUME NEW w, NEW poly, Divides(w, poly), NEW m \in Seq(Octet)
  PROVE  SumSteps(m, w, poly, Sums!Sum(m, w, poly))
  <1> DEFINE V == Wide(w)
             h == [q \in (1..Len(m)) \X V |-> Fed(q[2], m[q[1]], w, poly)]
  <1>n. Len(m) \in Nat /\ DOMAIN m = 1..Len(m) /\ \A i \in 1..Len(m) : m[i] \in Octet
    BY LenProperties, ElementOfSeq
  <1>1. h \in [(1..Len(m)) \X V -> V]
    <2> HIDE DEF V
    <2>1. \A i \in 1..Len(m), b \in V : Fed(b, m[i], w, poly) \in V
    BY <1>n, FedIn DEF V
    <2> QED BY <2>1
  <1>2. \A i \in 1..Len(m), b \in V : h[<<i, b>>] = Fed(b, m[i], w, poly)
    <2> HIDE DEF V
    <2> QED OBVIOUS
  <1> HIDE DEF V, h
  <1>3. {} \in V
    BY WideIs DEF V, Divides
  <1>4. PICK it \in [SUBSET (1..Len(m)) -> V] :
          \A s \in SUBSET (1..Len(m)) : it[s] = IF s = {} THEN {} ELSE h[<<Max(s), it[s \ {Max(s)}]>>]
    <2>1. CanFold(Len(m), V, {}, h)
      BY <1>n, <1>1, <1>3, FoldExists
    <2> QED BY <2>1 DEF CanFold
  <1> DEFINE Is(i) ==
        i = [s \in SUBSET (1..Len(m)) |->
               IF s = {} THEN {} ELSE Fed(i[s \ {Sums!Max(s)}], m[Sums!Max(s)], w, poly)]
      c == CHOOSE i : Is(i)
  <1>m. \A s : Sums!Max(s) = Max(s)
    BY DEF Max, Sums!Max
  <1>5. Is(it)
    <2>1. ASSUME NEW s \in SUBSET (1..Len(m)), s # {}
          PROVE  h[<<Max(s), it[s \ {Max(s)}]>>] = Fed(it[s \ {Max(s)}], m[Max(s)], w, poly)
      <3>1. Max(s) \in 1..Len(m) /\ s \ {Max(s)} \in SUBSET (1..Len(m))
        BY <1>n, <2>1, LastPlace
      <3>2. it[s \ {Max(s)}] \in V
        BY <1>4, <3>1
      <3>3. h[<<Max(s), it[s \ {Max(s)}]>>] = Fed(it[s \ {Max(s)}], m[Max(s)], w, poly)
        BY <1>2, <3>1, <3>2
      <3> QED BY <3>1, <3>3
    <2> QED BY <1>4, <1>m, <2>1
  <1>6. Is(c)
    <2> HIDE DEF Is
    <2> QED BY <1>5
  <1>7. Sums!Sum(m, w, poly) = c[1..Len(m)]
    BY <1>n DEF Sums!Sum, Sums!FoldLeft, Sums!MapThenFoldSet, Fed
  <1> HIDE DEF c
  <1>8. c[{}] = {}
    BY <1>6
  <1>9. \A s \in SUBSET (1..Len(m)) : s # {} /\ c[s \ {Max(s)}] \in V => c[s] = h[<<Max(s), c[s \ {Max(s)}]>>]
    <2>1. ASSUME NEW s \in SUBSET (1..Len(m)), s # {}, c[s \ {Max(s)}] \in V
          PROVE  c[s] = h[<<Max(s), c[s \ {Max(s)}]>>]
      <3>1. Max(s) \in 1..Len(m)
        BY <1>n, <2>1, LastPlace
      <3>2. c[s] = Fed(c[s \ {Max(s)}], m[Max(s)], w, poly)
        BY <1>6, <1>m, <2>1
      <3>3. h[<<Max(s), c[s \ {Max(s)}]>>] = Fed(c[s \ {Max(s)}], m[Max(s)], w, poly)
        BY <1>2, <2>1, <3>1
      <3> QED BY <3>1, <3>2, <3>3
    <2> QED BY <2>1
  <1>10. Stepped(Len(m), V, {}, h, c[1..Len(m)])
    BY <1>n, <1>1, <1>3, <1>8, <1>9, FoldStepped
  <1>11. PICK g \in [0..Len(m) -> V] : g[0] = {} /\ c[1..Len(m)] = g[Len(m)] /\ \A i \in 1..Len(m) : g[i] = h[<<i, g[i - 1]>>]
    BY <1>10 DEF Stepped
  <1>12. \A i \in 1..Len(m) : g[i] = Fed(g[i - 1], m[i], w, poly)
    <2>1. \A i \in 1..Len(m) : g[i - 1] \in V
      BY <1>n, <1>11
    <2> QED BY <1>2, <1>11, <2>1
  <1> QED BY <1>7, <1>11, <1>12 DEF SumSteps, V

\* The long division, from the highest power down.
Less(r, k, w, poly) ==
  IF k \in r THEN Sums!Xor(r, Sums!Up(poly \cup {w}, k - w)) ELSE r

LEMMA LessIn ==
  ASSUME NEW w, NEW poly, Divides(w, poly), NEW r \in SUBSET Nat, NEW k \in Nat, k >= w
  PROVE  Less(r, k, w, poly) \in SUBSET Nat
  <1>1. w \in Nat /\ poly \in SUBSET Nat
    BY DEF Divides
  <1>2. k - w \in Nat /\ poly \cup {w} \in SUBSET Nat
    BY <1>1
  <1>3. Sums!Up(poly \cup {w}, k - w) \in SUBSET Nat
    BY <1>2, UpIs
  <1>4. Sums!Xor(r, Sums!Up(poly \cup {w}, k - w)) \in SUBSET Nat
    BY <1>3 DEF Sums!Xor
  <1> QED BY <1>4 DEF Less

DivisionSteps(a, n, w, poly, x) ==
  \E g \in [0..n -> SUBSET Nat] :
    g[0] = a /\ x = g[n] /\ \A i \in 1..n : g[i] = Less(g[i - 1], (n + w) - i, w, poly)

LEMMA DivisionIs ==
  ASSUME NEW w, NEW poly, Divides(w, poly), NEW a \in SUBSET Nat, NEW n \in Nat
  PROVE  DivisionSteps(a, n, w, poly, Sums!Remainder(a, n, w, poly))
  <1> DEFINE V == SUBSET Nat
             h == [q \in (1..n) \X V |-> Less(q[2], (n + w) - q[1], w, poly)]
  <1>n. n \in Nat
    OBVIOUS
  <1>1. h \in [(1..n) \X V -> V]
    <2> HIDE DEF V
    <2>1. \A i \in 1..n, b \in V : Less(b, (n + w) - i, w, poly) \in V
      <3>1. \A i \in 1..n : (n + w) - i \in Nat /\ (n + w) - i >= w
        BY DEF Divides
      <3> QED BY <3>1, LessIn DEF V
    <2> QED BY <2>1
  <1>2. \A i \in 1..n, b \in V : h[<<i, b>>] = Less(b, (n + w) - i, w, poly)
    <2> HIDE DEF V
    <2> QED OBVIOUS
  <1> HIDE DEF V, h
  <1>3. a \in V
    BY DEF V
  <1>4. PICK it \in [SUBSET (1..n) -> V] :
          \A s \in SUBSET (1..n) : it[s] = IF s = {} THEN a ELSE h[<<Max(s), it[s \ {Max(s)}]>>]
    <2>1. CanFold(n, V, a, h)
      BY <1>n, <1>1, <1>3, FoldExists
    <2> QED BY <2>1 DEF CanFold
  <1> DEFINE Is(i) ==
        i = [s \in SUBSET (1..n) |->
               IF s = {} THEN a ELSE Less(i[s \ {Sums!Max(s)}], [j \in 1..n |-> (n + w) - j][Sums!Max(s)], w, poly)]
      c == CHOOSE i : Is(i)
  <1>m. \A s : Sums!Max(s) = Max(s)
    BY DEF Max, Sums!Max
  <1>5. Is(it)
    <2>1. ASSUME NEW s \in SUBSET (1..n), s # {}
          PROVE  h[<<Max(s), it[s \ {Max(s)}]>>] = Less(it[s \ {Max(s)}], [j \in 1..n |-> (n + w) - j][Max(s)], w, poly)
      <3>1. Max(s) \in 1..n /\ s \ {Max(s)} \in SUBSET (1..n)
        BY <1>n, <2>1, LastPlace
      <3>2. it[s \ {Max(s)}] \in V
        BY <1>4, <3>1
      <3>3. h[<<Max(s), it[s \ {Max(s)}]>>] = Less(it[s \ {Max(s)}], (n + w) - Max(s), w, poly)
        BY <1>2, <3>1, <3>2
      <3> QED BY <3>1, <3>3
    <2> QED BY <1>4, <1>m, <2>1
  <1>6. Is(c)
    <2> HIDE DEF Is
    <2> QED BY <1>5
  <1>7. Sums!Remainder(a, n, w, poly) = c[1..n]
    BY <1>n DEF Sums!Remainder, Sums!FoldLeft, Sums!MapThenFoldSet, Less
  <1> HIDE DEF c
  <1>8. c[{}] = a
    BY <1>6
  <1>9. \A s \in SUBSET (1..n) : s # {} /\ c[s \ {Max(s)}] \in V => c[s] = h[<<Max(s), c[s \ {Max(s)}]>>]
    <2>1. ASSUME NEW s \in SUBSET (1..n), s # {}, c[s \ {Max(s)}] \in V
          PROVE  c[s] = h[<<Max(s), c[s \ {Max(s)}]>>]
      <3>1. Max(s) \in 1..n
        BY <1>n, <2>1, LastPlace
      <3>2. c[s] = Less(c[s \ {Max(s)}], [j \in 1..n |-> (n + w) - j][Max(s)], w, poly)
        BY <1>6, <1>m, <2>1
      <3>3. h[<<Max(s), c[s \ {Max(s)}]>>] = Less(c[s \ {Max(s)}], (n + w) - Max(s), w, poly)
        BY <1>2, <2>1, <3>1
      <3> QED BY <3>1, <3>2, <3>3
    <2> QED BY <2>1
  <1>10. Stepped(n, V, a, h, c[1..n])
    BY <1>n, <1>1, <1>3, <1>8, <1>9, FoldStepped
  <1>11. PICK g \in [0..n -> V] : g[0] = a /\ c[1..n] = g[n] /\ \A i \in 1..n : g[i] = h[<<i, g[i - 1]>>]
    BY <1>10 DEF Stepped
  <1>12. \A i \in 1..n : g[i] = Less(g[i - 1], (n + w) - i, w, poly)
    <2>1. \A i \in 1..n : g[i - 1] \in V
      BY <1>n, <1>11
    <2> QED BY <1>2, <1>11, <2>1
  <1> QED BY <1>7, <1>11, <1>12 DEF DivisionSteps, V

\* What a long division does to a power that is the highest of what is left: it
\* takes the next bit of the checksum.
LEMMA LessIsBit ==
  ASSUME NEW w, NEW poly, Divides(w, poly), NEW c \in Wide(w), NEW o \in Nat,
         NEW r \in SUBSET Nat, \A i \in r : i < w + o
  PROVE  Less(Sums!Xor(Sums!Up(c, o + 1), r), w + o, w, poly) =
           Sums!Xor(Sums!Up(Sums!Bit(c, w, poly), o), r)
  <1>1. /\ w \in {8, 16} /\ w \in Nat /\ poly \in SUBSET Nat /\ c \in SUBSET Nat
        /\ \A j \in poly \cup c : j < w
    BY DEF Divides, Wide
  <1> DEFINE b == Sums!Bit(c, w, poly)
             z == Sums!Shl(c, w)
             d == Sums!Up(poly \cup {w}, o)
             x == Sums!Xor(Sums!Up(c, o + 1), r)
             y == Sums!Xor(Sums!Up(b, o), r)
  <1>2. z \in SUBSET Nat /\ \A j \in Nat : j \in z <=> j - 1 \in c /\ j # w
    BY <1>1, ShlIs, WideIs
  <1>3. b \in SUBSET Nat
    BY <1>1, BitIn, WideIs
  <1>4. d \in SUBSET Nat /\ \A i \in Int : i \in d <=> i - o \in poly \/ i - o = w
    <2>1. poly \cup {w} \in SUBSET Nat
      BY <1>1
    <2>2. \A i \in Int : i - o \in poly \cup {w} <=> i - o \in poly \/ i - o = w
      OBVIOUS
    <2> QED BY <2>1, <2>2, UpIs
  <1>5. Sums!Up(c, o + 1) \in SUBSET Nat /\ \A i \in Int : i \in Sums!Up(c, o + 1) <=> i - (o + 1) \in c
    <2>1. o + 1 \in Nat
      OBVIOUS
    <2> QED BY <1>1, <2>1, UpIs
  <1>6. Sums!Up(b, o) \in SUBSET Nat /\ \A i \in Int : i \in Sums!Up(b, o) <=> i - o \in b
    <2> HIDE DEF b
    <2> QED BY <1>3, UpIs
  <1>7. x \in SUBSET Nat /\ \A i \in Nat : i \in x <=> ~(i - (o + 1) \in c <=> i \in r)
    <2>1. x \in SUBSET Nat
      BY <1>5 DEF Sums!Xor
    <2>2. ASSUME NEW i \in Nat PROVE i \in x <=> ~(i - (o + 1) \in c <=> i \in r)
      <3>1. i \in x <=> ~(i \in Sums!Up(c, o + 1) <=> i \in r)
        BY XorIs
      <3> HIDE DEF x
      <3> QED BY <3>1, <1>5
    <2> QED BY <2>1, <2>2
  <1>8. y \in SUBSET Nat /\ \A i \in Nat : i \in y <=> ~(i - o \in b <=> i \in r)
    <2>1. y \in SUBSET Nat
      BY <1>6 DEF Sums!Xor
    <2>2. ASSUME NEW i \in Nat PROVE i \in y <=> ~(i - o \in b <=> i \in r)
      <3>1. i \in y <=> ~(i \in Sums!Up(b, o) <=> i \in r)
        BY XorIs
      <3> HIDE DEF y, b
      <3> QED BY <3>1, <1>6
    <2> QED BY <2>1, <2>2
  <1>9. w + o \in x <=> w - 1 \in c
    <2>1. w + o \in Nat /\ (w + o) - (o + 1) = w - 1 /\ w + o \notin r
      BY <1>1
    <2> HIDE DEF x
    <2> QED BY <1>7, <2>1
  <1>10. (w + o) - w = o
    BY <1>1
  <1>11. \A i \in Nat : i - o \in z <=> i - (o + 1) \in c /\ i - o # w
    <2>1. ASSUME NEW i \in Nat PROVE i - o \in z <=> i - (o + 1) \in c /\ i - o # w
      <3>1. (i - o) - 1 = i - (o + 1) /\ i - o \in Int
        OBVIOUS
      <3>2. CASE i - o \in Nat
        BY <1>2, <3>1, <3>2
      <3>3. CASE i - o \notin Nat
        <4>1. i - o \notin z
          BY <1>2, <3>3
        <4>2. i - (o + 1) \notin Nat
          BY <3>3
        <4> QED BY <1>1, <4>1, <4>2
      <3> QED BY <3>2, <3>3
    <2> QED BY <2>1
  <1>12. CASE w - 1 \in c
    <2>1. Less(x, w + o, w, poly) = Sums!Xor(x, d)
      <3> HIDE DEF x
      <3> QED BY <1>9, <1>10, <1>12 DEF Less
    <2>2. b = Sums!Xor(z, poly)
      BY <1>12 DEF Sums!Bit
    <2> HIDE DEF x, d, b, z, y
    <2>3. Sums!Xor(x, d) \in SUBSET Nat
      BY <1>4, <1>7 DEF Sums!Xor
    <2>4. ASSUME NEW i \in Nat PROVE i \in Sums!Xor(x, d) <=> i \in y
      <3>1. i \in Sums!Xor(x, d) <=> ~(i \in x <=> i \in d)
        BY XorIs
      <3>2. i - o \in b <=> ~(i - o \in z <=> i - o \in poly)
        BY <2>2, XorIs
      <3>3. i - o = w => i - o \notin poly /\ i - (o + 1) = w - 1
        BY <1>1
      <3>4. i \in d <=> i - o \in poly \/ i - o = w
        BY <1>4
      <3> QED BY <1>7, <1>8, <1>11, <1>12, <3>1, <3>2, <3>3, <3>4
    <2>5. Sums!Xor(x, d) = y
      BY <1>8, <2>3, <2>4, SameBits
    <2> QED BY <2>1, <2>5 DEF x, y, b
  <1>13. CASE w - 1 \notin c
    <2>1. Less(x, w + o, w, poly) = x
      <3> HIDE DEF x
      <3> QED BY <1>9, <1>13 DEF Less
    <2>2. b = z
      BY <1>13 DEF Sums!Bit
    <2> HIDE DEF x, d, b, z, y
    <2>4. ASSUME NEW i \in Nat PROVE i \in x <=> i \in y
      <3>3. i - o = w => i - (o + 1) = w - 1
        BY <1>1
      <3> QED BY <1>7, <1>8, <1>11, <1>13, <2>2, <3>3
    <2>5. x = y
      BY <1>7, <1>8, <2>4, SameBits
    <2> QED BY <2>1, <2>5 DEF x, y, b
  <1> QED BY <1>12, <1>13

\* What a long division leaves, step by step.
Dividing(g, n, w, poly) ==
  /\ g \in [0..n -> SUBSET Nat]
  /\ \A i \in 1..n : g[i] = Less(g[i - 1], (n + w) - i, w, poly)

\* Eight powers of it are what a byte's eight bits are.
LEMMA LessIsEightBits ==
  ASSUME NEW w, NEW poly, Divides(w, poly), NEW c \in Wide(w), NEW o \in Nat, NEW before \in Nat,
         NEW r \in SUBSET Nat, \A i \in r : i < w + o,
         NEW n \in Nat, n = before + (o + 8), NEW g, Dividing(g, n, w, poly),
         g[before] = Sums!Xor(Sums!Up(c, o + 8), r)
  PROVE  g[before + 8] = Sums!Xor(Sums!Up(Sums!EightBits(c, w, poly), o), r)
  <1>1. PICK e \in [0..8 -> Wide(w)] :
          /\ e[0] = c /\ Sums!EightBits(c, w, poly) = e[8]
          /\ \A i \in 1..8 : e[i] = Sums!Bit(e[i - 1], w, poly)
    BY EightAre DEF EightSteps
  <1>w. w \in Nat
    BY DEF Divides
  <1>g. \A i \in 1..n : g[i] = Less(g[i - 1], (n + w) - i, w, poly)
    BY DEF Dividing
  <1> DEFINE T == {t \in Nat : t <= 8 => g[before + t] = Sums!Xor(Sums!Up(e[t], (o + 8) - t), r)}
  <1>2. 0 \in T
    <2>1. before + 0 = before /\ (o + 8) - 0 = o + 8
      OBVIOUS
    <2> QED BY <1>1, <2>1
  <1>3. ASSUME NEW t \in Nat, t \in T PROVE t + 1 \in T
    <2>1. SUFFICES ASSUME t + 1 <= 8
                   PROVE  g[before + (t + 1)] = Sums!Xor(Sums!Up(e[t + 1], (o + 8) - (t + 1)), r)
      OBVIOUS
    <2> DEFINE u == (o + 8) - (t + 1)
               k == before + (t + 1)
    <2>2. /\ t <= 8 /\ t \in 0..8 /\ t + 1 \in 1..8 /\ (t + 1) - 1 = t
          /\ u \in Nat /\ (o + 8) - t = u + 1 /\ o <= u
          /\ k \in 1..n /\ k - 1 = before + t /\ (n + w) - k = w + u
      <3>1. t <= 8 /\ t \in 0..8 /\ t + 1 \in 1..8 /\ (t + 1) - 1 = t
        BY <2>1
      <3>2. u \in Nat /\ (o + 8) - t = u + 1 /\ o <= u
        BY <2>1
      <3>3. k \in 1..n /\ k - 1 = before + t
        BY <2>1
      <3>4. (n + w) - k = w + u
        BY <1>w
      <3> HIDE DEF u, k
      <3> QED BY <3>1, <3>2, <3>3, <3>4
    <2> HIDE DEF u, k
    <2>3. g[before + t] = Sums!Xor(Sums!Up(e[t], u + 1), r)
      BY <1>3, <2>2
    <2>4. e[t] \in Wide(w) /\ e[t + 1] = Sums!Bit(e[t], w, poly)
      BY <1>1, <2>2
    <2>5. \A i \in r : i < w + u
      BY <2>2, <1>w
    <2>6. Less(Sums!Xor(Sums!Up(e[t], u + 1), r), w + u, w, poly) =
            Sums!Xor(Sums!Up(Sums!Bit(e[t], w, poly), u), r)
      <3> DEFINE q == e[t]
      <3>1. q \in Wide(w) /\ u \in Nat
        BY <2>2, <2>4
      <3> HIDE DEF q
      <3>2. Less(Sums!Xor(Sums!Up(q, u + 1), r), w + u, w, poly) =
              Sums!Xor(Sums!Up(Sums!Bit(q, w, poly), u), r)
        BY <2>5, <3>1, LessIsBit
      <3> QED BY <3>2 DEF q
    <2>7. g[k] = Less(g[before + t], w + u, w, poly)
      BY <1>g, <2>2
    <2>8. g[k] = Sums!Xor(Sums!Up(e[t + 1], u), r)
      BY <2>3, <2>4, <2>6, <2>7
    <2> QED BY <2>8 DEF u, k
  <1> HIDE DEF T
  <1>4. 8 \in T
    BY <1>2, <1>3, EveryNumber
  <1>5. (o + 8) - 8 = o
    OBVIOUS
  <1> QED BY <1>1, <1>4, <1>5 DEF T

\* The bits of a message: those of a byte are between those of the ones behind it
\* and those of the ones before.
LEMMA MessageBits ==
  ASSUME NEW m \in Seq(Octet)
  PROVE  /\ Sums!Polynomial(m) \in SUBSET Nat
         /\ \A j \in Sums!Polynomial(m) : j < 8 * Len(m)
         /\ \A k \in 1..Len(m), t \in 0..7 :
              8 * (Len(m) - k) + t \in Sums!Polynomial(m) <=> t \in m[k]
  <1> DEFINE n == Len(m)
             bits == Sums!Polynomial(m)
  <1>1. n \in Nat /\ DOMAIN m = 1..n /\ \A i \in 1..n : m[i] \in Octet
    BY LenProperties, ElementOfSeq
  <1> HIDE DEF n
  <1>2. bits = UNION {Sums!Up(m[i], 8 * (n - i)) : i \in 1..n}
    BY <1>1 DEF Sums!Polynomial, n
  <1> HIDE DEF bits
  <1>3. ASSUME NEW i \in 1..n
        PROVE  /\ Sums!Up(m[i], 8 * (n - i)) \in SUBSET Nat
               /\ \A j \in Int : j \in Sums!Up(m[i], 8 * (n - i)) <=> j - 8 * (n - i) \in m[i]
    <2>1. 8 * (n - i) \in Nat
      BY <1>1
    <2>2. m[i] \in SUBSET Nat
      BY <1>1 DEF Octet
    <2> QED BY <2>1, <2>2, UpIs
  <1>4. bits \in SUBSET Nat /\ \A j \in Nat : j \in bits <=> \E i \in 1..n : j - 8 * (n - i) \in m[i]
    BY <1>2, <1>3
  <1>5. ASSUME NEW j \in bits PROVE j < 8 * n
    <2>1. PICK i \in 1..n : j - 8 * (n - i) \in m[i]
      BY <1>4
    <2>2. j - 8 * (n - i) \in 0..7
      BY <1>1, <2>1 DEF Octet
    <2>3. i \in Nat /\ i >= 1 /\ j \in Nat
      BY <1>1, <1>4
    <2> QED BY <1>1, <2>2, <2>3
  <1>6. ASSUME NEW k \in 1..n, NEW t \in 0..7 PROVE 8 * (n - k) + t \in bits <=> t \in m[k]
    <2> DEFINE j == 8 * (n - k) + t
    <2>1. j \in Nat /\ j - 8 * (n - k) = t
      BY <1>1
    <2>2. ASSUME NEW i \in 1..n, j - 8 * (n - i) \in m[i] PROVE i = k
      <3>1. j - 8 * (n - i) \in 0..7
        BY <1>1, <2>2 DEF Octet
      <3>2. i \in Nat /\ k \in Nat
        BY <1>1
      <3> QED BY <1>1, <3>1, <3>2
    <2> HIDE DEF j
    <2>3. j \in bits <=> t \in m[k]
      BY <1>4, <2>1, <2>2
    <2> QED BY <2>3 DEF j
  <1> QED BY <1>4, <1>5, <1>6 DEF n, bits

\* The bits that are below a power.
Below(a, k) == {j \in a : j < k}

\* A byte that a checksum takes is one that the message loses.
LEMMA ByteIn ==
  ASSUME NEW w, NEW poly, Divides(w, poly), NEW c \in Wide(w), NEW m \in Seq(Octet),
         NEW k \in 1..Len(m), NEW o, o = 8 * (Len(m) - k)
  PROVE  Sums!Xor(Sums!Up(c, o + 8), Sums!Up(Below(Sums!Polynomial(m), o + 8), w)) =
           Sums!Xor(Sums!Up(Sums!Xor(c, Sums!Up(m[k], w - 8)), o + 8),
                    Sums!Up(Below(Sums!Polynomial(m), o), w))
  <1>1. o \in Nat /\ o + 8 \in Nat /\ w \in Nat /\ w \in {8, 16} /\ w - 8 \in Nat
    BY LenProperties DEF Divides
  <1> DEFINE bits == Sums!Polynomial(m)
             d == Sums!Up(m[k], w - 8)
             e == Sums!Xor(c, d)
             x == Sums!Xor(Sums!Up(c, o + 8), Sums!Up(Below(bits, o + 8), w))
             y == Sums!Xor(Sums!Up(e, o + 8), Sums!Up(Below(bits, o), w))
  <1>2. bits \in SUBSET Nat /\ \A t \in 0..7 : o + t \in bits <=> t \in m[k]
    BY MessageBits
  <1>3. m[k] \in SUBSET Nat /\ \A t \in m[k] : t \in 0..7
    BY ElementOfSeq DEF Octet
  <1>4. c \in SUBSET Nat
    BY <1>1, WideIs
  <1> HIDE DEF bits
  <1>5. Below(bits, o) \in SUBSET Nat /\ Below(bits, o + 8) \in SUBSET Nat
    BY <1>2 DEF Below
  <1>6. d \in SUBSET Nat /\ \A i \in Int : i \in d <=> i - (w - 8) \in m[k]
    BY <1>1, <1>3, UpIs
  <1> HIDE DEF d
  <1>7. e \in SUBSET Nat /\ \A i : i \in e <=> ~(i \in c <=> i \in d)
    <2>1. e \in SUBSET Nat
      BY <1>4, <1>6 DEF Sums!Xor
    <2> QED BY <2>1, XorIs
  <1> HIDE DEF e
  <1>8. /\ \A i \in Int : i \in Sums!Up(c, o + 8) <=> i - (o + 8) \in c
        /\ \A i \in Int : i \in Sums!Up(e, o + 8) <=> i - (o + 8) \in e
        /\ Sums!Up(c, o + 8) \in SUBSET Nat /\ Sums!Up(e, o + 8) \in SUBSET Nat
    <2>1. /\ \A i \in Int : i \in Sums!Up(c, o + 8) <=> i - (o + 8) \in c
          /\ Sums!Up(c, o + 8) \in SUBSET Nat
      <3> DEFINE q == o + 8
      <3>1. q \in Nat
        BY <1>1
      <3> HIDE DEF q
      <3>2. /\ \A i \in Int : i \in Sums!Up(c, q) <=> i - q \in c
            /\ Sums!Up(c, q) \in SUBSET Nat
        BY <1>4, <3>1, UpIs
      <3> QED BY <3>2 DEF q
    <2>2. /\ \A i \in Int : i \in Sums!Up(e, o + 8) <=> i - (o + 8) \in e
          /\ Sums!Up(e, o + 8) \in SUBSET Nat
      <3> DEFINE q == o + 8
      <3>1. q \in Nat
        BY <1>1
      <3> HIDE DEF q
      <3>2. /\ \A i \in Int : i \in Sums!Up(e, q) <=> i - q \in e
            /\ Sums!Up(e, q) \in SUBSET Nat
        BY <1>7, <3>1, UpIs
      <3> QED BY <3>2 DEF q
    <2> QED BY <2>1, <2>2
  <1>9. /\ \A i \in Int : i \in Sums!Up(Below(bits, o), w) <=> i - w \in Below(bits, o)
        /\ \A i \in Int : i \in Sums!Up(Below(bits, o + 8), w) <=> i - w \in Below(bits, o + 8)
        /\ Sums!Up(Below(bits, o), w) \in SUBSET Nat /\ Sums!Up(Below(bits, o + 8), w) \in SUBSET Nat
    <2>1. ASSUME NEW b, b \in SUBSET Nat
          PROVE  (\A i \in Int : i \in Sums!Up(b, w) <=> i - w \in b) /\ Sums!Up(b, w) \in SUBSET Nat
      BY <1>1, <2>1, UpIs
    <2>2. /\ \A i \in Int : i \in Sums!Up(Below(bits, o), w) <=> i - w \in Below(bits, o)
          /\ Sums!Up(Below(bits, o), w) \in SUBSET Nat
      BY <1>5, <2>1
    <2>3. /\ \A i \in Int : i \in Sums!Up(Below(bits, o + 8), w) <=> i - w \in Below(bits, o + 8)
          /\ Sums!Up(Below(bits, o + 8), w) \in SUBSET Nat
      BY <1>5, <2>1
    <2> QED BY <2>2, <2>3
  <1>10. /\ x \in SUBSET Nat /\ y \in SUBSET Nat
    BY <1>8, <1>9 DEF Sums!Xor
  <1>11. /\ \A i : i \in x <=> ~(i \in Sums!Up(c, o + 8) <=> i \in Sums!Up(Below(bits, o + 8), w))
         /\ \A i : i \in y <=> ~(i \in Sums!Up(e, o + 8) <=> i \in Sums!Up(Below(bits, o), w))
    BY XorIs
  <1> HIDE DEF x, y
  <1>12. ASSUME NEW i \in Nat PROVE i \in x <=> i \in y
    <2>0. i \in Int /\ i - (o + 8) \in Int /\ i - w \in Int /\ i - (o + 8) - (w - 8) = (i - w) - o
      BY <1>1
    <2>1. i \in x <=> ~(i - (o + 8) \in c <=> i - w \in Below(bits, o + 8))
      BY <1>8, <1>9, <1>11, <2>0
    <2>2. i \in y <=> ~(i - (o + 8) \in e <=> i - w \in Below(bits, o))
      BY <1>8, <1>9, <1>11, <2>0
    <2>3. i - (o + 8) \in e <=> ~(i - (o + 8) \in c <=> (i - w) - o \in m[k])
      BY <1>6, <1>7, <2>0
    <2>4. i - w \in Below(bits, o + 8) <=> ~((i - w) - o \in m[k] <=> i - w \in Below(bits, o))
      <3> DEFINE j == i - w
      <3>1. j \in Int
        BY <1>1
      <3> HIDE DEF j
      <3>b. /\ j \in Below(bits, o) <=> j \in bits /\ j < o
            /\ j \in Below(bits, o + 8) <=> j \in bits /\ j < o + 8
        BY DEF Below
      <3>2. ASSUME j - o \in 0..7 PROVE j \in Below(bits, o + 8) <=> ~(j - o \in m[k] <=> j \in Below(bits, o))
        <4>1. o + (j - o) = j /\ j < o + 8 /\ ~(j < o)
          BY <1>1, <3>1, <3>2
        <4>2. j \in bits <=> j - o \in m[k]
          BY <1>2, <3>2, <4>1
        <4> QED BY <3>b, <4>1, <4>2
      <3>3. ASSUME ~(j - o \in 0..7) PROVE j \in Below(bits, o + 8) <=> ~(j - o \in m[k] <=> j \in Below(bits, o))
        <4>1. j - o \notin m[k]
          BY <1>3, <3>3
        <4>2. j < o <=> j < o + 8
          BY <1>1, <3>1, <3>3
        <4> QED BY <3>b, <4>1, <4>2
      <3>4. j \in Below(bits, o + 8) <=> ~(j - o \in m[k] <=> j \in Below(bits, o))
        BY <3>2, <3>3
      <3> QED BY <3>4 DEF j
    <2> QED BY <2>1, <2>2, <2>3, <2>4
  <1>13. x = y
    BY <1>10, <1>12, SameBits
  <1> QED BY <1>13 DEF x, y, e, d, bits

\* So the sum of a message is what its division leaves.
LEMMA SumIsRemainder ==
  ASSUME NEW w, NEW poly, Divides(w, poly), NEW m \in Seq(Octet)
  PROVE  Sums!Sum(m, w, poly) = Sums!Remainder(Sums!Up(Sums!Polynomial(m), w), 8 * Len(m), w, poly)
  <1> DEFINE l == Len(m)
             n == 8 * l
             bits == Sums!Polynomial(m)
  <1>1. l \in Nat /\ n \in Nat /\ w \in Nat /\ w \in {8, 16} /\ \A i \in 1..l : m[i] \in Octet
    BY LenProperties, ElementOfSeq DEF Divides
  <1>2. bits \in SUBSET Nat /\ \A j \in bits : j < n
    BY MessageBits
  <1>3. Sums!Up(bits, w) \in SUBSET Nat
    <2> HIDE DEF bits
    <2> QED BY <1>1, <1>2, UpIs
  <1>4. PICK s \in [0..l -> Wide(w)] :
          /\ s[0] = {} /\ Sums!Sum(m, w, poly) = s[l]
          /\ \A i \in 1..l : s[i] = Fed(s[i - 1], m[i], w, poly)
    BY SumIs DEF SumSteps
  <1> HIDE DEF n, bits
  <1>5. PICK g \in [0..n -> SUBSET Nat] :
          /\ g[0] = Sums!Up(bits, w) /\ Sums!Remainder(Sums!Up(bits, w), n, w, poly) = g[n]
          /\ \A i \in 1..n : g[i] = Less(g[i - 1], (n + w) - i, w, poly)
    <2> DEFINE a == Sums!Up(bits, w)
    <2> HIDE DEF a
    <2>1. a \in SUBSET Nat
      BY <1>3 DEF a
    <2>2. DivisionSteps(a, n, w, poly, Sums!Remainder(a, n, w, poly))
      BY <1>1, <2>1, DivisionIs
    <2> QED BY <2>2 DEF DivisionSteps, a
  <1> HIDE DEF l
  <1>e. n = 8 * l
    BY DEF n, l
  <1> DEFINE Is(k) == g[8 * k] = Sums!Xor(Sums!Up(s[k], 8 * (l - k)), Sums!Up(Below(bits, 8 * (l - k)), w))
             T == {k \in Nat : k <= l => Is(k)}
  <1>6. 0 \in T
    <2>1. 8 * 0 = 0 /\ 8 * (l - 0) = n
      BY <1>1, <1>e
    <2>2. Below(bits, n) = bits
      BY <1>2 DEF Below
    <2>3. Sums!Up({}, n) = {}
      BY DEF Sums!Up
    <2>4. Sums!Xor({}, Sums!Up(bits, w)) = Sums!Up(bits, w)
      BY DEF Sums!Xor
    <2> QED BY <1>4, <1>5, <2>1, <2>2, <2>3, <2>4
  <1>7. ASSUME NEW k \in Nat, k \in T PROVE k + 1 \in T
    <2>1. SUFFICES ASSUME k + 1 <= l PROVE Is(k + 1)
      OBVIOUS
    <2> DEFINE o == 8 * (l - (k + 1))
               before == 8 * k
               c == Sums!Xor(s[k], Sums!Up(m[k + 1], w - 8))
               r == Sums!Up(Below(bits, o), w)
    <2>2. /\ k + 1 \in 1..l /\ (k + 1) - 1 = k /\ k \in 0..l
          /\ o \in Nat /\ before \in Nat /\ n = before + (o + 8)
          /\ 8 * (l - k) = o + 8 /\ 8 * (k + 1) = before + 8
      BY <1>1, <1>e, <2>1
    <2>3. g[before] = Sums!Xor(Sums!Up(s[k], o + 8), Sums!Up(Below(bits, o + 8), w))
      BY <1>7, <2>1, <2>2, <1>1
    <2>4. s[k] \in Wide(w) /\ m[k + 1] \in Octet
      BY <1>1, <1>4, <2>2
    <2>5. c \in Wide(w) /\ s[k + 1] = Sums!EightBits(c, w, poly)
      <3>1. s[k + 1] = Fed(s[k], m[k + 1], w, poly)
        BY <1>4, <2>2
      <3> QED BY <2>4, <3>1, FedIn DEF Fed
    <2>6. r \in SUBSET Nat /\ \A i \in r : i < w + o
      <3> HIDE DEF o
      <3>1. Below(bits, o) \in SUBSET Nat /\ \A j \in Below(bits, o) : j < o
        BY <1>2 DEF Below
      <3>2. r \in SUBSET Nat /\ \A i \in Int : i \in r <=> i - w \in Below(bits, o)
        BY <1>1, <3>1, UpIs
      <3> HIDE DEF r
      <3>3. ASSUME NEW i \in r PROVE i < w + o
        <4>1. i \in Nat /\ i - w \in Below(bits, o)
          BY <3>2
        <4>2. i - w < o
          BY <3>1, <4>1
        <4> QED BY <1>1, <2>2, <4>1, <4>2
      <3> QED BY <3>2, <3>3
    <2>7. g[before] = Sums!Xor(Sums!Up(c, o + 8), r)
      <3> HIDE DEF before
      <3>1. k + 1 \in 1..Len(m) /\ o = 8 * (Len(m) - (k + 1))
        BY <2>2 DEF l
      <3> HIDE DEF o
      <3>2. Sums!Xor(Sums!Up(s[k], o + 8), Sums!Up(Below(bits, o + 8), w)) = Sums!Xor(Sums!Up(c, o + 8), r)
        BY <2>4, <3>1, ByteIn DEF bits
      <3> QED BY <2>3, <3>2
    <2> HIDE DEF o, before, c, r
    <2>8. g[before + 8] = Sums!Xor(Sums!Up(Sums!EightBits(c, w, poly), o), r)
      <3>1. n \in Nat
        BY <1>1
      <3>2. Dividing(g, n, w, poly)
        BY <1>5 DEF Dividing
      <3>3. o \in Nat /\ before \in Nat /\ n = before + (o + 8)
        BY <2>2
      <3>4. c \in Wide(w)
        BY <2>5
      <3> QED BY <2>6, <2>7, <3>1, <3>2, <3>3, <3>4, LessIsEightBits
    <2>9. g[before + 8] = Sums!Xor(Sums!Up(s[k + 1], o), r)
      BY <2>5, <2>8
    <2> QED BY <2>2, <2>9 DEF o, r
  <1> HIDE DEF T
  <1>8. l \in T
    BY <1>1, <1>6, <1>7, EveryNumber
  <1>9. Is(l)
    BY <1>1, <1>8 DEF T
  <1>10. s[l] = g[n]
    <2>1. 8 * (l - l) = 0
      BY <1>1
    <2>2. Below(bits, 0) = {}
      <3>1. \A j \in bits : ~(j < 0)
        BY <1>2
      <3> QED BY <3>1 DEF Below
    <2>3. Sums!Up({}, w) = {}
      BY DEF Sums!Up
    <2>4. s[l] \in SUBSET Nat
      BY <1>1, <1>4, WideIs
    <2>5. Sums!Up(s[l], 0) = s[l]
      <3> DEFINE q == s[l]
      <3> HIDE DEF q
      <3>1. q \in SUBSET Nat
        BY <2>4 DEF q
      <3>2. Sums!Up(q, 0) \in SUBSET Nat /\ \A i \in Int : i \in Sums!Up(q, 0) <=> i - 0 \in q
        BY <3>1, UpIs
      <3>3. \A i \in Nat : i \in Sums!Up(q, 0) <=> i \in q
        BY <3>2
      <3>4. Sums!Up(q, 0) = q
        BY <3>1, <3>2, <3>3, SameBits
      <3> QED BY <3>4 DEF q
    <2>6. Sums!Xor(s[l], {}) = s[l]
      BY DEF Sums!Xor
    <2> QED BY <1>9, <1>e, <2>1, <2>2, <2>3, <2>5, <2>6
  <1> QED BY <1>4, <1>5, <1>10 DEF n, bits, l

\* The checksum of a message that is one byte longer.
LEMMA SumOfMore ==
  ASSUME NEW w, NEW poly, Divides(w, poly), NEW m \in Seq(Octet), NEW b \in Octet
  PROVE  Sums!Sum(m, w, poly) \in Wide(w) /\ Sums!Sum(Append(m, b), w, poly) = Fed(Sums!Sum(m, w, poly), b, w, poly)
  <1> DEFINE l == Len(m)
             q == Append(m, b)
  <1>1. q \in Seq(Octet) /\ Len(q) = l + 1 /\ q[l + 1] = b /\ l \in Nat /\ \A i \in 1..l : q[i] = m[i]
    BY AppendProperties, LenProperties
  <1>2. PICK s \in [0..l -> Wide(w)] :
          /\ s[0] = {} /\ Sums!Sum(m, w, poly) = s[l]
          /\ \A i \in 1..l : s[i] = Fed(s[i - 1], m[i], w, poly)
    BY SumIs DEF SumSteps
  <1> HIDE DEF q, l
  <1>3. PICK t \in [0..(l + 1) -> Wide(w)] :
          /\ t[0] = {} /\ Sums!Sum(q, w, poly) = t[l + 1]
          /\ \A i \in 1..(l + 1) : t[i] = Fed(t[i - 1], q[i], w, poly)
    <2>1. SumSteps(q, w, poly, Sums!Sum(q, w, poly))
      BY <1>1, SumIs
    <2> QED BY <1>1, <2>1 DEF SumSteps
  <1> DEFINE T == {k \in Nat : k <= l => t[k] = s[k]}
  <1>4. 0 \in T
    BY <1>2, <1>3
  <1>5. ASSUME NEW k \in Nat, k \in T PROVE k + 1 \in T
    <2>1. SUFFICES ASSUME k + 1 <= l PROVE t[k + 1] = s[k + 1]
      OBVIOUS
    <2>2. k + 1 \in 1..l /\ k + 1 \in 1..(l + 1) /\ (k + 1) - 1 = k /\ k <= l
      BY <1>1, <2>1
    <2>3. t[k] = s[k] /\ q[k + 1] = m[k + 1]
      BY <1>1, <1>5, <2>2
    <2>4. t[k + 1] = Fed(t[k], q[k + 1], w, poly) /\ s[k + 1] = Fed(s[k], m[k + 1], w, poly)
      BY <1>2, <1>3, <2>2
    <2> QED BY <2>3, <2>4
  <1> HIDE DEF T
  <1>6. l \in T
    BY <1>1, <1>4, <1>5, EveryNumber
  <1>7. t[l] = s[l]
    BY <1>1, <1>6 DEF T
  <1>8. l + 1 \in 1..(l + 1) /\ (l + 1) - 1 = l /\ l \in 0..l
    BY <1>1
  <1>9. t[l + 1] = Fed(t[l], q[l + 1], w, poly) /\ s[l] \in Wide(w)
    BY <1>2, <1>3, <1>8
  <1> QED BY <1>1, <1>2, <1>3, <1>7, <1>9 DEF q

LEMMA SumOfNone ==
  ASSUME NEW w, NEW poly, Divides(w, poly) PROVE Sums!Sum(<<>>, w, poly) = {}
  <1>1. <<>> \in Seq(Octet) /\ Len(<<>>) = 0
    BY EmptySeq
  <1>2. SumSteps(<<>>, w, poly, Sums!Sum(<<>>, w, poly))
    BY <1>1, SumIs
  <1> QED BY <1>1, <1>2 DEF SumSteps

\* Eight bits shift what is low enough up and nothing out.
LEMMA ShiftedUp ==
  ASSUME NEW w, NEW poly, Divides(w, poly), NEW a \in SUBSET Nat, \A i \in a : i < w - 8
  PROVE  Sums!EightBits(a, w, poly) = Sums!Up(a, 8)
  <1>1. w \in {8, 16} /\ w \in Nat
    BY DEF Divides
  <1>2. a \in Wide(w)
    <2>1. \A i \in a : i \in 0..(w - 1)
      BY <1>1
    <2> QED BY <2>1 DEF Wide
  <1>3. PICK e \in [0..8 -> Wide(w)] :
          /\ e[0] = a /\ Sums!EightBits(a, w, poly) = e[8]
          /\ \A i \in 1..8 : e[i] = Sums!Bit(e[i - 1], w, poly)
    BY <1>2, EightAre DEF EightSteps
  <1> DEFINE T == {t \in Nat : t <= 8 => e[t] = Sums!Up(a, t)}
  <1>4. 0 \in T
    <2>1. Sums!Up(a, 0) \in SUBSET Nat /\ \A i \in Int : i \in Sums!Up(a, 0) <=> i - 0 \in a
      BY UpIs
    <2>2. \A i \in Nat : i \in Sums!Up(a, 0) <=> i \in a
      BY <2>1
    <2>3. Sums!Up(a, 0) = a
      BY <2>1, <2>2, SameBits
    <2> QED BY <1>3, <2>3
  <1>5. ASSUME NEW t \in Nat, t \in T PROVE t + 1 \in T
    <2>1. SUFFICES ASSUME t + 1 <= 8 PROVE e[t + 1] = Sums!Up(a, t + 1)
      OBVIOUS
    <2>2. t <= 8 /\ t \in 0..8 /\ t + 1 \in 1..8 /\ (t + 1) - 1 = t
      BY <2>1
    <2>3. e[t] = Sums!Up(a, t) /\ e[t + 1] = Sums!Bit(e[t], w, poly) /\ e[t] \in Wide(w)
      BY <1>3, <1>5, <2>2
    <2>4. Sums!Up(a, t) \in SUBSET Nat /\ \A i \in Int : i \in Sums!Up(a, t) <=> i - t \in a
      BY UpIs
    <2>5. Sums!Up(a, t + 1) \in SUBSET Nat /\ \A i \in Int : i \in Sums!Up(a, t + 1) <=> i - (t + 1) \in a
      <3>1. t + 1 \in Nat
        OBVIOUS
      <3> QED BY <3>1, UpIs
    <2> DEFINE u == Sums!Up(a, t)
               z == Sums!Shl(u, w)
    <2>6. u \in Wide(w)
      BY <2>3
    <2> HIDE DEF u
    <2>7. z \in Wide(w) /\ \A i \in Nat : i \in z <=> i - 1 \in u /\ i # w
      BY <1>1, <2>6, ShlIs
    <2>8. w - 1 \notin u
      <3>1. w - 1 \in Int /\ ~((w - 1) - t < w - 8)
        BY <1>1, <2>1
      <3>2. (w - 1) - t \notin a
        BY <3>1
      <3> QED BY <2>4, <3>1, <3>2 DEF u
    <2>9. e[t + 1] = z
      BY <2>3, <2>8 DEF Sums!Bit, u
    <2> HIDE DEF z
    <2>10. ASSUME NEW i \in Nat PROVE i \in z <=> i \in Sums!Up(a, t + 1)
      <3>1. (i - 1) - t = i - (t + 1) /\ i - 1 \in Int /\ i \in Int
        OBVIOUS
      <3>2. i - 1 \in u <=> i - (t + 1) \in a
        BY <2>4, <3>1 DEF u
      <3>3. i = w => i - 1 \notin u
        BY <2>8
      <3> QED BY <2>5, <2>7, <3>1, <3>2, <3>3
    <2>11. z = Sums!Up(a, t + 1)
      <3>1. z \in SUBSET Nat
        BY <1>1, <2>7, WideIs
      <3> QED BY <2>5, <2>10, <3>1, SameBits
    <2> QED BY <2>9, <2>11
  <1> HIDE DEF T
  <1>6. 8 \in T
    BY <1>4, <1>5, EveryNumber
  <1> QED BY <1>3, <1>6 DEF T

LEMMA NoBits ==
  ASSUME NEW w, NEW poly, Divides(w, poly)
  PROVE  Sums!EightBits({}, w, poly) = {}
  <1>1. Sums!EightBits({}, w, poly) = Sums!Up({}, 8)
    BY ShiftedUp
  <1> QED BY <1>1 DEF Sums!Up

LEMMA XorSelf == ASSUME NEW a PROVE Sums!Xor(a, a) = {} /\ Sums!Xor({}, a) = a
  BY DEF Sums!Xor

LEMMA UpNone == ASSUME NEW a \in SUBSET Nat PROVE Sums!Up(a, 0) = a
  <1>1. Sums!Up(a, 0) \in SUBSET Nat /\ \A i \in Int : i \in Sums!Up(a, 0) <=> i - 0 \in a
    BY UpIs
  <1>2. \A i \in Nat : i \in Sums!Up(a, 0) <=> i \in a
    BY <1>1
  <1> QED BY <1>1, <1>2, SameBits

\* A message with its checksum behind it.
LEMMA CheckedByte ==
  ASSUME NEW poly, Divides(8, poly), NEW m \in Seq(Octet)
  PROVE  Sums!Sum(m \o Sums!Bytes(Sums!Sum(m, 8, poly), 8), 8, poly) = {}
  <1> DEFINE a == Sums!Sum(m, 8, poly)
  <1>1. a \in Wide(8)
    <2>1. {} \in Octet
      BY DEF Octet
    <2> QED BY <2>1, SumOfMore
  <1> HIDE DEF a
  <1>2. a \in Octet /\ a \in SUBSET Nat
    BY <1>1 DEF Wide, Octet
  <1>3. Sums!Bytes(a, 8) = <<a>>
    <2>1. 8 \div 8 = 1 /\ 8 - (8 * 1) = 0
      OBVIOUS
    <2>2. {j \in 0..7 : 0 + j \in a} = a
      <3>1. a \subseteq 0..7 /\ \A j \in 0..7 : 0 + j = j
        BY <1>2 DEF Octet
      <3> QED BY <3>1
    <2> DEFINE r(i) == {j \in 0..7 : (8 - (8 * i)) + j \in a}
    <2>3. Sums!Bytes(a, 8) = [i \in 1..1 |-> r(i)]
      BY <2>1 DEF Sums!Bytes
    <2>4. r(1) = a
      BY <2>1, <2>2
    <2> HIDE DEF r
    <2>5. [i \in 1..1 |-> r(i)] = <<r(1)>>
      OBVIOUS
    <2> QED BY <2>3, <2>4, <2>5
  <1>4. m \o <<a>> = Append(m, a)
    BY AppendIsConcat, <1>2
  <1>5. Sums!Sum(Append(m, a), 8, poly) = Fed(a, a, 8, poly)
    BY <1>2, SumOfMore DEF a
  <1>6. Fed(a, a, 8, poly) = {}
    <2>1. 8 - 8 = 0 /\ Sums!Up(a, 0) = a
      BY <1>2, UpNone
    <2> QED BY <2>1, XorSelf, NoBits DEF Fed
  <1> QED BY <1>3, <1>4, <1>5, <1>6 DEF a

LEMMA CheckedBytes ==
  ASSUME NEW poly, Divides(16, poly), NEW m \in Seq(Octet)
  PROVE  Sums!Sum(m \o Sums!Bytes(Sums!Sum(m, 16, poly), 16), 16, poly) = {}
  <1> DEFINE a == Sums!Sum(m, 16, poly)
             hi == {j \in 0..7 : 8 + j \in a}
             lo == {j \in 0..7 : 0 + j \in a}
             q == Append(m, hi)
  <1>1. a \in Wide(16)
    <2>1. {} \in Octet
      BY DEF Octet
    <2> QED BY <2>1, SumOfMore
  <1> HIDE DEF a
  <1>2. a \in SUBSET (0..15)
    BY <1>1 DEF Wide
  <1>3. Sums!Bytes(a, 16) = <<hi, lo>>
    <2>1. 16 \div 8 = 2 /\ 16 - (8 * 1) = 8 /\ 16 - (8 * 2) = 0
      OBVIOUS
    <2> DEFINE f == [i \in 1..2 |-> {j \in 0..7 : (16 - (8 * i)) + j \in a}]
    <2>2. Sums!Bytes(a, 16) = f
      BY <2>1 DEF Sums!Bytes
    <2>3. f[1] = hi /\ f[2] = lo
      BY <2>1
    <2> HIDE DEF hi, lo
    <2>4. f = <<f[1], f[2]>>
      <3> DEFINE r(i) == {j \in 0..7 : (16 - (8 * i)) + j \in a}
      <3> HIDE DEF r
      <3>1. [i \in 1..2 |-> r(i)] = <<r(1), r(2)>>
        OBVIOUS
      <3>2. f = [i \in 1..2 |-> r(i)] /\ f[1] = r(1) /\ f[2] = r(2)
        BY DEF r
      <3> QED BY <3>1, <3>2
    <2> QED BY <2>2, <2>3, <2>4
  <1>4. hi \in Octet /\ lo \in Octet /\ lo \in SUBSET Nat /\ hi \in SUBSET Nat
    BY DEF Octet
  <1> HIDE DEF hi, lo
  <1>5. q \in Seq(Octet) /\ m \o <<hi, lo>> = Append(q, lo)
    <2>1. q \in Seq(Octet) /\ q = m \o <<hi>>
      BY <1>4, AppendProperties, AppendIsConcat
    <2>2. <<hi>> \in Seq(Octet) /\ <<lo>> \in Seq(Octet)
      BY <1>4
    <2>3. (m \o <<hi>>) \o <<lo>> = m \o (<<hi>> \o <<lo>>)
      BY <2>2, ConcatAssociative
    <2>4. <<hi>> \o <<lo>> = <<hi, lo>>
      BY <1>4, TwoOf
    <2>5. Append(q, lo) = q \o <<lo>>
      BY <1>4, <2>1, AppendIsConcat
    <2> QED BY <2>1, <2>3, <2>4, <2>5
  <1>6. Sums!Sum(q, 16, poly) = Sums!Up(lo, 8)
    <2>1. Sums!Sum(q, 16, poly) = Fed(a, hi, 16, poly)
      BY <1>4, SumOfMore DEF a
    <2>2. Sums!Xor(a, Sums!Up(hi, 8)) = lo
      <3>1. Sums!Up(hi, 8) \in SUBSET Nat /\ \A i \in Int : i \in Sums!Up(hi, 8) <=> i - 8 \in hi
        BY <1>4, UpIs
      <3>2. Sums!Xor(a, Sums!Up(hi, 8)) \in SUBSET Nat
        <4>1. a \in SUBSET Nat
          BY <1>2
        <4> QED BY <3>1, <4>1 DEF Sums!Xor
      <3>3. ASSUME NEW i \in Nat PROVE i \in Sums!Xor(a, Sums!Up(hi, 8)) <=> i \in lo
        <4>1. i \in Sums!Xor(a, Sums!Up(hi, 8)) <=> ~(i \in a <=> i \in Sums!Up(hi, 8))
          BY XorIs
        <4>2. i \in Sums!Up(hi, 8) <=> i - 8 \in hi
          BY <3>1
        <4>3. i - 8 \in hi <=> i - 8 \in 0..7 /\ i \in a
          <5>1. 8 + (i - 8) = i
            OBVIOUS
          <5> QED BY <5>1 DEF hi
        <4>4. i \in lo <=> i \in 0..7 /\ i \in a
          <5>1. 0 + i = i
            OBVIOUS
          <5> QED BY <5>1 DEF lo
        <4>5. i \in a => i \in 0..7 \/ i - 8 \in 0..7
          BY <1>2
        <4>6. ~(i \in 0..7 /\ i - 8 \in 0..7)
          OBVIOUS
        <4> QED BY <4>1, <4>2, <4>3, <4>4, <4>5, <4>6
      <3> QED BY <1>4, <3>2, <3>3, SameBits
    <2>3. Sums!EightBits(lo, 16, poly) = Sums!Up(lo, 8)
      <3>1. \A i \in lo : i < 16 - 8
        BY DEF lo
      <3> QED BY <1>4, <3>1, ShiftedUp
    <2>4. 16 - 8 = 8
      OBVIOUS
    <2> QED BY <2>1, <2>2, <2>3, <2>4 DEF Fed
  <1> HIDE DEF q
  <1>7. Sums!Sum(Append(q, lo), 16, poly) = Fed(Sums!Up(lo, 8), lo, 16, poly)
    BY <1>4, <1>5, <1>6, SumOfMore
  <1>8. Fed(Sums!Up(lo, 8), lo, 16, poly) = {}
    <2>1. 16 - 8 = 8
      OBVIOUS
    <2> QED BY <2>1, XorSelf, NoBits DEF Fed
  <1> QED BY <1>3, <1>5, <1>7, <1>8 DEF a

LEMMA OneByte ==
  ASSUME NEW m \in Seq(Octet), Len(m) = 1, NEW poly, Divides(8, poly)
  PROVE  Sums!Sum(m, 8, poly) = Sums!EightBits(m[1], 8, poly)
  <1>1. m[1] \in Octet
    BY ElementOfSeq
  <1>2. m = Append(<<>>, m[1])
    BY <1>1
  <1> DEFINE b == m[1]
  <1>3. b \in Octet /\ m = Append(<<>>, b)
    BY <1>1, <1>2
  <1> HIDE DEF b
  <1>4. Sums!Sum(Append(<<>>, b), 8, poly) = Fed({}, b, 8, poly)
    <2>1. <<>> \in Seq(Octet)
      BY EmptySeq
    <2>2. Sums!Sum(Append(<<>>, b), 8, poly) = Fed(Sums!Sum(<<>>, 8, poly), b, 8, poly)
      BY <1>3, <2>1, SumOfMore
    <2> QED BY <2>2, SumOfNone
  <1>5. Fed({}, b, 8, poly) = Sums!EightBits(b, 8, poly)
    <2>1. 8 - 8 = 0 /\ b \in SUBSET Nat
      BY <1>3 DEF Octet
    <2> QED BY <2>1, UpNone, XorSelf DEF Fed
  <1> QED BY <1>3, <1>4, <1>5 DEF b

\* What the three functions returned of a message.
SumsInv ==
  message # <<>> =>
    /\ message \in Messages
    /\ crc8 = Sums!Compute_CRC8_Simple(message) /\ crc16 = Sums!Compute_CRC16_Simple(message)
    /\ crcByte = Sums!Compute_CRC8_Simple_OneByte(message[1])

LEMMA SumsAre ==
  ASSUME Sums!CrcAssumption, SumsInv PROVE Sums!ChecksumsAreRight
  <1>1. SUFFICES ASSUME message # <<>>
                 PROVE  /\ crc8  = Sums!Remainder(Sums!Up(Sums!Polynomial(message), 8), 8 * Len(message), 8, Sums!CRC8_POLY)
                        /\ crc16 = Sums!Remainder(Sums!Up(Sums!Polynomial(message), 16), 8 * Len(message), 16, Sums!CRC16_POLY)
                        /\ Sums!Compute_CRC8_Simple(message \o Sums!Bytes(crc8, 8)) = {}
                        /\ Sums!Compute_CRC16_Simple(message \o Sums!Bytes(crc16, 16)) = {}
                        /\ Len(message) = 1 => crcByte = crc8
    BY DEF Sums!ChecksumsAreRight
  <1>2. message \in Seq(Octet)
    BY <1>1 DEF SumsInv, Sums!CrcAssumption, Octet
  <1>3. Divides(8, Sums!CRC8_POLY) /\ Divides(16, Sums!CRC16_POLY)
    BY DEF Divides, Sums!CRC8_POLY, Sums!CRC16_POLY
  <1>4. /\ crc8 = Sums!Sum(message, 8, Sums!CRC8_POLY) /\ crc16 = Sums!Sum(message, 16, Sums!CRC16_POLY)
        /\ crcByte = Sums!EightBits(message[1], 8, Sums!CRC8_POLY)
    BY <1>1 DEF SumsInv, Sums!Compute_CRC8_Simple, Sums!Compute_CRC16_Simple, Sums!Compute_CRC8_Simple_OneByte
  <1>5. crc8 = Sums!Remainder(Sums!Up(Sums!Polynomial(message), 8), 8 * Len(message), 8, Sums!CRC8_POLY)
    BY <1>2, <1>3, <1>4, SumIsRemainder
  <1>6. crc16 = Sums!Remainder(Sums!Up(Sums!Polynomial(message), 16), 8 * Len(message), 16, Sums!CRC16_POLY)
    BY <1>2, <1>3, <1>4, SumIsRemainder
  <1>7. Sums!Compute_CRC8_Simple(message \o Sums!Bytes(crc8, 8)) = {}
    BY <1>2, <1>3, <1>4, CheckedByte DEF Sums!Compute_CRC8_Simple
  <1>8. Sums!Compute_CRC16_Simple(message \o Sums!Bytes(crc16, 16)) = {}
    BY <1>2, <1>3, <1>4, CheckedBytes DEF Sums!Compute_CRC16_Simple
  <1>9. Len(message) = 1 => crcByte = crc8
    BY <1>2, <1>3, <1>4, OneByte
  <1> QED BY <1>5, <1>6, <1>7, <1>8, <1>9

(* The checksum of a message of any length is what is left of it when the  *)
(* polynomial divides it; a message with its checksum behind it has the    *)
(* checksum zero; and a byte alone gives the same by itself                *)
(* (Compute_CRC8_Simple, Compute_CRC16_Simple,                             *)
(* Compute_CRC8_Simple_OneByte).                                           *)
THEOREM ChecksumsStayRight ==
  ASSUME Sums!CrcAssumption PROVE Sums!Spec => []Sums!ChecksumsAreRight
  <1>1. Sums!Init => SumsInv
    BY DEF Sums!Init, SumsInv
  <1>2. SumsInv /\ [Sums!Next]_Sums!vars => SumsInv'
    <2> SUFFICES ASSUME SumsInv, [Sums!Next]_Sums!vars PROVE SumsInv'
      OBVIOUS
    <2>1. CASE Sums!Next
      BY <2>1 DEF Sums!Next, SumsInv
    <2>2. CASE UNCHANGED Sums!vars
      BY <2>2 DEF Sums!vars, SumsInv
    <2> QED BY <2>1, <2>2
  <1>3. SumsInv => Sums!ChecksumsAreRight
    BY SumsAre
  <1> QED BY <1>1, <1>2, <1>3, PTL DEF Sums!Spec
-----------------------------------------------------------------------------
(* Texts to ints and back (Conversions).                                   *)
\* The value of a number's digits, digit by digit.
Digit == 0..9
Numeral(k) == [1..k -> Digit]

ValueSteps(ds, k, x) ==
  \E g \in [0..k -> Nat] :
    g[0] = 0 /\ x = g[k] /\ \A i \in 1..k : g[i] = 10 * g[i - 1] + ds[i]

LEMMA ValueIs ==
  ASSUME NEW k \in Nat, NEW ds \in Numeral(k)
  PROVE  ValueSteps(ds, k, Ints!ValueOf(ds))
  <1> DEFINE h == [q \in (1..k) \X Nat |-> (10 * q[2]) + ds[q[1]]]
  <1>d. DOMAIN ds = 1..k /\ \A i \in 1..k : ds[i] \in Nat
    BY DEF Numeral, Digit
  <1>1. h \in [(1..k) \X Nat -> Nat]
    BY <1>d
  <1>2. \A i \in 1..k, b \in Nat : h[<<i, b>>] = (10 * b) + ds[i]
    OBVIOUS
  <1> HIDE DEF h
  <1>3. PICK it \in [SUBSET (1..k) -> Nat] :
          \A s \in SUBSET (1..k) : it[s] = IF s = {} THEN 0 ELSE h[<<Max(s), it[s \ {Max(s)}]>>]
    <2>1. CanFold(k, Nat, 0, h)
      BY <1>1, FoldExists
    <2> QED BY <2>1 DEF CanFold
  <1> DEFINE Is(i) ==
        i = [s \in SUBSET (1..k) |->
               IF s = {} THEN 0 ELSE (10 * i[s \ {Ints!Max(s)}]) + ds[Ints!Max(s)]]
      c == CHOOSE i : Is(i)
  <1>m. \A s : Ints!Max(s) = Max(s)
    BY DEF Max, Ints!Max
  <1>5. Is(it)
    <2>1. ASSUME NEW s \in SUBSET (1..k), s # {}
          PROVE  h[<<Max(s), it[s \ {Max(s)}]>>] = (10 * it[s \ {Max(s)}]) + ds[Max(s)]
      <3>1. Max(s) \in 1..k /\ s \ {Max(s)} \in SUBSET (1..k)
        BY <2>1, LastPlace
      <3>2. it[s \ {Max(s)}] \in Nat
        BY <1>3, <3>1
      <3> QED BY <1>2, <3>1, <3>2
    <2> QED BY <1>3, <1>m, <2>1
  <1>6. Is(c)
    <2> HIDE DEF Is
    <2> QED BY <1>5
  <1>7. Ints!ValueOf(ds) = c[1..k]
    BY <1>d DEF Ints!ValueOf, Ints!FoldLeft, Ints!MapThenFoldSet
  <1> HIDE DEF c
  <1>8. c[{}] = 0
    BY <1>6
  <1>9. \A s \in SUBSET (1..k) :
          s # {} /\ c[s \ {Max(s)}] \in Nat => c[s] = h[<<Max(s), c[s \ {Max(s)}]>>]
    <2> SUFFICES ASSUME NEW s \in SUBSET (1..k), s # {}, c[s \ {Max(s)}] \in Nat
                 PROVE  c[s] = h[<<Max(s), c[s \ {Max(s)}]>>]
      OBVIOUS
    <2>1. Max(s) \in 1..k
      BY LastPlace
    <2>2. c[s] = (10 * c[s \ {Max(s)}]) + ds[Max(s)]
      BY <1>6, <1>m
    <2> QED BY <1>2, <2>1, <2>2
  <1>10. Stepped(k, Nat, 0, h, c[1..k])
    <2>1. 0 \in Nat
      OBVIOUS
    <2> QED BY <2>1, <1>1, <1>8, <1>9, FoldStepped
  <1>11. PICK g \in [0..k -> Nat] : g[0] = 0 /\ c[1..k] = g[k] /\ \A i \in 1..k : g[i] = h[<<i, g[i - 1]>>]
    BY <1>10 DEF Stepped
  <1>12. \A i \in 1..k : g[i] = 10 * g[i - 1] + ds[i]
    <2>1. \A i \in 1..k : g[i - 1] \in Nat
      BY <1>11
    <2> QED BY <1>2, <1>11, <2>1
  <1> QED BY <1>7, <1>11, <1>12 DEF ValueSteps

\* A number without more and more of its digits.
LEMMA CutIs ==
  ASSUME NEW n \in Nat
  PROVE  /\ Ints!Cut(n)[0] = n
         /\ \A i \in Nat : Ints!Cut(n)[i] \in Nat /\ Ints!Cut(n)[i + 1] = Ints!Cut(n)[i] \div 10
  <1> DEFINE h == [q \in Nat \X Nat |-> q[2] \div 10]
  <1>1. h \in [Nat \X Nat -> Nat] /\ \A i, b \in Nat : h[<<i, b>>] = b \div 10
    OBVIOUS
  <1> HIDE DEF h
  <1>2. PICK g \in [Nat -> Nat] : g[0] = n /\ \A i \in Nat : g[i + 1] = h[<<i, g[i]>>]
    <2>1. CanFollow(Nat, n, h)
      BY <1>1, RecursiveOnNat
    <2> QED BY <2>1 DEF CanFollow
  <1> DEFINE Is(f) == f = [i \in Nat |-> IF i = 0 THEN n ELSE f[i - 1] \div 10]
             c == CHOOSE f : Is(f)
  <1>3. Is(g)
    <2>1. ASSUME NEW i \in Nat, i # 0 PROVE g[i] = g[i - 1] \div 10
      <3> DEFINE j == i - 1
      <3>1. j \in Nat /\ i = j + 1
        BY <2>1
      <3> HIDE DEF j
      <3>2. g[j + 1] = g[j] \div 10
        BY <1>1, <1>2, <3>1
      <3> QED BY <3>1, <3>2 DEF j
    <2> QED BY <1>2, <2>1
  <1>4. Is(c)
    <2> HIDE DEF Is
    <2> QED BY <1>3
  <1>5. Ints!Cut(n) = c
    BY DEF Ints!Cut
  <1> HIDE DEF c
  <1>6. c[0] = n /\ \A i \in Nat : c[i + 1] = c[i] \div 10
    <2>1. \A i \in Nat : i + 1 \in Nat /\ i + 1 # 0 /\ (i + 1) - 1 = i
      OBVIOUS
    <2> QED BY <1>4, <2>1
  <1> DEFINE T == {i \in Nat : c[i] \in Nat}
  <1>7. \A i \in Nat : i \in T
    <2>1. 0 \in T
      BY <1>6
    <2>2. \A i \in Nat : i \in T => i + 1 \in T
      BY <1>6
    <2> HIDE DEF T
    <2> QED BY <2>1, <2>2, EveryNumber
  <1> QED BY <1>5, <1>6, <1>7

\* A number has so many digits, and the first is 0 in none but 0.
LEMMA NumDigitsIs ==
  ASSUME NEW n \in Nat
  PROVE  /\ Ints!NumDigits(n) \in Nat /\ Ints!NumDigits(n) >= 1
         /\ Ints!Cut(n)[Ints!NumDigits(n)] = 0
         /\ \A j \in 1..(Ints!NumDigits(n) - 1) : Ints!Cut(n)[j] # 0
  <1> DEFINE c == Ints!Cut(n)
  <1>1. c[0] = n /\ \A i \in Nat : c[i] \in Nat /\ c[i + 1] = c[i] \div 10
    BY CutIs
  <1> HIDE DEF c
  <1> DEFINE T == {i \in Nat : i <= n => c[i] <= n - i}
  <1>2. \A i \in Nat : i \in T
    <2>1. 0 \in T
      BY <1>1
    <2>2. ASSUME NEW i \in Nat, i \in T PROVE i + 1 \in T
      <3>1. SUFFICES ASSUME i + 1 <= n PROVE c[i + 1] <= n - (i + 1)
        OBVIOUS
      <3>2. c[i] <= n - i /\ c[i] \in Nat /\ c[i + 1] = c[i] \div 10
        BY <1>1, <2>2, <3>1
      <3>3. \A x \in Nat : x \div 10 \in Nat /\ (x > 0 => x \div 10 <= x - 1) /\ (x = 0 => x \div 10 = 0)
        OBVIOUS
      <3> QED BY <3>1, <3>2, <3>3
    <2> HIDE DEF T
    <2> QED BY <2>1, <2>2, EveryNumber
  <1>3. c[n + 1] = 0
    <2>1. c[n] = 0
      BY <1>1, <1>2
    <2> QED BY <1>1, <2>1
  <1> DEFINE U == {k \in 1..(n + 1) : c[k] = 0}
  <1>4. n + 1 \in U /\ U \in SUBSET Nat
    BY <1>3
  <1>5. Min(U) \in U /\ \A y \in U : Min(U) <= y
    <2> HIDE DEF U
    <2> QED BY <1>4, LeastOf
  <1>6. \E k \in 1..(n + 1) : c[k] = 0 /\ \A j \in 1..(k - 1) : c[j] # 0
    <2>1. PICK k \in U : \A y \in U : k <= y
      BY <1>5
    <2>2. \A j \in 1..(k - 1) : j \in 1..(n + 1) /\ ~(k <= j)
      BY <2>1
    <2> QED BY <2>1, <2>2
  <1> DEFINE Is(k) == k \in 1..(n + 1) /\ c[k] = 0 /\ \A j \in 1..(k - 1) : c[j] # 0
  <1>7. Is(CHOOSE k : Is(k))
    <2>1. \E k : Is(k)
      BY <1>6
    <2> HIDE DEF Is
    <2> QED BY <2>1
  <1>8. Ints!NumDigits(n) = CHOOSE k : Is(k)
    BY DEF Ints!NumDigits, c
  <1> QED BY <1>7, <1>8 DEF c

\* A number cut of digits to nothing is made of them, the last cut first.
LEMMA DigitsRule ==
  ASSUME NEW k \in Nat, NEW ds \in Numeral(k), NEW num \in Nat, Ints!Cut(num)[k] = 0,
         \A j \in 1..k : Ints!Cut(num)[k - j] % 10 = ds[j]
  PROVE  Ints!ValueOf(ds) = num
  <1> DEFINE c == Ints!Cut(num)
  <1>1. c[0] = num /\ \A i \in Nat : c[i] \in Nat /\ c[i + 1] = c[i] \div 10
    BY CutIs
  <1>2. c[k] = 0 /\ \A j \in 1..k : c[k - j] % 10 = ds[j]
    OBVIOUS
  <1> HIDE DEF c
  <1>3. PICK g \in [0..k -> Nat] :
          g[0] = 0 /\ Ints!ValueOf(ds) = g[k] /\ \A i \in 1..k : g[i] = 10 * g[i - 1] + ds[i]
    BY ValueIs DEF ValueSteps
  <1> DEFINE T == {j \in Nat : j <= k => g[j] = c[k - j]}
  <1>4. \A j \in Nat : j \in T
    <2>1. 0 \in T
      BY <1>2, <1>3
    <2>2. ASSUME NEW j \in Nat, j \in T PROVE j + 1 \in T
      <3>1. SUFFICES ASSUME j + 1 <= k PROVE g[j + 1] = c[k - (j + 1)]
        OBVIOUS
      <3> DEFINE i == k - (j + 1)
      <3>2. i \in Nat /\ i + 1 = k - j /\ j + 1 \in 1..k /\ (j + 1) - 1 = j
        BY <3>1
      <3>3. g[j] = c[i + 1]
        BY <2>2, <3>1, <3>2
      <3>4. g[j + 1] = 10 * g[j] + ds[j + 1]
        BY <1>3, <3>2
      <3>5. c[i] % 10 = ds[j + 1]
        BY <1>2, <3>2
      <3> HIDE DEF i
      <3>6. c[i] \in Nat /\ c[i + 1] = c[i] \div 10
        BY <1>1, <3>2
      <3>7. \A x \in Nat : x = 10 * (x \div 10) + (x % 10)
        OBVIOUS
      <3>8. g[j + 1] = c[i]
        BY <3>3, <3>4, <3>5, <3>6, <3>7
      <3> QED BY <3>8 DEF i
    <2> HIDE DEF T
    <2> QED BY <2>1, <2>2, EveryNumber
  <1>5. g[k] = c[0]
    BY <1>4
  <1> QED BY <1>1, <1>3, <1>5

\* The first digits alone are the number without the others.
LEMMA CutOf ==
  ASSUME NEW k \in Nat, NEW ds \in Numeral(k)
  PROVE  /\ Ints!ValueOf(ds) \in Nat
         /\ Ints!Cut(Ints!ValueOf(ds))[k] = 0
         /\ \A i \in 0..(k - 1) : Ints!Cut(Ints!ValueOf(ds))[i] % 10 = ds[k - i]
         /\ k >= 1 => Ints!Cut(Ints!ValueOf(ds))[k - 1] = ds[1]
  <1>1. PICK g \in [0..k -> Nat] :
          g[0] = 0 /\ Ints!ValueOf(ds) = g[k] /\ \A i \in 1..k : g[i] = 10 * g[i - 1] + ds[i]
    BY ValueIs DEF ValueSteps
  <1>2. \A i \in 1..k : ds[i] \in 0..9
    BY DEF Numeral, Digit
  <1> DEFINE num == Ints!ValueOf(ds)
             c == Ints!Cut(num)
  <1>3. num \in Nat /\ num = g[k]
    BY <1>1
  <1>4. c[0] = num /\ \A i \in Nat : c[i] \in Nat /\ c[i + 1] = c[i] \div 10
    <2> HIDE DEF num
    <2> QED BY <1>3, CutIs
  <1> HIDE DEF c, num
  <1>5. \A x \in Nat, d \in 0..9 : (10 * x + d) \div 10 = x /\ (10 * x + d) % 10 = d
    OBVIOUS
  <1> DEFINE T == {i \in Nat : i <= k => c[i] = g[k - i]}
  <1>6. \A i \in Nat : i \in T
    <2>1. 0 \in T
      BY <1>3, <1>4
    <2>2. ASSUME NEW i \in Nat, i \in T PROVE i + 1 \in T
      <3>1. SUFFICES ASSUME i + 1 <= k PROVE c[i + 1] = g[k - (i + 1)]
        OBVIOUS
      <3> DEFINE j == k - i
      <3>2. j \in 1..k /\ j - 1 = k - (i + 1) /\ j - 1 \in 0..k
        BY <3>1
      <3>3. c[i] = g[j] /\ c[i + 1] = c[i] \div 10
        BY <1>4, <2>2, <3>1
      <3> HIDE DEF j
      <3>4. g[j] = 10 * g[j - 1] + ds[j] /\ g[j - 1] \in Nat /\ ds[j] \in 0..9
        BY <1>1, <1>2, <3>2
      <3>5. c[i + 1] = g[j - 1]
        <4>1. (10 * g[j - 1] + ds[j]) \div 10 = g[j - 1]
          BY <1>5, <3>4
        <4> QED BY <3>3, <3>4, <4>1
      <3> QED BY <3>2, <3>5
    <2> HIDE DEF T
    <2> QED BY <2>1, <2>2, EveryNumber
  <1>7. \A i \in 0..k : c[i] = g[k - i]
    BY <1>6
  <1>8. c[k] = 0
    BY <1>1, <1>7
  <1>9. ASSUME NEW i \in 0..(k - 1) PROVE c[i] % 10 = ds[k - i]
    <2> DEFINE j == k - i
    <2>1. j \in 1..k /\ j - 1 \in 0..k /\ i \in 0..k
      OBVIOUS
    <2>2. c[i] = g[j]
      BY <1>7, <2>1
    <2> HIDE DEF j
    <2>3. g[j] = 10 * g[j - 1] + ds[j] /\ g[j - 1] \in Nat /\ ds[j] \in 0..9
      BY <1>1, <1>2, <2>1
    <2>4. c[i] % 10 = ds[j]
      <3>1. (10 * g[j - 1] + ds[j]) % 10 = ds[j]
        BY <1>5, <2>3
      <3> QED BY <2>2, <2>3, <3>1
    <2> QED BY <2>4 DEF j
  <1>10. ASSUME k >= 1 PROVE c[k - 1] = ds[1]
    <2>1. c[k - 1] = g[k - (k - 1)] /\ k - (k - 1) = 1
      BY <1>7, <1>10
    <2>2. g[1] = 10 * g[0] + ds[1] /\ ds[1] \in 0..9
      BY <1>1, <1>2, <1>10
    <2> QED BY <1>1, <2>1, <2>2
  <1> QED BY <1>3, <1>8, <1>9, <1>10 DEF c, num

\* Cut of as many digits, the greater number stays the greater, and 0 stays 0.
LEMMA CutGrows ==
  ASSUME NEW u \in Nat, NEW num \in Nat, u <= num
  PROVE  \A i \in Nat : Ints!Cut(u)[i] \in Nat /\ Ints!Cut(num)[i] \in Nat
                        /\ Ints!Cut(u)[i] <= Ints!Cut(num)[i]
  <1> DEFINE c == Ints!Cut(u)
             d == Ints!Cut(num)
  <1>1. /\ c[0] = u /\ \A i \in Nat : c[i] \in Nat /\ c[i + 1] = c[i] \div 10
        /\ d[0] = num /\ \A i \in Nat : d[i] \in Nat /\ d[i + 1] = d[i] \div 10
    BY CutIs
  <1> HIDE DEF c, d
  <1> DEFINE T == {i \in Nat : c[i] <= d[i]}
  <1>2. \A i \in Nat : i \in T
    <2>1. 0 \in T
      BY <1>1
    <2>2. ASSUME NEW i \in Nat, i \in T PROVE i + 1 \in T
      <3>1. \A x, y \in Nat : x <= y => x \div 10 <= y \div 10
        OBVIOUS
      <3> QED BY <1>1, <2>2, <3>1
    <2> HIDE DEF T
    <2> QED BY <2>1, <2>2, EveryNumber
  <1> QED BY <1>1, <1>2 DEF c, d

LEMMA CutStays ==
  ASSUME NEW num \in Nat, NEW k \in Nat, Ints!Cut(num)[k] = 0
  PROVE  \A i \in Nat : i >= k => Ints!Cut(num)[i] = 0
  <1> DEFINE c == Ints!Cut(num)
  <1>1. c[0] = num /\ \A i \in Nat : c[i] \in Nat /\ c[i + 1] = c[i] \div 10
    BY CutIs
  <1>0. c[k] = 0
    OBVIOUS
  <1> HIDE DEF c
  <1> DEFINE T == {i \in Nat : c[k + i] = 0}
  <1>2. \A i \in Nat : i \in T
    <2>1. 0 \in T
      BY <1>0
    <2>2. ASSUME NEW i \in Nat, i \in T PROVE i + 1 \in T
      <3>1. k + i \in Nat /\ k + (i + 1) = (k + i) + 1 /\ 0 \div 10 = 0
        OBVIOUS
      <3>2. c[(k + i) + 1] = c[k + i] \div 10
        BY <1>1, <3>1
      <3> QED BY <2>2, <3>1, <3>2
    <2> HIDE DEF T
    <2> QED BY <2>1, <2>2, EveryNumber
  <1>3. ASSUME NEW i \in Nat, i >= k PROVE c[i] = 0
    <2> DEFINE j == i - k
    <2>1. j \in Nat /\ i = k + j
      BY <1>3
    <2> HIDE DEF j
    <2> QED BY <1>2, <2>1
  <1> QED BY <1>3 DEF c

\* The digits of a number are its own.
LEMMA DigitsAre ==
  ASSUME NEW n \in Nat
  PROVE  /\ Ints!NumDigits(n) \in Nat \ {0}
         /\ Ints!DigitsOf(n) \in Numeral(Ints!NumDigits(n))
         /\ Len(Ints!DigitsOf(n)) = Ints!NumDigits(n)
         /\ Ints!ValueOf(Ints!DigitsOf(n)) = n
         /\ n >= 1 => Ints!DigitsOf(n)[1] >= 1
         /\ Ints!Cut(n)[Ints!NumDigits(n)] = 0
         /\ \A i \in 0..(Ints!NumDigits(n) - 1) :
              Ints!DigitsOf(n)[Ints!NumDigits(n) - i] = Ints!Cut(n)[i] % 10
  <1> DEFINE k == Ints!NumDigits(n)
             c == Ints!Cut(n)
             ds == Ints!DigitsOf(n)
  <1>1. k \in Nat /\ k >= 1 /\ c[k] = 0 /\ \A j \in 1..(k - 1) : c[j] # 0
    BY NumDigitsIs
  <1>2. c[0] = n /\ \A i \in Nat : c[i] \in Nat /\ c[i + 1] = c[i] \div 10
    BY CutIs
  <1>3. ds = [i \in 1..k |-> c[k - i] % 10]
    BY DEF Ints!DigitsOf
  <1> HIDE DEF k, c, ds
  <1>4. \A i \in 1..k : k - i \in Nat /\ c[k - i] \in Nat /\ c[k - i] % 10 \in 0..9
    <2>1. \A i \in 1..k : k - i \in Nat
      BY <1>1
    <2>2. \A x \in Nat : x % 10 \in 0..9
      OBVIOUS
    <2> QED BY <1>2, <2>1, <2>2
  <1>5. ds \in Numeral(k)
    BY <1>3, <1>4 DEF Numeral, Digit
  <1>6. Len(ds) = k
    <2>1. ds \in Seq(0..9) /\ DOMAIN ds = 1..k
      BY <1>1, <1>3, <1>4
    <2> QED BY <1>1, <2>1
  <1>7. Ints!ValueOf(ds) = n
    <2>1. \A j \in 1..k : c[k - j] % 10 = ds[j]
      BY <1>3
    <2> QED BY <1>1, <1>5, <2>1, DigitsRule DEF c
  <1>8. ASSUME n >= 1 PROVE ds[1] >= 1
    <2> DEFINE j == k - 1
    <2>1. j \in Nat /\ k = j + 1 /\ 1 \in 1..k
      BY <1>1
    <2> HIDE DEF j
    <2>2. c[j] # 0
      BY <1>1, <1>2, <1>8, <2>1
    <2>3. c[j] \in Nat /\ c[j] \div 10 = 0
      BY <1>1, <1>2, <2>1
    <2>4. \A x \in Nat : x \div 10 = 0 => x % 10 = x
      OBVIOUS
    <2>5. ds[1] = c[j] % 10
      BY <1>3, <2>1 DEF j
    <2> QED BY <2>2, <2>3, <2>4, <2>5
  <1>9. ASSUME NEW i \in 0..(k - 1) PROVE ds[k - i] = c[i] % 10
    <2>1. k - i \in 1..k /\ k - (k - i) = i
      BY <1>1
    <2> QED BY <1>3, <2>1
  <1> QED BY <1>1, <1>5, <1>6, <1>7, <1>8, <1>9 DEF k, c, ds

\* Of two numbers with as many digits the one with the higher digit where they
\* first differ is the greater.
LEMMA HigherIsMore ==
  ASSUME NEW k \in Nat, NEW ds \in Numeral(k), NEW es \in Numeral(k), NEW i \in 1..k,
         ds[i] > es[i], \A j \in 1..(i - 1) : ds[j] = es[j]
  PROVE  Ints!ValueOf(ds) > Ints!ValueOf(es)
  <1>1. PICK g \in [0..k -> Nat] :
          g[0] = 0 /\ Ints!ValueOf(ds) = g[k] /\ \A m \in 1..k : g[m] = 10 * g[m - 1] + ds[m]
    BY ValueIs DEF ValueSteps
  <1>2. PICK h \in [0..k -> Nat] :
          h[0] = 0 /\ Ints!ValueOf(es) = h[k] /\ \A m \in 1..k : h[m] = 10 * h[m - 1] + es[m]
    BY ValueIs DEF ValueSteps
  <1>3. \A m \in 1..k : ds[m] \in 0..9 /\ es[m] \in 0..9
    BY DEF Numeral, Digit
  <1> DEFINE T == {m \in Nat : m <= k => IF m < i THEN g[m] = h[m] ELSE g[m] > h[m]}
  <1>4. \A m \in Nat : m \in T
    <2>1. 0 \in T
      BY <1>1, <1>2
    <2>2. ASSUME NEW m \in Nat, m \in T PROVE m + 1 \in T
      <3>1. SUFFICES ASSUME m + 1 <= k
                     PROVE  IF m + 1 < i THEN g[m + 1] = h[m + 1] ELSE g[m + 1] > h[m + 1]
        OBVIOUS
      <3> DEFINE n == m + 1
      <3>2. n \in 1..k /\ n - 1 = m /\ m \in 0..k /\ n = m + 1
        BY <3>1
      <3> HIDE DEF n
      <3>3. g[n] = 10 * g[m] + ds[n] /\ h[n] = 10 * h[m] + es[n]
        BY <1>1, <1>2, <3>2
      <3>4. g[m] \in Nat /\ h[m] \in Nat /\ ds[n] \in 0..9 /\ es[n] \in 0..9
        BY <1>1, <1>2, <1>3, <3>2
      <3>0. \A x, y \in Nat, d, e \in 0..9 :
              /\ x > y => 10 * x + d > 10 * y + e
              /\ d > e => 10 * x + d > 10 * x + e
        OBVIOUS
      <3>5. ASSUME n < i PROVE g[n] = h[n]
        BY <2>2, <3>2, <3>3, <3>5
      <3>6. ASSUME n = i PROVE g[n] > h[n]
        <4>1. m < i /\ m <= k /\ m \in Nat
          BY <3>2, <3>6
        <4>2. g[m] = h[m]
          BY <2>2, <4>1
        <4>3. ds[n] > es[n]
          BY <3>6
        <4>4. 10 * g[m] + ds[n] > 10 * g[m] + es[n]
          BY <3>4, <4>3, <3>0
        <4> QED BY <3>3, <4>2, <4>4
      <3>7. ASSUME n > i PROVE g[n] > h[n]
        <4>1. g[m] > h[m]
          BY <2>2, <3>2, <3>7
        <4>2. 10 * g[m] + ds[n] > 10 * h[m] + es[n]
          BY <3>4, <4>1, <3>0
        <4> QED BY <3>3, <4>2
      <3>8. IF n < i THEN g[n] = h[n] ELSE g[n] > h[n]
        BY <3>2, <3>5, <3>6, <3>7
      <3> QED BY <3>8 DEF n
    <2> HIDE DEF T
    <2> QED BY <2>1, <2>2, EveryNumber
  <1>5. g[k] > h[k]
    BY <1>4
  <1> QED BY <1>1, <1>2, <1>5

\* And a number of more digits is the greater, when it begins with one that
\* counts.
LEMMA LongerIsMore ==
  ASSUME NEW k \in Nat, NEW ds \in Numeral(k), NEW m \in Nat, NEW es \in Numeral(m),
         m < k, ds[1] >= 1
  PROVE  Ints!ValueOf(ds) > Ints!ValueOf(es)
  <1> DEFINE u == Ints!ValueOf(ds)
             num == Ints!ValueOf(es)
  <1>1. u \in Nat /\ Ints!Cut(u)[k - 1] = ds[1]
    BY CutOf
  <1>2. num \in Nat /\ Ints!Cut(num)[m] = 0
    BY CutOf
  <1> HIDE DEF u, num
  <1>3. SUFFICES ASSUME u <= num PROVE FALSE
    BY <1>1, <1>2 DEF u, num
  <1>4. k - 1 \in Nat /\ k - 1 >= m
    OBVIOUS
  <1>5. Ints!Cut(num)[k - 1] = 0
    BY <1>2, <1>4, CutStays
  <1>6. Ints!Cut(u)[k - 1] <= Ints!Cut(num)[k - 1]
    BY <1>1, <1>2, <1>3, <1>4, CutGrows
  <1>7. ds[1] \in 0..9
    BY DEF Numeral, Digit
  <1> QED BY <1>1, <1>5, <1>6, <1>7

\* Compared digit by digit, numbers with as many digits are as their values.
LEMMA AboveIs ==
  ASSUME NEW k \in Nat, NEW ds \in Numeral(k), NEW es \in Numeral(k)
  PROVE  /\ Ints!Above(ds, es) <=> Ints!ValueOf(ds) > Ints!ValueOf(es)
         /\ Ints!ValueOf(ds) = Ints!ValueOf(es) => ds = es
  <1>0. DOMAIN es = 1..k /\ \A m \in 1..k : ds[m] \in 0..9 /\ es[m] \in 0..9
    BY DEF Numeral, Digit
  <1>a. Ints!ValueOf(ds) \in Nat /\ Ints!ValueOf(es) \in Nat
    BY CutOf
  <1>1. ASSUME Ints!Above(ds, es) PROVE Ints!ValueOf(ds) > Ints!ValueOf(es)
    <2>1. PICK i \in 1..k : ds[i] > es[i] /\ \A j \in 1..(i - 1) : ds[j] = es[j]
      BY <1>0, <1>1 DEF Ints!Above
    <2> QED BY <2>1, HigherIsMore
  <1>2. ASSUME ds # es
        PROVE  Ints!Above(ds, es) \/ Ints!ValueOf(es) > Ints!ValueOf(ds)
    <2> DEFINE D == {i \in 1..k : ds[i] # es[i]}
    <2>1. D # {} /\ D \in SUBSET Nat
      <3>1. ds = [i \in 1..k |-> ds[i]] /\ es = [i \in 1..k |-> es[i]]
        BY DEF Numeral
      <3> QED BY <1>2, <3>1
    <2>2. PICK i \in D : \A y \in D : i <= y
      <3> HIDE DEF D
      <3> QED BY <2>1, LeastOf
    <2>3. i \in 1..k /\ ds[i] # es[i] /\ \A j \in 1..(i - 1) : ds[j] = es[j]
      <3>1. \A j \in 1..(i - 1) : j \in 1..k /\ ~(i <= j)
        BY <2>2
      <3> QED BY <2>2, <3>1
    <2>4. ds[i] > es[i] \/ es[i] > ds[i]
      BY <1>0, <2>3
    <2>5. ASSUME ds[i] > es[i] PROVE Ints!Above(ds, es)
      BY <1>0, <2>3, <2>5 DEF Ints!Above
    <2>6. ASSUME es[i] > ds[i] PROVE Ints!ValueOf(es) > Ints!ValueOf(ds)
      BY <2>3, <2>6, HigherIsMore
    <2> QED BY <2>4, <2>5, <2>6
  <1> QED BY <1>a, <1>1, <1>2

\* The limit is a number that digits exceed when they are more, or as many and
\* higher.
LEMMA BigIs ==
  ASSUME NEW k \in Nat, NEW ds \in Numeral(k), NEW n \in Nat, n >= 1, k >= 1 => ds[1] >= 1
  PROVE  (\/ k > Len(Ints!DigitsOf(n))
          \/ k = Len(Ints!DigitsOf(n)) /\ Ints!Above(ds, Ints!DigitsOf(n)))
         <=> Ints!ValueOf(ds) > n
  <1> DEFINE ls == Ints!DigitsOf(n)
             m == Ints!NumDigits(n)
  <1>1. m \in Nat \ {0} /\ ls \in Numeral(m) /\ Len(ls) = m /\ Ints!ValueOf(ls) = n /\ ls[1] >= 1
    BY DigitsAre
  <1>2. Ints!ValueOf(ds) \in Nat
    BY CutOf
  <1> HIDE DEF ls, m
  <1>3. ASSUME k > m PROVE Ints!ValueOf(ds) > n
    <2>1. ds[1] >= 1 /\ m < k /\ m \in Nat
      BY <1>1, <1>3
    <2>2. Ints!ValueOf(ds) > Ints!ValueOf(ls)
      BY <1>1, <2>1, LongerIsMore
    <2> QED BY <1>1, <2>2
  <1>4. ASSUME k < m PROVE n > Ints!ValueOf(ds)
    <2>1. Ints!ValueOf(ls) > Ints!ValueOf(ds)
      BY <1>1, <1>4, LongerIsMore
    <2> QED BY <1>1, <2>1
  <1>5. ASSUME k = m PROVE Ints!Above(ds, ls) <=> Ints!ValueOf(ds) > n
    <2>1. Ints!Above(ds, ls) <=> Ints!ValueOf(ds) > Ints!ValueOf(ls)
      BY <1>1, <1>5, AboveIs
    <2> QED BY <1>1, <2>1
  <1>6. (k > m \/ (k = m /\ Ints!Above(ds, ls))) <=> Ints!ValueOf(ds) > n
    <2>1. k < m \/ k = m \/ k > m
      BY <1>1
    <2>2. ASSUME k < m PROVE ~(k > m) /\ k # m /\ ~(Ints!ValueOf(ds) > n)
      BY <1>1, <1>2, <1>4, <2>2
    <2>3. k = m => ~(k > m)
      BY <1>1
    <2> QED BY <1>3, <1>5, <2>1, <2>2, <2>3
  <1> QED BY <1>1, <1>6 DEF ls

\* The digits of an int in reverse, and the only number that they write.
Backwards(x) ==
  CHOOSE num \in 0..Ints!ValueOf([i \in 1..Ints!NumDigits(Ints!Abs(x)) |-> 9]) :
    \A i \in 0..(Ints!NumDigits(Ints!Abs(x)) - 1) :
      Ints!Cut(num)[i] % 10 = Ints!Cut(Ints!Abs(x))[Ints!NumDigits(Ints!Abs(x)) - 1 - i] % 10

LEMMA ReversedDigits ==
  ASSUME NEW k \in Nat, NEW ds \in Numeral(k)
  PROVE  /\ Ints!Reverse(ds) \in Numeral(k) /\ Len(Ints!Reverse(ds)) = k
         /\ \A i \in 1..k : Ints!Reverse(ds)[i] = ds[(k - i) + 1]
         /\ Ints!Reverse(Ints!Reverse(ds)) = ds
  <1>1. DOMAIN ds = 1..k /\ Len(ds) = k /\ \A i \in 1..k : ds[i] \in Digit
    BY DEF Numeral
  <1>2. Ints!Reverse(ds) = [i \in 1..k |-> ds[(k - i) + 1]]
    BY <1>1 DEF Ints!Reverse
  <1>3. \A i \in 1..k : (k - i) + 1 \in 1..k /\ (k - ((k - i) + 1)) + 1 = i
    OBVIOUS
  <1> DEFINE r == Ints!Reverse(ds)
  <1>4. r \in [1..k -> Digit] /\ \A i \in 1..k : r[i] = ds[(k - i) + 1]
    BY <1>1, <1>2, <1>3
  <1> HIDE DEF r
  <1>5. Len(r) = k /\ DOMAIN r = 1..k
    BY <1>4
  <1>6. Ints!Reverse(r) = [i \in 1..k |-> r[(k - i) + 1]]
    BY <1>5 DEF Ints!Reverse
  <1>7. \A i \in 1..k : r[(k - i) + 1] = ds[i]
    BY <1>3, <1>4
  <1>8. Ints!Reverse(r) = ds
    <2>1. ds = [i \in 1..k |-> ds[i]]
      BY DEF Numeral
    <2> QED BY <1>6, <1>7, <2>1
  <1> QED BY <1>4, <1>5, <1>8 DEF r, Numeral

LEMMA BackwardsIs ==
  ASSUME NEW x \in Int
  PROVE  /\ Ints!Abs(x) \in Nat
         /\ Backwards(x) = Ints!ValueOf(Ints!Reverse(Ints!DigitsOf(Ints!Abs(x))))
         /\ Ints!Reverse(Ints!DigitsOf(Ints!Abs(x))) \in Numeral(Ints!NumDigits(Ints!Abs(x)))
  <1> DEFINE n == Ints!Abs(x)
             k == Ints!NumDigits(n)
             ds == Ints!DigitsOf(n)
             back == Ints!Reverse(ds)
             w == Ints!ValueOf(back)
             nines == [i \in 1..k |-> 9]
             top == Ints!ValueOf(nines)
             Is(num) == num \in 0..top /\ \A i \in 0..(k - 1) : Ints!Cut(num)[i] % 10 = Ints!Cut(n)[k - 1 - i] % 10
  <1>1. n \in Nat
    BY DEF Ints!Abs
  <1>0. Backwards(x) = CHOOSE num : Is(num)
    BY DEF Backwards
  <1> HIDE DEF n
  <1>2. k \in Nat \ {0} /\ ds \in Numeral(k) /\ \A i \in 0..(k - 1) : ds[k - i] = Ints!Cut(n)[i] % 10
    BY <1>1, DigitsAre
  <1> HIDE DEF k, ds
  <1>3. back \in Numeral(k) /\ \A i \in 1..k : back[i] = ds[(k - i) + 1]
    BY <1>2, ReversedDigits
  <1> HIDE DEF back
  <1>4. nines \in Numeral(k) /\ \A i \in 1..k : nines[i] = 9
    BY <1>2 DEF Numeral, Digit
  <1> HIDE DEF nines
  <1>5. w \in Nat /\ \A i \in 0..(k - 1) : Ints!Cut(w)[i] % 10 = back[k - i]
    BY <1>2, <1>3, CutOf
  <1>6. top \in Nat /\ Ints!Cut(top)[k] = 0
    BY <1>2, <1>4, CutOf
  <1>7. ~(w > top)
    <2>1. DOMAIN nines = 1..k /\ \A i \in 1..k : back[i] \in 0..9
      BY <1>3, <1>4 DEF Numeral, Digit
    <2>2. ~Ints!Above(back, nines)
      BY <1>4, <2>1 DEF Ints!Above
    <2>3. Ints!Above(back, nines) <=> w > top
      BY <1>2, <1>3, <1>4, AboveIs
    <2> QED BY <2>2, <2>3
  <1>8. ASSUME NEW j \in 1..k PROVE back[j] = Ints!Cut(n)[j - 1] % 10
    <2>1. j - 1 \in 0..(k - 1) /\ k - (j - 1) = (k - j) + 1
      BY <1>2
    <2>2. ds[k - (j - 1)] = Ints!Cut(n)[j - 1] % 10
      BY <1>2, <2>1
    <2> QED BY <1>3, <2>1, <2>2
  <1>9. Is(w)
    <2>1. ASSUME NEW i \in 0..(k - 1) PROVE Ints!Cut(w)[i] % 10 = Ints!Cut(n)[k - 1 - i] % 10
      <3>1. k - i \in 1..k /\ (k - i) - 1 = k - 1 - i
        BY <1>2
      <3> QED BY <1>5, <1>8, <3>1
    <2>2. w \in 0..top
      <3> HIDE DEF w, top
      <3> QED BY <1>5, <1>6, <1>7
    <2> QED BY <2>1, <2>2
  <1> HIDE DEF w, top
  <1>10. ASSUME NEW num, Is(num) PROVE num = w
    <2>1. num \in Nat /\ num <= top
      BY <1>6, <1>10
    <2>2. Ints!Cut(num)[k] = 0
      <3>1. Ints!Cut(num)[k] \in Nat /\ Ints!Cut(num)[k] <= Ints!Cut(top)[k]
        BY <1>2, <1>6, <2>1, CutGrows
      <3> QED BY <1>6, <3>1
    <2>3. ASSUME NEW j \in 1..k PROVE Ints!Cut(num)[k - j] % 10 = back[j]
      <3>1. k - j \in 0..(k - 1) /\ k - 1 - (k - j) = j - 1
        BY <1>2
      <3> QED BY <1>8, <1>10, <3>1
    <2> QED BY <1>2, <1>3, <2>1, <2>2, <2>3, DigitsRule DEF w
  <1>11. (CHOOSE num : Is(num)) = w
    <2> HIDE DEF Is
    <2> QED BY <1>9, <1>10
  <1> QED BY <1>0, <1>1, <1>3, <1>11 DEF w, back, ds, k, n

\* A number within the limits has no more digits than the greatest.
LEMMA NoLonger ==
  ASSUME NEW n \in Nat, NEW m \in Nat, m >= 1, n <= m
  PROVE  Ints!NumDigits(n) <= Ints!NumDigits(m)
  <1>1. /\ Ints!NumDigits(n) \in Nat \ {0} /\ Ints!DigitsOf(n) \in Numeral(Ints!NumDigits(n))
        /\ Ints!ValueOf(Ints!DigitsOf(n)) = n /\ (n >= 1 => Ints!DigitsOf(n)[1] >= 1)
    BY DigitsAre
  <1>2. Ints!NumDigits(m) \in Nat \ {0} /\ Len(Ints!DigitsOf(m)) = Ints!NumDigits(m)
    BY DigitsAre
  <1>3. CASE n = 0
    <2>1. \A i \in Nat : Ints!Cut(0)[i] = 0
      <3>1. Ints!Cut(0)[0] = 0
        BY CutIs
      <3> QED BY <3>1, CutStays
    <2>2. \A j \in 1..(Ints!NumDigits(0) - 1) : Ints!Cut(0)[j] # 0
      BY NumDigitsIs
    <2>3. ~(1 \in 1..(Ints!NumDigits(0) - 1))
      BY <2>1, <2>2
    <2> QED BY <1>1, <1>2, <1>3, <2>3
  <1>4. CASE n >= 1
    <2> DEFINE k == Ints!NumDigits(n)
               ds == Ints!DigitsOf(n)
    <2>1. k \in Nat /\ ds \in Numeral(k) /\ ds[1] >= 1 /\ Ints!ValueOf(ds) = n
      BY <1>1, <1>4
    <2> HIDE DEF k, ds
    <2>2. k > Len(Ints!DigitsOf(m)) => Ints!ValueOf(ds) > m
      BY <2>1, BigIs
    <2>3. ~(k > Ints!NumDigits(m))
      BY <1>2, <2>1, <2>2
    <2> QED BY <1>2, <2>1, <2>3 DEF k
  <1> QED BY <1>3, <1>4

LEMMA ReverseIs ==
  ASSUME Ints!ConversionsAssumption, NEW x \in Ints!IntMin..IntMax
  PROVE  Ints!reverse(x) = IF Backwards(x) > IntMax THEN 0 ELSE IF x < 0 THEN -Backwards(x) ELSE Backwards(x)
  <1> DEFINE n == Ints!Abs(x)
             k == Ints!NumDigits(n)
             ds == Ints!DigitsOf(n)
             back == Ints!Reverse(ds)
             w == Ints!ValueOf(back)
             most == Ints!Most
             least == Ints!Least
             m == Ints!NumDigits(IntMax)
  <1>a. /\ IntMax \in Nat /\ IntMax >= 1 /\ IntMax + 1 \in Nat /\ IntMax + 1 >= 1 /\ Len(most) = Len(least)
        /\ Ints!ValueOf(Ints!Reverse(least)) > IntMax
    BY DEF Ints!ConversionsAssumption
  <1>b. x \in Int /\ n \in Nat /\ n <= IntMax + 1 /\ (x # Ints!IntMin => n <= IntMax)
        /\ (x = Ints!IntMin => n = IntMax + 1)
    BY <1>a DEF Ints!IntMin, Ints!Abs
  <1>1. Backwards(x) = w /\ back \in Numeral(k)
    BY <1>b, BackwardsIs
  <1>r. Ints!reverse(x) = IF x = Ints!IntMin THEN 0
                          ELSE IF Len(back) = Len(most) /\ Ints!Above(back, least) THEN 0
                          ELSE IF x < 0 THEN -w ELSE w
    BY DEF Ints!reverse
  <1>l. x = Ints!IntMin => back = Ints!Reverse(least)
    <2> HIDE DEF n
    <2> QED BY <1>b DEF Ints!Least
  <1> HIDE DEF n
  <1>2. k \in Nat \ {0} /\ ds \in Numeral(k) /\ Ints!ValueOf(ds) = n
    BY <1>b, DigitsAre
  <1>3. /\ m \in Nat \ {0} /\ most \in Numeral(m) /\ Len(most) = m /\ Ints!ValueOf(most) = IntMax
        /\ most[1] >= 1
    BY <1>a, DigitsAre DEF Ints!Most
  <1>4. least \in Numeral(m) /\ Ints!ValueOf(least) = IntMax + 1
    BY <1>a, <1>3, DigitsAre DEF Ints!Least
  <1> HIDE DEF k, ds, most, least, m
  <1>5. Len(back) = k /\ Ints!Reverse(back) = ds
    BY <1>2, ReversedDigits
  <1> HIDE DEF back
  <1>6. w \in Nat
    BY <1>1, <1>2, CutOf
  <1>7. CASE x = Ints!IntMin
    BY <1>1, <1>7, <1>a, <1>l, <1>r
  <1>8. CASE x # Ints!IntMin
    <2>1. k <= m
      BY <1>8, <1>a, <1>b, NoLonger DEF k, m
    <2>2. ASSUME k < m PROVE w <= IntMax
      <3>1. Ints!ValueOf(most) > w
        BY <1>1, <1>2, <1>3, <2>2, LongerIsMore
      <3> HIDE DEF w
      <3> QED BY <1>3, <1>6, <1>a, <3>1
    <2>3. ASSUME k = m PROVE Ints!Above(back, least) <=> w > IntMax
      <3>1. Ints!Above(back, least) <=> w > Ints!ValueOf(least)
        BY <1>1, <1>2, <1>4, <2>3, AboveIs
      <3>2. w # IntMax + 1
        <4>1. SUFFICES ASSUME w = IntMax + 1 PROVE FALSE
          OBVIOUS
        <4>2. back = least
          BY <1>1, <1>2, <1>4, <2>3, <4>1, AboveIs
        <4>3. ds = Ints!Reverse(least)
          BY <1>5, <4>2
        <4>4. n > IntMax
          BY <1>2, <1>a, <4>3
        <4> QED BY <1>8, <1>a, <1>b, <4>4
      <3> HIDE DEF w
      <3> QED BY <1>4, <1>6, <1>a, <3>1, <3>2
    <2>4. (Len(back) = Len(most) /\ Ints!Above(back, least)) <=> w > IntMax
      <3>1. k < m \/ k = m
        BY <1>2, <1>3, <2>1
      <3>2. ASSUME k < m PROVE k # m /\ ~(w > IntMax)
        <4> HIDE DEF w
        <4> QED BY <1>2, <1>3, <1>6, <1>a, <2>2, <3>2
      <3> QED BY <1>3, <1>5, <2>3, <3>1, <3>2
    <2> HIDE DEF w
    <2> QED BY <1>1, <1>8, <1>r, <2>4
  <1> QED BY <1>7, <1>8

\* What the loop that looks for the sign and the digits knows.
Scans == [number : Nat, len : Nat, sign : Nat, zeroes : BOOLEAN, stop : {"no", "zero", "end"}]
Knows(st, number, digits, sign, stop) ==
  /\ st \in Scans
  /\ st.number = number /\ st.len = digits /\ st.sign = sign /\ st.stop = stop

LEMMA LookIn ==
  ASSUME NEW st \in Scans, NEW i \in Nat, NEW c
  PROVE  Ints!Look(st, i, c) \in Scans
  <1>1. Ints!Before(st, i, c) \in Scans
    <2>1. CASE Ints!IsNumber(c)
      BY <2>1 DEF Ints!Before, Scans
    <2>2. CASE ~Ints!IsNumber(c)
      BY <2>2 DEF Ints!Before, Scans
    <2> QED BY <2>1, <2>2
  <1> QED BY <1>1 DEF Ints!Look, Scans

\* The loop is made of a step per character.
ScanSteps(s, n, x) ==
  \E g \in [0..n -> Scans] :
    g[0] = Ints!Begun /\ x = g[n] /\ \A i \in 1..n : g[i] = Ints!Look(g[i - 1], i, s[i])

LEMMA ScannedIs ==
  ASSUME NEW n \in Nat, NEW s \in [1..n -> Nat]
  PROVE  ScanSteps(s, n, Ints!Scanned(s))
  <1> DEFINE h == [q \in (1..n) \X Scans |-> Ints!Look(q[2], q[1], s[q[1]])]
  <1>1. h \in [(1..n) \X Scans -> Scans]
    <2>1. \A q \in (1..n) \X Scans : q[1] \in Nat /\ q[2] \in Scans
      OBVIOUS
    <2>2. \A q \in (1..n) \X Scans : Ints!Look(q[2], q[1], s[q[1]]) \in Scans
      BY <2>1, LookIn
    <2> QED BY <2>2
  <1>2. \A i \in 1..n, b \in Scans : h[<<i, b>>] = Ints!Look(b, i, s[i])
    OBVIOUS
  <1> HIDE DEF h
  <1>b. Ints!Begun \in Scans
    BY DEF Ints!Begun, Scans
  <1>3. PICK it \in [SUBSET (1..n) -> Scans] :
          \A t \in SUBSET (1..n) : it[t] = IF t = {} THEN Ints!Begun ELSE h[<<Max(t), it[t \ {Max(t)}]>>]
    <2>1. CanFold(n, Scans, Ints!Begun, h)
      BY <1>1, <1>b, FoldExists
    <2> QED BY <2>1 DEF CanFold
  <1> DEFINE e == [i \in 1..n |-> i]
             Is(i) ==
               i = [t \in SUBSET (1..n) |->
                      IF t = {} THEN Ints!Begun
                      ELSE Ints!Look(i[t \ {Ints!Max(t)}], e[Ints!Max(t)], s[e[Ints!Max(t)]])]
             c == CHOOSE i : Is(i)
  <1>m. \A t : Ints!Max(t) = Max(t)
    BY DEF Max, Ints!Max
  <1>e. \A t \in SUBSET (1..n) : t # {} => Max(t) \in 1..n /\ e[Max(t)] = Max(t)
    <2>1. \A t \in SUBSET (1..n) : t # {} => Max(t) \in 1..n
      BY LastPlace
    <2> QED BY <2>1
  <1>7. Ints!Scanned(s) = c[1..n]
    <2>1. DOMAIN s = 1..n /\ DOMAIN e = 1..n
      OBVIOUS
    <2> QED BY <2>1 DEF Ints!Scanned, Ints!FoldLeft, Ints!MapThenFoldSet
  <1> HIDE DEF e
  <1>5. Is(it)
    <2>1. ASSUME NEW t \in SUBSET (1..n), t # {}
          PROVE  h[<<Max(t), it[t \ {Max(t)}]>>]
                 = Ints!Look(it[t \ {Max(t)}], e[Max(t)], s[e[Max(t)]])
      <3>1. Max(t) \in 1..n /\ t \ {Max(t)} \in SUBSET (1..n) /\ e[Max(t)] = Max(t)
        BY <1>e, <2>1
      <3>2. it[t \ {Max(t)}] \in Scans
        BY <1>3, <3>1
      <3>3. h[<<Max(t), it[t \ {Max(t)}]>>] = Ints!Look(it[t \ {Max(t)}], Max(t), s[Max(t)])
        BY <1>2, <3>1, <3>2
      <3> QED BY <3>1, <3>3
    <2> QED BY <1>3, <1>m, <2>1
  <1>6. Is(c)
    <2> HIDE DEF Is
    <2> QED BY <1>5
  <1> HIDE DEF c
  <1>8. c[{}] = Ints!Begun
    BY <1>6
  <1>9. \A t \in SUBSET (1..n) :
          t # {} /\ c[t \ {Max(t)}] \in Scans => c[t] = h[<<Max(t), c[t \ {Max(t)}]>>]
    <2> SUFFICES ASSUME NEW t \in SUBSET (1..n), t # {}, c[t \ {Max(t)}] \in Scans
                 PROVE  c[t] = h[<<Max(t), c[t \ {Max(t)}]>>]
      OBVIOUS
    <2>1. Max(t) \in 1..n /\ e[Max(t)] = Max(t)
      BY <1>e
    <2>2. c[t] = Ints!Look(c[t \ {Max(t)}], e[Max(t)], s[e[Max(t)]])
      BY <1>6, <1>m
    <2>3. c[t] = Ints!Look(c[t \ {Max(t)}], Max(t), s[Max(t)])
      BY <2>1, <2>2
    <2>4. h[<<Max(t), c[t \ {Max(t)}]>>] = Ints!Look(c[t \ {Max(t)}], Max(t), s[Max(t)])
      BY <1>2, <2>1
    <2> QED BY <2>3, <2>4
  <1>10. Stepped(n, Scans, Ints!Begun, h, c[1..n])
    BY <1>b, <1>1, <1>8, <1>9, FoldStepped
  <1>11. PICK g \in [0..n -> Scans] :
           g[0] = Ints!Begun /\ c[1..n] = g[n] /\ \A i \in 1..n : g[i] = h[<<i, g[i - 1]>>]
    BY <1>10 DEF Stepped
  <1>12. \A i \in 1..n : g[i] = Ints!Look(g[i - 1], i, s[i])
    <2>1. \A i \in 1..n : i - 1 \in 0..n
      OBVIOUS
    <2>2. \A i \in 1..n : g[i - 1] \in Scans
      BY <1>11, <2>1
    <2> QED BY <1>2, <1>11, <2>2
  <1> QED BY <1>7, <1>11, <1>12 DEF ScanSteps

\* One step, from what the loop knows before.
LEMMA BeforeIs ==
  ASSUME NEW st \in Scans, NEW sg \in Nat, NEW q \in Nat, NEW c \in Nat, Knows(st, 0, 0, sg, "no")
  PROVE  /\ c = 32 /\ sg = 0 /\ ~st.zeroes => Ints!Look(st, q, c) = st
         /\ Ints!IsSign(c) /\ sg = 0 /\ ~st.zeroes =>
              Knows(Ints!Look(st, q, c), 0, 0, q, "no") /\ ~Ints!Look(st, q, c).zeroes
         /\ c = 48 => Knows(Ints!Look(st, q, c), 0, 0, sg, "no") /\ Ints!Look(st, q, c).zeroes
         /\ Ints!IsNumber(c) /\ c # 48 => Knows(Ints!Look(st, q, c), q, 1, sg, "no")
         /\ ~Ints!IsNumber(c) /\ (st.zeroes \/ sg # 0 \/ (~Ints!IsSign(c) /\ c # 32)) =>
              Ints!Look(st, q, c).stop = "zero"
  <1>0. Ints!Look(st, q, c) \in Scans
    BY LookIn
  <1>1. Ints!Look(st, q, c) = Ints!Before(st, q, c) /\ st.sign = sg
        /\ st.number = 0 /\ st.len = 0 /\ st.stop = "no"
    BY DEF Knows, Ints!Look
  <1>2. /\ c = 32 => ~Ints!IsNumber(c) /\ ~Ints!IsSign(c)
        /\ c = 48 => Ints!IsNumber(c)
        /\ Ints!IsSign(c) => ~Ints!IsNumber(c)
    BY DEF Ints!IsNumber, Ints!IsSign, Ints!Plus, Ints!Minus
  <1>3. ASSUME c = 32, sg = 0, ~st.zeroes PROVE Ints!Look(st, q, c) = st
    BY <1>1, <1>2, <1>3 DEF Ints!Before, Ints!Space
  <1>4. ASSUME Ints!IsSign(c), sg = 0, ~st.zeroes
        PROVE  Knows(Ints!Look(st, q, c), 0, 0, q, "no") /\ ~Ints!Look(st, q, c).zeroes
    <2>1. Ints!Look(st, q, c) = [st EXCEPT !.sign = q]
      BY <1>1, <1>2, <1>4 DEF Ints!Before
    <2> QED BY <1>0, <1>1, <1>4, <2>1 DEF Knows, Scans
  <1>5. ASSUME Ints!IsNumber(c)
        PROVE  /\ Knows(Ints!Look(st, q, c), IF c = 48 THEN 0 ELSE q, IF c = 48 THEN 0 ELSE 1, sg, "no")
               /\ Ints!Look(st, q, c).zeroes
    <2> DEFINE x == IF c = 48 THEN 0 ELSE q
               y == IF c = 48 THEN 0 ELSE 1
    <2>1. Ints!Look(st, q, c) = [st EXCEPT !.zeroes = TRUE, !.number = x, !.len = y]
      BY <1>1, <1>2, <1>5 DEF Ints!Before
    <2> HIDE DEF x, y
    <2>2. Knows(Ints!Look(st, q, c), x, y, sg, "no") /\ Ints!Look(st, q, c).zeroes
      BY <1>0, <1>1, <2>1 DEF Knows, Scans
    <2> QED BY <2>2 DEF x, y
  <1>6. ASSUME ~Ints!IsNumber(c), st.zeroes \/ sg # 0 \/ (~Ints!IsSign(c) /\ c # 32)
        PROVE  Ints!Look(st, q, c).stop = "zero"
    <2>1. Ints!Look(st, q, c) = [st EXCEPT !.stop = "zero"]
      <3>1. CASE Ints!IsSign(c) /\ ~st.zeroes
        BY <1>1, <1>6, <3>1 DEF Ints!Before
      <3>2. CASE ~(Ints!IsSign(c) /\ ~st.zeroes)
        BY <1>1, <1>6, <3>2 DEF Ints!Before, Ints!Space
      <3> QED BY <3>1, <3>2
    <2> QED BY <2>1 DEF Scans
  <1> QED BY <1>2, <1>3, <1>4, <1>5, <1>6

LEMMA InNumberIs ==
  ASSUME NEW st \in Scans, NEW sg \in Nat, NEW q \in Nat, NEW c,
         NEW z \in Nat \ {0}, NEW k \in Nat, Knows(st, z, k, sg, "no")
  PROVE  /\ Ints!IsNumber(c) => Knows(Ints!Look(st, q, c), z, k + 1, sg, "no")
         /\ ~Ints!IsNumber(c) => Knows(Ints!Look(st, q, c), z, k, sg, "end")
  BY DEF Knows, Ints!Look, Scans

LEMMA StoppedIs ==
  ASSUME NEW st \in Scans, st.stop # "no", NEW q, NEW c
  PROVE  Ints!Look(st, q, c) = st
  BY DEF Ints!Look

\* The places of a text: what is no space, what follows a sign, what is no digit,
\* and of the digits what is no zero.
Places(s, n, a, b, e, z) ==
  /\ a \in 1..(n + 1) /\ (\A j \in 1..(a - 1) : s[j] = 32) /\ (a <= n => s[a] # 32)
  /\ b = IF a <= n /\ Ints!IsSign(s[a]) THEN a + 1 ELSE a
  /\ e \in b..(n + 1) /\ (\A j \in b..(e - 1) : Ints!IsNumber(s[j]))
  /\ e <= n => ~Ints!IsNumber(s[e])
  /\ z \in b..e /\ (\A j \in b..(z - 1) : s[j] = 48) /\ (z < e => s[z] # 48)

SignPlace(a, b) == IF b > a THEN a ELSE 0

\* What the loop knows after i characters.
KnowsAt(st, i, a, b, e, z) ==
  /\ i <= b - 1 =>
       Knows(st, 0, 0, IF i = b - 1 THEN SignPlace(a, b) ELSE 0, "no") /\ ~st.zeroes
  /\ b <= i /\ i < z => Knows(st, 0, 0, SignPlace(a, b), "no") /\ st.zeroes
  /\ z <= i /\ i < e => Knows(st, z, (i - z) + 1, SignPlace(a, b), "no")
  /\ e <= i /\ z < e => Knows(st, z, e - z, SignPlace(a, b), "end")
  /\ e <= i /\ z = e => st.stop = "zero"

LEMMA KnowsNext ==
  ASSUME NEW n \in Nat, NEW s \in [1..n -> Nat], NEW a, NEW b, NEW e, NEW z,
         Places(s, n, a, b, e, z), NEW q \in 1..n, NEW st \in Scans,
         KnowsAt(st, q - 1, a, b, e, z)
  PROVE  KnowsAt(Ints!Look(st, q, s[q]), q, a, b, e, z)
  <1> DEFINE to == Ints!Look(st, q, s[q])
             sg == SignPlace(a, b)
  <1>1. /\ a \in Nat /\ b \in Nat /\ e \in Nat /\ z \in Nat /\ 1 <= a /\ a <= b /\ b <= a + 1
        /\ b <= z /\ z <= e /\ z # 0 /\ q \in Nat /\ q >= 1 /\ q - 1 \in Nat /\ s[q] \in Nat
        /\ sg \in Nat
    BY DEF Places, SignPlace
  <1>2. /\ q < a => s[q] = 32
        /\ q = a => s[q] # 32 /\ (b > a <=> Ints!IsSign(s[q]))
        /\ b <= q /\ q < e => Ints!IsNumber(s[q])
        /\ q = e => ~Ints!IsNumber(s[q])
        /\ b <= q /\ q < z => s[q] = 48
        /\ q = z /\ z < e => s[q] # 48
    BY <1>1 DEF Places
  <1>3. sg = IF b > a THEN a ELSE 0
    BY DEF SignPlace
  <1> HIDE DEF sg, to
  <1>4. /\ q - 1 <= b - 1 => Knows(st, 0, 0, IF q - 1 = b - 1 THEN sg ELSE 0, "no") /\ ~st.zeroes
        /\ b <= q - 1 /\ q - 1 < z => Knows(st, 0, 0, sg, "no") /\ st.zeroes
        /\ z <= q - 1 /\ q - 1 < e => Knows(st, z, ((q - 1) - z) + 1, sg, "no")
        /\ e <= q - 1 /\ z < e => Knows(st, z, e - z, sg, "end")
        /\ e <= q - 1 /\ z = e => st.stop = "zero"
    BY DEF KnowsAt, sg
  <1>5. ASSUME q <= b - 1
        PROVE  Knows(to, 0, 0, IF q = b - 1 THEN sg ELSE 0, "no") /\ ~to.zeroes
    <2>1. Knows(st, 0, 0, 0, "no") /\ ~st.zeroes
      <3>1. q - 1 <= b - 1 /\ q - 1 # b - 1
        BY <1>1, <1>5
      <3> QED BY <1>4, <3>1
    <2>2. CASE q < a
      <3>1. Knows(to, 0, 0, 0, "no") /\ ~to.zeroes
        BY <1>1, <1>2, <2>1, <2>2, BeforeIs DEF to
      <3>2. q = b - 1 => sg = 0
        BY <1>1, <1>3, <2>2
      <3> QED BY <3>1, <3>2
    <2>3. CASE q >= a
      <3>1. q = a /\ b = a + 1 /\ q = b - 1 /\ sg = q
        BY <1>1, <1>3, <1>5, <2>3
      <3>2. Ints!IsSign(s[q])
        BY <1>1, <1>2, <3>1
      <3>3. Knows(to, 0, 0, q, "no") /\ ~to.zeroes
        BY <1>1, <2>1, <3>2, BeforeIs DEF to
      <3> QED BY <3>1, <3>3
    <2>4. q < a \/ q >= a
      <3>1. q \in Nat /\ a \in Nat
        BY <1>1
      <3> QED BY <3>1
    <2> QED BY <2>2, <2>3, <2>4
  <1>6. ASSUME b <= q, q <= z
        PROVE  Knows(st, 0, 0, sg, "no") /\ (st.zeroes \/ q = b)
    <2>1. CASE q = b
      <3>1. q - 1 <= b - 1 /\ q - 1 = b - 1
        BY <1>1, <2>1
      <3> QED BY <1>4, <2>1, <3>1
    <2>2. CASE q # b
      <3>1. b <= q - 1 /\ q - 1 < z
        BY <1>1, <1>6, <2>2
      <3> QED BY <1>4, <3>1
    <2> QED BY <2>1, <2>2
  <1>7. ASSUME b <= q, q < z PROVE Knows(to, 0, 0, sg, "no") /\ to.zeroes
    <2>1. Knows(st, 0, 0, sg, "no")
      BY <1>1, <1>6, <1>7
    <2>2. s[q] = 48
      BY <1>2, <1>7
    <2> QED BY <1>1, <2>1, <2>2, BeforeIs DEF to
  <1>8. ASSUME z <= q, q < e PROVE Knows(to, z, (q - z) + 1, sg, "no")
    <2>0. Ints!IsNumber(s[q])
      BY <1>1, <1>2, <1>8
    <2>1. CASE q = z
      <3>1. Knows(st, 0, 0, sg, "no")
        BY <1>1, <1>6, <2>1
      <3>2. s[q] # 48
        BY <1>2, <1>8, <2>1
      <3>3. Knows(to, q, 1, sg, "no")
        BY <1>1, <2>0, <3>1, <3>2, BeforeIs DEF to
      <3>4. (q - z) + 1 = 1
        BY <1>1, <2>1
      <3> QED BY <2>1, <3>3, <3>4
    <2>2. CASE q # z
      <3> DEFINE k == ((q - 1) - z) + 1
      <3>1. k \in Nat /\ k + 1 = (q - z) + 1 /\ z \in Nat \ {0}
        BY <1>1, <1>8, <2>2
      <3>0. z <= q - 1 /\ q - 1 < e
        BY <1>1, <1>8, <2>2
      <3>2. Knows(st, z, k, sg, "no")
        BY <1>4, <3>0
      <3> HIDE DEF k
      <3>3. Knows(to, z, k + 1, sg, "no")
        BY <1>1, <2>0, <3>1, <3>2, InNumberIs DEF to
      <3> QED BY <3>1, <3>3
    <2> QED BY <2>1, <2>2
  <1>9. ASSUME e <= q, z < e PROVE Knows(to, z, e - z, sg, "end")
    <2>1. CASE q = e
      <3> DEFINE k == e - z
      <3>1. k \in Nat /\ ((q - 1) - z) + 1 = k /\ z \in Nat \ {0}
        BY <1>1, <1>9, <2>1
      <3>0. z <= q - 1 /\ q - 1 < e
        BY <1>1, <1>9, <2>1
      <3>2. Knows(st, z, k, sg, "no")
        BY <1>4, <3>0, <3>1
      <3> HIDE DEF k
      <3>3. ~Ints!IsNumber(s[q])
        BY <1>2, <2>1
      <3>4. Knows(to, z, k, sg, "end")
        BY <1>1, <3>1, <3>2, <3>3, InNumberIs DEF to
      <3> QED BY <3>4 DEF k
    <2>2. CASE q # e
      <3>1. Knows(st, z, e - z, sg, "end")
        <4>1. e <= q - 1
          BY <1>1, <1>9, <2>2
        <4> QED BY <1>4, <1>9, <4>1
      <3>2. to = st
        BY <3>1, StoppedIs DEF to, Knows
      <3> QED BY <3>1, <3>2
    <2> QED BY <2>1, <2>2
  <1>10. ASSUME e <= q, z = e PROVE to.stop = "zero"
    <2>1. CASE q = e
      <3>1. Knows(st, 0, 0, sg, "no") /\ (st.zeroes \/ q = b)
        BY <1>1, <1>6, <1>10, <2>1
      <3>2. ~Ints!IsNumber(s[q])
        BY <1>2, <2>1
      <3>3. st.zeroes \/ sg # 0 \/ (~Ints!IsSign(s[q]) /\ s[q] # 32)
        <4>1. q = b /\ sg = 0 => q = a
          BY <1>1, <1>3
        <4>2. q = b /\ q = a => ~Ints!IsSign(s[q]) /\ s[q] # 32
          BY <1>1, <1>2
        <4> QED BY <3>1, <4>1, <4>2
      <3> QED BY <1>1, <3>1, <3>2, <3>3, BeforeIs DEF to
    <2>2. CASE q # e
      <3>1. st.stop = "zero"
        BY <1>1, <1>4, <1>10, <2>2
      <3>2. to = st
        BY <3>1, StoppedIs DEF to
      <3> QED BY <3>1, <3>2
    <2> QED BY <2>1, <2>2
  <1> QED BY <1>5, <1>7, <1>8, <1>9, <1>10 DEF KnowsAt, sg, to

LEMMA ScanKnows ==
  ASSUME NEW n \in Nat, NEW s \in [1..n -> Nat], NEW a, NEW b, NEW e, NEW z,
         Places(s, n, a, b, e, z)
  PROVE  KnowsAt(Ints!Scanned(s), n, a, b, e, z)
  <1>1. PICK g \in [0..n -> Scans] :
          g[0] = Ints!Begun /\ Ints!Scanned(s) = g[n] /\ \A i \in 1..n : g[i] = Ints!Look(g[i - 1], i, s[i])
    BY ScannedIs DEF ScanSteps
  <1> DEFINE T == {i \in Nat : i <= n => KnowsAt(g[i], i, a, b, e, z)}
  <1>2. \A i \in Nat : i \in T
    <2>1. 0 \in T
      <3>1. /\ a \in Nat /\ b \in Nat /\ e \in Nat /\ z \in Nat /\ 1 <= a /\ a <= b /\ b <= a + 1
            /\ b <= z /\ z <= e
        BY DEF Places
      <3>2. 0 = b - 1 => SignPlace(a, b) = 0
        BY <3>1 DEF SignPlace
      <3>3. Knows(Ints!Begun, 0, 0, 0, "no") /\ ~Ints!Begun.zeroes
        BY DEF Knows, Ints!Begun, Scans
      <3>4. 0 <= b - 1 /\ ~(b <= 0) /\ ~(z <= 0) /\ ~(e <= 0)
        BY <3>1
      <3>5. KnowsAt(Ints!Begun, 0, a, b, e, z)
        BY <3>2, <3>3, <3>4 DEF KnowsAt
      <3> QED BY <1>1, <3>5
    <2>2. ASSUME NEW i \in Nat, i \in T PROVE i + 1 \in T
      <3>1. SUFFICES ASSUME i + 1 <= n PROVE KnowsAt(g[i + 1], i + 1, a, b, e, z)
        OBVIOUS
      <3> DEFINE q == i + 1
      <3>2. q \in 1..n /\ q - 1 = i /\ i \in 0..n
        BY <3>1
      <3> HIDE DEF q
      <3>3. g[i] \in Scans /\ KnowsAt(g[i], q - 1, a, b, e, z) /\ g[q] = Ints!Look(g[i], q, s[q])
        BY <1>1, <2>2, <3>2
      <3>4. KnowsAt(Ints!Look(g[i], q, s[q]), q, a, b, e, z)
        BY <3>2, <3>3, KnowsNext
      <3> QED BY <3>3, <3>4 DEF q
    <2> HIDE DEF T
    <2> QED BY <2>1, <2>2, EveryNumber
  <1> QED BY <1>1, <1>2

\* The first place from one on that is not among some.
LEMMA FirstOutside ==
  ASSUME NEW n \in Nat, NEW from \in 1..(n + 1), NEW T
  PROVE  \E i \in from..(n + 1) : (\A j \in from..(i - 1) : j \in T) /\ (i <= n => i \notin T)
  <1> DEFINE U == {i \in from..(n + 1) : i = n + 1 \/ i \notin T}
  <1>1. U \in SUBSET Nat /\ U # {}
    <2>1. n + 1 \in U
      OBVIOUS
    <2> QED BY <2>1
  <1>2. PICK i \in U : \A y \in U : i <= y
    <2> HIDE DEF U
    <2> QED BY <1>1, LeastOf
  <1>3. i \in from..(n + 1) /\ (i <= n => i \notin T)
    BY <1>2
  <1>4. ASSUME NEW j \in from..(i - 1) PROVE j \in T
    <2>1. j \in from..(n + 1) /\ ~(i <= j) /\ j # n + 1
      BY <1>3
    <2> QED BY <1>2, <2>1
  <1> QED BY <1>3, <1>4

\* What atoi reads, place by place.
SpacesEnd(s) ==
  CHOOSE i \in 1..(Len(s) + 1) :
    (\A j \in 1..(i - 1) : s[j] = Ints!Space) /\ (i <= Len(s) => ~(s[i] = Ints!Space))
DigitsStart(s) ==
  IF SpacesEnd(s) <= Len(s) /\ Ints!IsSign(s[SpacesEnd(s)]) THEN SpacesEnd(s) + 1 ELSE SpacesEnd(s)
DigitsEnd(s) ==
  CHOOSE i \in DigitsStart(s)..(Len(s) + 1) :
    (\A j \in DigitsStart(s)..(i - 1) : Ints!IsNumber(s[j])) /\ (i <= Len(s) => ~Ints!IsNumber(s[i]))
DigitsFrom(s, z, e) == [i \in 1..(e - z) |-> s[z + i - 1] - 48]
Nearest(num) == IF num > IntMax THEN IntMax ELSE IF num < Ints!IntMin THEN Ints!IntMin ELSE num

LEMMA AtoiValueIs ==
  ASSUME NEW s
  PROVE  Ints!AtoiValue(s)
         = Nearest(IF DigitsStart(s) > SpacesEnd(s) /\ s[SpacesEnd(s)] # Ints!Plus
                   THEN -Ints!ValueOf(DigitsFrom(s, DigitsStart(s), DigitsEnd(s)))
                   ELSE Ints!ValueOf(DigitsFrom(s, DigitsStart(s), DigitsEnd(s))))
  BY DEF Ints!AtoiValue, Ints!FirstNot, SpacesEnd, DigitsStart, DigitsEnd, DigitsFrom, Nearest

LEMMA TextPlacesAre ==
  ASSUME NEW n \in Nat, NEW s \in [1..n -> Nat]
  PROVE  \E z : Places(s, n, SpacesEnd(s), DigitsStart(s), DigitsEnd(s), z)
  <1> DEFINE a == SpacesEnd(s)
             b == DigitsStart(s)
             e == DigitsEnd(s)
  <1>n. Len(s) = n
    OBVIOUS
  <1>1. a \in 1..(n + 1) /\ (\A j \in 1..(a - 1) : s[j] = 32) /\ (a <= n => s[a] # 32)
    <2> DEFINE Is(i) == i \in 1..(n + 1) /\ (\A j \in 1..(i - 1) : s[j] = 32) /\ (i <= n => ~(s[i] = 32))
               T == {j \in 1..n : s[j] = 32}
    <2>1. \E i \in 1..(n + 1) : (\A j \in 1..(i - 1) : j \in T) /\ (i <= n => i \notin T)
      <3> HIDE DEF T
      <3>1. 1 \in 1..(n + 1)
        OBVIOUS
      <3> QED BY <3>1, FirstOutside
    <2>2. \E i : Is(i)
      <3>1. PICK i \in 1..(n + 1) : (\A j \in 1..(i - 1) : j \in T) /\ (i <= n => i \notin T)
        BY <2>1
      <3>2. \A j \in 1..(i - 1) : s[j] = 32
        BY <3>1
      <3>3. i <= n => ~(s[i] = 32)
        <4>1. i <= n => i \in 1..n
          OBVIOUS
        <4> QED BY <3>1, <4>1
      <3> QED BY <3>2, <3>3
    <2>3. a = CHOOSE i : Is(i)
      BY <1>n DEF SpacesEnd, Ints!Space
    <2>4. Is(CHOOSE i : Is(i))
      <3> HIDE DEF Is
      <3> QED BY <2>2
    <2> QED BY <2>3, <2>4
  <1>2. b = IF a <= n /\ Ints!IsSign(s[a]) THEN a + 1 ELSE a
    BY <1>n DEF DigitsStart
  <1> HIDE DEF a
  <1>3. b \in 1..(n + 1)
    BY <1>1, <1>2
  <1>4. /\ e \in b..(n + 1) /\ (\A j \in b..(e - 1) : Ints!IsNumber(s[j]))
        /\ e <= n => ~Ints!IsNumber(s[e])
    <2> DEFINE Is(i) == /\ i \in b..(n + 1) /\ (\A j \in b..(i - 1) : Ints!IsNumber(s[j]))
                        /\ (i <= n => ~Ints!IsNumber(s[i]))
               T == {j \in 1..n : Ints!IsNumber(s[j])}
    <2>3. e = CHOOSE i : Is(i)
      BY <1>n DEF DigitsEnd
    <2> HIDE DEF b, e
    <2>1. \E i \in b..(n + 1) : (\A j \in b..(i - 1) : j \in T) /\ (i <= n => i \notin T)
      <3> HIDE DEF T
      <3> QED BY <1>3, FirstOutside
    <2>2. \E i : Is(i)
      <3>1. PICK i \in b..(n + 1) : (\A j \in b..(i - 1) : j \in T) /\ (i <= n => i \notin T)
        BY <2>1
      <3>2. \A j \in b..(i - 1) : Ints!IsNumber(s[j])
        BY <3>1
      <3>3. i <= n => ~Ints!IsNumber(s[i])
        <4>1. i <= n => i \in 1..n
          BY <1>3
        <4> QED BY <3>1, <4>1
      <3> QED BY <3>2, <3>3
    <2>4. Is(CHOOSE i : Is(i))
      <3> HIDE DEF Is
      <3> QED BY <2>2
    <2> QED BY <2>3, <2>4
  <1> HIDE DEF b, e
  <1>5. PICK z \in b..e : (\A j \in b..(z - 1) : s[j] = 48) /\ (z < e => s[z] # 48)
    <2> DEFINE T == {j \in b..(e - 1) : s[j] = 48}
               m == e - 1
    <2>1. m \in Nat /\ b \in 1..(m + 1) /\ m + 1 = e
      BY <1>3, <1>4
    <2>2. \E i \in b..(m + 1) : (\A j \in b..(i - 1) : j \in T) /\ (i <= m => i \notin T)
      <3> HIDE DEF T, m
      <3> QED BY <2>1, FirstOutside
    <2>3. PICK i \in b..e : (\A j \in b..(i - 1) : j \in T) /\ (i <= m => i \notin T)
      BY <2>1, <2>2
    <2>4. \A j \in b..(i - 1) : s[j] = 48
      BY <2>3
    <2>5. i < e => s[i] # 48
      <3>1. i < e => i <= m /\ i \in b..(e - 1)
        BY <1>3, <1>4, <2>3
      <3> QED BY <2>3, <3>1
    <2> QED BY <2>4, <2>5
  <1>6. Places(s, n, a, b, e, z)
    BY <1>1, <1>2, <1>4, <1>5 DEF Places
  <1> QED BY <1>6 DEF a, b, e

\* Zeroes in front change no value.
LEMMA LeadingZeroes ==
  ASSUME NEW n \in Nat, NEW s \in [1..n -> Nat], NEW a, NEW b, NEW e, NEW z,
         Places(s, n, a, b, e, z)
  PROVE  /\ e - z \in Nat /\ DigitsFrom(s, z, e) \in Numeral(e - z)
         /\ e - z >= 1 => DigitsFrom(s, z, e)[1] >= 1
         /\ Ints!ValueOf(DigitsFrom(s, b, e)) = Ints!ValueOf(DigitsFrom(s, z, e))
  <1>1. /\ b \in Nat /\ e \in Nat /\ z \in Nat /\ 1 <= b /\ b <= z /\ z <= e /\ e <= n + 1
        /\ \A j \in b..(z - 1) : s[j] = 48
        /\ z < e => s[z] # 48
    BY DEF Places
  <1>2. \A j \in b..(e - 1) : s[j] - 48 \in Digit /\ s[j] \in Nat
    <2>1. \A j \in b..(e - 1) : Ints!IsNumber(s[j])
      BY DEF Places
    <2> QED BY <2>1 DEF Ints!IsNumber, Digit
  <1> DEFINE k == e - z
             m == e - b
             ds == DigitsFrom(s, z, e)
             all == DigitsFrom(s, b, e)
  <1>3. k \in Nat /\ m \in Nat /\ k <= m
    BY <1>1
  <1>4. \A i \in 1..k : z + i - 1 \in b..(e - 1)
    BY <1>1
  <1>5. \A i \in 1..m : b + i - 1 \in b..(e - 1)
    BY <1>1
  <1>6. ds \in Numeral(k) /\ \A i \in 1..k : ds[i] = s[z + i - 1] - 48
    BY <1>2, <1>4 DEF DigitsFrom, Numeral
  <1>7. all \in Numeral(m) /\ \A i \in 1..m : all[i] = s[b + i - 1] - 48
    BY <1>2, <1>5 DEF DigitsFrom, Numeral
  <1>8. ASSUME k >= 1 PROVE ds[1] >= 1
    <2>1. ds[1] = s[z + 1 - 1] - 48 /\ z + 1 - 1 = z /\ z < e /\ z \in b..(e - 1)
      BY <1>1, <1>3, <1>6, <1>8
    <2>2. s[z] # 48 /\ s[z] - 48 \in 0..9 /\ s[z] \in Nat
      BY <1>1, <1>2, <2>1 DEF Digit
    <2>3. ds[1] = s[z] - 48
      BY <2>1
    <2> QED BY <2>2, <2>3
  <1> HIDE DEF ds, all
  <1> DEFINE num == Ints!ValueOf(ds)
             c == Ints!Cut(num)
  <1>9. num \in Nat /\ c[k] = 0 /\ \A i \in 0..(k - 1) : c[i] % 10 = ds[k - i]
    BY <1>3, <1>6, CutOf
  <1> HIDE DEF num
  <1>10. \A i \in Nat : i >= k => c[i] = 0
    BY <1>3, <1>9, CutStays
  <1> HIDE DEF c
  <1>11. ASSUME NEW j \in 1..m PROVE c[m - j] % 10 = all[j]
    <2> DEFINE i == m - j
    <2>1. i \in 0..(m - 1) /\ b + j - 1 = e - i - 1 /\ i \in Nat
      BY <1>1
    <2>2. all[j] = s[e - i - 1] - 48
      BY <1>7, <2>1
    <2> HIDE DEF i
    <2>3. CASE i < k
      <3>1. i \in 0..(k - 1) /\ k - i \in 1..k /\ z + (k - i) - 1 = e - i - 1
        BY <1>1, <1>3, <2>1, <2>3
      <3>2. ds[k - i] = s[e - i - 1] - 48
        BY <1>6, <3>1
      <3>3. c[i] % 10 = ds[k - i]
        BY <1>9, <3>1
      <3> QED BY <2>2, <3>2, <3>3 DEF i
    <2>4. CASE i >= k
      <3>1. c[i] = 0
        BY <1>10, <2>1, <2>4
      <3>2. e - i - 1 \in b..(z - 1)
        BY <1>1, <2>1, <2>4
      <3>3. s[e - i - 1] = 48
        BY <1>1, <3>2
      <3>4. all[j] = 0 /\ 0 % 10 = 0
        BY <2>2, <3>3
      <3> QED BY <3>1, <3>4 DEF i
    <2> QED BY <1>3, <2>1, <2>3, <2>4
  <1>12. c[m] = 0
    BY <1>3, <1>10
  <1> HIDE DEF m
  <1>13. Ints!ValueOf(all) = num
    BY <1>3, <1>7, <1>9, <1>11, <1>12, DigitsRule DEF c
  <1> QED BY <1>3, <1>6, <1>8, <1>13 DEF ds, all, num, m

LEMMA NoDigits == Ints!ValueOf(<<>>) = 0 /\ \A ds \in Numeral(0) : ds = <<>>
  <1>1. <<>> \in Numeral(0)
    BY DEF Numeral
  <1>2. PICK g \in [0..0 -> Nat] : g[0] = 0 /\ Ints!ValueOf(<<>>) = g[0]
    <2>1. ValueSteps(<<>>, 0, Ints!ValueOf(<<>>))
      BY <1>1, ValueIs
    <2> QED BY <2>1 DEF ValueSteps
  <1> QED BY <1>2 DEF Numeral

\* A whole within the limits is the int.
LEMMA TotalIs ==
  ASSUME IntMax \in Nat, NEW num \in Nat
  PROVE  /\ num <= IntMax => Ints!ToInt(num % Ints!Modulus) = num
         /\ num <= IntMax + 1 => Ints!ToInt((Ints!Modulus - (num % Ints!Modulus)) % Ints!Modulus) = -num
  <1> DEFINE m == 2 * (IntMax + 1)
  <1>0. m \in Nat /\ m > 0 /\ m = IntMax + IntMax + 2
    OBVIOUS
  <1>1. Ints!Modulus = m
    BY DEF Ints!Modulus
  <1>2. \A x \in Nat : Ints!ToInt(x) = IF x % m > IntMax THEN (x % m) - m ELSE x % m
    BY <1>1 DEF Ints!ToInt
  <1> HIDE DEF m
  <1>3. \A x \in Nat : x < m => x % m = x
    BY <1>0
  <1>4. m % m = 0
    BY <1>0
  <1>5. ASSUME num <= IntMax PROVE Ints!ToInt(num % m) = num
    <2>1. num < m /\ num % m = num
      BY <1>0, <1>3, <1>5
    <2> QED BY <1>2, <1>5, <2>1
  <1>6. ASSUME num <= IntMax + 1 PROVE Ints!ToInt((m - (num % m)) % m) = -num
    <2>1. num < m /\ num % m = num
      BY <1>0, <1>3, <1>6
    <2>2. CASE num = 0
      <3>1. (m - (num % m)) % m = 0
        BY <1>0, <1>4, <2>1, <2>2
      <3>2. 0 % m = 0
        BY <1>0, <1>3
      <3> QED BY <1>2, <2>2, <3>1, <3>2
    <2>3. CASE num # 0
      <3> DEFINE x == m - num
      <3>1. x \in Nat /\ x < m /\ x > IntMax /\ x - m = -num
        BY <1>0, <1>6, <2>1, <2>3
      <3> HIDE DEF x
      <3>2. x % m = x
        BY <1>3, <3>1
      <3>3. Ints!ToInt(x) = -num
        BY <1>2, <3>1, <3>2
      <3> QED BY <2>1, <3>2, <3>3 DEF x
    <2> QED BY <2>2, <2>3
  <1> QED BY <1>1, <1>5, <1>6

LEMMA AtoiIs ==
  ASSUME Ints!ConversionsAssumption, NEW n \in Nat, NEW s \in [1..n -> Nat]
  PROVE  Ints!myAtoi(s) = Ints!AtoiValue(s)
  <1> DEFINE a == SpacesEnd(s)
             b == DigitsStart(s)
             e == DigitsEnd(s)
             st == Ints!Scanned(s)
             sg == SignPlace(a, b)
  <1>a. /\ IntMax \in Nat /\ IntMax >= 1 /\ IntMax + 1 \in Nat /\ IntMax + 1 >= 1
        /\ Len(Ints!Most) = Len(Ints!Least)
    BY DEF Ints!ConversionsAssumption
  <1>1. PICK z : Places(s, n, a, b, e, z)
    BY TextPlacesAre
  <1> DEFINE ds == DigitsFrom(s, z, e)
             num == Ints!ValueOf(ds)
             minus == b > a /\ s[a] # Ints!Plus
  <1>2. Ints!AtoiValue(s) = Nearest(IF minus THEN -Ints!ValueOf(DigitsFrom(s, b, e))
                                    ELSE Ints!ValueOf(DigitsFrom(s, b, e)))
    BY AtoiValueIs
  <1>m. Ints!myAtoi(s) =
          LET its == [i \in 1..st.len |-> s[st.number + i - 1] - 48]
              pos == st.sign = 0 \/ s[st.sign] = Ints!Plus
              big == \/ st.len > Len(Ints!Most)
                     \/ st.len = Len(Ints!Most) /\ Ints!Above(its, IF pos THEN Ints!Most ELSE Ints!Least)
              whole == Ints!ValueOf(its) % Ints!Modulus
          IN IF st.stop = "zero" \/ st.number = 0 THEN 0
             ELSE IF big THEN (IF pos THEN IntMax ELSE Ints!IntMin)
             ELSE Ints!ToInt(IF pos THEN whole ELSE (Ints!Modulus - whole) % Ints!Modulus)
    BY DEF Ints!myAtoi
  <1> HIDE DEF a, b, e, st
  <1>3. /\ e - z \in Nat /\ ds \in Numeral(e - z) /\ (e - z >= 1 => ds[1] >= 1)
        /\ Ints!ValueOf(DigitsFrom(s, b, e)) = num
    BY <1>1, LeadingZeroes
  <1>4. KnowsAt(st, n, a, b, e, z)
    BY <1>1, ScanKnows DEF st
  <1>5. /\ a \in Nat /\ b \in Nat /\ e \in Nat /\ z \in Nat /\ 1 <= a /\ a <= b /\ b <= z /\ z <= e
        /\ e <= n + 1 /\ z # 0
    BY <1>1 DEF Places
  <1>6. num \in Nat
    BY <1>3, CutOf
  <1>7. CASE z = e
    <2>1. num = 0
      <3>1. ds = <<>>
        <4>1. e - z = 0
          BY <1>5, <1>7
        <4> QED BY <1>3, <4>1, NoDigits
      <3> QED BY <3>1, NoDigits
    <2> HIDE DEF num, minus
    <2>2. Ints!AtoiValue(s) = 0
      <3>1. Ints!AtoiValue(s) = Nearest(IF minus THEN -num ELSE num)
        BY <1>2, <1>3
      <3>2. (IF minus THEN -num ELSE num) = 0
        <4>1. -num = 0
          <5>1. \A x \in Nat : x < 1 => -x = 0
            OBVIOUS
          <5>2. num < 1
            BY <2>1
          <5> HIDE <2>1
          <5> QED BY <1>6, <5>1, <5>2
        <4>2. CASE minus
          BY <4>1, <4>2
        <4>3. CASE ~minus
          BY <2>1, <4>3
        <4> QED BY <4>2, <4>3
      <3>3. Nearest(0) = 0
        BY <1>a DEF Nearest, Ints!IntMin
      <3> QED BY <3>1, <3>2, <3>3
    <2>3. st.stop = "zero" \/ st.number = 0
      <3>1. CASE e <= n
        BY <1>4, <1>7, <3>1 DEF KnowsAt
      <3>2. CASE n < b
        <4>1. n <= b - 1
          BY <1>5, <3>2
        <4> QED BY <1>4, <4>1 DEF KnowsAt, Knows
      <3>3. CASE b <= n /\ n < e
        BY <1>4, <1>7, <3>3 DEF KnowsAt, Knows
      <3> QED BY <1>5, <3>1, <3>2, <3>3
    <2>4. Ints!myAtoi(s) = 0
      BY <1>m, <2>3
    <2> QED BY <2>2, <2>4
  <1>8. CASE z # e
    <2>0. z < e
      BY <1>5, <1>8
    <2>1. st.number = z /\ st.len = e - z /\ st.sign = sg /\ st.stop # "zero"
      <3>1. CASE e <= n
        BY <1>4, <2>0, <3>1 DEF KnowsAt, Knows
      <3>2. CASE ~(e <= n)
        <4>1. z <= n /\ n < e /\ (n - z) + 1 = e - z
          BY <1>5, <2>0, <3>2
        <4> QED BY <1>4, <4>1 DEF KnowsAt, Knows
      <3> QED BY <3>1, <3>2
    <2> DEFINE k == e - z
               pos == sg = 0 \/ s[sg] = Ints!Plus
               most == Ints!Most
               least == Ints!Least
               limit == IF pos THEN most ELSE least
               big == k > Len(most) \/ (k = Len(most) /\ Ints!Above(ds, limit))
               whole == num % Ints!Modulus
    <2>2. Ints!myAtoi(s) = IF big THEN (IF pos THEN IntMax ELSE Ints!IntMin)
                           ELSE Ints!ToInt(IF pos THEN whole ELSE (Ints!Modulus - whole) % Ints!Modulus)
      <3>1. [i \in 1..st.len |-> s[st.number + i - 1] - 48] = ds
        BY <2>1 DEF DigitsFrom
      <3> HIDE DEF ds
      <3> QED BY <1>5, <1>m, <2>1, <3>1
    <2>3. pos <=> ~minus
      BY <1>5 DEF SignPlace
    <2>4. k \in Nat /\ k >= 1 /\ ds \in Numeral(k) /\ ds[1] >= 1
      BY <1>3, <1>5, <2>0
    <2> HIDE DEF pos, minus, ds, k
    <2>5. (k > Len(most) \/ (k = Len(most) /\ Ints!Above(ds, most))) <=> num > IntMax
      BY <1>a, <2>4, BigIs DEF Ints!Most
    <2>6. (k > Len(least) \/ (k = Len(least) /\ Ints!Above(ds, least))) <=> num > IntMax + 1
      BY <1>a, <2>4, BigIs DEF Ints!Least
    <2>7. big <=> IF pos THEN num > IntMax ELSE num > IntMax + 1
      <3> HIDE DEF num, most, least
      <3>1. CASE pos
        BY <2>5, <3>1
      <3>2. CASE ~pos
        BY <1>a, <2>6, <3>2 DEF most, least
      <3> QED BY <3>1, <3>2
    <2> HIDE DEF num, big
    <2>8. CASE pos
      <3>1. Ints!AtoiValue(s) = Nearest(num)
        BY <1>2, <1>3, <2>3, <2>8
      <3>2. CASE num > IntMax
        BY <2>2, <2>7, <2>8, <3>1, <3>2 DEF Nearest
      <3>3. CASE ~(num > IntMax)
        <4>1. Ints!ToInt(whole) = num
          <5>1. num \in Nat /\ num <= IntMax /\ IntMax \in Nat
            BY <1>6, <1>a, <3>3
          <5> QED BY <5>1, TotalIs
        <4>2. Nearest(num) = num
          BY <1>6, <1>a, <3>3 DEF Nearest, Ints!IntMin
        <4>3. Ints!myAtoi(s) = Ints!ToInt(whole)
          BY <2>2, <2>7, <2>8, <3>3
        <4> QED BY <3>1, <4>1, <4>2, <4>3
      <3> QED BY <3>2, <3>3
    <2>9. CASE ~pos
      <3>1. Ints!AtoiValue(s) = Nearest(-num)
        BY <1>2, <1>3, <2>3, <2>9
      <3>2. CASE num > IntMax + 1
        <4>1. ~(-num > IntMax) /\ -num < Ints!IntMin
          BY <1>6, <1>a, <3>2 DEF Ints!IntMin
        <4>2. Nearest(-num) = Ints!IntMin
          BY <4>1 DEF Nearest
        <4>3. Ints!myAtoi(s) = Ints!IntMin
          BY <2>2, <2>7, <2>9, <3>2
        <4> QED BY <3>1, <4>2, <4>3
      <3>3. CASE ~(num > IntMax + 1)
        <4>1. Ints!ToInt((Ints!Modulus - whole) % Ints!Modulus) = -num
          <5>1. num \in Nat /\ num <= IntMax + 1 /\ IntMax \in Nat
            BY <1>6, <1>a, <3>3
          <5> QED BY <5>1, TotalIs
        <4>2. Nearest(-num) = -num
          BY <1>6, <1>a, <3>3 DEF Nearest, Ints!IntMin
        <4>3. Ints!myAtoi(s) = Ints!ToInt((Ints!Modulus - whole) % Ints!Modulus)
          BY <2>2, <2>7, <2>9, <3>3
        <4> QED BY <3>1, <4>1, <4>2, <4>3
      <3> QED BY <3>2, <3>3
    <2> QED BY <2>8, <2>9
  <1> QED BY <1>7, <1>8

(* Texts become the nearest int to what they write, and ints are reversed  *)
(* digit by digit, to 0 when that is no int: myAtoi and reverse.           *)
THEOREM ConversionsStayRight ==
  ASSUME Ints!ConversionsAssumption PROVE Ints!Spec => []Ints!ConversionsAreRight
  <1> DEFINE Inv == Ints!ConversionsAreRight
  <1>1. Ints!Init => Inv
    BY DEF Ints!Init, Ints!ConversionsAreRight
  <1>2. Inv /\ [Ints!Next]_Ints!vars => Inv'
    <2> SUFFICES ASSUME Inv, [Ints!Next]_Ints!vars PROVE Inv'
      OBVIOUS
    <2>1. CASE Ints!AskAtoi
      <3>1. PICK s \in Ints!Texts : asked' = <<"myAtoi", s>> /\ answer' = Ints!myAtoi(s)
        BY <2>1 DEF Ints!AskAtoi
      <3>2. PICK n \in 0..MaxLen : s \in [1..n -> Chars]
        BY DEF Ints!Texts
      <3>3. n \in Nat /\ s \in [1..n -> Nat]
        <4>1. Chars \subseteq Nat /\ MaxLen \in Nat
          BY DEF Ints!ConversionsAssumption
        <4>2. n \in Nat
          BY <3>2, <4>1
        <4>3. s = [i \in 1..n |-> s[i]] /\ \A i \in 1..n : s[i] \in Nat
          BY <3>2, <4>1
        <4> QED BY <4>2, <4>3
      <3>4. Ints!myAtoi(s) = Ints!AtoiValue(s)
        BY <3>3, AtoiIs
      <3>5. asked'[1] = "myAtoi" /\ asked'[2] = s
        BY <3>1
      <3> QED BY <3>1, <3>4, <3>5 DEF Ints!ConversionsAreRight
    <2>2. CASE Ints!AskReverse
      <3>1. PICK x \in Ints!IntMin..IntMax : asked' = <<"reverse", x>> /\ answer' = Ints!reverse(x)
        BY <2>2 DEF Ints!AskReverse
      <3>2. asked'[1] = "reverse" /\ asked'[2] = x
        BY <3>1
      <3>3. answer' = IF Backwards(x) > IntMax THEN 0 ELSE IF x < 0 THEN -Backwards(x) ELSE Backwards(x)
        BY <3>1, ReverseIs
      <3> QED BY <3>2, <3>3 DEF Ints!ConversionsAreRight, Backwards
    <2>3. CASE UNCHANGED Ints!vars
      BY <2>3 DEF Ints!ConversionsAreRight, Ints!vars
    <2> QED BY <2>1, <2>2, <2>3 DEF Ints!Next
  <1> QED BY <1>1, <1>2, PTL DEF Ints!Spec

-----------------------------------------------------------------------------
(* The programs that compute with numbers (Numbers): the loops hold at     *)
(* zero, forget old errors and lose what they say they lose; texts, ints   *)
(* and checksums are what they stand for.  What each program does is a     *)
(* behaviour of its own module.                                            *)
THEOREM NumbersStayRight ==
  ASSUME NumbersAssumption PROVE NumbersSpec => []NumbersAreRight
<1>1. Loops!PidAssumption /\ Ints!ConversionsAssumption /\ Sums!CrcAssumption
  BY DEF NumbersAssumption
<1>2. NumbersInit => Loops!Init /\ Ints!Init /\ Sums!Init
  BY DEF NumbersInit
<1>3. [NumbersNext]_<<part, numbersVars>> =>
        [Loops!Next]_(Loops!vars) /\ [Ints!Next]_(Ints!vars) /\ [Sums!Next]_(Sums!vars)
  <2> SUFFICES ASSUME [NumbersNext]_<<part, numbersVars>>
               PROVE  [Loops!Next]_(Loops!vars) /\ [Ints!Next]_(Ints!vars) /\ [Sums!Next]_(Sums!vars)
    OBVIOUS
  <2>1. UNCHANGED loopsVars => UNCHANGED Loops!vars
    BY DEF loopsVars, Loops!vars
  <2>2. UNCHANGED intsVars => UNCHANGED Ints!vars
    BY DEF intsVars, Ints!vars
  <2>3. UNCHANGED crcVars => UNCHANGED Sums!vars
    BY DEF crcVars, Sums!vars
  <2>4. CASE UNCHANGED <<part, numbersVars>>
    <3>1. UNCHANGED <<loopsVars, intsVars, crcVars>>
      BY <2>4 DEF numbersVars
    <3> QED BY <2>1, <2>2, <2>3, <3>1
  <2>5. CASE NumbersNext
    <3>1. CASE Loops!Next /\ UNCHANGED <<intsVars, crcVars>>
      BY <2>2, <2>3, <3>1
    <3>2. CASE Ints!Next /\ UNCHANGED <<loopsVars, crcVars>>
      BY <2>1, <2>3, <3>2
    <3>3. CASE Sums!Next /\ UNCHANGED <<loopsVars, intsVars>>
      BY <2>1, <2>2, <3>3
    <3> QED BY <2>5, <3>1, <3>2, <3>3 DEF NumbersNext
  <2> QED BY <2>4, <2>5
<1>4. NumbersSpec => Loops!Spec /\ Ints!Spec /\ Sums!Spec
  BY <1>2, <1>3, PTL DEF NumbersSpec, Loops!Spec, Ints!Spec, Sums!Spec
<1>5. Loops!Spec => [](Loops!HoldsAtZero /\ Loops!SlowDrift /\ Loops!Proportional
                       /\ Loops!SmallErrorsCount /\ Loops!LosesLess)
  BY <1>1, OutputHoldsAtZero, DriftIsSlow, LastErrorOnly, SmallErrorsAreKept, SmallLosesLess, PTL
<1>6. Ints!Spec => []Ints!ConversionsAreRight
  BY <1>1, ConversionsStayRight
<1>7. Sums!Spec => []Sums!ChecksumsAreRight
  BY <1>1, ChecksumsStayRight
<1>8. /\ Loops!HoldsAtZero /\ Loops!SlowDrift /\ Loops!Proportional
      /\ Loops!SmallErrorsCount /\ Loops!LosesLess
      /\ Ints!ConversionsAreRight /\ Sums!ChecksumsAreRight
      => NumbersAreRight
  BY DEF NumbersAreRight
<1> QED BY <1>4, <1>5, <1>6, <1>7, <1>8, PTL
=============================================================================
