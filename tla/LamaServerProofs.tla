-------------------------- MODULE LamaServerProofs --------------------------
(***************************************************************************)
(* Theorems about the CDR server: about LamaServer, for every number of    *)
(* connections, every set of records and every size of the stdio buffer;   *)
(* and, for any requests and files, about what a child does with the daily *)
(* files (DailyFiles): the days that it reads (CdrDates), the lines that   *)
(* it writes (CdrRecords) and the rows that are parsed for it (CsvParser). *)
(***************************************************************************)
EXTENDS LamaServer, DailyFiles, ListFacts, TLAPS

\* A child that has read its number and not yet returned it.
Numbering == {"trunc", "put"}

\* The strengthening of TypeOK and SeqFileWhole that every step preserves.
SeqInv ==
  /\ TypeOK
  /\ \A c \in Conn : pc[c] \in Numbering => seq[c] \in 0..MaxSeq
  /\ SeqFileWhole

LEMMA ScaleOf ==
  ASSUME NEW n \in Number
  PROVE  Scale(n) \in Powers /\ n < Scale(n)
  <1>1. \E p \in Powers : n < p /\ \A q \in Powers : n < q => p <= q
    <2>1. CASE n < 10
      BY <2>1 DEF Powers, Number
    <2>2. CASE n >= 10 /\ n < 100
      BY <2>2 DEF Powers, Number
    <2>3. CASE n >= 100 /\ n < 1000
      BY <2>3 DEF Powers, Number
    <2>4. CASE n >= 1000 /\ n < 10000
      BY <2>4 DEF Powers, Number
    <2>5. CASE n >= 10000
      BY <2>5 DEF Powers, Number
    <2>6. QED
      BY <2>1, <2>2, <2>3, <2>4, <2>5 DEF Number
  <1>2. QED
    BY <1>1 DEF Scale

(* A number written over the one in the file has at most five digits: the  *)
(* longer of the two lengths.                                              *)
LEMMA OverwriteOf ==
  ASSUME NEW old \in {Empty} \cup Number, NEW n \in Number
  PROVE  Overwrite(old, n) \in Number
  <1>1. CASE old = Empty \/ Scale(n) >= Scale(old)
    BY <1>1 DEF Overwrite
  <1>2. CASE old # Empty /\ ~(Scale(n) >= Scale(old))
    <2> DEFINE rest == Scale(old) \div Scale(n)
    <2>1. old \in Number
      BY <1>2
    <2>2. /\ Scale(old) \in Powers /\ Scale(n) \in Powers
          /\ n < Scale(n) /\ Scale(n) < Scale(old)
      BY <2>1, <1>2, ScaleOf DEF Powers
    <2>3. rest \in {10, 100, 1000, 10000} /\ Scale(n) * rest <= 100000
      BY <2>2 DEF Powers
    <2>4. old % rest \in 0..(rest - 1)
      BY <2>1, <2>3 DEF Number
    <2>5. n * rest <= (Scale(n) - 1) * rest
      BY <2>2, <2>3 DEF Powers, Number
    <2>6. (n * rest) + (old % rest) \in Number
      BY <2>2, <2>3, <2>4, <2>5 DEF Powers, Number
    <2>7. QED
      BY <1>2, <2>6 DEF Overwrite
  <1>3. QED
    BY <1>1, <1>2
-----------------------------------------------------------------------------
LEMMA SeqInvInit == Init => SeqInv
  BY ConstAssumption
     DEF Init, SeqInv, TypeOK, SeqFileWhole, PC, Numbering, Empty, Number

(* Every action keeps SeqInv: between the truncation and the rewriting of  *)
(* seclama.log there is a child at "put", and only a halt takes it away.   *)
LEMMA SeqInvNext == SeqInv /\ [Next]_vars => SeqInv'
  <1> SUFFICES ASSUME SeqInv, [Next]_vars
               PROVE  SeqInv'
    OBVIOUS
  <1> USE DEF SeqInv, TypeOK, SeqFileWhole, Numbering, PC, Working, Ended
  <1>1. ASSUME NEW c \in Conn, Connect(c)
        PROVE  SeqInv'
    BY <1>1 DEF Connect, proc, files
  <1>2. ASSUME NEW c \in Conn, ClientLeaves(c)
        PROVE  SeqInv'
    BY <1>2 DEF ClientLeaves, proc, files
  <1>3. ASSUME NEW c \in Conn, Accept(c)
        PROVE  SeqInv'
    BY <1>3, ConstAssumption DEF Accept, ForkWorks, files
  <1>4. ASSUME NEW c \in Conn, Child(c)
        PROVE  SeqInv'
    <2> USE DEF Goto, proc, files
    <2>1. CASE Recv(c)
      BY <2>1 DEF Recv
    <2>2. CASE Shell(c)
      BY <2>2 DEF Shell
    <2>3. CASE Cat(c)
      BY <2>3 DEF Cat
    <2>4. CASE CatsDone(c)
      BY <2>4 DEF CatsDone
    <2>5. CASE ReadSeq(c)
      <3> DEFINE n == IF seclama = Empty THEN 0 ELSE seclama
      <3>1. n \in Nat
        BY DEF Number
      <3>2. CASE n <= MaxSeq
        <4>1. /\ pc' = [pc EXCEPT ![c] = "trunc"]
              /\ seq' = [seq EXCEPT ![c] = n] /\ n \in 0..MaxSeq
          BY <2>5, <3>1, <3>2, ConstAssumption DEF ReadSeq, InRange, Number
        <4>2. QED
          BY <2>5, <4>1 DEF ReadSeq
      <3>3. CASE ~(n <= MaxSeq)
        BY <2>5, <3>3 DEF ReadSeq, InRange
      <3>4. QED
        BY <3>2, <3>3
    <2>6. CASE TruncSeq(c)
      BY <2>6 DEF TruncSeq
    <2>7. CASE PutSeq(c)
      <3>1. seq[c] \in 0..MaxSeq /\ seq[c] + 1 \in Number
        BY <2>7, ConstAssumption DEF PutSeq, Number
      <3>2. seclama' \in Number /\ seclama' # Empty
        <4>1. Overwrite(seclama, seq[c] + 1) \in Number
          BY <3>1, OverwriteOf
        <4>2. QED
          BY <2>7, <4>1 DEF PutSeq, Number, Empty
      <3>3. issued' \in Seq(Int)
        BY <2>7, <3>1 DEF PutSeq
      <3>4. QED
        BY <2>7, <3>2, <3>3 DEF PutSeq
    <2>8. CASE OpenLama(c)
      BY <2>8 DEF OpenLama
    <2>9. CASE Flush(c) \/ ReadLama(c)
      BY <2>9 DEF Flush, ReadLama
    <2>10. CASE Parse(c) \/ EndOfWork(c)
      <3>1. /\ pc' = [pc EXCEPT ![c] = "parse"] \/ pc' = [pc EXCEPT ![c] = "close"]
            /\ pc[c] = "parse" /\ UNCHANGED <<proc, hung, req, seq, files, got, issued>>
        BY <2>10 DEF Parse, EndOfWork
      <3>2. QED
        BY <3>1
    <2>11. CASE CloseLama(c)
      BY <2>11 DEF CloseLama
    <2>12. CASE Send(c)
      <3>1. /\ pc' = [pc EXCEPT ![c] = "send"] \/ pc' = [pc EXCEPT ![c] = "failed"]
            /\ pc[c] = "send" /\ UNCHANGED <<proc, hung, req, seq, files, issued>>
        BY <2>12 DEF Send
      <3>2. QED
        BY <3>1
    <2>13. CASE Finish(c)
      BY <2>13 DEF Finish
    <2>14. QED
      BY <1>4, <2>1, <2>2, <2>3, <2>4, <2>5, <2>6, <2>7, <2>8, <2>9, <2>10,
         <2>11, <2>12, <2>13 DEF Child, Own, Waits
  <1>5. CASE ForkFails \/ AcceptFails
    BY <1>5 DEF ForkFails, AcceptFails, GoDown, files
  <1>6. CASE Halt
    BY <1>6 DEF Halt, files
  <1>7. CASE Restart
    BY <1>7, ConstAssumption DEF Restart, files
  <1>8. CASE UNCHANGED vars
    BY <1>8 DEF vars
  <1>9. QED
    BY <1>1, <1>2, <1>3, <1>4, <1>5, <1>6, <1>7, <1>8 DEF Next

LEMMA SeqInvAlways == Spec => []SeqInv
  BY SeqInvInit, SeqInvNext, PTL DEF Spec

(* Every variable that the children share keeps its type, whatever the     *)
(* interleaving and however often the server halts.                        *)
THEOREM TypesHold == Spec => []TypeOK
  <1>1. SeqInv => TypeOK
    BY DEF SeqInv
  <1>2. QED
    BY <1>1, SeqInvAlways, PTL

(* Without a halt, seclama.log is never left without a number, however     *)
(* many children race for it (cdr_asterisk.c:147-180).                     *)
THEOREM SeqFileStaysWhole == Spec => []SeqFileWhole
  <1>1. SeqInv => SeqFileWhole
    BY DEF SeqInv
  <1>2. QED
    BY <1>1, SeqInvAlways, PTL
-----------------------------------------------------------------------------
(* The text of the files: units of ink, which belong to a line, and holes. *)
Line == {Hdr(n) : n \in Int} \cup {Row(r) : r \in Rows} \cup {Fin(n) : n \in Nat}
          \cup {Odd(w) : w \in OddWidths} \cup {Late(w) : w \in OddWidths}
Ink  == Line \X Nat
Unit == Ink \cup {Hole}

CallInk  == {Call(r) : r \in Rows} \X Nat
WorkUnit == CallInk \cup {Hole}

LEMMA DigitsCount == ASSUME NEW n \in Int PROVE Digits(n) \in Nat \ {0}
  <1> DEFINE D == {k \in 1..9 : 10 ^ k <= n}
  <1>1. D \in SUBSET (1..9)
    OBVIOUS
  <1> HIDE DEF D
  <1>2. IsFiniteSet(D)
    <2>1. IsFiniteSet(1..9)
      <3>1. 1 \in Int /\ 9 \in Int
        OBVIOUS
      <3> QED BY <3>1, FS_Interval
    <2> QED BY <1>1, <2>1, FS_Subset
  <1>3. Cardinality(D) \in Nat
    BY <1>2, FS_CardinalityType
  <1>4. Digits(n) = 1 + Cardinality(D)
    BY DEF Digits, D
  <1> QED BY <1>3, <1>4

LEMMA LineWidth ==
  ASSUME NEW l \in Line \cup {Call(r) : r \in Rows}
  PROVE  l[3] \in Nat \ {0} /\ l[1] # "hole"
  <1>1. CASE l \in {Hdr(n) : n \in Int}
    <2>1. PICK n \in Int : l = Hdr(n)
      BY <1>1
    <2>2. Digits(n) \in Nat \ {0} /\ HdrText \in Nat
      BY DigitsCount, ConstAssumption
    <2> QED BY <2>1, <2>2 DEF Hdr
  <1>2. CASE l \in {Fin(n) : n \in Nat}
    <2>1. PICK n \in Nat : l = Fin(n)
      BY <1>2
    <2>2. Digits(n) \in Nat \ {0} /\ FinText \in Nat
      BY DigitsCount, ConstAssumption
    <2> QED BY <2>1, <2>2 DEF Fin
  <1>3. CASE l \in {Row(r) : r \in Rows} \cup {Call(r) : r \in Rows}
    BY <1>3, ConstAssumption DEF Row, Call
  <1>4. CASE l \in {Odd(w) : w \in OddWidths} \cup {Late(w) : w \in OddWidths}
    <2>1. PICK w \in OddWidths : l = Odd(w) \/ l = Late(w)
      BY <1>4
    <2>2. w \in Nat \ {0}
      BY ConstAssumption
    <2>3. l[3] = w /\ l[1] # "hole"
      BY <2>1 DEF Odd, Late
    <2> QED BY <2>2, <2>3
  <1> QED BY <1>1, <1>2, <1>3, <1>4 DEF Line

LEMMA NoHole == /\ \A u \in Ink : u # Hole
                /\ \A u \in CallInk : u # Hole
                /\ ~Ends(Hole)
  <1>1. ASSUME NEW u \in Ink PROVE u # Hole
    <2>1. u[1] \in Line /\ u[1][1] # "hole"
      BY LineWidth DEF Ink
    <2> QED BY <2>1 DEF Hole
  <1>2. ASSUME NEW u \in CallInk PROVE u # Hole
    <2>1. u[1][1] # "hole"
      BY LineWidth DEF CallInk
    <2> QED BY <2>1 DEF Hole
  <1> QED BY <1>1, <1>2 DEF Ends, Hole

\* Text that begins and ends with a line.
Whole(s) == /\ Smooth(Start, s)
            /\ s # <<>> => Ends(s[Len(s)])

\* The text of one line, of lines of some kind.
LEMMA TextOf ==
  ASSUME NEW K, NEW l \in K, l[3] \in Nat \ {0}
  PROVE  /\ Text(l) \in Seq(K \X Nat) /\ Len(Text(l)) = l[3] /\ Text(l) # <<>>
         /\ Text(l)[l[3]] = <<l, l[3]>> /\ Whole(Text(l))
  <1> DEFINE n == l[3]
             t == Text(l)
  <1>1. n \in Nat \ {0}
    OBVIOUS
  <1>2. t = [k \in 1..n |-> <<l, k>>]
    BY DEF Text
  <1> HIDE DEF n, t
  <1>3. t \in Seq(K \X Nat) /\ Len(t) = n /\ t # <<>> /\ t[n] = <<l, n>>
    <2>1. \A k \in 1..n : <<l, k>> \in K \X Nat
      OBVIOUS
    <2>2. t \in Seq(K \X Nat) /\ Len(t) = n
      BY <1>1, <1>2, <2>1
    <2>3. t[n] = <<l, n>>
      BY <1>1, <1>2
    <2> QED BY <1>1, <2>2, <2>3
  <1>4. Whole(t)
    <2>1. Ends(t[Len(t)])
      BY <1>3 DEF Ends, n
    <2>2. ASSUME NEW i \in DOMAIN t PROVE Follows(IF i = 1 THEN Start ELSE t[i - 1], t[i])
      <3>1. i \in 1..n /\ t[i] = <<l, i>>
        BY <1>2, <2>2
      <3>2. CASE i = 1
        BY <3>1, <3>2 DEF Follows, Ends, Start
      <3>3. CASE i # 1
        <4>1. i - 1 \in 1..n /\ t[i - 1] = <<l, i - 1>>
          BY <1>1, <1>2, <3>1, <3>3
        <4>2. ~Ends(<<l, i - 1>>)
          <5>1. i - 1 # n
            BY <1>1, <3>1
          <5> QED BY <5>1 DEF Ends, n
        <4>3. <<l, (i - 1) + 1>> = <<l, i>>
          BY <1>1, <3>1
        <4> QED BY <3>1, <3>3, <4>1, <4>2, <4>3 DEF Follows
      <3> QED BY <3>2, <3>3
    <2> QED BY <2>1, <2>2 DEF Whole, Smooth
  <1> QED BY <1>3, <1>4 DEF t, n

\* Text behind text.
LEMMA WholeJoined ==
  ASSUME NEW S, NEW s \in Seq(S), NEW t \in Seq(S), Whole(s), Whole(t)
  PROVE  Whole(s \o t)
  <1> DEFINE m == Len(s)
             n == Len(t)
             u == s \o t
             At(i) == Follows(IF i = 1 THEN Start ELSE u[i - 1], u[i])
  <1>1. /\ m \in Nat /\ n \in Nat /\ u \in Seq(S) /\ Len(u) = m + n
        /\ \A i \in 1..(m + n) : u[i] = IF i <= m THEN s[i] ELSE t[i - m]
    BY JoinedAt
  <1>2. /\ \A i \in 1..m : Follows(IF i = 1 THEN Start ELSE s[i - 1], s[i])
        /\ \A i \in 1..n : Follows(IF i = 1 THEN Start ELSE t[i - 1], t[i])
        /\ (m # 0 => Ends(s[m])) /\ (n # 0 => Ends(t[n]))
    <2>1. DOMAIN s = 1..m /\ DOMAIN t = 1..n /\ (m # 0 => s # <<>>) /\ (n # 0 => t # <<>>)
      OBVIOUS
    <2> QED BY <2>1 DEF Whole, Smooth
  <1> HIDE DEF m, n, u
  <1>3. ASSUME NEW i \in 1..(m + n) PROVE At(i)
    <2>1. CASE i <= m
      <3>1. i \in 1..m /\ u[i] = s[i] /\ (i # 1 => i - 1 \in 1..(m + n) /\ i - 1 <= m)
        BY <1>1, <2>1
      <3>2. i # 1 => u[i - 1] = s[i - 1]
        BY <1>1, <3>1
      <3> QED BY <1>2, <3>1, <3>2
    <2>2. CASE i = m + 1
      <3>1. 1 \in 1..n /\ u[i] = t[1]
        BY <1>1, <2>2
      <3>2. t[1][2] = 1
        BY <1>2, <3>1 DEF Follows, Ends, Start
      <3>3. Ends(IF i = 1 THEN Start ELSE u[i - 1])
        <4>1. CASE m = 0
          BY <2>2, <4>1 DEF Ends, Start
        <4>2. CASE m # 0
          <5>1. i # 1 /\ i - 1 = m /\ u[m] = s[m]
            BY <1>1, <2>2, <4>2
          <5> QED BY <1>2, <4>2, <5>1
        <4> QED BY <4>1, <4>2
      <3> QED BY <3>1, <3>2, <3>3 DEF Follows
    <2>3. CASE i > m + 1
      <3> DEFINE k == i - m
      <3>1. /\ k \in 1..n /\ k # 1 /\ i # 1 /\ i - 1 \in 1..(m + n) /\ ~(i <= m) /\ ~(i - 1 <= m)
            /\ (i - 1) - m = k - 1
        BY <1>1, <2>3
      <3>2. u[i] = t[k] /\ u[i - 1] = t[k - 1]
        BY <1>1, <3>1
      <3> HIDE DEF k
      <3> QED BY <1>2, <3>1, <3>2
    <2> QED BY <1>1, <2>1, <2>2, <2>3
  <1>4. u # <<>> => Ends(u[Len(u)])
    <2>1. CASE n # 0
      <3>1. u[m + n] = t[n]
        <4>1. m + n \in 1..(m + n) /\ ~(m + n <= m) /\ (m + n) - m = n
          BY <1>1, <2>1
        <4> QED BY <1>1, <4>1
      <3> QED BY <1>1, <1>2, <2>1, <3>1
    <2>2. CASE n = 0 /\ m # 0
      <3>1. u[m + n] = s[m] /\ m + n = m
        BY <1>1, <2>2
      <3> QED BY <1>1, <1>2, <2>2, <3>1
    <2>3. CASE n = 0 /\ m = 0
      <3>1. Len(u) = 0
        BY <1>1, <2>3
      <3> QED BY <1>1, <3>1
    <2> QED BY <2>1, <2>2, <2>3
  <1>5. DOMAIN u = 1..(m + n)
    BY <1>1
  <1>6. Whole(u)
    BY <1>3, <1>4, <1>5 DEF Whole, Smooth
  <1> QED BY <1>6 DEF u

LEMMA NothingWhole == Whole(<<>>)
  BY DEF Whole, Smooth

\* Lines of some kind, as text.
Pages(lines) == [i \in 1..Len(lines) |-> Text(lines[i])]

LEMMA TextsOf ==
  ASSUME NEW K, \A l \in K : l[3] \in Nat \ {0}, NEW lines \in Seq(K)
  PROVE  /\ Texts(lines) = FlattenSeq(Pages(lines)) /\ Pages(lines) \in Seq(Seq(K \X Nat))
         /\ Len(Pages(lines)) = Len(lines)
         /\ Texts(lines) \in Seq(K \X Nat) /\ Whole(Texts(lines))
  <1> DEFINE S == K \X Nat
             V == {s \in Seq(S) : Whole(s)}
             n == Len(lines)
             ss == Pages(lines)
  <1>1. n \in Nat /\ DOMAIN lines = 1..n /\ \A i \in 1..n : lines[i] \in K
    OBVIOUS
  <1>2. Texts(lines) = FlattenSeq(ss)
    BY <1>1 DEF Texts, Pages
  <1>3. \A l \in K : Text(l) \in V
    BY TextOf
  <1> HIDE DEF S
  <1>4. \A i \in 1..n : Text(lines[i]) \in V
    BY <1>1, <1>3
  <1>5. ss = [i \in 1..n |-> Text(lines[i])]
    BY DEF Pages
  <1>6. ss \in Seq(V) /\ Len(ss) = n /\ (n = 0 => ss = <<>>) /\ \A i \in 1..n : ss[i] \in V
    <2> HIDE DEF ss, n, V
    <2> QED BY <1>1, <1>4, <1>5
  <1>7. ss \in Seq(Seq(S))
    <2>1. \A i \in 1..n : ss[i] \in Seq(S)
      BY <1>6
    <2> HIDE DEF ss, n, V
    <2> QED BY <1>1, <1>5, <1>6, <2>1
  <1> HIDE DEF ss, n
  <1>8. Joins(V, n, ss)
    <2>1. <<>> \in V
      BY NothingWhole
    <2>2. \A s \in V : Len(s) \in Nat /\ <<>> \o s = s
      BY ConcatEmptySeq
    <2>3. ASSUME NEW s \in V, NEW t \in V
          PROVE  /\ s \o t \in V /\ Len(s \o t) = Len(s) + Len(t)
                 /\ \A b \in 1..(Len(s) + Len(t)) :
                      (s \o t)[b] = IF b <= Len(s) THEN s[b] ELSE t[b - Len(s)]
      <3>1. s \in Seq(S) /\ t \in Seq(S) /\ Whole(s) /\ Whole(t)
        OBVIOUS
      <3> HIDE DEF V
      <3>2. /\ s \o t \in Seq(S) /\ Len(s \o t) = Len(s) + Len(t)
            /\ \A b \in 1..(Len(s) + Len(t)) :
                 (s \o t)[b] = IF b <= Len(s) THEN s[b] ELSE t[b - Len(s)]
        BY <3>1, JoinedAt
      <3>3. Whole(s \o t)
        BY <3>1, WholeJoined
      <3> QED BY <3>2, <3>3 DEF V
    <2> HIDE DEF V
    <2> QED BY <1>6, <2>1, <2>2, <2>3 DEF Joins
  <1>9. FlattenSeq(ss) \in V
    <2> HIDE DEF V
    <2> QED BY <1>1, <1>8, JoinedUp
  <1> QED BY <1>2, <1>6, <1>7, <1>9 DEF S, ss, n

LEMMA SliceOf ==
  ASSUME NEW S, NEW s \in Seq(S), NEW m \in Nat, NEW n \in Nat
  PROVE  /\ Slice(s, m, n) \in Seq(S)
         /\ n <= Len(s) /\ m <= n => Len(Slice(s, m, n)) = n - m
  BY DEF Slice

LEMMA WriteAtOf ==
  ASSUME NEW S, Hole \in S, NEW file \in Seq(S), NEW at \in Nat, NEW ink \in Seq(S),
         NEW new, new = WriteAt(file, at, ink)
  PROVE  /\ new \in Seq(S)
         /\ Len(new) = IF at + Len(ink) > Len(file) THEN at + Len(ink) ELSE Len(file)
         /\ \A i \in 1..Len(new) : i > at + Len(ink) => new[i] = file[i]
         /\ \A i \in 1..Len(ink) : new[at + i] = ink[i]
  <1> DEFINE n == IF at + Len(ink) > Len(file) THEN at + Len(ink) ELSE Len(file)
             Entry(i) == IF i > at /\ i <= at + Len(ink) THEN ink[i - at]
                         ELSE IF i <= Len(file) THEN file[i] ELSE Hole
  <1>1. n \in Nat /\ Len(file) \in Nat /\ Len(ink) \in Nat
    OBVIOUS
  <1>2. \A i \in 1..n : Entry(i) \in S
    OBVIOUS
  <1>3. new = [i \in 1..n |-> Entry(i)]
    BY DEF WriteAt
  <1>4. \A i \in 1..n : i > at + Len(ink) => Entry(i) = file[i]
    BY <1>1
  <1>5. \A i \in 1..Len(ink) : at + i \in 1..n /\ Entry(at + i) = ink[i]
    BY <1>1
  <1> HIDE DEF n, Entry
  <1>6. new \in Seq(S) /\ Len(new) = n
    BY <1>1, <1>2, <1>3
  <1>7. \A i \in 1..n : new[i] = Entry(i)
    BY <1>3
  <1> QED BY <1>4, <1>5, <1>6, <1>7 DEF n

\* The last unit of the file, after a write that is not empty: of what was
\* written, or the one there was.
LEMMA LastWritten ==
  ASSUME NEW file \in Seq(Unit), NEW at \in Nat, NEW ink \in Seq(Unit), ink # <<>>,
         NEW new, new = WriteAt(file, at, ink)
  PROVE  /\ new \in Seq(Unit) /\ Len(new) \in Nat \ {0}
         /\ \/ Len(new) = at + Len(ink) /\ new[Len(new)] = ink[Len(ink)]
            \/ /\ Len(new) = Len(file) /\ new[Len(new)] = file[Len(file)]
               /\ at + Len(ink) < Len(file)
  <1>1. Hole \in Unit
    BY DEF Unit
  <1>2. /\ new \in Seq(Unit)
        /\ Len(new) = IF at + Len(ink) > Len(file) THEN at + Len(ink) ELSE Len(file)
        /\ \A i \in 1..Len(new) : i > at + Len(ink) => new[i] = file[i]
        /\ \A i \in 1..Len(ink) : new[at + i] = ink[i]
    <2> DEFINE S == Unit
    <2>1. Hole \in S /\ file \in Seq(S) /\ ink \in Seq(S)
      BY <1>1
    <2> HIDE DEF S
    <2>2. /\ new \in Seq(S)
          /\ Len(new) = IF at + Len(ink) > Len(file) THEN at + Len(ink) ELSE Len(file)
          /\ \A i \in 1..Len(new) : i > at + Len(ink) => new[i] = file[i]
          /\ \A i \in 1..Len(ink) : new[at + i] = ink[i]
      BY <2>1, WriteAtOf
    <2> QED BY <2>2 DEF S
  <1>3. Len(ink) \in Nat \ {0} /\ Len(file) \in Nat
    <2>1. Len(ink) \in Nat /\ Len(file) \in Nat
      OBVIOUS
    <2>2. Len(ink) # 0
      OBVIOUS
    <2> QED BY <2>1, <2>2
  <1> DEFINE l == Len(ink)
             f == Len(file)
             n == Len(new)
  <1>4. /\ n = IF at + l > f THEN at + l ELSE f
        /\ \A i \in 1..n : i > at + l => new[i] = file[i]
        /\ \A i \in 1..l : new[at + i] = ink[i]
        /\ l \in Nat \ {0} /\ f \in Nat
    BY <1>2, <1>3
  <1> HIDE DEF l, f, n
  <1>5. CASE at + l >= f
    BY <1>2, <1>4, <1>5 DEF l, n
  <1>6. CASE at + l < f
    <2>1. n = f /\ n \in 1..n /\ n > at + l
      BY <1>4, <1>6
    <2> QED BY <1>2, <1>4, <1>6, <2>1 DEF l, n, f
  <1> QED BY <1>4, <1>5, <1>6

\* The k-th place of a set, which it has when it has k places or more.
LEMMA NthRank ==
  ASSUME NEW n \in Nat, NEW P \in SUBSET (1..n), NEW k \in 1..Cardinality(P)
  PROVE  \E i \in P : Cardinality({j \in P : j <= i}) = k
  <1> DEFINE UpTo(m) == {j \in P : j <= m}
  <1>1. IsFiniteSet(P) /\ Cardinality(P) \in Nat /\ k \in Nat \ {0}
    <2>1. IsFiniteSet(1..n)
      BY FS_Interval
    <2>2. IsFiniteSet(P)
      BY <2>1, FS_Subset
    <2>3. Cardinality(P) \in Nat
      BY <2>2, FS_CardinalityType
    <2> QED BY <2>2, <2>3
  <1>2. \A m \in Nat : IsFiniteSet(UpTo(m)) /\ Cardinality(UpTo(m)) \in Nat
    <2>1. ASSUME NEW m \in Nat PROVE IsFiniteSet(UpTo(m)) /\ Cardinality(UpTo(m)) \in Nat
      <3>1. UpTo(m) \in SUBSET P
        OBVIOUS
      <3> QED BY <1>1, <3>1, FS_Subset, FS_CardinalityType
    <2> QED BY <2>1
  <1>3. UpTo(0) = {} /\ UpTo(n) = P
    <2>1. \A j \in P : j \in Nat /\ ~(j <= 0) /\ j <= n
      OBVIOUS
    <2> QED BY <2>1
  <1>4. \A m \in Nat \ {0} : IF m \in P THEN UpTo(m) = UpTo(m - 1) \cup {m} /\ m \notin UpTo(m - 1)
                             ELSE UpTo(m) = UpTo(m - 1)
    <2>1. ASSUME NEW m \in Nat \ {0}
          PROVE  IF m \in P THEN UpTo(m) = UpTo(m - 1) \cup {m} /\ m \notin UpTo(m - 1)
                 ELSE UpTo(m) = UpTo(m - 1)
      <3>1. \A j \in P : j \in Nat /\ (j <= m <=> j <= m - 1 \/ j = m)
        OBVIOUS
      <3>2. ~(m <= m - 1)
        OBVIOUS
      <3> QED BY <3>1, <3>2
    <2> QED BY <2>1
  <1>5. \A m \in P : UpTo(m) = {j \in P : j <= m} /\ m \in Nat
    OBVIOUS
  <1> HIDE DEF UpTo
  <1> DEFINE T == {m \in Nat : Cardinality(UpTo(m)) >= k}
  <1>6. T \in SUBSET Nat /\ n \in T /\ T # {}
    BY <1>1, <1>3
  <1>7. PICK m \in T : \A y \in T : m <= y
    BY <1>6, LeastOf
  <1>8. m \in Nat /\ Cardinality(UpTo(m)) >= k
    BY <1>7
  <1>9. m # 0
    <2>1. Cardinality(UpTo(0)) = 0
      BY <1>3, FS_EmptySet
    <2> QED BY <1>1, <1>8, <2>1
  <1>10. m - 1 \in Nat /\ m - 1 \notin T
    BY <1>7, <1>8, <1>9
  <1>11. Cardinality(UpTo(m - 1)) \in Nat /\ ~(Cardinality(UpTo(m - 1)) >= k)
    BY <1>2, <1>10
  <1>12. m \in P /\ UpTo(m) = UpTo(m - 1) \cup {m} /\ m \notin UpTo(m - 1)
    BY <1>4, <1>8, <1>9, <1>11
  <1>13. Cardinality(UpTo(m)) = Cardinality(UpTo(m - 1)) + 1
    BY <1>2, <1>10, <1>12, FS_AddElement
  <1>14. Cardinality(UpTo(m)) = k
    BY <1>1, <1>8, <1>11, <1>13
  <1> QED BY <1>5, <1>12, <1>14

LEMMA NthOf ==
  ASSUME NEW n \in Nat, NEW P \in SUBSET (1..n), NEW k \in 1..Cardinality(P)
  PROVE  Nth(P, k) \in P
  BY NthRank DEF Nth

\* The place of which k places of the set are not behind it is its k-th.
LEMMA NthIs ==
  ASSUME NEW n \in Nat, NEW P \in SUBSET (1..n), NEW i \in P,
         NEW k, k = Cardinality({j \in P : j <= i})
  PROVE  Nth(P, k) = i
  <1> DEFINE UpTo(m) == {j \in P : j <= m}
  <1>1. \A m \in P : IsFiniteSet(UpTo(m)) /\ m \in Nat
    <2>1. IsFiniteSet(1..n)
      <3>1. 1 \in Int /\ n \in Int
        OBVIOUS
      <3> QED BY <3>1, FS_Interval
    <2>2. IsFiniteSet(P)
      BY <2>1, FS_Subset
    <2>3. \A m \in P : UpTo(m) \in SUBSET P /\ m \in Nat
      OBVIOUS
    <2> QED BY <2>2, <2>3, FS_Subset
  <1>2. \A a, b \in P : Cardinality(UpTo(a)) = Cardinality(UpTo(b)) /\ a <= b => a = b
    <2>1. ASSUME NEW a \in P, NEW b \in P, Cardinality(UpTo(a)) = Cardinality(UpTo(b)), a <= b
          PROVE  a = b
      <3>1. UpTo(a) \in SUBSET UpTo(b)
        <4>1. \A j \in P : j \in Nat
          BY <1>1
        <4>2. \A j \in P : j <= a => j <= b
          BY <2>1, <4>1
        <4> QED BY <4>2
      <3>2. IsFiniteSet(UpTo(b))
        BY <1>1
      <3>3. b \in UpTo(b)
        BY <1>1
      <3> HIDE DEF UpTo
      <3>4. UpTo(b) = UpTo(a)
        BY <2>1, <3>1, <3>2, FS_Subset
      <3>5. b \in UpTo(a)
        BY <3>3, <3>4
      <3>6. b <= a
        BY <3>5 DEF UpTo
      <3> QED BY <1>1, <2>1, <3>6
    <2> QED BY <2>1
  <1> DEFINE x == Nth(P, k)
  <1>3. x \in P /\ Cardinality({j \in P : j <= x}) = k
    BY DEF Nth
  <1> HIDE DEF x
  <1>4. Cardinality(UpTo(x)) = Cardinality(UpTo(i))
    BY <1>3
  <1> HIDE DEF UpTo
  <1>5. x \in Nat /\ i \in Nat
    BY <1>1, <1>3
  <1> QED BY <1>2, <1>3, <1>4, <1>5 DEF x

\* The ends of the records cb2 keeps.
Picked(u) == Ends(u) /\ u[1][2] \in Billable

LEMMA KeptOf ==
  ASSUME NEW S, NEW rows \in Seq(S)
  PROVE  Kept(rows) \in Seq(S) /\ Kept(rows) \in Seq({u \in S : Picked(u)})
  <1> DEFINE P == {i \in DOMAIN rows : Picked(rows[i])}
             n == Len(rows)
  <1>1. n \in Nat /\ P \in SUBSET (1..n) /\ \A i \in P : rows[i] \in {u \in S : Picked(u)}
    OBVIOUS
  <1>2. Kept(rows) = [k \in 1..Cardinality(P) |-> rows[Nth(P, k)]]
    BY DEF Kept, Chosen, Picked
  <1> HIDE DEF P, n
  <1>3. Cardinality(P) \in Nat
    <2>1. IsFiniteSet(1..n)
      BY <1>1, FS_Interval
    <2> QED BY <1>1, <2>1, FS_Subset, FS_CardinalityType
  <1>4. \A k \in 1..Cardinality(P) : rows[Nth(P, k)] \in {u \in S : Picked(u)}
    BY <1>1, NthOf
  <1>5. Kept(rows) \in Seq({u \in S : Picked(u)})
    BY <1>2, <1>3, <1>4
  <1> QED BY <1>5

LEMMA KeptJoined ==
  ASSUME NEW S, NEW s \in Seq(S), NEW t \in Seq(S)
  PROVE  Kept(s \o t) = Kept(s) \o Kept(t)
  <1> DEFINE m == Len(s)
             n == Len(t)
             u == s \o t
             P == {i \in 1..m : Picked(s[i])}
             Q == {i \in 1..n : Picked(t[i])}
             R == {i \in 1..(m + n) : Picked(u[i])}
             M == {m + j : j \in Q}
             p == Cardinality(P)
             q == Cardinality(Q)
  <1>1. /\ m \in Nat /\ n \in Nat /\ u \in Seq(S) /\ Len(u) = m + n
        /\ \A i \in 1..(m + n) : u[i] = IF i <= m THEN s[i] ELSE t[i - m]
    OBVIOUS
  <1>2. \A i \in 1..m : u[i] = s[i]
    BY <1>1
  <1>3. \A i \in 1..n : u[m + i] = t[i]
    BY <1>1
  <1> HIDE DEF m, n, u
  <1>4. P \in SUBSET (1..m) /\ Q \in SUBSET (1..n) /\ R \in SUBSET (1..(m + n))
    OBVIOUS
  <1>5. \A i \in 1..(m + n) : i \in R <=> IF i <= m THEN i \in P ELSE i - m \in Q
    <2>1. ASSUME NEW i \in 1..(m + n), i <= m PROVE i \in R <=> i \in P
      BY <1>1, <1>2, <2>1
    <2>2. ASSUME NEW i \in 1..(m + n), ~(i <= m) PROVE i \in R <=> i - m \in Q
      <3>1. i - m \in 1..n /\ m + (i - m) = i
        BY <1>1, <2>2
      <3>2. u[i] = t[i - m]
        BY <1>3, <3>1
      <3> QED BY <3>1, <3>2
    <2> QED BY <2>1, <2>2
  <1>6. IsFiniteSet(P) /\ IsFiniteSet(Q) /\ p \in Nat /\ q \in Nat
    <2>1. IsFiniteSet(1..m) /\ IsFiniteSet(1..n)
      <3>1. 1 \in Int /\ m \in Int /\ n \in Int
        BY <1>1
      <3> QED BY <3>1, FS_Interval
    <2>2. IsFiniteSet(P) /\ IsFiniteSet(Q)
      BY <1>4, <2>1, FS_Subset
    <2> HIDE DEF P, Q
    <2> QED BY <2>2, FS_CardinalityType
  <1> HIDE DEF P, Q, R, p, q
  \* The places of a part of t, moved behind s.
  <1>7. ASSUME NEW D \in SUBSET Q
        PROVE  /\ IsFiniteSet({m + j : j \in D})
               /\ Cardinality({m + j : j \in D}) = Cardinality(D)
               /\ IsFiniteSet(P \cup {m + j : j \in D})
               /\ Cardinality(P \cup {m + j : j \in D}) = p + Cardinality(D)
    <2> DEFINE E == {m + j : j \in D}
               g == [j \in D |-> m + j]
    <2>1. D \in SUBSET (1..n) /\ IsFiniteSet(D) /\ Cardinality(D) \in Nat
      <3>1. IsFiniteSet(D)
        BY <1>6, FS_Subset
      <3> QED BY <1>4, <3>1, FS_CardinalityType
    <2>2. \A j \in D : j \in Nat /\ j >= 1
      BY <2>1
    <2>3. g \in Bijection(D, E)
      <3>1. g \in [D -> E] /\ \A y \in E : \E j \in D : g[j] = y
        OBVIOUS
      <3>2. \A i, j \in D : g[i] = g[j] => i = j
        BY <1>1, <2>2
      <3> HIDE DEF g
      <3>3. g \in Injection(D, E)
        BY <3>1, <3>2 DEF Injection, IsInjective
      <3>4. g \in Surjection(D, E)
        BY <3>1 DEF Surjection
      <3> QED BY <3>3, <3>4 DEF Bijection
    <2>4. IsFiniteSet(E) /\ Cardinality(E) = Cardinality(D)
      BY <2>1, <2>3, FS_Bijection DEF ExistsBijection
    <2>5. P \cap E = {}
      <3>1. \A y \in E : y \in Nat /\ y > m
        BY <1>1, <2>2
      <3>2. \A i \in P : i \in Nat /\ i <= m
        BY <1>1, <1>4
      <3> HIDE DEF E
      <3>3. \A y \in E : y \notin P
        BY <1>1, <3>1, <3>2
      <3> QED BY <3>3
    <2> HIDE DEF E, g
    <2>6. IsFiniteSet(P \cup E) /\ Cardinality(P \cup E) = p + Cardinality(D)
      <3>1. Cardinality(P \cap E) = 0
        BY <2>5, FS_EmptySet
      <3>2. /\ IsFiniteSet(P \cup E)
            /\ Cardinality(P \cup E) = Cardinality(P) + Cardinality(E) - Cardinality(P \cap E)
        BY <1>6, <2>4, FS_Union
      <3>3. Cardinality(P \cup E) = p + Cardinality(D) - 0
        BY <2>4, <3>1, <3>2 DEF p
      <3> QED BY <1>6, <2>1, <3>2, <3>3
    <2> QED BY <2>4, <2>6 DEF E
  <1>8. R = P \cup M
    <2>1. \A i \in R : i \in P \cup M
      <3>1. ASSUME NEW i \in R PROVE i \in P \cup M
        <4>1. i \in 1..(m + n)
          BY <1>4
        <4>2. CASE i <= m
          BY <1>5, <4>1, <4>2
        <4>3. CASE ~(i <= m)
          <5>1. i - m \in Q /\ i = m + (i - m)
            BY <1>1, <1>5, <4>1, <4>3
          <5> QED BY <5>1
        <4> QED BY <4>2, <4>3
      <3> QED BY <3>1
    <2>2. \A i \in P : i \in R
      BY <1>1, <1>4, <1>5
    <2>3. \A j \in Q : m + j \in R
      <3>1. ASSUME NEW j \in Q PROVE m + j \in R
        <4>1. j \in 1..n
          BY <1>4
        <4>2. m + j \in 1..(m + n) /\ ~(m + j <= m) /\ (m + j) - m = j
          BY <1>1, <4>1
        <4> QED BY <1>5, <4>2
      <3> QED BY <3>1
    <2> QED BY <2>1, <2>2, <2>3
  <1>9. Cardinality(R) = p + q
    BY <1>7, <1>8 DEF q
  <1>10. \A k \in 1..p : Nth(R, k) = Nth(P, k) /\ Nth(P, k) \in 1..m
    <2>1. ASSUME NEW k \in 1..p PROVE Nth(R, k) = Nth(P, k) /\ Nth(P, k) \in 1..m
      <3> DEFINE i == Nth(P, k)
      <3>1. i \in P
        BY <1>1, <1>4, NthOf DEF p
      <3>2. Cardinality({j \in P : j <= i}) = k
        <4>1. \E x \in P : Cardinality({j \in P : j <= x}) = k
          BY <1>1, <1>4, NthRank DEF p
        <4> QED BY <4>1 DEF Nth
      <3> HIDE DEF i
      <3>3. i \in 1..m /\ i \in R
        BY <1>4, <1>8, <3>1
      <3>4. {j \in R : j <= i} = {j \in P : j <= i}
        <4>1. \A j \in R : j <= i => j \in P
          <5>1. ASSUME NEW j \in R, j <= i PROVE j \in P
            <6>1. j \in 1..(m + n) /\ j <= m
              BY <1>1, <1>4, <3>3, <5>1
            <6> QED BY <1>5, <6>1
          <5> QED BY <5>1
        <4> QED BY <1>8, <4>1
      <3>5. Nth(R, k) = i
        <4>1. m + n \in Nat
          BY <1>1
        <4>2. k = Cardinality({j \in R : j <= i})
          BY <3>2, <3>4
        <4> DEFINE all == m + n
        <4>3. all \in Nat /\ R \in SUBSET (1..all) /\ i \in R
          BY <1>4, <3>3, <4>1
        <4> HIDE DEF all
        <4> QED BY <4>2, <4>3, NthIs
      <3> QED BY <3>3, <3>5 DEF i
    <2> QED BY <2>1
  <1>11. \A k \in 1..q : Nth(R, p + k) = m + Nth(Q, k) /\ Nth(Q, k) \in 1..n
    <2>1. ASSUME NEW k \in 1..q PROVE Nth(R, p + k) = m + Nth(Q, k) /\ Nth(Q, k) \in 1..n
      <3> DEFINE i == Nth(Q, k)
                 D == {j \in Q : j <= i}
      <3>1. i \in Q
        BY <1>1, <1>4, NthOf DEF q
      <3>2. Cardinality(D) = k
        <4>1. \E x \in Q : Cardinality({j \in Q : j <= x}) = k
          BY <1>1, <1>4, NthRank DEF q
        <4> QED BY <4>1 DEF Nth
      <3> HIDE DEF i
      <3>3. i \in 1..n /\ m + i \in R
        BY <1>4, <1>8, <3>1
      <3>4. {j \in R : j <= m + i} = P \cup {m + j : j \in D}
        <4>1. \A j \in R : j <= m + i => j \in P \cup {m + l : l \in D}
          <5>1. ASSUME NEW j \in R, j <= m + i PROVE j \in P \cup {m + l : l \in D}
            <6>1. CASE j \in P
              BY <6>1
            <6>2. CASE j \notin P
              <7>1. PICK l \in Q : j = m + l
                BY <1>8, <6>2
              <7>2. l \in 1..n /\ l <= i
                BY <1>1, <1>4, <3>3, <5>1, <7>1
              <7> QED BY <7>1, <7>2
            <6> QED BY <6>1, <6>2
          <5> QED BY <5>1
        <4>2. \A j \in P : j \in R /\ j <= m + i
          BY <1>1, <1>4, <1>8, <3>3
        <4>3. \A l \in D : m + l \in R /\ m + l <= m + i
          BY <1>1, <1>4, <1>8, <3>3
        <4> HIDE DEF D
        <4> QED BY <4>1, <4>2, <4>3
      <3>5. D \in SUBSET Q
        OBVIOUS
      <3> HIDE DEF D
      <3>6. Nth(R, p + k) = m + i
        <4>1. m + n \in Nat
          BY <1>1
        <4>2. Cardinality(P \cup {m + j : j \in D}) = p + Cardinality(D)
          BY <1>7, <3>5
        <4>3. p + k = Cardinality({j \in R : j <= m + i})
          BY <3>2, <3>4, <4>2
        <4> DEFINE all == m + n
                   at == m + i
                   rank == p + k
        <4>4. all \in Nat /\ R \in SUBSET (1..all) /\ at \in R
          BY <1>4, <3>3, <4>1
        <4>5. rank = Cardinality({j \in R : j <= at})
          BY <4>3
        <4> HIDE DEF all, at, rank
        <4>6. Nth(R, rank) = at
          BY <4>4, <4>5, NthIs
        <4> QED BY <4>6 DEF rank, at
      <3> QED BY <3>3, <3>6 DEF i
    <2> QED BY <2>1
  <1>12. /\ Kept(s) = [k \in 1..p |-> s[Nth(P, k)]]
         /\ Kept(t) = [k \in 1..q |-> t[Nth(Q, k)]]
         /\ Kept(u) = [k \in 1..(p + q) |-> u[Nth(R, k)]]
    <2>1. DOMAIN s = 1..m /\ DOMAIN t = 1..n /\ DOMAIN u = 1..(m + n)
      BY <1>1 DEF m, n
    <2>2. Kept(s) = [k \in 1..p |-> s[Nth(P, k)]]
      BY <2>1 DEF Kept, Chosen, Picked, P, p
    <2>3. Kept(t) = [k \in 1..q |-> t[Nth(Q, k)]]
      BY <2>1 DEF Kept, Chosen, Picked, Q, q
    <2>4. Kept(u) = [k \in 1..(p + q) |-> u[Nth(R, k)]]
      BY <1>9, <2>1 DEF Kept, Chosen, Picked, R
    <2> QED BY <2>2, <2>3, <2>4
  <1>13. Kept(s) \in Seq(S) /\ Kept(t) \in Seq(S) /\ Kept(u) \in Seq(S)
    BY <1>1, KeptOf
  <1>14. Len(Kept(s)) = p /\ Len(Kept(t)) = q /\ Len(Kept(u)) = p + q
    <2>1. DOMAIN Kept(s) = 1..p /\ DOMAIN Kept(t) = 1..q /\ DOMAIN Kept(u) = 1..(p + q)
      BY <1>12
    <2> QED BY <1>6, <1>13, <2>1, LenProperties
  <1> DEFINE v == Kept(s) \o Kept(t)
  <1>15. /\ v \in Seq(S) /\ Len(v) = p + q
         /\ \A k \in 1..(p + q) : v[k] = IF k <= p THEN Kept(s)[k] ELSE Kept(t)[k - p]
    BY <1>13, <1>14, ConcatProperties
  <1> HIDE DEF v
  <1>16. ASSUME NEW k \in 1..(p + q) PROVE Kept(u)[k] = v[k]
    <2>1. CASE k <= p
      <3>1. k \in 1..p
        BY <1>6, <2>1
      <3>2. Kept(u)[k] = u[Nth(P, k)] /\ Kept(s)[k] = s[Nth(P, k)]
        BY <1>10, <1>12, <3>1
      <3> QED BY <1>2, <1>10, <1>15, <2>1, <3>1, <3>2
    <2>2. CASE ~(k <= p)
      <3> DEFINE l == k - p
      <3>1. l \in 1..q /\ k = p + l
        BY <1>6, <2>2
      <3>2. v[k] = Kept(t)[l]
        BY <1>15, <2>2
      <3> HIDE DEF l
      <3>3. Kept(u)[k] = u[m + Nth(Q, l)] /\ Kept(t)[l] = t[Nth(Q, l)]
        BY <1>11, <1>12, <3>1
      <3> QED BY <1>3, <1>11, <3>1, <3>2, <3>3
    <2> QED BY <2>1, <2>2
  <1>17. Kept(u) = v
    BY <1>13, <1>14, <1>15, <1>16, SeqEqual
  <1> QED BY <1>17 DEF u, v
-----------------------------------------------------------------------------
(* The end of lama.cal.                                                    *)
Locals == [src : Nat, found : BOOLEAN, in : Nat, last : WorkUnit \cup {Start, Torn},
           out : Seq(Unit), at : Nat, count : Nat]

\* The last unit of a FIN line, or of what csv_fini adds to it.
Closes(u)  == Ends(u) /\ u[1][1] \in {"fin", "late"}
EndsWell   == Closes(lama[Len(lama)])
Writing    == {"parse", "close"}

\* What is at the end of lama.cal closes it, or was written by a child that
\* still writes; what a child writes last closes the file.
LamaInv ==
  /\ loc \in [Conn -> Locals]
  /\ work \in Seq(WorkUnit) /\ lama \in Seq(Unit)
  /\ \A c \in Conn : pc[c] = "close" =>
       loc[c].out # <<>> /\ Closes(loc[c].out[Len(loc[c].out)])
  /\ server = "listening" /\ starts = 1 /\ lama # <<>> =>
       EndsWell \/ \E c \in Conn : pc[c] \in Writing /\ loc[c].at >= Len(lama)

LEMMA LamaInvInit == Init => LamaInv
  BY DEF Init, LamaInv, Locals, NoLocals

LEMMA Updated ==
  ASSUME NEW l \in Locals
  PROVE  /\ \A n \in Nat : /\ [l EXCEPT !.src = n] \in Locals /\ [l EXCEPT !.in = n] \in Locals
                          /\ [l EXCEPT !.at = n] \in Locals /\ [l EXCEPT !.count = n] \in Locals
         /\ [l EXCEPT !.found = TRUE] \in Locals
         /\ \A s \in Seq(Unit) : [l EXCEPT !.out = s] \in Locals
         /\ \A u \in WorkUnit \cup {Start, Torn} : [l EXCEPT !.last = u] \in Locals
  <1>1. \A n \in Nat : [l EXCEPT !.src = n] \in Locals /\ [l EXCEPT !.in = n] \in Locals
    BY DEF Locals
  <1>2. \A n \in Nat : [l EXCEPT !.at = n] \in Locals /\ [l EXCEPT !.count = n] \in Locals
    BY DEF Locals
  <1>3. [l EXCEPT !.found = TRUE] \in Locals
    BY DEF Locals
  <1>4. \A s \in Seq(Unit) : [l EXCEPT !.out = s] \in Locals
    BY DEF Locals
  <1>5. \A u \in WorkUnit \cup {Start, Torn} : [l EXCEPT !.last = u] \in Locals
    BY DEF Locals
  <1> QED BY <1>1, <1>2, <1>3, <1>4, <1>5

\* A step that changes neither the file nor the locals of who writes it.
LEMMA LamaSame ==
  ASSUME SeqInv, LamaInv, lama' = lama,
         loc' \in [Conn -> Locals], work' \in Seq(WorkUnit),
         server' = "listening" /\ starts' = 1 => server = "listening" /\ starts = 1,
         \A c \in Conn : pc'[c] = "close" => pc[c] = "close" /\ loc'[c].out = loc[c].out,
         \A c \in Conn : server' = "listening" /\ pc[c] \in Writing =>
           pc'[c] \in Writing /\ loc'[c].at = loc[c].at
  PROVE  LamaInv'
  BY DEF LamaInv, EndsWell

\* Who has the last entry of text that is joined.
LastOne(u, t) == u # <<>> /\ u[Len(u)] = t[Len(t)]

LEMMA LastJoined ==
  ASSUME NEW S, NEW s \in Seq(S), NEW t \in Seq(S), t # <<>>
  PROVE  LastOne(s \o t, t) /\ s \o t \in Seq(S)
  <1> DEFINE m == Len(s)
             n == Len(t)
             u == s \o t
  <1>1. /\ m \in Nat /\ n \in Nat \ {0} /\ u \in Seq(S) /\ Len(u) = m + n
        /\ \A i \in 1..(m + n) : u[i] = IF i <= m THEN s[i] ELSE t[i - m]
    <2>1. n # 0
      OBVIOUS
    <2> QED BY <2>1, JoinedAt
  <1> HIDE DEF m, n, u
  <1>2. m + n \in 1..(m + n) /\ ~(m + n <= m) /\ (m + n) - m = n
    BY <1>1
  <1>3. u[m + n] = t[n]
    BY <1>1, <1>2
  <1>4. u # <<>>
    <2>1. Len(u) # 0
      BY <1>1
    <2> QED BY <2>1
  <1> QED BY <1>1, <1>3, <1>4 DEF LastOne, u, n

\* The two parts of what is cut at n.
LEMMA CutAt ==
  ASSUME NEW S, NEW s \in Seq(S), NEW n \in 0..Len(s)
  PROVE  /\ Slice(s, 0, n) \in Seq(S) /\ Len(Slice(s, 0, n)) = n
         /\ Slice(s, n, Len(s)) \in Seq(S) /\ Len(Slice(s, n, Len(s))) = Len(s) - n
         /\ Slice(s, 0, n) \o Slice(s, n, Len(s)) = s
         /\ n < Len(s) => Slice(s, n, Len(s))[Len(s) - n] = s[Len(s)]
  <1> DEFINE m == Len(s)
  <1>1. m \in Nat /\ n \in Nat /\ n <= m
    OBVIOUS
  <1>2. Slice(s, 0, n) = SubSeq(s, 1, n) /\ Slice(s, n, m) = SubSeq(s, n + 1, m)
    <2>1. (IF n < m THEN n ELSE m) = n /\ (IF m < m THEN m ELSE m) = m /\ 0 + 1 = 1
      BY <1>1
    <2> QED BY <2>1 DEF Slice
  <1>3. SubSeq(s, 1, n) \in Seq(S) /\ Len(SubSeq(s, 1, n)) = n
    OBVIOUS
  <1>4. /\ SubSeq(s, n + 1, m) \in Seq(S) /\ Len(SubSeq(s, n + 1, m)) = m - n
        /\ n < m => SubSeq(s, n + 1, m)[m - n] = s[m]
    OBVIOUS
  <1>5. SubSeq(s, 1, n) \o SubSeq(s, n + 1, m) = s
    <2>1. 1 \in 1..(m + 1) /\ n \in (1 - 1)..m /\ m \in n..m
      BY <1>1
    <2>2. SubSeq(s, 1, n) \o SubSeq(s, n + 1, m) = SubSeq(s, 1, m)
      BY <2>1, ConcatAdjacentSubSeq
    <2> QED BY <2>2, SubSeqFull
  <1> QED BY <1>2, <1>3, <1>4, <1>5

\* A child writes some text to the file, which is not nothing, at its offset.
LEMMA WriteStep ==
  ASSUME SeqInv, LamaInv, NEW c \in Conn, NEW ink \in Seq(Unit), ink # <<>>,
         lama' = WriteAt(lama, loc[c].at, ink),
         loc' \in [Conn -> Locals], work' \in Seq(WorkUnit),
         UNCHANGED <<server, starts>>,
         \A d \in Conn \ {c} : pc'[d] = pc[d] /\ loc'[d] = loc[d],
         pc'[c] = "close" => loc'[c].out # <<>> /\ Closes(loc'[c].out[Len(loc'[c].out)]),
         \/ pc'[c] \in Writing /\ loc'[c].at = loc[c].at + Len(ink)
         \/ Closes(ink[Len(ink)])
  PROVE  LamaInv'
  <1>1. /\ loc[c] \in Locals /\ lama \in Seq(Unit) /\ loc[c].at \in Nat
        /\ Len(lama) \in Nat /\ Len(ink) \in Nat \ {0}
    <2>1. loc[c] \in Locals /\ lama \in Seq(Unit)
      BY DEF LamaInv
    <2>2. Len(ink) # 0
      OBVIOUS
    <2>3. Len(lama) \in Nat /\ Len(ink) \in Nat
      BY <2>1
    <2> QED BY <2>1, <2>2, <2>3 DEF Locals
  <1>2. /\ lama' \in Seq(Unit) /\ Len(lama') \in Nat \ {0}
        /\ \/ Len(lama') = loc[c].at + Len(ink) /\ lama'[Len(lama')] = ink[Len(ink)]
           \/ /\ Len(lama') = Len(lama) /\ lama'[Len(lama')] = lama[Len(lama)]
              /\ loc[c].at + Len(ink) < Len(lama)
    BY <1>1, LastWritten
  <1>3. \A d \in Conn : pc'[d] = "close" =>
          loc'[d].out # <<>> /\ Closes(loc'[d].out[Len(loc'[d].out)])
    BY DEF LamaInv
  <1>4. server = "listening" /\ starts = 1 =>
          EndsWell' \/ \E d \in Conn : pc'[d] \in Writing /\ loc'[d].at >= Len(lama')
    <2>1. CASE /\ Len(lama') = loc[c].at + Len(ink) /\ lama'[Len(lama')] = ink[Len(ink)]
               /\ pc'[c] \in Writing /\ loc'[c].at = loc[c].at + Len(ink)
      <3>1. loc'[c].at >= Len(lama')
        BY <1>1, <2>1
      <3> QED BY <2>1, <3>1
    <2>2. CASE lama'[Len(lama')] = ink[Len(ink)] /\ Closes(ink[Len(ink)])
      BY <2>2 DEF EndsWell
    <2>3. CASE /\ Len(lama') = Len(lama) /\ lama'[Len(lama')] = lama[Len(lama)]
               /\ loc[c].at + Len(ink) < Len(lama)
      <3>1. ~(loc[c].at >= Len(lama)) /\ lama # <<>>
        BY <1>1, <1>2, <2>3
      <3>2. server = "listening" /\ starts = 1 =>
              EndsWell \/ \E d \in Conn \ {c} : pc[d] \in Writing /\ loc[d].at >= Len(lama)
        BY <3>1 DEF LamaInv
      <3>3. EndsWell => EndsWell'
        BY <2>3 DEF EndsWell
      <3>4. \A d \in Conn \ {c} : pc[d] \in Writing /\ loc[d].at >= Len(lama) =>
              pc'[d] \in Writing /\ loc'[d].at >= Len(lama')
        BY <2>3
      <3> QED BY <3>2, <3>3, <3>4
    <2> QED BY <1>2, <2>1, <2>2, <2>3
  <1> QED BY <1>2, <1>3, <1>4 DEF LamaInv

LEMMA FlushStep == ASSUME SeqInv, LamaInv, NEW c \in Conn, Flush(c) PROVE LamaInv'
  <1> DEFINE l == loc[c]
             out == l.out
             ink == Slice(out, 0, Buffer)
             rest == Slice(out, Buffer, Len(out))
  <1>1. /\ loc \in [Conn -> Locals] /\ l \in Locals /\ out \in Seq(Unit) /\ l.at \in Nat
        /\ work \in Seq(WorkUnit) /\ Buffer \in Nat \ {0} /\ Len(out) \in Nat
    <2>1. loc \in [Conn -> Locals] /\ work \in Seq(WorkUnit) /\ Buffer \in Nat \ {0}
      BY ConstAssumption DEF LamaInv
    <2>2. loc[c] \in Locals
      BY <2>1
    <2>3. loc[c].out \in Seq(Unit) /\ loc[c].at \in Nat
      BY <2>2 DEF Locals
    <2> QED BY <2>1, <2>2, <2>3
  <1>2. /\ lama' = WriteAt(lama, l.at, ink) /\ UNCHANGED <<server, starts, pc, work>>
        /\ pc[c] \in Writing /\ Len(out) > Buffer
        /\ loc' = [loc EXCEPT ![c] = [l EXCEPT !.at = @ + Buffer, !.out = rest]]
    BY <1>1 DEF Flush, proc, Writing
  <1> HIDE DEF out
  <1>3. /\ ink \in Seq(Unit) /\ Len(ink) = Buffer /\ ink # <<>>
        /\ rest \in Seq(Unit) /\ Len(rest) = Len(out) - Buffer /\ rest # <<>>
        /\ rest[Len(rest)] = out[Len(out)]
    <2>1. Buffer \in 0..Len(out)
      BY <1>1, <1>2
    <2>2. /\ ink \in Seq(Unit) /\ Len(ink) = Buffer
          /\ rest \in Seq(Unit) /\ Len(rest) = Len(out) - Buffer
          /\ rest[Len(out) - Buffer] = out[Len(out)]
      BY <1>1, <1>2, <2>1, CutAt
    <2>3. Len(ink) # 0 /\ Len(rest) # 0
      BY <1>1, <1>2, <2>2
    <2> QED BY <2>2, <2>3
  <1> HIDE DEF ink, rest
  <1>4. /\ loc' \in [Conn -> Locals] /\ \A d \in Conn \ {c} : loc'[d] = loc[d]
        /\ loc'[c].at = l.at + Len(ink) /\ loc'[c].out = rest
    <2> DEFINE new == [l EXCEPT !.at = @ + Buffer, !.out = rest]
    <2>1. new \in Locals /\ new.at = l.at + Buffer /\ new.out = rest
      <3> HIDE DEF l
      <3>1. l.at + Buffer \in Nat
        BY <1>1
      <3> QED BY <1>1, <1>3, <3>1 DEF Locals
    <2> HIDE DEF new, l
    <2>2. loc' = [loc EXCEPT ![c] = new]
      BY <1>2 DEF new
    <2> QED BY <1>1, <1>3, <2>1, <2>2
  <1>5. pc'[c] = "close" => loc'[c].out # <<>> /\ Closes(loc'[c].out[Len(loc'[c].out)])
    BY <1>2, <1>3, <1>4 DEF LamaInv, out
  <1>6. work' \in Seq(WorkUnit) /\ pc'[c] \in Writing /\ UNCHANGED <<server, starts>>
        /\ (\A d \in Conn \ {c} : pc'[d] = pc[d] /\ loc'[d] = loc[d])
    BY <1>1, <1>2, <1>4
  <1> QED BY <1>2, <1>3, <1>4, <1>5, <1>6, WriteStep

LEMMA CloseStep == ASSUME SeqInv, LamaInv, NEW c \in Conn, CloseLama(c) PROVE LamaInv'
  <1> DEFINE l == loc[c]
             ink == l.out
  <1>1. /\ loc \in [Conn -> Locals] /\ l \in Locals /\ ink \in Seq(Unit)
        /\ work \in Seq(WorkUnit) /\ pc \in [Conn -> PC]
    BY DEF LamaInv, Locals, SeqInv, TypeOK
  <1>2. /\ lama' = WriteAt(lama, l.at, ink) /\ UNCHANGED <<server, starts, work>>
        /\ pc[c] = "close" /\ pc' = [pc EXCEPT ![c] = "send"]
        /\ loc' = [loc EXCEPT ![c] = [l EXCEPT !.out = <<>>, !.at = 0]]
    BY <1>1 DEF CloseLama, proc, Goto
  <1>3. ink # <<>> /\ Closes(ink[Len(ink)])
    BY <1>2 DEF LamaInv
  <1>4. /\ loc' \in [Conn -> Locals] /\ pc'[c] # "close"
        /\ \A d \in Conn \ {c} : pc'[d] = pc[d] /\ loc'[d] = loc[d]
    <2>1. [l EXCEPT !.out = <<>>, !.at = 0] \in Locals
      <3> HIDE DEF l
      <3>1. [l EXCEPT !.out = <<>>, !.at = 0] = [[l EXCEPT !.out = <<>>] EXCEPT !.at = 0]
        OBVIOUS
      <3>2. <<>> \in Seq(Unit)
        OBVIOUS
      <3>3. [l EXCEPT !.out = <<>>] \in Locals
        BY <1>1, <3>2, Updated
      <3> QED BY <3>1, <3>3, Updated
    <2> HIDE DEF l
    <2> QED BY <1>1, <1>2, <2>1
  <1>5. work' \in Seq(WorkUnit)
    BY <1>1, <1>2
  <1> HIDE DEF ink
  <1>6. lama' = WriteAt(lama, loc[c].at, ink) /\ UNCHANGED <<server, starts>>
    BY <1>2
  <1> QED BY <1>1, <1>3, <1>4, <1>5, <1>6, WriteStep

\* What the parser takes of the working file.
NextText(c) == Slice(work, loc[c].in, loc[c].in + Buffer)

LEMMA KeptRows ==
  ASSUME NEW ink \in Seq(WorkUnit)
  PROVE  Kept(ink) \in Seq({u \in CallInk : Picked(u)})
  <1>1. \A u \in WorkUnit : Picked(u) => u \in CallInk
    BY NoHole DEF Picked, WorkUnit
  <1>2. Kept(ink) \in Seq({u \in WorkUnit : Picked(u)})
    BY KeptOf
  <1>3. {u \in WorkUnit : Picked(u)} \subseteq {u \in CallInk : Picked(u)}
    BY <1>1
  <1> QED BY <1>2, <1>3

LEMMA RowLinesOf ==
  ASSUME NEW ends \in Seq(CallInk)
  PROVE  /\ RowLines(ends) \in Seq(Ink)
         /\ LET rows == [i \in 1..Len(ends) |-> Row(ends[i][1][2])]
            IN /\ rows \in Seq(Line) /\ Len(rows) = Len(ends) /\ RowLines(ends) = Texts(rows)
               /\ Pages(rows) \in Seq(Seq(Ink)) /\ Len(Pages(rows)) = Len(ends)
               /\ RowLines(ends) = FlattenSeq(Pages(rows))
  <1> DEFINE rows == [i \in 1..Len(ends) |-> Row(ends[i][1][2])]
             n == Len(ends)
  <1>1. n \in Nat /\ DOMAIN ends = 1..n /\ \A i \in 1..n : ends[i] \in CallInk
    OBVIOUS
  <1>2. \A i \in 1..n : Row(ends[i][1][2]) \in Line
    <2>1. \A u \in CallInk : u[1][2] \in Rows
      BY DEF CallInk, Call
    <2> QED BY <1>1, <2>1 DEF Line
  <1>3. rows \in Seq(Line) /\ Len(rows) = n
    BY <1>1, <1>2
  <1>4. RowLines(ends) = Texts(rows)
    BY <1>1 DEF RowLines
  <1> HIDE DEF rows
  <1>5. /\ Texts(rows) = FlattenSeq(Pages(rows)) /\ Pages(rows) \in Seq(Seq(Line \X Nat))
        /\ Len(Pages(rows)) = Len(rows) /\ Texts(rows) \in Seq(Line \X Nat)
    BY <1>3, LineWidth, TextsOf
  <1> QED BY <1>3, <1>4, <1>5 DEF rows, Ink

LEMMA InkIsText == ASSUME NEW s \in Seq(Ink) PROVE s \in Seq(Unit)
  <1>1. Ink \subseteq Unit
    BY DEF Unit
  <1> QED BY <1>1

\* What a step of the parser reads and writes.
LEMMA ParseTakes ==
  ASSUME SeqInv, LamaInv, NEW c \in Conn, Parse(c)
  PROVE  \E lines \in Seq(Ink), last \in WorkUnit \cup {Start, Torn}, kept \in Nat :
           /\ loc' = [loc EXCEPT ![c] = [loc[c] EXCEPT !.in = @ + Len(NextText(c)), !.last = last,
                                           !.out = @ \o lines, !.count = @ + kept]]
           /\ NextText(c) \in Seq(WorkUnit) /\ NextText(c) # <<>>
           /\ Smooth(loc[c].last, NextText(c)) =>
                /\ last = NextText(c)[Len(NextText(c))]
                /\ lines = RowLines(Kept(NextText(c))) /\ kept = Len(Kept(NextText(c)))
  <1> DEFINE ink == NextText(c)
             feeds == Cardinality({i \in DOMAIN ink : Ends(ink[i])})
             whole == Smooth(loc[c].last, ink)
             ends == Kept(ink)
             Lasts == WorkUnit \cup {Start, Torn}
             Did(lines, last, kept) ==
               loc' = [loc EXCEPT ![c] = [loc[c] EXCEPT !.in = @ + Len(ink), !.last = last,
                                           !.out = @ \o lines, !.count = @ + kept]]
  <1>1. /\ loc \in [Conn -> Locals] /\ loc[c] \in Locals /\ work \in Seq(WorkUnit)
        /\ Buffer \in Nat \ {0} /\ loc[c].in < Len(work) /\ loc[c].in \in Nat
    <2>1. loc \in [Conn -> Locals] /\ work \in Seq(WorkUnit) /\ Buffer \in Nat \ {0}
      BY ConstAssumption DEF LamaInv
    <2>2. loc[c] \in Locals
      BY <2>1
    <2>3. loc[c].in \in Nat
      BY <2>2 DEF Locals
    <2> QED BY <2>1, <2>2, <2>3 DEF Parse
  <1>2. ink \in Seq(WorkUnit) /\ ink # <<>> /\ Len(ink) \in Nat \ {0}
    <2> DEFINE n == loc[c].in
               m == IF n + Buffer < Len(work) THEN n + Buffer ELSE Len(work)
    <2>1. n \in Nat /\ m \in Nat /\ n < m /\ m <= Len(work)
      BY <1>1
    <2>2. ink = SubSeq(work, n + 1, m)
      BY DEF NextText, Slice
    <2> HIDE DEF n, m, ink
    <2>3. SubSeq(work, n + 1, m) \in Seq(WorkUnit) /\ Len(SubSeq(work, n + 1, m)) = m - n
      BY <1>1, <2>1
    <2>4. Len(ink) \in Nat \ {0} /\ ink \in Seq(WorkUnit)
      BY <2>1, <2>2, <2>3
    <2> QED BY <2>4
  <1>3. PICK odd \in IF whole THEN {<<>>} ELSE SeqOf(OddWidths, feeds) :
          Did(IF whole THEN RowLines(ends) ELSE Texts([i \in DOMAIN odd |-> Odd(odd[i])]),
              IF whole THEN ink[Len(ink)] ELSE Torn,
              IF whole THEN Len(ends) ELSE Len(odd))
    <2> DEFINE Odds == IF whole THEN {<<>>} ELSE SeqOf(OddWidths, feeds)
               Lines(odd) == IF whole THEN RowLines(ends) ELSE Texts([i \in DOMAIN odd |-> Odd(odd[i])])
               Many(odd) == IF whole THEN Len(ends) ELSE Len(odd)
               u == IF whole THEN ink[Len(ink)] ELSE Torn
    <2>1. \E odd \in Odds : loc' = [loc EXCEPT ![c].in = @ + Len(ink), ![c].last = u,
                                       ![c].out = @ \o Lines(odd), ![c].count = @ + Many(odd)]
      BY DEF Parse, NextText
    <2> HIDE DEF Odds, Lines, Many, u, ink
    <2>2. PICK odd \in Odds : loc' = [loc EXCEPT ![c].in = @ + Len(ink), ![c].last = u,
                                       ![c].out = @ \o Lines(odd), ![c].count = @ + Many(odd)]
      BY <2>1
    <2>3. Did(Lines(odd), u, Many(odd))
      BY <1>1, <2>2
    <2> QED BY <2>3 DEF Odds, Lines, Many, u
  <1> HIDE DEF Did, ink
  <1>4. CASE whole
    <2>1. RowLines(ends) \in Seq(Ink) /\ Len(ends) \in Nat
      <3>1. ends \in Seq({u \in CallInk : Picked(u)})
        BY <1>2, KeptRows
      <3>2. ends \in Seq(CallInk)
        BY <3>1
      <3> HIDE DEF ends
      <3>3. RowLines(ends) \in Seq(Ink)
        BY <3>2, RowLinesOf
      <3>4. Len(ends) \in Nat
        BY <3>2
      <3> QED BY <3>3, <3>4
    <2>2. ink[Len(ink)] \in Lasts
      <3>1. Len(ink) \in 1..Len(ink)
        BY <1>2
      <3> QED BY <1>2, <3>1
    <2>3. Did(RowLines(ends), ink[Len(ink)], Len(ends))
      BY <1>3, <1>4
    <2> HIDE DEF Lasts, ends, whole
    <2> QED BY <1>2, <2>1, <2>2, <2>3 DEF Did, ink, Lasts, ends
  <1>5. CASE ~whole
    <2> DEFINE lines == [i \in 1..Len(odd) |-> Odd(odd[i])]
    <2>1. odd \in Seq(OddWidths) /\ Len(odd) \in Nat /\ DOMAIN odd = 1..Len(odd)
      <3>1. odd \in SeqOf(OddWidths, feeds)
        BY <1>3, <1>5
      <3> HIDE DEF feeds
      <3>2. PICK k \in 0..feeds : odd \in [1..k -> OddWidths]
        BY <3>1 DEF SeqOf
      <3>3. k \in Nat
        BY <3>2
      <3> QED BY <3>2, <3>3
    <2>2. lines \in Seq(Line) /\ Texts(lines) \in Seq(Ink)
      <3>1. \A i \in 1..Len(odd) : Odd(odd[i]) \in Line
        BY <2>1 DEF Line
      <3>2. lines \in Seq(Line)
        BY <2>1, <3>1
      <3> HIDE DEF lines
      <3>3. Texts(lines) \in Seq(Line \X Nat)
        BY <3>2, LineWidth, TextsOf
      <3> QED BY <3>2, <3>3 DEF Ink
    <2>3. Did(Texts(lines), Torn, Len(odd))
      BY <1>3, <1>5, <2>1
    <2> HIDE DEF lines
    <2> QED BY <1>2, <1>5, <2>1, <2>2, <2>3 DEF Did, ink
  <1> QED BY <1>4, <1>5

LEMMA ParseStep == ASSUME SeqInv, LamaInv, NEW c \in Conn, Parse(c) PROVE LamaInv'
  <1> DEFINE l == loc[c]
             n == Len(NextText(c))
  <1>0. PICK lines \in Seq(Ink), last \in WorkUnit \cup {Start, Torn}, kept \in Nat :
           /\ loc' = [loc EXCEPT ![c] = [loc[c] EXCEPT !.in = @ + Len(NextText(c)), !.last = last,
                                           !.out = @ \o lines, !.count = @ + kept]]
           /\ NextText(c) \in Seq(WorkUnit) /\ NextText(c) # <<>>
           /\ Smooth(loc[c].last, NextText(c)) =>
                /\ last = NextText(c)[Len(NextText(c))]
                /\ lines = RowLines(Kept(NextText(c))) /\ kept = Len(Kept(NextText(c)))
    BY ParseTakes
  <1>1. /\ loc' = [loc EXCEPT ![c] = [l EXCEPT !.in = @ + n, !.last = last,
                                          !.out = @ \o lines, !.count = @ + kept]]
        /\ NextText(c) \in Seq(WorkUnit)
    BY <1>0
  <1>2. /\ loc \in [Conn -> Locals] /\ l \in Locals /\ work \in Seq(WorkUnit)
        /\ pc \in [Conn -> PC] /\ n \in Nat
    BY <1>1 DEF LamaInv, SeqInv, TypeOK
  <1>3. /\ pc[c] = "parse" /\ pc' = [pc EXCEPT ![c] = "parse"]
        /\ UNCHANGED <<server, starts, work, lama>>
    BY DEF Parse, Goto, proc, files
  <1> HIDE DEF n, l
  <1>4. /\ l.in + n \in Nat /\ l.count + kept \in Nat /\ l.out \o lines \in Seq(Unit)
        /\ l.at \in Nat
    <2>1. l.out \in Seq(Unit) /\ lines \in Seq(Unit)
      BY <1>2, InkIsText DEF Locals
    <2>2. l.out \o lines \in Seq(Unit)
      BY <2>1
    <2>3. l.in \in Nat /\ l.count \in Nat /\ l.at \in Nat /\ kept \in Nat
      BY <1>2 DEF Locals
    <2>4. l.in + n \in Nat /\ l.count + kept \in Nat
      BY <1>2, <2>3
    <2> QED BY <2>2, <2>3, <2>4
  <1> DEFINE new == [l EXCEPT !.in = @ + n, !.last = last, !.out = @ \o lines, !.count = @ + kept]
  <1>5. new \in Locals /\ new.at = l.at
    <2>1. new = [[[[l EXCEPT !.in = l.in + n] EXCEPT !.last = last]
                    EXCEPT !.out = l.out \o lines] EXCEPT !.count = l.count + kept]
      BY <1>2 DEF Locals
    <2> DEFINE s == l.out \o lines
    <2> HIDE DEF new, s
    <2>2. [l EXCEPT !.in = l.in + n] \in Locals
      BY <1>2, <1>4, Updated
    <2>3. [[l EXCEPT !.in = l.in + n] EXCEPT !.last = last] \in Locals
      BY <2>2, Updated
    <2>4. [[[l EXCEPT !.in = l.in + n] EXCEPT !.last = last] EXCEPT !.out = s] \in Locals
      BY <1>4, <2>3, Updated DEF s
    <2>5. new \in Locals
      BY <1>4, <2>1, <2>4, Updated DEF s
    <2>6. new.at = l.at
      BY <1>2, <2>1 DEF Locals
    <2> QED BY <2>5, <2>6
  <1> HIDE DEF new
  <1>6. loc' = [loc EXCEPT ![c] = new]
    BY <1>1 DEF new
  <1>7. /\ loc' \in [Conn -> Locals] /\ pc' = pc
        /\ \A d \in Conn : loc'[d].at = loc[d].at /\ (d # c => loc'[d] = loc[d])
    BY <1>2, <1>3, <1>5, <1>6 DEF l
  <1> QED BY <1>2, <1>3, <1>7, LamaSame DEF Writing

\* The end of the working file puts the closing line behind what was kept.
EndsWith(c, late) == loc[c].out \o AddFin(c) \o late

LEMMA EndTakes ==
  ASSUME SeqInv, LamaInv, NEW c \in Conn, EndOfWork(c)
  PROVE  \E late \in Seq(Ink) :
           /\ loc' = [loc EXCEPT ![c] = [loc[c] EXCEPT !.out = EndsWith(c, late)]]
           /\ Ends(loc[c].last) => late = <<>>
           /\ AddFin(c) \in Seq(Ink)
           /\ EndsWith(c, late) \in Seq(Unit) /\ EndsWith(c, late) # <<>>
           /\ Closes(EndsWith(c, late)[Len(EndsWith(c, late))])
  <1>1. loc \in [Conn -> Locals] /\ loc[c] \in Locals /\ loc[c].out \in Seq(Unit) /\ loc[c].count \in Nat
    <2>1. loc \in [Conn -> Locals] /\ loc[c] \in Locals
      BY DEF LamaInv
    <2> QED BY <2>1 DEF Locals
  <1>2. PICK late \in {<<>>} \cup IF Ends(loc[c].last) THEN {} ELSE {Text(Late(w)) : w \in OddWidths} :
          loc' = [loc EXCEPT ![c].out = @ \o AddFin(c) \o late]
    BY DEF EndOfWork
  <1>3. /\ late = <<>> \/ /\ late \in Seq(Ink) /\ late # <<>> /\ Closes(late[Len(late)])
        /\ Ends(loc[c].last) => late = <<>>
    <2>1. ASSUME NEW w \in OddWidths
          PROVE  /\ Text(Late(w)) \in Seq(Ink) /\ Text(Late(w)) # <<>>
                 /\ Closes(Text(Late(w))[Len(Text(Late(w)))])
      <3>1. Late(w) \in Line /\ Late(w)[3] \in Nat \ {0} /\ Late(w)[1] = "late"
        BY LineWidth DEF Line, Late
      <3> DEFINE l == Late(w)
      <3> HIDE DEF l
      <3>2. /\ Text(l) \in Seq(Line \X Nat) /\ Len(Text(l)) = l[3] /\ Text(l) # <<>>
            /\ Text(l)[l[3]] = <<l, l[3]>>
        BY <3>1, TextOf DEF l
      <3> QED BY <3>1, <3>2 DEF l, Ink, Closes, Ends
    <2> QED BY <1>2, <2>1
  <1>4. /\ AddFin(c) \in Seq(Ink) /\ AddFin(c) # <<>>
        /\ Closes(AddFin(c)[Len(AddFin(c))])
    <2> DEFINE l == Fin(loc[c].count)
    <2>1. l \in Line /\ l[3] \in Nat \ {0} /\ l[1] = "fin"
      <3>1. l \in Line /\ l[1] = "fin"
        BY <1>1 DEF Line, Fin
      <3> QED BY <3>1, LineWidth
    <2> HIDE DEF l
    <2>2. /\ Text(l) \in Seq(Line \X Nat) /\ Len(Text(l)) = l[3] /\ Text(l) # <<>>
          /\ Text(l)[l[3]] = <<l, l[3]>>
      BY <2>1, TextOf
    <2> QED BY <2>1, <2>2 DEF l, Ink, Closes, Ends, AddFin
  <1>5. late \in Seq(Ink)
    <2>1. <<>> \in Seq(Ink)
      OBVIOUS
    <2> QED BY <1>3, <2>1
  <1>6. /\ LastOne(loc[c].out \o AddFin(c), AddFin(c))
        /\ loc[c].out \o AddFin(c) \in Seq(Unit)
    <2>1. AddFin(c) \in Seq(Unit)
      BY <1>4, InkIsText
    <2> QED BY <1>1, <1>4, <2>1, LastJoined
  <1>7. EndsWith(c, late) \in Seq(Unit) /\ EndsWith(c, late) # <<>>
        /\ Closes(EndsWith(c, late)[Len(EndsWith(c, late))])
    <2> DEFINE s == loc[c].out \o AddFin(c)
    <2>1. s \in Seq(Unit) /\ s # <<>> /\ Closes(s[Len(s)])
      BY <1>4, <1>6 DEF LastOne
    <2>2. EndsWith(c, late) = s \o late
      BY DEF EndsWith
    <2> HIDE DEF s
    <2>3. CASE late = <<>>
      BY <2>1, <2>2, <2>3, ConcatEmptySeq
    <2>4. CASE late # <<>>
      <3>1. late \in Seq(Unit) /\ Closes(late[Len(late)])
        BY <1>3, <1>5, <2>4, InkIsText
      <3>2. LastOne(s \o late, late) /\ s \o late \in Seq(Unit)
        BY <2>1, <2>4, <3>1, LastJoined
      <3> QED BY <2>2, <3>1, <3>2 DEF LastOne
    <2> QED BY <2>3, <2>4
  <1>8. loc' = [loc EXCEPT ![c] = [loc[c] EXCEPT !.out = EndsWith(c, late)]]
    BY <1>1, <1>2 DEF EndsWith
  <1> QED BY <1>3, <1>4, <1>5, <1>7, <1>8

LEMMA EndStep == ASSUME SeqInv, LamaInv, NEW c \in Conn, EndOfWork(c) PROVE LamaInv'
  <1>1. PICK ink \in Seq(Unit) :
          /\ loc' = [loc EXCEPT ![c] = [loc[c] EXCEPT !.out = ink]]
          /\ ink # <<>> /\ Closes(ink[Len(ink)])
    BY EndTakes
  <1>2. /\ loc \in [Conn -> Locals] /\ loc[c] \in Locals /\ pc \in [Conn -> PC]
        /\ work \in Seq(WorkUnit) /\ lama \in Seq(Unit)
    BY DEF LamaInv, SeqInv, TypeOK
  <1>3. /\ pc[c] = "parse" /\ pc' = [pc EXCEPT ![c] = "close"]
        /\ UNCHANGED <<server, starts, work, lama>>
    BY DEF EndOfWork, Goto, proc, files
  <1> DEFINE new == [loc[c] EXCEPT !.out = ink]
  <1>4. new \in Locals /\ new.at = loc[c].at /\ new.out = ink
    BY <1>2 DEF Locals
  <1> HIDE DEF new
  <1>5. /\ loc' \in [Conn -> Locals] /\ loc'[c].out = ink
        /\ \A d \in Conn : loc'[d].at = loc[d].at /\ (d # c => loc'[d] = loc[d] /\ pc'[d] = pc[d])
    BY <1>1, <1>2, <1>3, <1>4 DEF new
  <1>6. \A d \in Conn : pc'[d] = "close" =>
          loc'[d].out # <<>> /\ Closes(loc'[d].out[Len(loc'[d].out)])
    BY <1>1, <1>5 DEF LamaInv
  <1>7. \A d \in Conn : pc[d] \in Writing => pc'[d] \in Writing
    BY <1>2, <1>3 DEF Writing
  <1> QED BY <1>2, <1>3, <1>5, <1>6, <1>7 DEF LamaInv, EndsWell

LEMMA CallTextOf ==
  ASSUME NEW rows \in Seq(Rows)
  PROVE  CallText(rows) \in Seq(CallInk) /\ Whole(CallText(rows)) /\ CallText(rows) \in Seq(WorkUnit)
  <1> DEFINE K == {Call(r) : r \in Rows}
             lines == [i \in DOMAIN rows |-> Call(rows[i])]
  <1>1. lines \in Seq(K)
    <2>1. Len(rows) \in Nat /\ DOMAIN rows = 1..Len(rows) /\ \A i \in 1..Len(rows) : Call(rows[i]) \in K
      OBVIOUS
    <2> QED BY <2>1
  <1>2. \A l \in K : l[3] \in Nat \ {0}
    BY LineWidth
  <1>3. CallText(rows) = Texts(lines)
    BY DEF CallText
  <1> HIDE DEF K, lines
  <1>4. CallText(rows) \in Seq(K \X Nat) /\ Whole(CallText(rows))
    BY <1>1, <1>2, <1>3, TextsOf
  <1>5. CallInk = K \X Nat /\ CallInk \subseteq WorkUnit
    BY DEF CallInk, WorkUnit, K
  <1>6. CallText(rows) \in Seq(WorkUnit)
    BY <1>4, <1>5
  <1> QED BY <1>4, <1>5, <1>6

\* How far the next fgets reaches.
LEMMA NextGetsOf ==
  ASSUME LamaInv, NEW c \in Conn
  PROVE  /\ NextGets(c) \in 0..Len(loc[c].out)
         /\ NextGets(c) = 0 /\ loc[c].at >= Len(lama) => loc[c].out = <<>>
  <1> DEFINE ink == loc[c].out
             stops == {n \in DOMAIN ink : Ends(ink[n]) \/ n = Gets}
  <1>1. ink \in Seq(Unit) /\ Len(ink) \in Nat /\ DOMAIN ink = 1..Len(ink)
    <2>1. loc[c] \in Locals
      BY DEF LamaInv
    <2>2. ink \in Seq(Unit)
      BY <2>1 DEF Locals
    <2> QED BY <2>2
  <1>2. NextGets(c) = IF stops # {} THEN Min(stops)
                      ELSE IF loc[c].at >= Len(lama) THEN Len(ink) ELSE 0
    BY DEF NextGets
  <1> HIDE DEF ink
  <1>3. stops \in SUBSET (1..Len(ink))
    BY <1>1
  <1> HIDE DEF stops
  <1>4. CASE stops # {}
    <2>1. stops \in SUBSET Nat
      BY <1>1, <1>3
    <2>2. Min(stops) \in stops
      BY <1>4, <2>1, LeastOf
    <2>3. Min(stops) \in 1..Len(ink)
      BY <1>3, <2>2
    <2> QED BY <1>1, <1>2, <1>4, <2>3 DEF ink
  <1>5. CASE stops = {}
    <2>1. Len(ink) = 0 => ink = <<>>
      BY <1>1
    <2> QED BY <1>1, <1>2, <1>5, <2>1 DEF ink
  <1> QED BY <1>4, <1>5

LEMMA SendTakes ==
  ASSUME LamaInv, NEW c \in Conn, Send(c)
  PROVE  loc' \in [Conn -> Locals] /\ \A d \in Conn \ {c} : loc'[d] = loc[d]
  <1> DEFINE n == NextGets(c)
             rest == Slice(loc[c].out, n, Len(loc[c].out))
  <1>1. loc \in [Conn -> Locals] /\ loc[c] \in Locals
    BY DEF LamaInv
  <1>2. loc' = loc \/ loc' = [loc EXCEPT ![c] = [loc[c] EXCEPT !.out = rest]]
    BY <1>1 DEF Send
  <1>3. rest \in Seq(Unit)
    <2>1. n \in 0..Len(loc[c].out) /\ loc[c].out \in Seq(Unit)
      BY <1>1, NextGetsOf DEF Locals
    <2> QED BY <2>1, CutAt
  <1> HIDE DEF rest
  <1>4. [loc[c] EXCEPT !.out = rest] \in Locals
    BY <1>1, <1>3, Updated
  <1> QED BY <1>1, <1>2, <1>4

LEMMA ReadTakes ==
  ASSUME LamaInv, NEW c \in Conn, ReadLama(c)
  PROVE  /\ loc' \in [Conn -> Locals] /\ \A d \in Conn \ {c} : loc'[d] = loc[d]
         /\ LET at == loc[c].at
                until == IF at + Buffer < Len(lama) THEN at + Buffer ELSE Len(lama)
            IN /\ until \in Nat /\ at \in Nat /\ at < until /\ until <= Len(lama)
               /\ loc'[c].at = until /\ loc'[c].out = loc[c].out \o SubSeq(lama, at + 1, until)
  <1> DEFINE at == loc[c].at
             until == IF at + Buffer < Len(lama) THEN at + Buffer ELSE Len(lama)
             ink == Slice(lama, at, at + Buffer)
             l == loc[c]
             new == [l EXCEPT !.at = @ + Len(ink), !.out = @ \o ink]
  <1>1. /\ loc \in [Conn -> Locals] /\ l \in Locals /\ lama \in Seq(Unit)
        /\ at \in Nat /\ l.out \in Seq(Unit) /\ Buffer \in Nat \ {0} /\ Len(lama) \in Nat
    <2>1. loc \in [Conn -> Locals] /\ lama \in Seq(Unit) /\ Buffer \in Nat \ {0}
      BY ConstAssumption DEF LamaInv
    <2>2. l \in Locals
      BY <2>1
    <2>3. at \in Nat /\ l.out \in Seq(Unit)
      BY <2>2 DEF Locals
    <2>4. Len(lama) \in Nat
      BY <2>1
    <2> QED BY <2>1, <2>2, <2>3, <2>4
  <1>2. at < Len(lama) /\ loc' = [loc EXCEPT ![c] = new]
    BY <1>1 DEF ReadLama
  <1>3. ink = SubSeq(lama, at + 1, until)
    BY DEF Slice
  <1> HIDE DEF ink, l, at
  <1>4. until \in Nat /\ at < until /\ until <= Len(lama)
    BY <1>1, <1>2
  <1> HIDE DEF until
  <1>5. ink \in Seq(Unit) /\ Len(ink) = until - at
    <2>1. SubSeq(lama, at + 1, until) \in Seq(Unit) /\ Len(SubSeq(lama, at + 1, until)) = until - at
      BY <1>1, <1>4
    <2> QED BY <1>3, <2>1
  <1>6. l.at = at
    BY DEF l, at
  <1>7. l.at + Len(ink) = until /\ l.out \o ink \in Seq(Unit)
    BY <1>1, <1>4, <1>5, <1>6
  <1>8. new \in Locals /\ new.at = until /\ new.out = l.out \o ink
    <2> DEFINE s == l.out \o ink
    <2>1. new = [[l EXCEPT !.at = until] EXCEPT !.out = s]
      BY <1>1, <1>7 DEF Locals
    <2> HIDE DEF s, new
    <2>2. [l EXCEPT !.at = until] \in Locals /\ s \in Seq(Unit)
      BY <1>1, <1>4, <1>7, Updated DEF s
    <2>3. new \in Locals
      BY <2>1, <2>2, Updated
    <2>4. new.at = until /\ new.out = s
      BY <1>1, <2>1 DEF Locals
    <2> QED BY <2>3, <2>4 DEF s
  <1> HIDE DEF new
  <1>9. loc' \in [Conn -> Locals] /\ loc'[c] = new /\ \A d \in Conn \ {c} : loc'[d] = loc[d]
    BY <1>1, <1>2, <1>8 DEF l
  <1> QED BY <1>1, <1>3, <1>4, <1>8, <1>9 DEF at, until, l

LEMMA CatStep == ASSUME SeqInv, LamaInv, NEW c \in Conn, Cat(c) PROVE LamaInv'
  <1>1. /\ loc \in [Conn -> Locals] /\ loc[c] \in Locals /\ lama \in Seq(Unit)
        /\ work \in Seq(WorkUnit) /\ pc \in [Conn -> PC]
    BY DEF LamaInv, SeqInv, TypeOK
  <1> DEFINE src == Sources(req[c])[loc[c].src]
  <1>2. /\ pc[c] = "cat" /\ pc' = [pc EXCEPT ![c] = "shell"]
        /\ UNCHANGED <<server, starts, lama>>
        /\ IF src \in DOMAIN Cdr
           THEN /\ work' = IF loc[c].found THEN work \o CallText(Cdr[src])
                           ELSE WriteAt(work, 0, CallText(Cdr[src]))
                /\ loc' = [loc EXCEPT ![c] = [loc[c] EXCEPT !.src = @ + 1, !.found = TRUE]]
           ELSE /\ loc' = [loc EXCEPT ![c] = [loc[c] EXCEPT !.src = @ + 1]]
                /\ UNCHANGED work
    BY <1>1 DEF Cat, Goto, proc
  <1> HIDE DEF src
  <1>3. loc' \in [Conn -> Locals] /\ \A d \in Conn \ {c} : loc'[d] = loc[d] /\ pc'[d] = pc[d]
    <2> DEFINE l == loc[c]
    <2>1. l \in Locals
      BY <1>1
    <2>2. loc' = [loc EXCEPT ![c] = [l EXCEPT !.src = @ + 1, !.found = TRUE]]
          \/ loc' = [loc EXCEPT ![c] = [l EXCEPT !.src = @ + 1]]
      BY <1>2
    <2> HIDE DEF l
    <2>3. l.src + 1 \in Nat
      BY <2>1 DEF Locals
    <2>4. /\ [l EXCEPT !.src = l.src + 1] \in Locals
          /\ [[l EXCEPT !.src = l.src + 1] EXCEPT !.found = TRUE] \in Locals
      <3>1. [l EXCEPT !.src = l.src + 1] \in Locals
        BY <2>1, <2>3, Updated
      <3> QED BY <3>1, Updated
    <2>5. pc' = [pc EXCEPT ![c] = "shell"]
      BY <1>2
    <2> QED BY <1>1, <2>2, <2>4, <2>5
  <1>4. work' \in Seq(WorkUnit)
    <2>1. CASE src \in DOMAIN Cdr
      <3> DEFINE ink == CallText(Cdr[src])
      <3>1. ink \in Seq(WorkUnit)
        BY <2>1, ConstAssumption, CallTextOf
      <3> HIDE DEF ink
      <3>2. WriteAt(work, 0, ink) \in Seq(WorkUnit)
        <4> DEFINE S == WorkUnit
        <4>1. Hole \in S /\ work \in Seq(S) /\ ink \in Seq(S) /\ 0 \in Nat
          BY <1>1, <3>1 DEF WorkUnit
        <4> HIDE DEF S
        <4>2. WriteAt(work, 0, ink) \in Seq(S)
          BY <4>1, WriteAtOf
        <4> QED BY <4>2 DEF S
      <3>3. work \o ink \in Seq(WorkUnit)
        BY <1>1, <3>1
      <3> QED BY <1>2, <2>1, <3>2, <3>3 DEF ink
    <2>2. CASE src \notin DOMAIN Cdr
      BY <1>1, <1>2, <2>2
    <2> QED BY <2>1, <2>2
  <1>5. \A d \in Conn : /\ pc'[d] = "close" => pc[d] = "close" /\ loc'[d].out = loc[d].out
                        /\ pc[d] \in Writing => pc'[d] \in Writing /\ loc'[d].at = loc[d].at
    BY <1>1, <1>2, <1>3 DEF Writing
  <1> QED BY <1>1, <1>2, <1>3, <1>4, <1>5, LamaSame

LEMMA ChildStep == ASSUME SeqInv, LamaInv, NEW c \in Conn, Child(c) PROVE LamaInv'
  <1>1. /\ loc \in [Conn -> Locals] /\ loc[c] \in Locals /\ lama \in Seq(Unit)
        /\ work \in Seq(WorkUnit) /\ pc \in [Conn -> PC] /\ seq \in [Conn -> Int]
    BY DEF LamaInv, SeqInv, TypeOK
  <1>2. CASE Recv(c) \/ CatsDone(c) \/ ReadSeq(c) \/ TruncSeq(c) \/ PutSeq(c) \/ Finish(c)
    <2>1. UNCHANGED <<server, starts, work, lama, loc>>
      BY <1>2 DEF Recv, CatsDone, ReadSeq, TruncSeq, PutSeq, Finish, proc, files
    <2>2. \A d \in Conn : (pc[d] \in Writing => pc'[d] \in Writing) /\ (pc'[d] = "close" => pc[d] = "close")
      BY <1>1, <1>2 DEF Recv, CatsDone, ReadSeq, TruncSeq, PutSeq, Finish, Goto, Writing
    <2> QED BY <1>1, <2>1, <2>2, LamaSame
  <1>3. CASE Shell(c)
    <2>1. UNCHANGED <<server, starts, lama, loc>> /\ work' \in Seq(WorkUnit)
      BY <1>1, <1>3 DEF Shell, proc, Redirect
    <2>2. \A d \in Conn : (pc[d] \in Writing => pc'[d] \in Writing) /\ (pc'[d] = "close" => pc[d] = "close")
      BY <1>1, <1>3 DEF Shell, Goto, Writing
    <2> QED BY <1>1, <2>1, <2>2, LamaSame
  <1>4. CASE OpenLama(c)
    <2> DEFINE h == Text(Hdr(seq[c]))
    <2>1. /\ lama' = <<>> /\ work' = work /\ pc' = [pc EXCEPT ![c] = "parse"]
          /\ loc' = [loc EXCEPT ![c] = [loc[c] EXCEPT !.out = h]]
      BY <1>1, <1>4 DEF OpenLama, Goto
    <2>2. h \in Seq(Unit)
      <3> DEFINE l == Hdr(seq[c])
      <3>1. l \in Line
        BY <1>1 DEF Line
      <3> HIDE DEF l
      <3>2. Text(l) \in Seq(Line \X Nat)
        BY <3>1, LineWidth, TextOf
      <3> QED BY <3>2, InkIsText DEF l, Ink
    <2> HIDE DEF h
    <2>3. [loc[c] EXCEPT !.out = h] \in Locals
      BY <1>1, <2>2, Updated
    <2>4. loc' \in [Conn -> Locals] /\ \A d \in Conn \ {c} : loc'[d] = loc[d] /\ pc'[d] = pc[d]
      BY <1>1, <2>1, <2>3
    <2>5. \A d \in Conn : pc'[d] = "close" =>
            loc'[d].out # <<>> /\ Closes(loc'[d].out[Len(loc'[d].out)])
      BY <1>1, <2>1, <2>4 DEF LamaInv
    <2> QED BY <1>1, <2>1, <2>4, <2>5 DEF LamaInv
  <1>5. CASE Send(c) \/ ReadLama(c)
    <2> DEFINE out == loc'[c].out
    <2>1. /\ UNCHANGED <<server, starts, work, lama>> /\ pc[c] = "send"
          /\ pc' = [pc EXCEPT ![c] = "send"] \/ pc' = [pc EXCEPT ![c] = "failed"]
      BY <1>1, <1>5 DEF Send, ReadLama, Goto, proc, files
    <2>2. loc' \in [Conn -> Locals] /\ \A d \in Conn \ {c} : loc'[d] = loc[d]
      <3>1. CASE Send(c)
        BY <3>1, <1>1, SendTakes
      <3>2. CASE ReadLama(c)
        BY <3>2, <1>1, ReadTakes
      <3> QED BY <1>5, <3>1, <3>2
    <2>3. \A d \in Conn : /\ pc'[d] = "close" => pc[d] = "close" /\ loc'[d].out = loc[d].out
                          /\ pc[d] \in Writing => pc'[d] \in Writing /\ loc'[d].at = loc[d].at
      BY <1>1, <2>1, <2>2 DEF Writing
    <2> QED BY <1>1, <2>1, <2>2, <2>3, LamaSame
  <1> QED BY <1>2, <1>3, <1>4, <1>5, CatStep, FlushStep, ParseStep, EndStep, CloseStep
          DEF Child, Own, Waits

LEMMA LamaInvNext == ASSUME SeqInv, LamaInv, [Next]_vars PROVE LamaInv'
  <1>1. loc \in [Conn -> Locals] /\ work \in Seq(WorkUnit) /\ pc \in [Conn -> PC]
    BY DEF LamaInv, SeqInv, TypeOK
  <1>2. ASSUME NEW c \in Conn, Connect(c) \/ ClientLeaves(c) \/ Accept(c)
        PROVE  LamaInv'
    <2>1. UNCHANGED <<server, starts, work, lama, loc>>
      BY <1>2 DEF Connect, ClientLeaves, Accept, proc, files
    <2>2. \A d \in Conn : (pc[d] \in Writing => pc'[d] \in Writing) /\ (pc'[d] = "close" => pc[d] = "close")
      BY <1>1, <1>2 DEF Writing, Connect, ClientLeaves, Accept
    <2> QED BY <1>1, <2>1, <2>2, LamaSame
  <1>3. CASE ForkFails \/ AcceptFails \/ Halt
    BY <1>1, <1>3, LamaSame DEF Working, Writing, ForkFails, AcceptFails, Halt, GoDown, files
  <1>4. CASE Restart
    <2>1. starts \in Nat \ {0}
      BY DEF SeqInv, TypeOK
    <2> QED BY <1>1, <1>4, <2>1, LamaSame DEF Restart, files
  <1>5. CASE UNCHANGED vars
    BY <1>1, <1>5, LamaSame DEF vars
  <1> QED BY <1>2, <1>3, <1>4, <1>5, ChildStep DEF Next

(* Whatever the interleaving of the children and the lengths of what they  *)
(* write, lama.cal ends as the line that closes it does once none of them  *)
(* writes it, unless the server was halted (cdr_asterisk.c:99-113).        *)
THEOREM LamaStaysClosed == Spec => []LamaClosed
  <1>1. SeqInv /\ LamaInv /\ [Next]_vars => LamaInv'
    BY LamaInvNext
  <1>2. LamaInv => LamaClosed
    BY DEF LamaInv, LamaClosed, EndsWell, Closes, Writing
  <1> QED BY <1>1, <1>2, LamaInvInit, SeqInvAlways, PTL DEF Spec
-----------------------------------------------------------------------------
(* The records of a request, and the answer to it.                         *)
CallTexts == {s \in Seq(CallInk) : Whole(s)}

LEMMA BackupOf == ASSUME NEW d PROVE Backup(d) \in CallTexts
  <1>1. <<>> \in CallTexts
    BY NothingWhole DEF CallTexts
  <1>2. d \in DOMAIN Cdr => CallText(Cdr[d]) \in CallTexts
    BY ConstAssumption, CallTextOf DEF CallTexts
  <1> QED BY <1>1, <1>2 DEF Backup

LEMMA GatheredOf ==
  ASSUME NEW r
  PROVE  /\ Gathered(r)[0] = <<>>
         /\ \A k \in Nat : /\ Gathered(r)[k] \in CallTexts
                           /\ Gathered(r)[k + 1] = Gathered(r)[k] \o Backup(Sources(r)[k + 1])
  <1> DEFINE V == CallTexts
             B(k) == Backup(Sources(r)[k])
             h == [p \in Nat \X V |-> p[2] \o B(p[1] + 1)]
             F(g) == [k \in Nat |-> IF k = 0 THEN <<>> ELSE g[k - 1] \o B(k)]
  <1>1. \A k : B(k) \in V
    BY BackupOf
  <1>2. <<>> \in V /\ \A s, t \in V : s \o t \in V
    BY NothingWhole, WholeJoined DEF CallTexts
  <1> HIDE DEF V, B
  <1>3. h \in [Nat \X V -> V] /\ \A k \in Nat, s \in V : h[<<k, s>>] = s \o B(k + 1)
    BY <1>1, <1>2
  <1> HIDE DEF h
  <1>4. PICK f \in [Nat -> V] : f[0] = <<>> /\ \A k \in Nat : f[k + 1] = h[<<k, f[k]>>]
    <2>1. <<>> \in V
      BY <1>2
    <2>2. h \in [Nat \X V -> V]
      BY <1>3
    <2>3. CanFollow(V, <<>>, h)
      BY <2>1, <2>2, RecursiveOnNat
    <2> QED BY <2>3 DEF CanFollow
  <1>5. \A k \in Nat : f[k + 1] = f[k] \o B(k + 1)
    BY <1>3, <1>4
  <1>6. f = F(f)
    <2>1. \A k \in Nat : f[k] = IF k = 0 THEN <<>> ELSE f[k - 1] \o B(k)
      <3>1. ASSUME NEW k \in Nat, k # 0 PROVE f[k] = f[k - 1] \o B(k)
        <4>1. k - 1 \in Nat /\ (k - 1) + 1 = k
          BY <3>1
        <4>2. f[(k - 1) + 1] = f[k - 1] \o B((k - 1) + 1)
          BY <1>5, <4>1
        <4> QED BY <4>1, <4>2
      <3> QED BY <1>4, <3>1
    <2> QED BY <1>4, <2>1
  <1> DEFINE g == CHOOSE x : x = F(x)
  <1>7. g = F(g)
    <2>1. \E x : x = F(x)
      BY <1>6
    <2> HIDE DEF F
    <2> QED BY <2>1
  <1>8. Gathered(r) = g
    BY DEF Gathered, B
  <1> HIDE DEF g
  <1>9. g[0] = <<>> /\ \A k \in Nat : g[k + 1] = g[k] \o B(k + 1)
    <2>1. \A k \in Nat : g[k] = IF k = 0 THEN <<>> ELSE g[k - 1] \o B(k)
      BY <1>7
    <2>2. ASSUME NEW k \in Nat PROVE g[k + 1] = g[k] \o B(k + 1)
      <3>1. k + 1 \in Nat /\ k + 1 # 0 /\ (k + 1) - 1 = k
        OBVIOUS
      <3>2. g[k + 1] = g[(k + 1) - 1] \o B(k + 1)
        BY <2>1, <3>1
      <3> QED BY <3>1, <3>2
    <2> QED BY <2>1, <2>2
  <1>10. \A k \in Nat : g[k] \in V
    <2> DEFINE T == {k \in Nat : g[k] \notin V}
    <2> SUFFICES ASSUME T # {} PROVE FALSE
      OBVIOUS
    <2>1. PICK k \in T : \A y \in T : k <= y
      <3>1. T \in SUBSET Nat
        OBVIOUS
      <3> HIDE DEF T
      <3> QED BY <3>1, LeastOf
    <2>2. k \in Nat /\ k # 0 /\ g[k] \notin V
      BY <1>2, <1>9, <2>1
    <2>3. k - 1 \in Nat /\ k - 1 \notin T /\ (k - 1) + 1 = k
      BY <2>1, <2>2
    <2>4. g[k - 1] \in V
      BY <2>3
    <2>5. g[(k - 1) + 1] = g[k - 1] \o B((k - 1) + 1)
      BY <1>9, <2>3
    <2>6. g[k - 1] \o B((k - 1) + 1) \in V
      BY <1>1, <1>2, <2>4
    <2> QED BY <2>2, <2>3, <2>5, <2>6
  <1> QED BY <1>8, <1>9, <1>10 DEF V, B
LEMMA SourcesOf == ASSUME NEW r \in Request PROVE Sources(r) \in Seq(Nat)
  <1>1. r.first \in Nat \ {0} /\ r.last \in Nat \ {0}
    <2>1. r \in [ok : BOOLEAN, first : Day, last : Day] /\ Day \subseteq Nat \ {0}
      BY ConstAssumption
    <2>2. r.first \in Day /\ r.last \in Day
      BY <2>1
    <2> QED BY <2>1, <2>2
  <1> DEFINE n == IF r.last < r.first THEN 0 ELSE r.last - r.first + 1
             days == [i \in 1..n |-> r.first + i - 1]
  <1>2. n \in Nat
    BY <1>1
  <1> HIDE DEF n
  <1>3. \A i \in 1..n : r.first + i - 1 \in Nat
    BY <1>1, <1>2
  <1>4. days \in Seq(Nat)
    BY <1>2, <1>3
  <1>5. Sources(r) = IF r.last # Today THEN days
                     ELSE IF r.first = Today THEN <<Live>> ELSE Append(days, Live)
    BY DEF Sources, n
  <1> HIDE DEF days
  <1>6. Live \in Nat
    BY DEF Live
  <1>7. <<Live>> \in Seq(Nat) /\ Append(days, Live) \in Seq(Nat)
    BY <1>4, <1>6
  <1> QED BY <1>4, <1>5, <1>7

LEMMA RecordsOf ==
  ASSUME NEW r \in Request
  PROVE  Records(r) \in CallTexts /\ Len(Sources(r)) \in Nat
  <1>1. Sources(r) \in Seq(Nat)
    BY SourcesOf
  <1>2. Len(Sources(r)) \in Nat
    BY <1>1
  <1> QED BY <1>2, GatheredOf DEF Records

LEMMA CallTextsOf ==
  ASSUME NEW s \in CallTexts
  PROVE  s \in Seq(CallInk) /\ s \in Seq(WorkUnit) /\ Whole(s)
  <1>1. CallInk \subseteq WorkUnit
    BY DEF WorkUnit
  <1> QED BY <1>1 DEF CallTexts

LEMMA RowLinesJoined ==
  ASSUME NEW s \in Seq(CallInk), NEW t \in Seq(CallInk)
  PROVE  RowLines(s \o t) = RowLines(s) \o RowLines(t)
  <1> DEFINE u == s \o t
             m == Len(s)
             n == Len(t)
             Lines(ends) == [i \in 1..Len(ends) |-> Row(ends[i][1][2])]
             P(ends) == Pages(Lines(ends))
  <1>1. /\ u \in Seq(CallInk) /\ Len(u) = m + n /\ m \in Nat /\ n \in Nat
        /\ \A i \in 1..(m + n) : u[i] = IF i <= m THEN s[i] ELSE t[i - m]
    BY JoinedAt
  <1>2. ASSUME NEW ends \in Seq(CallInk)
        PROVE  /\ P(ends) \in Seq(Seq(Ink)) /\ Len(P(ends)) = Len(ends)
               /\ RowLines(ends) = FlattenSeq(P(ends))
               /\ \A i \in 1..Len(ends) : P(ends)[i] = Text(Row(ends[i][1][2]))
    <2> DEFINE rows == Lines(ends)
    <2>1. /\ P(ends) \in Seq(Seq(Ink)) /\ Len(P(ends)) = Len(ends) /\ Len(rows) = Len(ends)
          /\ RowLines(ends) = FlattenSeq(P(ends))
      BY RowLinesOf
    <2>2. \A i \in 1..Len(ends) : P(ends)[i] = Text(Row(ends[i][1][2]))
      BY <2>1 DEF Pages
    <2> QED BY <2>1, <2>2
  <1> HIDE DEF u, P
  <1> DEFINE v == P(s) \o P(t)
  <1>3. /\ v \in Seq(Seq(Ink)) /\ Len(v) = m + n
        /\ \A i \in 1..(m + n) : v[i] = IF i <= m THEN P(s)[i] ELSE P(t)[i - m]
    <2>1. P(s) \in Seq(Seq(Ink)) /\ Len(P(s)) = m /\ P(t) \in Seq(Seq(Ink)) /\ Len(P(t)) = n
      BY <1>2
    <2> HIDE DEF m, n
    <2> QED BY <2>1, JoinedAt
  <1> HIDE DEF v
  <1>4. ASSUME NEW i \in 1..(m + n) PROVE P(u)[i] = v[i]
    <2>0. P(u)[i] = Text(Row(u[i][1][2]))
      BY <1>1, <1>2
    <2>1. CASE i <= m
      <3>1. i \in 1..m
        BY <1>1, <2>1
      <3>2. P(s)[i] = Text(Row(s[i][1][2])) /\ u[i] = s[i] /\ v[i] = P(s)[i]
        BY <1>1, <1>2, <1>3, <2>1, <3>1
      <3> QED BY <2>0, <3>2
    <2>2. CASE ~(i <= m)
      <3>1. i - m \in 1..n
        BY <1>1, <2>2
      <3>2. P(t)[i - m] = Text(Row(t[i - m][1][2])) /\ u[i] = t[i - m] /\ v[i] = P(t)[i - m]
        BY <1>1, <1>2, <1>3, <2>2, <3>1
      <3> QED BY <2>0, <3>2
    <2> QED BY <2>1, <2>2
  <1>5. P(u) = v
    <2>1. P(u) \in Seq(Seq(Ink)) /\ Len(P(u)) = m + n
      BY <1>1, <1>2
    <2> HIDE DEF m, n
    <2> QED BY <1>3, <1>4, <2>1, SeqEqual
  <1>6. FlattenSeq(P(s) \o P(t)) = FlattenSeq(P(s)) \o FlattenSeq(P(t))
    BY <1>2, JoinedBehind
  <1>7. RowLines(u) = RowLines(s) \o RowLines(t)
    BY <1>1, <1>2, <1>5, <1>6 DEF v
  <1> QED BY <1>7 DEF u

\* How many records cb2 keeps of the first n units of w, and their lines.
Picks(w, n) == Kept(SubSeq(w, 1, n))
Billed(w, n) == RowLines(Picks(w, n))

LEMMA BilledGrows ==
  ASSUME NEW w \in Seq(CallInk), NEW m \in 0..Len(w), NEW n \in m..Len(w)
  PROVE  LET more == Kept(SubSeq(w, m + 1, n))
         IN /\ Billed(w, n) = Billed(w, m) \o RowLines(more)
            /\ Len(Picks(w, n)) = Len(Picks(w, m)) + Len(more)
            /\ Billed(w, m) \in Seq(Ink) /\ RowLines(more) \in Seq(Ink) /\ Len(more) \in Nat
            /\ Len(Picks(w, m)) \in Nat
            /\ Billed(w, 0) = <<>> /\ Len(Picks(w, 0)) = 0
            /\ Billed(w, Len(w)) = RowLines(Kept(w)) /\ Picks(w, Len(w)) = Kept(w)
  <1> DEFINE a == SubSeq(w, 1, m)
             b == SubSeq(w, m + 1, n)
  <1>1. a \in Seq(CallInk) /\ b \in Seq(CallInk) /\ Len(w) \in Nat
    OBVIOUS
  <1>2. SubSeq(w, 1, n) = a \o b
    <2>1. 1 \in 1..(Len(w) + 1) /\ m \in (1 - 1)..Len(w) /\ n \in m..Len(w)
      BY <1>1
    <2> QED BY <2>1, ConcatAdjacentSubSeq
  <1>3. SubSeq(w, 1, 0) = <<>> /\ SubSeq(w, 1, Len(w)) = w
    BY SubSeqEmpty, SubSeqFull
  <1>4. Kept(<<>>) = <<>>
    <2>1. {i \in DOMAIN <<>> : Picked(<<>>[i])} = {}
      OBVIOUS
    <2>2. Cardinality({}) = 0
      BY FS_EmptySet
    <2>3. Kept(<<>>) = [k \in 1..0 |-> <<>>[Nth({}, k)]]
      BY <2>1, <2>2 DEF Kept, Chosen, Picked
    <2> QED BY <2>3
  <1> HIDE DEF a, b
  <1>5. Kept(a) \in Seq(CallInk) /\ Kept(b) \in Seq(CallInk)
    BY <1>1, KeptOf
  <1>6. Len(Kept(a)) \in Nat /\ Len(Kept(b)) \in Nat
    BY <1>5
  <1>7. Picks(w, n) = Kept(a) \o Kept(b)
    BY <1>1, <1>2, KeptJoined DEF Picks
  <1>8. Billed(w, n) = RowLines(Kept(a)) \o RowLines(Kept(b))
    BY <1>5, <1>7, RowLinesJoined DEF Billed
  <1>9. Len(Kept(a) \o Kept(b)) = Len(Kept(a)) + Len(Kept(b))
    BY <1>5, ConcatProperties
  <1>10. RowLines(Kept(a)) \in Seq(Ink) /\ RowLines(Kept(b)) \in Seq(Ink)
    BY <1>5, RowLinesOf
  <1>11. RowLines(<<>>) = <<>>
    <2>1. <<>> \in Seq(CallInk) /\ Len(<<>>) = 0
      OBVIOUS
    <2> DEFINE rows == [i \in 1..Len(<<>>) |-> Row(<<>>[i][1][2])]
    <2>2. Len(Pages(rows)) = 0 /\ Pages(rows) \in Seq(Seq(Ink)) /\ RowLines(<<>>) = FlattenSeq(Pages(rows))
      BY <2>1, RowLinesOf
    <2>3. Pages(rows) = <<>>
      BY <2>2
    <2>4. <<>> \in Seq(Seq(Ink)) /\ FlattenSeq(<<>> \o <<>>) = FlattenSeq(<<>>) \o FlattenSeq(<<>>)
      <3>1. <<>> \in Seq(Seq(Ink))
        OBVIOUS
      <3> QED BY <3>1, JoinedBehind
    <2>5. FlattenSeq(<<>>) = <<>>
      <3>1. FlattenSeq(<<>>) \in Seq(Ink) /\ <<>> \o <<>> = <<>>
        BY <2>4, Flattened, ConcatEmptySeq
      <3> DEFINE x == FlattenSeq(<<>>)
      <3>2. x \in Seq(Ink) /\ x \o x = x
        BY <2>4, <3>1
      <3> HIDE DEF x
      <3>3. x = <<>>
        BY <3>2, ConcatEqualIffEmpty
      <3> QED BY <3>3 DEF x
    <2> QED BY <2>2, <2>3, <2>5
  <1>12. /\ Picks(w, m) = Kept(a) /\ Billed(w, m) = RowLines(Kept(a))
         /\ Picks(w, 0) = <<>> /\ Billed(w, 0) = <<>>
         /\ Picks(w, Len(w)) = Kept(w) /\ Billed(w, Len(w)) = RowLines(Kept(w))
    BY <1>3, <1>4, <1>11 DEF a, Picks, Billed
  <1>13. Len(<<>>) = 0
    OBVIOUS
  <1> QED BY <1>5, <1>6, <1>7, <1>8, <1>9, <1>10, <1>12, <1>13 DEF b

LEMMA WrittenBehind ==
  ASSUME NEW file \in Seq(Unit), NEW ink \in Seq(Unit)
  PROVE  WriteAt(file, Len(file), ink) = file \o ink
  <1> DEFINE m == Len(file)
             n == Len(ink)
             new == WriteAt(file, m, ink)
             both == file \o ink
  <1>1. /\ m \in Nat /\ n \in Nat /\ both \in Seq(Unit) /\ Len(both) = m + n
        /\ \A i \in 1..(m + n) : both[i] = IF i <= m THEN file[i] ELSE ink[i - m]
    OBVIOUS
  <1>2. new = [i \in 1..(IF m + n > m THEN m + n ELSE m) |->
                 IF i > m /\ i <= m + n THEN ink[i - m]
                 ELSE IF i <= m THEN file[i] ELSE Hole]
    BY DEF WriteAt
  <1> HIDE DEF m, n, new, both
  <1>3. (IF m + n > m THEN m + n ELSE m) = m + n
    BY <1>1
  <1>4. \A i \in 1..(m + n) : (IF i > m /\ i <= m + n THEN ink[i - m]
                               ELSE IF i <= m THEN file[i] ELSE Hole) = both[i]
    BY <1>1
  <1>5. new = [i \in 1..(m + n) |-> both[i]]
    BY <1>2, <1>3, <1>4
  <1>6. both = [i \in 1..(m + n) |-> both[i]]
    BY <1>1
  <1> QED BY <1>5, <1>6 DEF new, both, m

LEMMA PrefixIs ==
  ASSUME NEW S, NEW t \in Seq(S), NEW n \in 0..Len(t)
  PROVE  /\ SubSeq(t, 1, n) \in Seq(S) /\ IsPrefix(SubSeq(t, 1, n), t)
         /\ IsPrefix(<<>>, t) /\ IsPrefix(t, t)
  <1>1. Len(t) \in Nat /\ SubSeq(t, 1, n) \in Seq(S) /\ Len(SubSeq(t, 1, n)) = n
    OBVIOUS
  <1>2. SubSeq(SubSeq(t, 1, n), 1, n) = SubSeq(t, 1, n)
    BY <1>1, SubSeqFull
  <1>3. SubSeq(<<>>, 1, 0) = <<>> /\ SubSeq(t, 1, 0) = <<>> /\ Len(<<>>) = 0
    BY SubSeqEmpty
  <1> QED BY <1>1, <1>2, <1>3 DEF IsPrefix
-----------------------------------------------------------------------------
(* Clients that wait for their answer, one at a time.                      *)
OneAtATime == MaxOpen = 1 /\ HangUp = FALSE

Stored == IF seclama = Empty THEN 0 ELSE seclama

\* At most one connection is in progress; the number its child took is the
\* stored one until the child truncates the file.
OneInv ==
  /\ hung = {}
  /\ \A c, d \in Conn : Held(c) /\ Held(d) => c = d
  /\ \A c \in Conn : pc[c] = "trunc" => seq[c] = Stored
  /\ \A c \in Conn : pc[c] = "put" => seclama = Empty

LEMMA OneInvInit == Init => OneInv
  BY DEF Init, OneInv, Held, Working

\* Nobody connects while a connection is in progress.
LEMMA ConnectAlone ==
  ASSUME OneAtATime, NEW c \in Conn, Connect(c)
  PROVE  \A d \in Conn : ~Held(d)
  <1> DEFINE H == {d \in Conn : Held(d)}
  <1>1. IsFiniteSet(H)
    BY ConstAssumption, FS_Subset
  <1>2. Cardinality(H) = 0
    BY <1>1, FS_CardinalityType DEF Connect, OneAtATime
  <1>3. H = {}
    BY <1>1, <1>2, FS_EmptySet
  <1>4. QED
    BY <1>3

LEMMA OneInvNext == OneAtATime /\ SeqInv /\ OneInv /\ [Next]_vars => OneInv'
  <1> SUFFICES ASSUME OneAtATime, SeqInv, OneInv, [Next]_vars
               PROVE  OneInv'
    OBVIOUS
  <1> USE DEF OneInv, SeqInv, TypeOK, Held, Working, Stored
  <1>1. ASSUME NEW c \in Conn, Connect(c)
        PROVE  OneInv'
    <2>1. \A d \in Conn : ~Held(d)
      BY <1>1, ConnectAlone
    <2>2. pc[c] = "idle" /\ pc' = [pc EXCEPT ![c] = "queued"] /\ UNCHANGED <<hung, seclama, seq>>
      BY <1>1 DEF Connect, proc, files
    <2>3. pc'[c] = "queued" /\ \A d \in Conn : d # c => pc'[d] = pc[d]
      BY <2>2
    <2>4. \A d \in Conn : d # c => ~Held(d)'
      BY <2>1, <2>2, <2>3
    <2>5. \A d, e \in Conn : Held(d)' /\ Held(e)' => d = e
      BY <2>4
    <2>6. \A d \in Conn : pc'[d] # "trunc" /\ pc'[d] # "put"
      BY <2>1, <2>3
    <2> QED BY <2>2, <2>5, <2>6
  <1>2. ASSUME NEW c \in Conn, ClientLeaves(c)
        PROVE  OneInv'
    BY <1>2 DEF ClientLeaves, OneAtATime
  <1>3. ASSUME NEW c \in Conn, Accept(c)
        PROVE  OneInv'
    BY <1>3 DEF Accept, files
  <1>4. ASSUME NEW c \in Conn, Child(c)
        PROVE  OneInv'
    <2> USE DEF Goto, proc, files
    <2>1. CASE Recv(c)
      <3>1. /\ pc[c] = "recv" /\ UNCHANGED <<hung, seq, seclama>>
            /\ pc' = [pc EXCEPT ![c] = "shell"] \/ pc' = [pc EXCEPT ![c] = "failed"]
        BY <2>1 DEF Recv
      <3> QED BY <3>1
    <2>2. CASE Shell(c)
      BY <2>2 DEF Shell
    <2>3. CASE Cat(c)
      BY <2>3 DEF Cat
    <2>4. CASE CatsDone(c)
      BY <2>4 DEF CatsDone
    <2>5. CASE ReadSeq(c)
      <3>1. CASE pc' = [pc EXCEPT ![c] = "trunc"]
        <4>1. /\ pc[c] = "read" /\ seq' = [seq EXCEPT ![c] = IF seclama = Empty THEN 0 ELSE seclama]
              /\ UNCHANGED <<hung, seclama>>
          BY <2>5, <3>1 DEF ReadSeq
        <4> QED BY <3>1, <4>1
      <3>2. CASE pc' = [pc EXCEPT ![c] = "failed"] /\ seq' = seq
        <4>1. pc[c] = "read" /\ UNCHANGED <<hung, seclama>>
          BY <2>5 DEF ReadSeq
        <4> QED BY <3>2, <4>1
      <3> QED BY <2>5, <3>1, <3>2 DEF ReadSeq
    <2>6. CASE TruncSeq(c)
      BY <2>6 DEF TruncSeq
    <2>7. CASE PutSeq(c)
      BY <2>7 DEF PutSeq
    <2>8. CASE OpenLama(c)
      BY <2>8 DEF OpenLama
    <2>9. CASE Flush(c) \/ ReadLama(c)
      <3>1. pc' = pc \/ (pc[c] = "send" /\ pc' = [pc EXCEPT ![c] = "send"])
        <4>1. CASE Flush(c)
          BY <4>1 DEF Flush
        <4>2. CASE ReadLama(c)
          BY <4>2 DEF ReadLama
        <4> QED BY <2>9, <4>1, <4>2
      <3>2. UNCHANGED <<hung, seq, seclama>>
        <4>1. CASE Flush(c)
          BY <4>1 DEF Flush
        <4>2. CASE ReadLama(c)
          BY <4>2 DEF ReadLama, files
        <4> QED BY <2>9, <4>1, <4>2
      <3> QED BY <3>1, <3>2
    <2>10. CASE Parse(c) \/ EndOfWork(c) \/ CloseLama(c)
      <3>1. /\ pc[c] \in {"parse", "close"} /\ UNCHANGED <<hung, seq, seclama>>
            /\ \/ pc' = [pc EXCEPT ![c] = "parse"] \/ pc' = [pc EXCEPT ![c] = "close"]
               \/ pc' = [pc EXCEPT ![c] = "send"]
        BY <2>10 DEF Parse, EndOfWork, CloseLama
      <3> QED BY <3>1
    <2>11. CASE Send(c)
      <3>1. /\ pc[c] = "send" /\ UNCHANGED <<hung, seq, seclama>>
            /\ pc' = [pc EXCEPT ![c] = "send"] \/ pc' = [pc EXCEPT ![c] = "failed"]
        BY <2>11 DEF Send
      <3> QED BY <3>1
    <2>12. CASE Finish(c)
      BY <2>12 DEF Finish
    <2>13. QED
      BY <1>4, <2>1, <2>2, <2>3, <2>4, <2>5, <2>6, <2>7, <2>8, <2>9, <2>10,
         <2>11, <2>12 DEF Child, Own, Waits
  <1>5. CASE ForkFails \/ AcceptFails
    BY <1>5 DEF ForkFails, AcceptFails, GoDown, files
  <1>6. CASE Halt
    BY <1>6 DEF Halt, files
  <1>7. CASE Restart
    BY <1>7 DEF Restart, files
  <1>8. CASE UNCHANGED vars
    BY <1>8 DEF vars
  <1>9. QED
    BY <1>1, <1>2, <1>3, <1>4, <1>5, <1>6, <1>7, <1>8 DEF Next

LEMMA OnlyPut ==
  ASSUME NEW at, NEW c \in Conn, at[c] = "put",
         \A d \in Conn : at[d] = "put" => d = c
  PROVE  (CHOOSE d \in Conn : at[d] = "put") = c
  OBVIOUS

\* What NextToIssue is, before and after a step.
LEMMA NextToIssueOf ==
  ASSUME OneInv
  PROVE  /\ \A c \in Conn : pc[c] = "put" => NextToIssue = seq[c]
         /\ (\A c \in Conn : pc[c] # "put") => NextToIssue = Stored
  <1>1. \A c, d \in Conn : pc[c] = "put" /\ pc[d] = "put" => d = c
    BY DEF OneInv, Held, Working
  <1>2. \A c \in Conn : pc[c] = "put" => NextToIssue = seq[c]
    BY <1>1, OnlyPut DEF NextToIssue
  <1>3. (\A c \in Conn : pc[c] # "put") => NextToIssue = Stored
    BY DEF NextToIssue, Stored
  <1>4. QED
    BY <1>2, <1>3

LEMMA NextToIssueAfter ==
  ASSUME OneInv'
  PROVE  /\ \A c \in Conn : pc'[c] = "put" => NextToIssue' = seq'[c]
         /\ (\A c \in Conn : pc'[c] # "put") => NextToIssue' = Stored'
  <1>1. \A c, d \in Conn : pc'[c] = "put" /\ pc'[d] = "put" => d = c
    BY DEF OneInv, Held, Working
  <1>2. \A c \in Conn : pc'[c] = "put" => NextToIssue' = seq'[c]
    BY <1>1, OnlyPut DEF NextToIssue
  <1>3. (\A c \in Conn : pc'[c] # "put") => NextToIssue' = Stored'
    BY DEF NextToIssue, Stored
  <1>4. QED
    BY <1>2, <1>3

\* A step that leaves the children at "put" there, and the numbers alone.
LEMMA SameNext ==
  ASSUME UNCHANGED <<seq, seclama>>,
         \A c \in Conn : pc[c] = "put" <=> pc'[c] = "put"
  PROVE  NextToIssue' = NextToIssue
  BY DEF NextToIssue

\* A step of the clients or of a child that neither truncates nor rewrites
\* seclama.log is invisible to the dispenser.
Quiet == UNCHANGED <<server, seq, seclama, issued>>
           /\ \A c \in Conn : pc[c] = "put" <=> pc'[c] = "put"

Dispenser == <<server = "listening", NextToIssue, issued>>

LEMMA QuietStutters == Quiet => UNCHANGED Dispenser
  BY SameNext DEF Quiet, Dispenser

LEMMA SequenceStep ==
  ASSUME OneAtATime, SeqInv, OneInv, OneInv', [Next]_vars
  PROVE  [Sequence!Next]_Dispenser
  <1> USE DEF SeqInv, TypeOK, PC, Working
  <1>1. ASSUME NEW c \in Conn, Connect(c) \/ ClientLeaves(c) \/ Accept(c)
        PROVE  Quiet
    BY <1>1 DEF Connect, ClientLeaves, Accept, Quiet, proc, files
  <1>2. ASSUME NEW c \in Conn, Child(c)
        PROVE  [Sequence!Next]_Dispenser
    <2> USE DEF Goto, proc, files
    <2>1. CASE Recv(c) \/ Shell(c) \/ Cat(c) \/ CatsDone(c)
      <3>1. Quiet
        BY <2>1 DEF Recv, Shell, Cat, CatsDone, Quiet
      <3>2. QED
        BY <3>1, QuietStutters
    <2>2. CASE \/ OpenLama(c) \/ Flush(c) \/ Parse(c) \/ EndOfWork(c) \/ CloseLama(c)
               \/ ReadLama(c) \/ Send(c) \/ Finish(c)
      <3>1. Quiet
        <4>1. CASE OpenLama(c) \/ Flush(c) \/ CloseLama(c) \/ Finish(c) \/ ReadLama(c)
          BY <4>1 DEF OpenLama, Flush, CloseLama, ReadLama, Finish, Quiet
        <4>2. CASE Parse(c) \/ EndOfWork(c)
          <5>1. /\ pc[c] = "parse" /\ UNCHANGED <<server, seq, seclama, issued>>
                /\ pc' = [pc EXCEPT ![c] = "parse"] \/ pc' = [pc EXCEPT ![c] = "close"]
            BY <4>2 DEF Parse, EndOfWork
          <5>2. QED
            BY <5>1 DEF Quiet
        <4>3. CASE Send(c)
          <5>1. /\ pc[c] = "send" /\ UNCHANGED <<server, seq, seclama, issued>>
                /\ pc' = [pc EXCEPT ![c] = "send"] \/ pc' = [pc EXCEPT ![c] = "failed"]
            BY <4>3 DEF Send
          <5>2. QED
            BY <5>1 DEF Quiet
        <4>4. QED
          BY <2>2, <4>1, <4>2, <4>3
      <3>2. QED
        BY <3>1, QuietStutters
    <2>3. CASE ReadSeq(c)
      <3>1. \A d \in Conn : pc[d] # "put" /\ pc'[d] # "put"
        BY <2>3 DEF ReadSeq, OneInv, Held
      <3>2. NextToIssue' = NextToIssue /\ UNCHANGED <<server, issued>>
        BY <2>3, <3>1, NextToIssueOf, NextToIssueAfter DEF ReadSeq, Stored
      <3>3. QED
        BY <3>2 DEF Dispenser
    <2>4. CASE TruncSeq(c)
      <3>1. \A d \in Conn : pc[d] # "put"
        BY <2>4 DEF TruncSeq, OneInv, Held
      <3>2. NextToIssue = Stored /\ seq[c] = Stored
        BY <2>4, <3>1, NextToIssueOf DEF TruncSeq, OneInv
      <3>3. NextToIssue' = seq[c]
        BY <2>4, NextToIssueAfter DEF TruncSeq
      <3>4. QED
        BY <2>4, <3>2, <3>3 DEF TruncSeq, Dispenser
    <2>5. CASE PutSeq(c)
      <3>1. NextToIssue = seq[c] /\ seq[c] \in 0..MaxSeq
        BY <2>5, NextToIssueOf DEF PutSeq, Numbering
      <3>2. \A d \in Conn : pc'[d] # "put"
        BY <2>5 DEF PutSeq, OneInv, Held
      <3>3. seclama' = seq[c] + 1
        BY <2>5 DEF PutSeq, OneInv, Overwrite
      <3>4. NextToIssue' = seq[c] + 1
        BY <3>1, <3>2, <3>3, NextToIssueAfter, ConstAssumption DEF Stored, Empty
      <3>5. Sequence!Take
        BY <2>5, <3>1, <3>4, ConstAssumption DEF PutSeq, Sequence!Take, Number
      <3>6. QED
        BY <3>5 DEF Sequence!Next
    <2>6. QED
      BY <1>2, <2>1, <2>2, <2>3, <2>4, <2>5 DEF Child, Own, Waits
  <1>3. CASE ForkFails \/ AcceptFails
    <2>1. NextToIssue' = NextToIssue
      BY <1>3, SameNext DEF ForkFails, AcceptFails, GoDown, files
    <2>2. Sequence!Crash
      BY <1>3, <2>1 DEF ForkFails, AcceptFails, GoDown, Sequence!Crash
    <2>3. QED
      BY <2>2 DEF Sequence!Next
  <1>4. CASE Halt
    <2>1. NextToIssue' = Stored
      <3>1. \A d \in Conn : pc'[d] # "put"
        BY <1>4 DEF Halt
      <3>2. QED
        BY <1>4, <3>1, NextToIssueAfter DEF Halt, Stored, files
    <2>2. Stored \in {NextToIssue, 0}
      BY NextToIssueOf DEF OneInv, Stored
    <2>3. Sequence!Crash
      BY <1>4, <2>1, <2>2 DEF Halt, Sequence!Crash
    <2>4. QED
      BY <2>3 DEF Sequence!Next
  <1>5. CASE Restart
    <2>1. NextToIssue' = NextToIssue
      BY <1>5, SameNext DEF Restart, files
    <2>2. Sequence!Recover
      BY <1>5, <2>1 DEF Restart, Sequence!Recover
    <2>3. QED
      BY <2>2 DEF Sequence!Next
  <1>6. CASE UNCHANGED vars
    <2>1. Quiet
      BY <1>6 DEF vars, Quiet
    <2>2. QED
      BY <2>1, QuietStutters
  <1>7. QED
    BY <1>1, <1>2, <1>3, <1>4, <1>5, <1>6, QuietStutters DEF Next

(* Clients that wait for their answer get consecutive numbers: the files   *)
(* and the children of the server implement LamaSequence, in which only a  *)
(* crash sets the number back (LAMA/lama.org, cdr_asterisk.c:147-180).     *)
THEOREM NumbersAreConsecutive == OneAtATime /\ Spec => SequenceSpec
  <1>1. Init => Sequence!Init
    <2>1. ASSUME Init
          PROVE  (\A c \in Conn : pc[c] # "put") /\ seclama # Empty
      BY <2>1, ConstAssumption DEF Init, Number, Empty
    <2>2. QED
      BY <2>1 DEF Init, Sequence!Init, NextToIssue
  <1>2. OneAtATime /\ SeqInv /\ SeqInv' /\ OneInv /\ OneInv' /\ [Next]_vars
          => [Sequence!Next]_<<server = "listening", NextToIssue, issued>>
    BY SequenceStep DEF Dispenser
  <1>3. OneAtATime /\ Spec => []OneInv
    <2>1. ASSUME OneAtATime
          PROVE  Spec => []OneInv
      BY <2>1, OneInvInit, OneInvNext, SeqInvAlways, PTL DEF Spec
    <2>2. QED
      BY <2>1
  <1>4. ASSUME OneAtATime
        PROVE  Spec => SequenceSpec
    BY <1>4, <1>1, <1>2, <1>3, SeqInvAlways, PTL DEF Spec, SequenceSpec, Sequence!Spec
  <1>5. QED
    BY <1>4
-----------------------------------------------------------------------------
(* The answers, one at a time.  What the child has done is a function of   *)
(* where it is: what it has gathered of the files of its request, what it  *)
(* has written of the header and the rows, and what it has sent.           *)
(* has written of the header and the rows, and what it has sent.           *)
Early    == {"idle", "queued", "recv"}
Building == {"shell", "cat", "read", "trunc", "put", "open"}
Reading  == {"read", "trunc", "put", "open", "parse"}

Unwritten(c) ==
  /\ pc[c] \in Early => loc[c] = NoLocals
  /\ pc[c] \in Building =>
       /\ loc[c].in = 0 /\ loc[c].last = Start /\ loc[c].out = <<>> /\ loc[c].at = 0 /\ loc[c].count = 0
       /\ loc[c].src >= 1

SoFar(c) == Gathered(req[c])[loc[c].src - 1]

Gathers(c) ==
  /\ pc[c] = "shell" =>
       /\ loc[c].src - 1 <= Len(Sources(req[c]))
       /\ IF loc[c].found THEN work = SoFar(c) ELSE SoFar(c) = <<>>
  /\ pc[c] = "cat" =>
       /\ loc[c].src <= Len(Sources(req[c]))
       /\ work = SoFar(c)
       /\ ~loc[c].found => work = <<>>
  /\ pc[c] \in Reading => work = Records(req[c])

Header(c) == Text(Hdr(seq[c]))

\* What was taken last of the first n units of w.
LastTaken(w, n) == IF n = 0 THEN Start ELSE w[n]

Writes(c) ==
  /\ pc[c] = "parse" =>
       /\ loc[c].in <= Len(work) /\ loc[c].last = LastTaken(work, loc[c].in)
       /\ loc[c].at = Len(lama)
       /\ loc[c].count = Len(Picks(work, loc[c].in))
       /\ lama \o loc[c].out = Header(c) \o Billed(work, loc[c].in)
  /\ pc[c] = "close" => loc[c].at = Len(lama) /\ lama \o loc[c].out = Reply(c)

Sends(c) ==
  /\ pc[c] = "send" =>
       /\ lama = Reply(c) /\ loc[c].at <= Len(lama) /\ loc[c].out \in Seq(Ink)
       /\ got[c] \o loc[c].out = SubSeq(lama, 1, loc[c].at)
  /\ pc[c] = "done" => got[c] = Reply(c)
  /\ pc[c] \notin {"send"} \cup Ended => got[c] = <<>>
  /\ IsPrefix(got[c], Reply(c))

Right(c) == Unwritten(c) /\ Gathers(c) /\ Writes(c) /\ Sends(c)

AnswerInv == got \in [Conn -> Seq(Ink)] /\ \A c \in Conn : Right(c)

LEMMA HeaderOf == ASSUME NEW n \in Int PROVE Text(Hdr(n)) \in Seq(Ink)
  <1> DEFINE l == Hdr(n)
  <1>1. l \in Line
    BY DEF Line
  <1> HIDE DEF l
  <1>2. Text(l) \in Seq(Line \X Nat)
    BY <1>1, LineWidth, TextOf
  <1> QED BY <1>2 DEF l, Ink

LEMMA ReplyOf ==
  ASSUME NEW r \in Request, NEW n \in Int
  PROVE  LET kept == Kept(Records(r))
         IN /\ RowLines(kept) \in Seq(Ink) /\ Len(kept) \in Nat
            /\ Text(Hdr(n)) \in Seq(Ink) /\ Text(Fin(Len(kept))) \in Seq(Ink)
            /\ Text(Hdr(n)) \o RowLines(kept) \o Text(Fin(Len(kept))) \in Seq(Ink)
  <1> DEFINE kept == Kept(Records(r))
             rows == RowLines(kept)
             h == Text(Hdr(n))
             f == Text(Fin(Len(kept)))
  <1>1. kept \in Seq(CallInk)
    BY RecordsOf, CallTextsOf, KeptOf
  <1> HIDE DEF kept
  <1>2. rows \in Seq(Ink) /\ Len(kept) \in Nat
    <2>1. rows \in Seq(Ink)
      BY <1>1, RowLinesOf
    <2> QED BY <1>1, <2>1
  <1>3. f \in Seq(Ink)
    <2> DEFINE l == Fin(Len(kept))
    <2>1. l \in Line
      BY <1>2 DEF Line
    <2> HIDE DEF l
    <2>2. Text(l) \in Seq(Line \X Nat)
      BY <2>1, LineWidth, TextOf
    <2> QED BY <2>2 DEF l, Ink
  <1>4. h \in Seq(Ink)
    BY HeaderOf
  <1> HIDE DEF rows, f, h
  <1>5. h \o rows \o f \in Seq(Ink)
    BY <1>2, <1>3, <1>4
  <1> QED BY <1>2, <1>3, <1>4, <1>5 DEF rows, f, h, kept

LEMMA ReplyLines ==
  ASSUME SeqInv, NEW c \in Conn
  PROVE  Reply(c) \in Seq(Ink)
  <1>1. req[c] \in Request /\ seq[c] \in Int
    BY DEF SeqInv, TypeOK
  <1> QED BY <1>1, ReplyOf DEF Reply

LEMMA ReplyLinesAfter == ASSUME SeqInv', NEW c \in Conn PROVE Reply(c)' \in Seq(Ink)
  <1>1. req'[c] \in Request /\ seq'[c] \in Int
    BY DEF SeqInv, TypeOK
  <1> QED BY <1>1, ReplyOf DEF Reply

LEMMA AnswerInvInit == Init => AnswerInv
  <1> SUFFICES ASSUME Init PROVE AnswerInv
    OBVIOUS
  <1>1. SeqInv
    BY SeqInvInit
  <1>2. got \in [Conn -> Seq(Ink)]
    BY DEF Init
  <1>3. ASSUME NEW c \in Conn PROVE Right(c)
    <2>1. pc[c] = "idle" /\ loc[c] = NoLocals /\ got[c] = <<>>
      BY DEF Init
    <2>2. IsPrefix(<<>>, Reply(c))
      <3>1. Reply(c) \in Seq(Ink) /\ 0 \in 0..Len(Reply(c))
        BY <1>1, ReplyLines
      <3> QED BY <3>1, PrefixIs
    <2> QED BY <2>1, <2>2
         DEF Right, Unwritten, Gathers, Writes, Sends, Early, Building, Reading, Ended
  <1> QED BY <1>2, <1>3 DEF AnswerInv

\* Who is not held, or is not touched by a step, stays right.
Apart(c) == /\ pc'[c] = pc[c] /\ loc'[c] = loc[c] /\ req'[c] = req[c]
            /\ seq'[c] = seq[c] /\ got'[c] = got[c]

LEMMA ApartRight ==
  ASSUME NEW c \in Conn, Right(c), Apart(c), pc[c] \in {"idle"} \cup Ended
  PROVE  Right(c)'
  <1>1. Reply(c)' = Reply(c)
    BY DEF Apart, Reply
  <1>2. Unwritten(c)'
    BY DEF Right, Unwritten, Apart
  <1>3. Sends(c)'
    BY <1>1 DEF Right, Sends, Apart, Ended
  <1> QED BY <1>2, <1>3 DEF Right, Gathers, Writes, Apart, Ended, Reading

LEMMA StoppedRight ==
  ASSUME NEW c \in Conn, Right(c), UNCHANGED <<req, loc, seq, files, got>>,
         pc'[c] = pc[c] \/ pc'[c] = "dead"
  PROVE  Right(c)'
  <1>1. Reply(c)' = Reply(c) /\ UNCHANGED <<work, lama>> /\ SoFar(c)' = SoFar(c)
    BY DEF Reply, SoFar, files
  <1>2. CASE pc'[c] = pc[c]
    <2>1. UNCHANGED <<seq, loc, req, got>>
      OBVIOUS
    <2> QED BY <1>1, <1>2, <2>1 DEF Right, Unwritten, Gathers, Writes, Sends, Header
  <1>3. CASE pc'[c] = "dead"
    BY <1>1, <1>3 DEF Right, Unwritten, Gathers, Writes, Sends, Early, Building, Reading, Ended
  <1> QED BY <1>2, <1>3

LEMMA OthersRight ==
  ASSUME SeqInv, OneInv, AnswerInv, NEW c \in Conn, Held(c) \/ \A d \in Conn : ~Held(d),
         \A d \in Conn \ {c} : Apart(d),
         got' \in [Conn -> Seq(Ink)], Right(c)'
  PROVE  AnswerInv'
  <1>1. ASSUME NEW d \in Conn \ {c} PROVE Right(d)'
    <2>1. ~Held(d) /\ d \notin hung /\ pc[d] \in PC
      BY DEF OneInv, SeqInv, TypeOK
    <2>2. pc[d] \in {"idle"} \cup Ended
      BY <2>1 DEF Held, PC
    <2> QED BY <2>2, ApartRight DEF AnswerInv
  <1> QED BY <1>1 DEF AnswerInv

LEMMA WrittenFirst ==
  ASSUME NEW ink \in Seq(WorkUnit)
  PROVE  WriteAt(<<>>, 0, ink) = ink
  <1> DEFINE n == Len(ink)
  <1>1. n \in Nat
    OBVIOUS
  <1>2. WriteAt(<<>>, 0, ink) =
          [i \in 1..(IF 0 + n > 0 THEN 0 + n ELSE 0) |->
             IF i > 0 /\ i <= 0 + n THEN ink[i - 0]
             ELSE IF i <= 0 THEN <<>>[i] ELSE Hole]
    BY DEF WriteAt
  <1> HIDE DEF n
  <1>3. (IF 0 + n > 0 THEN 0 + n ELSE 0) = n
    BY <1>1
  <1>4. \A i \in 1..n : (IF i > 0 /\ i <= 0 + n THEN ink[i - 0]
                         ELSE IF i <= 0 THEN <<>>[i] ELSE Hole) = ink[i]
    BY <1>1
  <1>5. WriteAt(<<>>, 0, ink) = [i \in 1..n |-> ink[i]]
    BY <1>2, <1>3, <1>4
  <1> QED BY <1>1, <1>5 DEF n

\* What begins text that is joined begins what the joined text begins.
LEMMA FrontIsPrefix ==
  ASSUME NEW S, NEW t \in Seq(S), NEW n \in Nat, n <= Len(t),
         NEW a \in Seq(S), NEW b \in Seq(S), a \o b = SubSeq(t, 1, n)
  PROVE  IsPrefix(a, t)
  <1> DEFINE m == Len(a)
             u == SubSeq(t, 1, n)
  <1>1. m \in Nat /\ Len(b) \in Nat /\ Len(t) \in Nat /\ u \in Seq(S) /\ Len(u) = n
    OBVIOUS
  <1>2. Len(a \o b) = m + Len(b)
    BY ConcatProperties
  <1>3. m <= n
    BY <1>1, <1>2
  <1>4. \A i \in 1..m : a[i] = t[i]
    <2>1. \A i \in 1..m : (a \o b)[i] = a[i]
      OBVIOUS
    <2>2. \A i \in 1..n : u[i] = t[i]
      OBVIOUS
    <2> QED BY <1>1, <1>3, <2>1, <2>2
  <1>5. SubSeq(t, 1, m) \in Seq(S) /\ Len(SubSeq(t, 1, m)) = m /\ \A i \in 1..m : SubSeq(t, 1, m)[i] = t[i]
    BY <1>1, <1>3
  <1>6. SubSeq(t, 1, m) = a
    <2> DEFINE v == SubSeq(t, 1, m)
    <2>1. v \in Seq(S) /\ Len(v) = m /\ \A i \in 1..m : v[i] = a[i]
      BY <1>4, <1>5
    <2> HIDE DEF v
    <2>2. v = a
      BY <2>1, SeqEqual
    <2> QED BY <2>2 DEF v
  <1>7. m \in 0..Len(t)
    BY <1>1, <1>3
  <1> QED BY <1>6, <1>7, PrefixIs

\* The steps that leave the files and the locals of the child alone.
LEMMA ConnectRight ==
  ASSUME SeqInv, SeqInv', OneInv, AnswerInv, NEW c \in Conn,
         pc[c] \in Early, pc'[c] \in Early, loc'[c] = loc[c], got' = got
  PROVE  Right(c)'
  <1>1. loc[c] = NoLocals /\ got[c] = <<>>
    BY DEF AnswerInv, Right, Unwritten, Sends, Early, Ended
  <1>2. IsPrefix(<<>>, Reply(c)')
    <2>1. Reply(c)' \in Seq(Ink)
      BY ReplyLinesAfter
    <2>2. 0 \in 0..Len(Reply(c)')
      BY <2>1
    <2> QED BY <2>1, <2>2, PrefixIs
  <1> QED BY <1>1, <1>2
       DEF Right, Unwritten, Gathers, Writes, Sends, Early, Building, Reading, Ended

LEMMA RecvRight ==
  ASSUME SeqInv, AnswerInv, NEW c \in Conn, Recv(c)
  PROVE  Right(c)'
  <1>1. /\ pc[c] = "recv" /\ pc'[c] \in {"shell", "failed"}
        /\ UNCHANGED <<req, loc, seq, work, lama, got>>
    BY DEF Recv, Goto, files, SeqInv, TypeOK
  <1>2. loc[c] = NoLocals /\ got[c] = <<>> /\ IsPrefix(got[c], Reply(c))
    BY <1>1 DEF AnswerInv, Right, Unwritten, Sends, Early, Ended
  <1>3. Reply(c)' = Reply(c)
    BY <1>1 DEF Reply
  <1>4. SoFar(c)' = <<>>
    <2>1. loc'[c].src - 1 = 0
      BY <1>1, <1>2 DEF NoLocals
    <2> QED BY <2>1, GatheredOf DEF SoFar
  <1>5. Len(Sources(req[c])) \in Nat
    BY RecordsOf DEF SeqInv, TypeOK
  <1>6. Unwritten(c)'
    BY <1>1, <1>2 DEF Unwritten, NoLocals, Early
  <1>7. Gathers(c)'
    BY <1>1, <1>2, <1>4, <1>5 DEF Gathers, Reading, NoLocals
  <1>8. Writes(c)'
    BY <1>1 DEF Writes
  <1>9. Sends(c)'
    BY <1>1, <1>2, <1>3 DEF Sends
  <1> QED BY <1>6, <1>7, <1>8, <1>9 DEF Right

LEMMA ShellRight ==
  ASSUME SeqInv, AnswerInv, NEW c \in Conn, Shell(c)
  PROVE  Right(c)'
  <1>1. /\ pc[c] = "shell" /\ pc'[c] = "cat" /\ work' = IF loc[c].found THEN work ELSE <<>>
        /\ loc[c].src <= Len(Sources(req[c]))
        /\ UNCHANGED <<req, loc, seq, lama, got>>
    BY DEF Shell, Goto, Redirect, SeqInv, TypeOK
  <1>2. Right(c) /\ Reply(c)' = Reply(c) /\ SoFar(c)' = SoFar(c)
    BY <1>1 DEF AnswerInv, Reply, SoFar
  <1>3. Unwritten(c)'
    BY <1>1, <1>2 DEF Right, Unwritten, Early, Building
  <1>4. Gathers(c)'
    BY <1>1, <1>2 DEF Right, Gathers, Reading
  <1>5. Writes(c)'
    BY <1>1 DEF Writes
  <1>6. Sends(c)'
    BY <1>1, <1>2 DEF Right, Sends, Ended
  <1> QED BY <1>3, <1>4, <1>5, <1>6 DEF Right

LEMMA CatRight ==
  ASSUME SeqInv, LamaInv, AnswerInv, NEW c \in Conn, Cat(c)
  PROVE  Right(c)'
  <1> DEFINE l == loc[c]
             src == Sources(req[c])[l.src]
  <1>1. /\ loc \in [Conn -> Locals] /\ l \in Locals /\ work \in Seq(WorkUnit)
        /\ pc \in [Conn -> PC] /\ req[c] \in Request
    BY DEF LamaInv, SeqInv, TypeOK
  <1>2. /\ pc[c] = "cat" /\ pc'[c] = "shell" /\ UNCHANGED <<req, seq, lama, got>>
        /\ IF src \in DOMAIN Cdr
           THEN /\ work' = IF l.found THEN work \o CallText(Cdr[src])
                           ELSE WriteAt(work, 0, CallText(Cdr[src]))
                /\ loc' = [loc EXCEPT ![c] = [l EXCEPT !.src = @ + 1, !.found = TRUE]]
           ELSE work' = work /\ loc' = [loc EXCEPT ![c] = [l EXCEPT !.src = @ + 1]]
    BY <1>1 DEF Cat, Goto
  <1>3. Right(c) /\ Reply(c)' = Reply(c)
    BY <1>2 DEF AnswerInv, Reply
  <1>4. /\ l.in = 0 /\ l.last = Start /\ l.out = <<>> /\ l.at = 0 /\ l.count = 0 /\ l.src >= 1
        /\ l.src <= Len(Sources(req[c])) /\ work = SoFar(c) /\ (~l.found => work = <<>>)
    BY <1>2, <1>3 DEF Right, Unwritten, Gathers, Building
  <1>5. /\ loc'[c].in = 0 /\ loc'[c].last = Start /\ loc'[c].out = <<>>
        /\ loc'[c].at = 0 /\ loc'[c].count = 0
        /\ loc'[c].src = l.src + 1
        /\ loc'[c].found = (l.found \/ src \in DOMAIN Cdr)
    <2> HIDE DEF src
    <2>1. CASE src \in DOMAIN Cdr
      <3>1. loc'[c] = [l EXCEPT !.src = @ + 1, !.found = TRUE]
        BY <1>1, <1>2, <2>1
      <3> HIDE DEF l
      <3> QED BY <1>1, <1>4, <2>1, <3>1 DEF Locals
    <2>2. CASE src \notin DOMAIN Cdr
      <3>1. loc'[c] = [l EXCEPT !.src = @ + 1]
        BY <1>1, <1>2, <2>2
      <3> HIDE DEF l
      <3> QED BY <1>1, <1>4, <2>2, <3>1 DEF Locals
    <2> QED BY <2>1, <2>2
  <1>6. SoFar(c)' = SoFar(c) \o Backup(src) /\ SoFar(c) \in Seq(CallInk)
    <2> DEFINE k == l.src - 1
    <2>1. k \in Nat /\ l.src = k + 1 /\ loc'[c].src - 1 = k + 1
      BY <1>1, <1>4, <1>5 DEF Locals
    <2> HIDE DEF k
    <2>2. /\ Gathered(req[c])[k] \in Seq(CallInk)
          /\ Gathered(req[c])[k + 1] = Gathered(req[c])[k] \o Backup(Sources(req[c])[k + 1])
      BY <2>1, GatheredOf, CallTextsOf
    <2>3. SoFar(c) = Gathered(req[c])[k]
      BY DEF SoFar, k
    <2>4. SoFar(c)' = Gathered(req[c])[k + 1]
      BY <1>2, <2>1 DEF SoFar
    <2> QED BY <2>1, <2>2, <2>3, <2>4
  <1>7. IF loc'[c].found THEN work' = SoFar(c)' ELSE SoFar(c)' = <<>>
    <2> HIDE DEF src
    <2>1. CASE src \in DOMAIN Cdr
      <3> DEFINE ink == CallText(Cdr[src])
      <3>1. Backup(src) = ink /\ ink \in Seq(WorkUnit)
        <4>1. Cdr[src] \in Seq(Rows)
          BY <2>1, ConstAssumption
        <4> QED BY <2>1, <4>1, CallTextOf DEF Backup
      <3>2. work' = IF l.found THEN work \o ink ELSE WriteAt(work, 0, ink)
        BY <1>2, <2>1
      <3> HIDE DEF ink
      <3>3. CASE l.found
        BY <1>4, <1>5, <1>6, <2>1, <3>1, <3>2, <3>3
      <3>4. CASE ~l.found
        <4>1. work = <<>> /\ SoFar(c) = <<>>
          BY <1>4, <3>4
        <4>2. work' = WriteAt(<<>>, 0, ink)
          BY <3>2, <3>4, <4>1
        <4>3. WriteAt(<<>>, 0, ink) = ink
          BY <3>1, WrittenFirst
        <4>4. <<>> \o ink = ink
          BY <3>1, ConcatEmptySeq
        <4>5. loc'[c].found
          BY <1>5, <2>1
        <4> QED BY <1>6, <3>1, <4>1, <4>2, <4>3, <4>4, <4>5
      <3> QED BY <3>3, <3>4
    <2>2. CASE src \notin DOMAIN Cdr
      <3>1. Backup(src) = <<>> /\ work' = work
        BY <1>2, <2>2 DEF Backup
      <3>2. SoFar(c)' = SoFar(c)
        BY <1>6, <3>1, ConcatEmptySeq
      <3> QED BY <1>4, <1>5, <2>2, <3>1, <3>2
    <2> QED BY <2>1, <2>2
  <1>8. loc'[c].src >= 1 /\ loc'[c].src - 1 <= Len(Sources(req[c]))
    BY <1>1, <1>4, <1>5 DEF Locals
  <1> HIDE DEF l, src
  <1>9. Unwritten(c)'
    BY <1>2, <1>5, <1>8 DEF Unwritten, Early
  <1>10. Gathers(c)'
    BY <1>2, <1>7, <1>8 DEF Gathers, Reading
  <1>11. Writes(c)'
    BY <1>2 DEF Writes
  <1>12. Sends(c)'
    BY <1>2, <1>3 DEF Right, Sends, Ended
  <1> QED BY <1>9, <1>10, <1>11, <1>12 DEF Right

LEMMA CatsDoneRight ==
  ASSUME SeqInv, LamaInv, AnswerInv, NEW c \in Conn, CatsDone(c)
  PROVE  Right(c)'
  <1>1. /\ pc[c] = "shell" /\ pc'[c] = IF loc[c].found THEN "read" ELSE "failed"
        /\ loc[c].src > Len(Sources(req[c])) /\ UNCHANGED <<req, loc, seq, work, lama, got>>
    BY DEF CatsDone, Goto, files, SeqInv, TypeOK
  <1>2. Right(c) /\ Reply(c)' = Reply(c)
    BY <1>1 DEF AnswerInv, Reply
  <1>3. loc[c].found => work = Records(req[c])
    <2>1. loc[c].src \in Nat /\ Len(Sources(req[c])) \in Nat
      BY RecordsOf DEF LamaInv, Locals, SeqInv, TypeOK
    <2>2. loc[c].src - 1 = Len(Sources(req[c]))
      BY <1>1, <1>2, <2>1 DEF Right, Gathers
    <2> QED BY <1>1, <1>2, <2>2 DEF Right, Gathers, SoFar, Records
  <1>4. Unwritten(c)'
    BY <1>1, <1>2 DEF Right, Unwritten, Early, Building
  <1>5. Gathers(c)'
    BY <1>1, <1>3 DEF Gathers, Reading
  <1>6. Writes(c)'
    BY <1>1 DEF Writes
  <1>7. Sends(c)'
    BY <1>1, <1>2 DEF Right, Sends, Ended
  <1> QED BY <1>4, <1>5, <1>6, <1>7 DEF Right

LEMMA NumberRight ==
  ASSUME SeqInv, SeqInv', AnswerInv, NEW c \in Conn, ReadSeq(c) \/ TruncSeq(c) \/ PutSeq(c)
  PROVE  Right(c)'
  <1>1. /\ pc[c] \in {"read", "trunc", "put"} /\ pc'[c] \in {"trunc", "put", "open", "failed"}
        /\ UNCHANGED <<req, loc, work, lama, got>>
    BY DEF ReadSeq, TruncSeq, PutSeq, Goto, files, SeqInv, TypeOK
  <1>2. Right(c) /\ got[c] = <<>>
    BY <1>1 DEF AnswerInv, Right, Sends, Ended
  <1>3. IsPrefix(<<>>, Reply(c)')
    <2>1. Reply(c)' \in Seq(Ink)
      BY ReplyLinesAfter
    <2>2. 0 \in 0..Len(Reply(c)')
      BY <2>1
    <2> QED BY <2>1, <2>2, PrefixIs
  <1>4. Unwritten(c)'
    BY <1>1, <1>2 DEF Right, Unwritten, Early, Building
  <1>5. Gathers(c)'
    BY <1>1, <1>2 DEF Right, Gathers, Reading
  <1>6. Writes(c)'
    BY <1>1 DEF Writes
  <1>7. Sends(c)'
    BY <1>1, <1>2, <1>3 DEF Sends, Ended
  <1> QED BY <1>4, <1>5, <1>6, <1>7 DEF Right

Regroup(x, y, z) == (x \o y) \o z = x \o (y \o z)

LEMMA LinesRegroup ==
  ASSUME NEW x \in Seq(Unit), NEW y \in Seq(Unit), NEW z \in Seq(Unit)
  PROVE  Regroup(x, y, z)
  BY ConcatAssociative DEF Regroup

LEMMA OpenRight ==
  ASSUME SeqInv, LamaInv, AnswerInv, NEW c \in Conn, OpenLama(c)
  PROVE  Right(c)'
  <1> DEFINE h == Header(c)
  <1>1. /\ loc \in [Conn -> Locals] /\ loc[c] \in Locals /\ pc \in [Conn -> PC]
        /\ req[c] \in Request /\ seq[c] \in Int
    BY DEF LamaInv, SeqInv, TypeOK
  <1>2. /\ pc[c] = "open" /\ pc'[c] = "parse" /\ lama' = <<>>
        /\ loc' = [loc EXCEPT ![c] = [loc[c] EXCEPT !.out = h]]
        /\ UNCHANGED <<req, seq, work, got>> /\ Header(c)' = h
    BY <1>1 DEF OpenLama, Goto, Header
  <1>3. Right(c) /\ Reply(c)' = Reply(c)
    BY <1>2 DEF AnswerInv, Reply
  <1>4. /\ loc[c].in = 0 /\ loc[c].last = Start /\ loc[c].at = 0 /\ loc[c].count = 0
        /\ work = Records(req[c])
    BY <1>2, <1>3 DEF Right, Unwritten, Gathers, Building, Reading
  <1>5. h \in Seq(Ink)
    BY <1>1, HeaderOf DEF Header
  <1> HIDE DEF h
  <1>6. /\ loc'[c].in = 0 /\ loc'[c].last = Start /\ loc'[c].at = 0 /\ loc'[c].count = 0
        /\ loc'[c].out = h
    <2>1. loc'[c] = [loc[c] EXCEPT !.out = h]
      BY <1>1, <1>2
    <2> QED BY <1>1, <1>4, <2>1 DEF Locals
  <1>7. Billed(work, 0) = <<>> /\ Len(Picks(work, 0)) = 0 /\ work \in Seq(CallInk) /\ Len(work) \in Nat
    <2>1. work \in Seq(CallInk)
      BY <1>1, <1>4, RecordsOf, CallTextsOf
    <2>2. 0 \in 0..Len(work) /\ Len(work) \in Nat
      BY <2>1
    <2>3. 0 \in 0..Len(work) /\ 0 \in 0..Len(work)
      BY <2>2
    <2> QED BY <2>1, <2>2, <2>3, BilledGrows
  <1>8. <<>> \o h = h \o <<>>
    BY <1>5, ConcatEmptySeq
  <1>9. Writes(c)'
    <2>1. loc'[c].in <= Len(work')
      BY <1>2, <1>6, <1>7
    <2>2. loc'[c].at = Len(lama') /\ loc'[c].count = Len(Picks(work', loc'[c].in))
      BY <1>2, <1>6, <1>7
    <2>3. lama' \o loc'[c].out = h \o Billed(work', loc'[c].in)
      BY <1>2, <1>6, <1>7, <1>8
    <2>4. loc'[c].last = LastTaken(work', loc'[c].in)
      BY <1>6 DEF LastTaken
    <2> QED BY <1>2, <2>1, <2>2, <2>3, <2>4 DEF Writes, Billed, Picks, LastTaken
  <1>10. Unwritten(c)'
    BY <1>2 DEF Unwritten, Early, Building
  <1>11. Gathers(c)'
    BY <1>2, <1>4 DEF Gathers
  <1>12. Sends(c)'
    BY <1>2, <1>3 DEF Right, Sends, Ended
  <1> QED BY <1>9, <1>10, <1>11, <1>12 DEF Right

\* The child has the working file, and the file it writes, to itself.
LEMMA Written ==
  ASSUME SeqInv, LamaInv, AnswerInv, NEW c \in Conn, pc[c] = "parse"
  PROVE  /\ work = Records(req[c]) /\ work \in Seq(CallInk) /\ Len(work) \in Nat /\ Whole(work)
         /\ loc[c].in \in 0..Len(work) /\ loc[c].at = Len(lama)
         /\ loc[c].last = LastTaken(work, loc[c].in)
         /\ loc[c].count = Len(Picks(work, loc[c].in)) /\ loc[c].count \in Nat
         /\ lama \o loc[c].out = Header(c) \o Billed(work, loc[c].in)
         /\ lama \in Seq(Unit) /\ loc[c].out \in Seq(Unit) /\ loc[c] \in Locals
         /\ Header(c) \in Seq(Ink) /\ Billed(work, loc[c].in) \in Seq(Ink)
         /\ got[c] = <<>> /\ IsPrefix(got[c], Reply(c))
  <1>1. Right(c)
    BY DEF AnswerInv
  <1>2. work = Records(req[c]) /\ work \in Seq(CallInk) /\ Whole(work)
    <2>1. work = Records(req[c])
      BY <1>1 DEF Right, Gathers, Reading
    <2>2. work \in CallTexts
      BY <2>1, RecordsOf DEF SeqInv, TypeOK
    <2> QED BY <2>1, <2>2, CallTextsOf
  <1>3. Len(work) \in Nat
    BY <1>2
  <1>4. /\ loc[c].in <= Len(work) /\ loc[c].at = Len(lama)
        /\ loc[c].last = LastTaken(work, loc[c].in)
        /\ loc[c].count = Len(Picks(work, loc[c].in))
        /\ lama \o loc[c].out = Header(c) \o Billed(work, loc[c].in)
    BY <1>1 DEF Right, Writes
  <1>5. lama \in Seq(Unit) /\ loc[c] \in Locals
    BY DEF LamaInv
  <1>6. loc[c].in \in 0..Len(work) /\ loc[c].out \in Seq(Unit) /\ loc[c].count \in Nat
    BY <1>3, <1>4, <1>5 DEF Locals
  <1>7. Billed(work, loc[c].in) \in Seq(Ink)
    <2>1. Len(work) \in loc[c].in..Len(work)
      BY <1>3, <1>6
    <2> QED BY <1>2, <1>6, <2>1, BilledGrows
  <1>8. Header(c) \in Seq(Ink)
    BY HeaderOf DEF Header, SeqInv, TypeOK
  <1>9. got[c] = <<>> /\ IsPrefix(got[c], Reply(c))
    BY <1>1 DEF Right, Sends, Ended
  <1> QED BY <1>2, <1>3, <1>4, <1>5, <1>6, <1>7, <1>8, <1>9

\* A flush moves the first buffer of what is to be written behind the file.
LEMMA FlushRight ==
  ASSUME SeqInv, LamaInv, AnswerInv, NEW c \in Conn, Flush(c)
  PROVE  Right(c)'
  <1> DEFINE out == loc[c].out
             a == Slice(out, 0, Buffer)
             b == Slice(out, Buffer, Len(out))
  <1>1. /\ loc \in [Conn -> Locals] /\ loc[c] \in Locals /\ lama \in Seq(Unit)
        /\ out \in Seq(Unit) /\ loc[c].at \in Nat
    <2>1. loc \in [Conn -> Locals] /\ loc[c] \in Locals /\ lama \in Seq(Unit)
      BY DEF LamaInv
    <2> QED BY <2>1 DEF Locals
  <1>2. /\ pc[c] \in {"parse", "close"} /\ UNCHANGED <<pc, req, seq, work, got>>
        /\ Len(out) > Buffer /\ lama' = WriteAt(lama, loc[c].at, a)
        /\ loc' = [loc EXCEPT ![c] = [loc[c] EXCEPT !.at = @ + Buffer, !.out = b]]
    BY <1>1 DEF Flush
  <1>3. Right(c) /\ Reply(c)' = Reply(c) /\ Header(c)' = Header(c)
    BY <1>2 DEF AnswerInv, Reply, Header
  <1>4. loc[c].at = Len(lama)
    BY <1>2, <1>3 DEF Right, Writes
  <1>5. Buffer \in Nat /\ Buffer \in 0..Len(out)
    BY <1>1, <1>2, ConstAssumption
  <1>6. a \in Seq(Unit) /\ b \in Seq(Unit) /\ a \o b = out /\ Len(a) = Buffer
    BY <1>1, <1>5, CutAt
  <1> HIDE DEF a, b
  <1>7. lama' = lama \o a
    BY <1>1, <1>2, <1>4, <1>6, WrittenBehind
  <1>8. Len(lama') = Len(lama) + Buffer
    BY <1>1, <1>6, <1>7, ConcatProperties
  <1>9. lama' \o b = lama \o out
    <2>1. Regroup(lama, a, b)
      BY <1>1, <1>6, LinesRegroup
    <2> QED BY <1>6, <1>7, <2>1 DEF Regroup
  <1> HIDE DEF out
  <1>10. /\ loc'[c].at = Len(lama') /\ loc'[c].out = b /\ loc'[c].in = loc[c].in
         /\ loc'[c].last = loc[c].last /\ loc'[c].count = loc[c].count
    <2>1. loc'[c] = [loc[c] EXCEPT !.at = @ + Buffer, !.out = b]
      BY <1>1, <1>2
    <2>2. /\ loc'[c].at = loc[c].at + Buffer /\ loc'[c].out = b /\ loc'[c].in = loc[c].in
          /\ loc'[c].last = loc[c].last /\ loc'[c].count = loc[c].count
      BY <1>1, <2>1 DEF Locals
    <2> QED BY <1>4, <1>8, <2>2
  <1>11. Writes(c)'
    <2>1. CASE pc[c] = "parse"
      <3>1. /\ loc[c].in <= Len(work) /\ loc[c].last = LastTaken(work, loc[c].in)
            /\ loc[c].count = Len(Picks(work, loc[c].in))
            /\ lama \o out = Header(c) \o Billed(work, loc[c].in)
        BY <1>3, <2>1 DEF Right, Writes, out
      <3>2. lama' \o loc'[c].out = Header(c) \o Billed(work, loc[c].in)
        BY <1>9, <1>10, <3>1
      <3>3. /\ loc'[c].in <= Len(work') /\ loc'[c].last = LastTaken(work', loc'[c].in)
            /\ loc'[c].count = Len(Picks(work', loc'[c].in))
            /\ lama' \o loc'[c].out = Header(c) \o Billed(work', loc'[c].in)
        BY <1>2, <1>10, <3>1, <3>2
      <3> QED BY <1>2, <1>3, <1>10, <2>1, <3>3 DEF Writes, Billed, Picks, LastTaken
    <2>2. CASE pc[c] = "close"
      <3>1. lama \o out = Reply(c)
        BY <1>3, <2>2 DEF Right, Writes, out
      <3>2. lama' \o loc'[c].out = Reply(c)
        BY <1>9, <1>10, <3>1
      <3> QED BY <1>2, <1>3, <1>10, <2>2, <3>2 DEF Writes
    <2> QED BY <1>2, <2>1, <2>2
  <1>12. Unwritten(c)'
    BY <1>2 DEF Unwritten, Early, Building
  <1>13. Gathers(c)'
    BY <1>2, <1>3 DEF Right, Gathers, Reading
  <1>14. Sends(c)'
    BY <1>2, <1>3 DEF Right, Sends, Ended
  <1> QED BY <1>11, <1>12, <1>13, <1>14 DEF Right

\* Text that is as the records were written goes on smoothly anywhere.
LEMMA SmoothOn ==
  ASSUME NEW w \in Seq(CallInk), Whole(w), NEW n \in 0..Len(w), NEW m \in n..Len(w)
  PROVE  /\ Smooth(LastTaken(w, n), SubSeq(w, n + 1, m))
         /\ Len(SubSeq(w, n + 1, m)) = m - n
         /\ m > n => SubSeq(w, n + 1, m)[m - n] = LastTaken(w, m)
  <1> DEFINE s == SubSeq(w, n + 1, m)
             last == LastTaken(w, n)
  <1>1. /\ Len(w) \in Nat /\ n \in Nat /\ m \in Nat /\ n <= m /\ m <= Len(w)
        /\ DOMAIN s = 1..(m - n) /\ \A i \in 1..(m - n) : s[i] = w[n + i]
        /\ Len(s) = m - n
    <2>1. Len(w) \in Nat /\ n \in Nat /\ m \in Nat /\ n <= m /\ m <= Len(w)
      OBVIOUS
    <2>2. /\ Len(s) = m - n /\ DOMAIN s = 1..(m - n)
          /\ \A i \in 1..(m - n) : s[i] = w[n + i]
      BY <2>1
    <2> QED BY <2>1, <2>2
  <1>2. \A i \in 1..Len(w) : Follows(IF i = 1 THEN Start ELSE w[i - 1], w[i])
    <2>1. DOMAIN w = 1..Len(w)
      OBVIOUS
    <2> QED BY <2>1 DEF Whole, Smooth
  <1> HIDE DEF s
  <1>3. ASSUME NEW i \in DOMAIN s PROVE Follows(IF i = 1 THEN last ELSE s[i - 1], s[i])
    <2>1. i \in 1..(m - n) /\ n + i \in 1..Len(w) /\ s[i] = w[n + i]
      BY <1>1
    <2>2. Follows(IF n + i = 1 THEN Start ELSE w[(n + i) - 1], w[n + i])
      BY <1>2, <2>1
    <2>3. (IF n + i = 1 THEN Start ELSE w[(n + i) - 1]) = IF i = 1 THEN last ELSE s[i - 1]
      <3>1. CASE i = 1 /\ n = 0
        BY <3>1 DEF LastTaken
      <3>2. CASE i = 1 /\ n # 0
        <4>1. n + i # 1 /\ (n + i) - 1 = n
          BY <1>1, <3>2
        <4> QED BY <3>2, <4>1 DEF LastTaken
      <3>3. CASE i # 1
        <4>1. n + i # 1 /\ i - 1 \in 1..(m - n) /\ (n + i) - 1 = n + (i - 1)
          BY <1>1, <2>1, <3>3
        <4>2. s[i - 1] = w[n + (i - 1)]
          BY <1>1, <4>1
        <4> QED BY <3>3, <4>1, <4>2
      <3> QED BY <3>1, <3>2, <3>3
    <2> QED BY <2>1, <2>2, <2>3
  <1>4. m > n => s[m - n] = LastTaken(w, m)
    <2>1. ASSUME m > n PROVE s[m - n] = w[m] /\ m # 0
      <3>1. m - n \in 1..(m - n) /\ n + (m - n) = m /\ m # 0
        BY <1>1, <2>1
      <3>2. s[m - n] = w[n + (m - n)]
        BY <1>1, <3>1
      <3> QED BY <3>1, <3>2
    <2> QED BY <2>1 DEF LastTaken
  <1> QED BY <1>1, <1>3, <1>4 DEF Smooth, s

LEMMA ParseRight ==
  ASSUME SeqInv, LamaInv, AnswerInv, NEW c \in Conn, Parse(c)
  PROVE  Right(c)'
  <1> DEFINE n == loc[c].in
             m == IF n + Buffer < Len(work) THEN n + Buffer ELSE Len(work)
             ink == NextText(c)
             more == RowLines(Kept(SubSeq(work, n + 1, m)))
             h == Header(c)
             out == loc[c].out
  <1>1. /\ loc \in [Conn -> Locals] /\ pc \in [Conn -> PC]
        /\ pc[c] = "parse" /\ pc'[c] = "parse" /\ UNCHANGED <<req, seq, work, lama, got>>
        /\ n < Len(work)
    BY DEF LamaInv, SeqInv, TypeOK, Parse, Goto, files
  <1>2. /\ work = Records(req[c]) /\ work \in Seq(CallInk) /\ Len(work) \in Nat /\ Whole(work)
        /\ n \in 0..Len(work) /\ loc[c].at = Len(lama)
        /\ loc[c].last = LastTaken(work, n)
        /\ loc[c].count = Len(Picks(work, n)) /\ loc[c].count \in Nat
        /\ lama \o out = h \o Billed(work, n)
        /\ lama \in Seq(Unit) /\ out \in Seq(Unit) /\ loc[c] \in Locals
        /\ h \in Seq(Ink) /\ Billed(work, n) \in Seq(Ink)
        /\ got[c] = <<>> /\ IsPrefix(got[c], Reply(c))
    BY <1>1, Written
  <1>3. m \in n..Len(work) /\ m > n
    BY <1>1, <1>2, ConstAssumption
  <1>4. ink = SubSeq(work, n + 1, m)
    BY DEF NextText, Slice
  <1> HIDE DEF m, n
  <1>5. /\ Smooth(loc[c].last, ink) /\ Len(ink) = m - n /\ ink[Len(ink)] = LastTaken(work, m)
    BY <1>2, <1>3, <1>4, SmoothOn
  <1>6. /\ Billed(work, m) = Billed(work, n) \o more /\ more \in Seq(Ink)
        /\ Len(Picks(work, m)) = loc[c].count + Len(Kept(ink)) /\ Len(Kept(ink)) \in Nat
    BY <1>2, <1>3, <1>4, BilledGrows
  <1>7. more = RowLines(Kept(ink))
    BY <1>4
  <1>8. loc' = [loc EXCEPT ![c] = [loc[c] EXCEPT !.in = @ + Len(ink), !.last = LastTaken(work, m),
                                    !.out = @ \o more, !.count = @ + Len(Kept(ink))]]
    <2>1. PICK lines \in Seq(Ink), last \in WorkUnit \cup {Start, Torn}, kept \in Nat :
            /\ loc' = [loc EXCEPT ![c] = [loc[c] EXCEPT !.in = @ + Len(NextText(c)), !.last = last,
                                            !.out = @ \o lines, !.count = @ + kept]]
            /\ NextText(c) \in Seq(WorkUnit) /\ NextText(c) # <<>>
            /\ Smooth(loc[c].last, NextText(c)) =>
                 /\ last = NextText(c)[Len(NextText(c))]
                 /\ lines = RowLines(Kept(NextText(c))) /\ kept = Len(Kept(NextText(c)))
      BY ParseTakes
    <2>2. last = LastTaken(work, m) /\ lines = more /\ kept = Len(Kept(ink))
      BY <1>5, <1>7, <2>1
    <2> HIDE DEF more
    <2> QED BY <2>1, <2>2
  <1> HIDE DEF more, ink, h
  <1>9. /\ loc'[c].in = m /\ loc'[c].at = Len(lama) /\ loc'[c].out = out \o more
        /\ loc'[c].last = LastTaken(work, m) /\ loc'[c].count = Len(Picks(work, m))
    <2> DEFINE k == Len(Kept(ink))
               d == Len(ink)
               u == LastTaken(work, m)
    <2> HIDE DEF k, d, u
    <2>1. loc'[c] = [loc[c] EXCEPT !.in = @ + d, !.last = u, !.out = @ \o more, !.count = @ + k]
      BY <1>1, <1>8 DEF k, d, u
    <2>2. /\ loc'[c].in = n + d /\ loc'[c].at = loc[c].at /\ loc'[c].out = out \o more
          /\ loc'[c].last = u /\ loc'[c].count = loc[c].count + k
      BY <1>2, <2>1 DEF Locals, n
    <2>3. n + (m - n) = m
      BY <1>2, <1>3
    <2> QED BY <1>2, <1>5, <1>6, <2>2, <2>3 DEF k, d, u
  <1>10. lama \o (out \o more) = h \o Billed(work, m)
    <2> DEFINE was == Billed(work, n)
    <2>1. more \in Seq(Unit) /\ h \in Seq(Unit) /\ was \in Seq(Unit)
      BY <1>2, <1>6, InkIsText
    <2> HIDE DEF was, out
    <2>2. Regroup(lama, out, more) /\ Regroup(h, was, more)
      BY <1>2, <2>1, LinesRegroup
    <2> QED BY <1>2, <1>6, <2>2 DEF Regroup, was
  <1>11. Writes(c)'
    <2>1. loc'[c].in <= Len(work')
      BY <1>1, <1>2, <1>3, <1>9
    <2>2. /\ loc'[c].at = Len(lama') /\ loc'[c].count = Len(Picks(work', loc'[c].in))
          /\ loc'[c].last = LastTaken(work', loc'[c].in)
      BY <1>1, <1>9
    <2>3. lama' \o loc'[c].out = Header(c)' \o Billed(work', loc'[c].in)
      <3>1. Header(c)' = h
        BY <1>1 DEF Header, h
      <3> QED BY <1>1, <1>9, <1>10, <3>1
    <2> QED BY <1>1, <2>1, <2>2, <2>3 DEF Writes, Billed, Picks, LastTaken
  <1>12. Unwritten(c)'
    BY <1>1 DEF Unwritten, Early, Building
  <1>13. Gathers(c)'
    BY <1>1, <1>2 DEF Gathers
  <1>14. Sends(c)'
    <2>1. Reply(c)' = Reply(c)
      BY <1>1 DEF Reply
    <2> QED BY <1>1, <1>2, <2>1 DEF Sends
  <1> QED BY <1>11, <1>12, <1>13, <1>14 DEF Right

LEMMA EndRight ==
  ASSUME SeqInv, LamaInv, AnswerInv, NEW c \in Conn, EndOfWork(c)
  PROVE  Right(c)'
  <1> DEFINE n == loc[c].in
             h == Header(c)
             out == loc[c].out
             rows == RowLines(Kept(work))
             f == AddFin(c)
  <1>1. /\ loc \in [Conn -> Locals] /\ pc[c] = "parse" /\ pc'[c] = "close"
        /\ UNCHANGED <<req, seq, work, lama, got>> /\ n >= Len(work)
    BY DEF LamaInv, SeqInv, TypeOK, EndOfWork, Goto, files
  <1>2. /\ work = Records(req[c]) /\ work \in Seq(CallInk) /\ Len(work) \in Nat /\ Whole(work)
        /\ n \in 0..Len(work) /\ loc[c].at = Len(lama)
        /\ loc[c].last = LastTaken(work, n)
        /\ loc[c].count = Len(Picks(work, n)) /\ loc[c].count \in Nat
        /\ lama \o out = h \o Billed(work, n)
        /\ lama \in Seq(Unit) /\ out \in Seq(Unit) /\ loc[c] \in Locals
        /\ h \in Seq(Ink) /\ Billed(work, n) \in Seq(Ink)
        /\ got[c] = <<>> /\ IsPrefix(got[c], Reply(c))
    BY <1>1, Written
  <1>3. n = Len(work)
    BY <1>1, <1>2
  <1> HIDE DEF n
  <1>4. Billed(work, n) = rows /\ loc[c].count = Len(Kept(work))
    <2>1. Len(work) \in 0..Len(work) /\ Len(work) \in Len(work)..Len(work)
      BY <1>2
    <2> QED BY <1>2, <1>3, <2>1, BilledGrows
  <1>5. Ends(loc[c].last)
    <2>1. CASE n = 0
      <3>1. loc[c].last = Start
        BY <1>2, <2>1 DEF LastTaken
      <3> QED BY <3>1 DEF Ends, Start
    <2>2. CASE n # 0
      <3>1. loc[c].last = work[Len(work)] /\ work # <<>>
        BY <1>2, <1>3, <2>2 DEF LastTaken
      <3> QED BY <1>2, <3>1 DEF Whole
    <2> QED BY <2>1, <2>2
  <1>6. loc' = [loc EXCEPT ![c] = [loc[c] EXCEPT !.out = EndsWith(c, <<>>)]] /\ f \in Seq(Ink)
    BY <1>5, EndTakes
  <1>7. EndsWith(c, <<>>) = out \o f
    <2>1. (out \o f) \o <<>> = out \o f
      <3>1. f \in Seq(Unit)
        BY <1>6, InkIsText
      <3>2. out \o f \in Seq(Unit)
        BY <1>2, <3>1
      <3> QED BY <3>2, ConcatEmptySeq
    <2> QED BY <2>1 DEF EndsWith
  <1>8. Reply(c) = (h \o rows) \o f
    BY <1>2, <1>4 DEF Reply, Header, AddFin
  <1> HIDE DEF rows, h, f, out
  <1>9. lama \o (out \o f) = Reply(c)
    <2>1. f \in Seq(Unit)
      BY <1>6, InkIsText
    <2>2. Regroup(lama, out, f)
      BY <1>2, <2>1, LinesRegroup
    <2> QED BY <1>2, <1>4, <1>8, <2>2 DEF Regroup
  <1>10. loc'[c].out = out \o f /\ loc'[c].at = Len(lama)
    <2> DEFINE s == out \o f
    <2> HIDE DEF s
    <2>1. loc'[c] = [loc[c] EXCEPT !.out = s]
      BY <1>1, <1>6, <1>7 DEF s
    <2>2. loc'[c].out = s /\ loc'[c].at = loc[c].at
      BY <1>2, <2>1 DEF Locals
    <2> QED BY <1>2, <2>2 DEF s
  <1>11. Reply(c)' = Reply(c)
    BY <1>1 DEF Reply
  <1>12. Writes(c)'
    BY <1>1, <1>9, <1>10, <1>11 DEF Writes
  <1>13. Sends(c)'
    BY <1>1, <1>2, <1>11 DEF Sends
  <1>14. Unwritten(c)' /\ Gathers(c)'
    BY <1>1 DEF Unwritten, Gathers, Early, Building, Reading
  <1> QED BY <1>12, <1>13, <1>14 DEF Right

LEMMA CloseRight ==
  ASSUME SeqInv, LamaInv, AnswerInv, NEW c \in Conn, CloseLama(c)
  PROVE  Right(c)'
  <1>1. /\ loc \in [Conn -> Locals] /\ loc[c] \in Locals /\ lama \in Seq(Unit)
        /\ loc[c].out \in Seq(Unit)
    <2>1. loc \in [Conn -> Locals] /\ loc[c] \in Locals /\ lama \in Seq(Unit)
      BY DEF LamaInv
    <2> QED BY <2>1 DEF Locals
  <1>2. /\ pc[c] = "close" /\ pc'[c] = "send" /\ UNCHANGED <<req, seq, work, got>>
        /\ lama' = WriteAt(lama, loc[c].at, loc[c].out)
        /\ loc' = [loc EXCEPT ![c] = [loc[c] EXCEPT !.out = <<>>, !.at = 0]]
    BY <1>1 DEF SeqInv, TypeOK, CloseLama, Goto
  <1>3. Right(c) /\ Reply(c)' = Reply(c)
    BY <1>2 DEF AnswerInv, Reply
  <1>4. loc[c].at = Len(lama) /\ lama \o loc[c].out = Reply(c)
    BY <1>2, <1>3 DEF Right, Writes
  <1>5. got[c] = <<>> /\ IsPrefix(got[c], Reply(c))
    BY <1>2, <1>3 DEF Right, Sends, Ended
  <1>6. lama' = Reply(c)
    BY <1>1, <1>2, <1>4, WrittenBehind
  <1>7. loc'[c].at = 0 /\ loc'[c].out = <<>>
    <2>1. loc'[c] = [loc[c] EXCEPT !.out = <<>>, !.at = 0]
      BY <1>1, <1>2
    <2> QED BY <1>1, <2>1 DEF Locals
  <1>8. Sends(c)'
    <2>1. Reply(c) \in Seq(Ink)
      BY ReplyLines
    <2>2. Len(lama') \in Nat
      BY <1>6, <2>1
    <2>3. SubSeq(lama', 1, 0) = <<>> /\ <<>> \in Seq(Ink) /\ <<>> \o <<>> = <<>>
      BY SubSeqEmpty, ConcatEmptySeq
    <2>4. got'[c] = <<>> /\ IsPrefix(got'[c], Reply(c)') /\ lama' = Reply(c)'
      BY <1>2, <1>3, <1>5, <1>6
    <2>5. got'[c] \o loc'[c].out = SubSeq(lama', 1, loc'[c].at)
      BY <1>7, <2>3, <2>4
    <2>6. loc'[c].at <= Len(lama') /\ loc'[c].out \in Seq(Ink)
      BY <1>7, <2>2, <2>3
    <2> QED BY <1>2, <2>4, <2>5, <2>6 DEF Sends
  <1>9. Unwritten(c)' /\ Gathers(c)' /\ Writes(c)'
    BY <1>2 DEF Unwritten, Gathers, Writes, Early, Building, Reading
  <1> QED BY <1>8, <1>9 DEF Right

LEMMA ReadRight ==
  ASSUME SeqInv, LamaInv, AnswerInv, NEW c \in Conn, ReadLama(c)
  PROVE  Right(c)'
  <1> DEFINE at == loc[c].at
             until == IF at + Buffer < Len(lama) THEN at + Buffer ELSE Len(lama)
             out == loc[c].out
             more == SubSeq(lama, at + 1, until)
  <1>1. /\ until \in Nat /\ at \in Nat /\ at < until /\ until <= Len(lama)
        /\ loc'[c].at = until /\ loc'[c].out = out \o more
    BY ReadTakes
  <1> HIDE DEF at, until
  <1>2. /\ pc[c] = "send" /\ pc'[c] = "send" /\ UNCHANGED <<req, seq, work, lama, got>>
    BY DEF ReadLama, Goto, files, SeqInv, TypeOK
  <1>3. Right(c) /\ Reply(c)' = Reply(c) /\ got[c] \in Seq(Ink)
    BY <1>2 DEF AnswerInv, Reply
  <1>4. /\ lama = Reply(c) /\ out \in Seq(Ink) /\ got[c] \o out = SubSeq(lama, 1, at)
        /\ IsPrefix(got[c], Reply(c))
    BY <1>2, <1>3 DEF Right, Sends, at
  <1> HIDE DEF out
  <1>5. lama \in Seq(Ink) /\ Len(lama) \in Nat
    <2>1. lama \in Seq(Ink)
      BY <1>4, ReplyLines
    <2> QED BY <2>1
  <1>6. more \in Seq(Ink)
    BY <1>1, <1>5
  <1>7. SubSeq(lama, 1, at) \o more = SubSeq(lama, 1, until)
    <2>1. 1 \in 1..(Len(lama) + 1) /\ at \in (1 - 1)..Len(lama) /\ until \in at..Len(lama)
      BY <1>1, <1>5
    <2> QED BY <1>5, <2>1, ConcatAdjacentSubSeq
  <1> HIDE DEF more
  <1>8. got[c] \o (out \o more) = SubSeq(lama, 1, until)
    <2>1. got[c] \in Seq(Unit) /\ out \in Seq(Unit) /\ more \in Seq(Unit)
      BY <1>3, <1>4, <1>6, InkIsText
    <2>2. Regroup(got[c], out, more)
      BY <2>1, LinesRegroup
    <2> QED BY <1>4, <1>7, <2>2 DEF Regroup
  <1>9. loc'[c].out \in Seq(Ink)
    BY <1>1, <1>4, <1>6
  <1>10. Sends(c)'
    <2>1. /\ lama' = Reply(c)' /\ loc'[c].at <= Len(lama')
          /\ got'[c] \o loc'[c].out = SubSeq(lama', 1, loc'[c].at)
          /\ IsPrefix(got'[c], Reply(c)')
      BY <1>1, <1>2, <1>3, <1>4, <1>8
    <2> QED BY <1>2, <1>9, <2>1 DEF Sends
  <1>11. Unwritten(c)' /\ Gathers(c)' /\ Writes(c)'
    BY <1>2 DEF Unwritten, Gathers, Writes, Early, Building, Reading
  <1> QED BY <1>10, <1>11 DEF Right

LEMMA SendRight ==
  ASSUME SeqInv, LamaInv, OneInv, AnswerInv, NEW c \in Conn, Send(c)
  PROVE  Right(c)' /\ got' \in [Conn -> Seq(Ink)]
  <1> DEFINE out == loc[c].out
             n == NextGets(c)
             a == Slice(out, 0, n)
             b == Slice(out, n, Len(out))
             at == loc[c].at
  <1>1. /\ loc \in [Conn -> Locals] /\ loc[c] \in Locals /\ pc \in [Conn -> PC]
        /\ got \in [Conn -> Seq(Ink)] /\ c \notin hung
    BY DEF LamaInv, SeqInv, TypeOK, OneInv, AnswerInv
  <1>2. /\ pc[c] = "send" /\ pc'[c] = "send" /\ UNCHANGED <<req, seq, work, lama>>
        /\ loc' = [loc EXCEPT ![c] = [loc[c] EXCEPT !.out = b]]
        /\ got' = [got EXCEPT ![c] = got[c] \o BeforeHole(a)]
    BY <1>1 DEF Send, Goto, files
  <1>3. /\ lama = Reply(c) /\ out \in Seq(Ink) /\ got[c] \o out = SubSeq(lama, 1, at)
        /\ at <= Len(lama) /\ Reply(c)' = Reply(c)
    BY <1>2 DEF AnswerInv, Right, Sends, Reply
  <1>4. at \in Nat
    BY <1>1 DEF Locals
  <1>5. n \in 0..Len(out)
    BY NextGetsOf
  <1> HIDE DEF n, at
  <1>6. a \in Seq(Ink) /\ b \in Seq(Ink) /\ a \o b = out
    BY <1>3, <1>5, CutAt
  <1> HIDE DEF a, b, out
  <1>7. BeforeHole(a) = a
    <2>1. \A i \in DOMAIN a : a[i] \in Ink
      BY <1>6
    <2>2. {i \in DOMAIN a : a[i] = Hole} = {}
      BY <2>1, NoHole
    <2> QED BY <2>2 DEF BeforeHole
  <1> DEFINE now == got[c] \o a
  <1>8. now \in Seq(Ink) /\ got[c] \in Seq(Ink)
    BY <1>1, <1>6
  <1>9. now \o b = SubSeq(lama, 1, at)
    <2>1. got[c] \in Seq(Unit) /\ a \in Seq(Unit) /\ b \in Seq(Unit)
      BY <1>6, <1>8, InkIsText
    <2>2. Regroup(got[c], a, b)
      BY <2>1, LinesRegroup
    <2> QED BY <1>3, <1>6, <2>2 DEF Regroup
  <1> HIDE DEF now
  <1>10. lama \in Seq(Ink) /\ Len(lama) \in Nat
    <2>1. lama \in Seq(Ink)
      BY <1>3, ReplyLines
    <2> QED BY <2>1
  <1>11. IsPrefix(now, lama)
    BY <1>3, <1>4, <1>6, <1>8, <1>9, <1>10, FrontIsPrefix
  <1>12. got' \in [Conn -> Seq(Ink)] /\ got'[c] = now
    <2>1. got' = [got EXCEPT ![c] = now]
      BY <1>2, <1>7 DEF now
    <2> QED BY <1>1, <1>8, <2>1
  <1>13. loc'[c].at = at /\ loc'[c].out = b
    <2>1. loc'[c] = [loc[c] EXCEPT !.out = b]
      BY <1>1, <1>2
    <2> QED BY <1>1, <2>1 DEF Locals, at
  <1>14. Sends(c)'
    <2>1. /\ lama' = Reply(c)' /\ loc'[c].at <= Len(lama') /\ loc'[c].out \in Seq(Ink)
          /\ got'[c] \o loc'[c].out = SubSeq(lama', 1, loc'[c].at)
          /\ IsPrefix(got'[c], Reply(c)')
      BY <1>2, <1>3, <1>6, <1>9, <1>11, <1>12, <1>13
    <2> QED BY <1>2, <2>1 DEF Sends
  <1>15. Unwritten(c)' /\ Gathers(c)' /\ Writes(c)'
    BY <1>2 DEF Unwritten, Gathers, Writes, Early, Building, Reading
  <1> QED BY <1>12, <1>14, <1>15 DEF Right

LEMMA FinishRight ==
  ASSUME SeqInv, LamaInv, AnswerInv, NEW c \in Conn, Finish(c)
  PROVE  Right(c)'
  <1>1. /\ pc[c] = "send" /\ pc'[c] = "done" /\ UNCHANGED <<req, loc, seq, work, lama, got>>
        /\ NextGets(c) = 0 /\ loc[c].at >= Len(lama)
    BY DEF Finish, Goto, files, SeqInv, TypeOK
  <1>2. /\ lama = Reply(c) /\ loc[c].at <= Len(lama)
        /\ got[c] \o loc[c].out = SubSeq(lama, 1, loc[c].at)
        /\ IsPrefix(got[c], Reply(c)) /\ got[c] \in Seq(Ink)
    BY <1>1 DEF AnswerInv, Right, Sends
  <1>3. loc[c].out = <<>>
    BY <1>1, NextGetsOf
  <1>4. got[c] = Reply(c)
    <2>1. lama \in Seq(Ink) /\ loc[c].at \in Nat
      BY <1>2, ReplyLines DEF LamaInv, Locals
    <2>2. Len(lama) \in Nat
      BY <2>1
    <2>3. loc[c].at = Len(lama)
      BY <1>1, <1>2, <2>1, <2>2
    <2>4. got[c] \o <<>> = got[c]
      BY <1>2, ConcatEmptySeq
    <2> QED BY <1>2, <1>3, <2>1, <2>3, <2>4, SubSeqFull
  <1>5. Reply(c)' = Reply(c)
    BY <1>1 DEF Reply
  <1>6. Sends(c)'
    BY <1>1, <1>2, <1>4, <1>5 DEF Sends, Ended
  <1>7. Unwritten(c)' /\ Gathers(c)' /\ Writes(c)'
    BY <1>1 DEF Unwritten, Gathers, Writes, Early, Building, Reading
  <1> QED BY <1>6, <1>7 DEF Right

LEMMA ChildRight ==
  ASSUME SeqInv, SeqInv', LamaInv, OneInv, AnswerInv, NEW c \in Conn, Child(c)
  PROVE  AnswerInv'
  <1>1. Held(c)
    <2>1. pc[c] \in Working
      <3>1. CASE Flush(c) \/ Parse(c) \/ EndOfWork(c) \/ CloseLama(c)
        BY <3>1 DEF Flush, Parse, EndOfWork, CloseLama, Goto, Working
      <3>2. CASE ReadLama(c) \/ Send(c) \/ Finish(c)
        BY <3>2 DEF ReadLama, Send, Finish, Goto, Working
      <3>3. CASE Recv(c) \/ Shell(c) \/ Cat(c) \/ CatsDone(c)
        BY <3>3 DEF Recv, Shell, Cat, CatsDone, Goto, Working
      <3>4. CASE ReadSeq(c) \/ TruncSeq(c) \/ PutSeq(c) \/ OpenLama(c)
        BY <3>4 DEF ReadSeq, TruncSeq, PutSeq, OpenLama, Goto, Working
      <3> QED BY <3>1, <3>2, <3>3, <3>4 DEF Child, Own, Waits
    <2> QED BY <2>1 DEF Held, OneInv
  <1>2. \A d \in Conn \ {c} : Apart(d)
    <2> USE DEF Apart, Goto
    <2>1. /\ pc \in [Conn -> PC] /\ loc \in [Conn -> Locals] /\ seq \in [Conn -> Int]
          /\ got \in [Conn -> Seq(Ink)]
      BY DEF SeqInv, TypeOK, LamaInv, AnswerInv
    <2>2. CASE Recv(c) \/ Shell(c) \/ CatsDone(c) \/ Finish(c)
      BY <2>1, <2>2 DEF Recv, Shell, CatsDone, Finish
    <2>3. CASE Cat(c)
      BY <2>1, <2>3 DEF Cat
    <2>4. CASE ReadSeq(c) \/ TruncSeq(c) \/ PutSeq(c)
      BY <2>1, <2>4 DEF ReadSeq, TruncSeq, PutSeq
    <2>5. CASE OpenLama(c)
      BY <2>1, <2>5 DEF OpenLama
    <2>6. CASE Flush(c)
      BY <2>1, <2>6 DEF Flush
    <2>7. CASE Parse(c)
      <3>1. \A d \in Conn \ {c} : loc'[d] = loc[d]
        BY <2>1, <2>7, ParseTakes
      <3>2. UNCHANGED <<req, seq, got>> /\ pc' = [pc EXCEPT ![c] = "parse"]
        BY <2>7 DEF Parse
      <3> QED BY <2>1, <3>1, <3>2
    <2>8. CASE EndOfWork(c)
      <3>1. \A d \in Conn \ {c} : loc'[d] = loc[d]
        BY <2>1, <2>8, EndTakes
      <3>2. UNCHANGED <<req, seq, got>> /\ pc' = [pc EXCEPT ![c] = "close"]
        BY <2>8 DEF EndOfWork
      <3> QED BY <2>1, <3>1, <3>2
    <2>9. CASE CloseLama(c)
      BY <2>1, <2>9 DEF CloseLama
    <2>10. CASE ReadLama(c)
      <3>1. \A d \in Conn \ {c} : loc'[d] = loc[d]
        BY <2>10, ReadTakes
      <3>2. UNCHANGED <<req, seq, got>> /\ pc' = [pc EXCEPT ![c] = "send"]
        BY <2>10 DEF ReadLama
      <3> QED BY <2>1, <3>1, <3>2
    <2>11. CASE Send(c)
      <3>1. \A d \in Conn \ {c} : loc'[d] = loc[d]
        BY <2>11, SendTakes
      <3>2. /\ UNCHANGED <<req, seq>> /\ \A d \in Conn \ {c} : got'[d] = got[d]
            /\ pc' = [pc EXCEPT ![c] = "send"] \/ pc' = [pc EXCEPT ![c] = "failed"]
        BY <2>1, <2>11 DEF Send
      <3> QED BY <2>1, <3>1, <3>2
    <2> QED BY <2>2, <2>3, <2>4, <2>5, <2>6, <2>7, <2>8, <2>9, <2>10, <2>11 DEF Child, Own, Waits
  <1>3. Right(c)' /\ got' \in [Conn -> Seq(Ink)]
    <2>1. CASE Send(c)
      BY <2>1, SendRight
    <2>2. CASE ~Send(c)
      <3>1. got' = got
        <4>1. CASE Flush(c) \/ Parse(c) \/ EndOfWork(c) \/ CloseLama(c)
          BY <4>1 DEF Flush, Parse, EndOfWork, CloseLama
        <4>2. CASE ReadLama(c) \/ Finish(c)
          BY <4>2 DEF ReadLama, Finish
        <4>3. CASE Recv(c) \/ Shell(c) \/ Cat(c) \/ CatsDone(c)
          BY <4>3 DEF Recv, Shell, Cat, CatsDone
        <4>4. CASE ReadSeq(c) \/ TruncSeq(c) \/ PutSeq(c) \/ OpenLama(c)
          BY <4>4 DEF ReadSeq, TruncSeq, PutSeq, OpenLama
        <4> QED BY <2>2, <4>1, <4>2, <4>3, <4>4 DEF Child, Own, Waits
      <3>2. Right(c)'
        BY <2>2, RecvRight, ShellRight, CatRight, CatsDoneRight, NumberRight, OpenRight,
           FlushRight, ParseRight, EndRight, CloseRight, ReadRight, FinishRight
           DEF Child, Own, Waits
      <3> QED BY <3>1, <3>2 DEF AnswerInv
    <2> QED BY <2>1, <2>2
  <1> QED BY <1>1, <1>2, <1>3, OthersRight

LEMMA AnswerInvNext ==
  ASSUME OneAtATime, SeqInv, SeqInv', LamaInv, OneInv, AnswerInv, [Next]_vars
  PROVE  AnswerInv'
  <1>1. /\ pc \in [Conn -> PC] /\ req \in [Conn -> Request]
        /\ got \in [Conn -> Seq(Ink)]
    BY DEF SeqInv, TypeOK, AnswerInv
  <1>2. ASSUME NEW c \in Conn, Connect(c) \/ Accept(c)
        PROVE  AnswerInv'
    <2>1. /\ pc[c] \in Early /\ pc'[c] \in Early /\ UNCHANGED <<loc, seq, got>>
          /\ \A d \in Conn \ {c} : Apart(d)
      BY <1>1, <1>2 DEF Connect, Accept, Early, Apart
    <2>2. Right(c)'
      BY <2>1, ConnectRight
    <2>3. Held(c) \/ \A d \in Conn : ~Held(d)
      <3>1. CASE Connect(c)
        BY <3>1, ConnectAlone
      <3>2. CASE Accept(c)
        BY <3>2 DEF Accept, Held, OneInv
      <3> QED BY <1>2, <3>1, <3>2
    <2> QED BY <1>1, <2>1, <2>2, <2>3, OthersRight
  <1>3. ASSUME NEW c \in Conn, ClientLeaves(c)
        PROVE  AnswerInv'
    BY <1>3 DEF ClientLeaves, OneAtATime
  <1>4. ASSUME UNCHANGED <<req, loc, seq, files, got>>,
               \A c \in Conn : pc'[c] = pc[c] \/ pc'[c] = "dead"
        PROVE  AnswerInv'
    <2>1. \A c \in Conn : Right(c)'
      BY <1>4, StoppedRight DEF AnswerInv
    <2> QED BY <1>1, <1>4, <2>1 DEF AnswerInv
  <1>5. CASE ForkFails \/ AcceptFails
    BY <1>4, <1>5 DEF ForkFails, AcceptFails, GoDown
  <1>6. CASE Halt
    BY <1>4, <1>6 DEF Halt
  <1>7. CASE Restart \/ UNCHANGED vars
    BY <1>4, <1>7 DEF Restart, vars, files
  <1> QED BY <1>2, <1>3, <1>5, <1>6, <1>7, ChildRight DEF Next

(* Clients that wait for their answer, one at a time, get the billable     *)
(* records of their dates, in order, under the number of their request,    *)
(* and their count; before that, and when the server halts, a prefix of    *)
(* them (server_tcp.c:114-190).                                            *)
THEOREM RepliesStayExact == OneAtATime /\ Spec => []ReplyExact
  <1>1. OneAtATime /\ SeqInv /\ SeqInv' /\ LamaInv /\ OneInv /\ AnswerInv /\ [Next]_vars
          => AnswerInv'
    BY AnswerInvNext
  <1>2. AnswerInv => ReplyExact
    BY DEF AnswerInv, Right, Sends, ReplyExact
  <1>3. SeqInv /\ LamaInv /\ [Next]_vars => LamaInv'
    BY LamaInvNext
  <1>4. ASSUME OneAtATime
        PROVE  Spec => []ReplyExact
    <2>1. Spec => []LamaInv
      BY <1>3, LamaInvInit, SeqInvAlways, PTL DEF Spec
    <2>2. Spec => []OneInv
      BY <1>4, OneInvInit, OneInvNext, SeqInvAlways, PTL DEF Spec
    <2> QED BY <1>1, <1>2, <1>4, <2>1, <2>2, AnswerInvInit, SeqInvAlways, PTL DEF Spec
  <1> QED BY <1>4
-----------------------------------------------------------------------------
(* The days of a request to the CDR server (CdrDates).                     *)
AnyDates == [year : Nat, mon : 1..12, mday : 1..31]
RealDays == {e \in AnyDates : Dates!IsDay(e)}

\* Calendar order is a total order of the dates.
LEMMA DatesOrder ==
  /\ \A a, b, c \in AnyDates : Dates!Earlier(a, b) /\ Dates!Earlier(b, c) => Dates!Earlier(a, c)
  /\ \A a, b \in AnyDates : Dates!Earlier(a, b) \/ a = b \/ Dates!Earlier(b, a)
  /\ \A a, b \in AnyDates : Dates!Earlier(a, b) => ~Dates!Earlier(b, a) /\ a # b
  BY DEF AnyDates, Dates!Earlier

\* Months have 28 days at least and 31 at most.
LEMMA MonthLengths ==
  ASSUME NEW y \in Nat, NEW m \in 1..12
  PROVE  /\ Dates!DaysIn(y, m) \in 28..31 /\ Dates!DaysIn(y, 12) = 31
  <1> DEFINE leap == Dates!IsLeap(y)
  <1> HIDE DEF leap
  <1>1. Dates!DaysIn(y, m) = CASE m = 2 -> IF leap THEN 29 ELSE 28
                               [] m \in {4, 6, 9, 11} -> 30 [] OTHER -> 31
    BY DEF leap, Dates!DaysIn
  <1>2. CASE m = 2
    BY <1>1, <1>2 DEF Dates!DaysIn
  <1>3. CASE m \in {4, 6, 9, 11}
    BY <1>1, <1>3 DEF Dates!DaysIn
  <1>4. CASE m \notin {2, 4, 6, 9, 11}
    BY <1>1, <1>4 DEF Dates!DaysIn
  <1> QED BY <1>2, <1>3, <1>4

LEMMA NormalOf ==
  ASSUME NEW y \in Nat, NEW m \in 1..12, NEW d \in Nat
  PROVE  Dates!Normal(Dates!Date(y, m, d)) =
           IF d <= Dates!DaysIn(y, m) THEN Dates!Date(y, m, d)
           ELSE IF m < 12 THEN Dates!Date(y, m + 1, d - Dates!DaysIn(y, m))
           ELSE Dates!Date(y + 1, 1, d - Dates!DaysIn(y, m))
  <1> DEFINE f == Dates!Date(y, m, d)
  <1>1. f.year = y /\ f.mon = m /\ f.mday = d
    BY DEF Dates!Date
  <1> HIDE DEF f
  <1>2. Dates!Normal(f) = IF f.mday <= Dates!DaysIn(f.year, f.mon) THEN f
                    ELSE IF f.mon < 12
                      THEN Dates!Date(f.year, f.mon + 1, f.mday - Dates!DaysIn(f.year, f.mon))
                      ELSE Dates!Date(f.year + 1, 1, f.mday - Dates!DaysIn(f.year, f.mon))
    BY Zenon DEF Dates!Normal
  <1>3. Dates!Normal(f) = IF d <= Dates!DaysIn(y, m) THEN f
           ELSE IF m < 12 THEN Dates!Date(y, m + 1, d - Dates!DaysIn(y, m))
           ELSE Dates!Date(y + 1, 1, d - Dates!DaysIn(y, m))
    BY <1>1, <1>2
  <1> QED BY <1>3 DEF f

\* Every date has a next one, which is a day, and no day is between them.
LEMMA DayAfter ==
  ASSUME NEW e \in AnyDates
  PROVE  /\ Dates!NextDay(e) \in RealDays
         /\ Dates!Earlier(e, Dates!NextDay(e))
         /\ Dates!IsDay(e) => \A d \in RealDays :
              Dates!Earlier(d, Dates!NextDay(e)) => Dates!Earlier(d, e) \/ d = e
  <1> DEFINE n == Dates!DaysIn(e.year, e.mon)
             f == [e EXCEPT !.mday = e.mday + 1]
  <1>1. e.year \in Nat /\ e.mon \in 1..12 /\ e.mday \in 1..31
    BY DEF AnyDates
  <1>2. n \in 28..31 /\ (e.mon = 12 => n = 31)
    BY <1>1, MonthLengths
  <1>3. f.year = e.year /\ f.mon = e.mon /\ f.mday = e.mday + 1
    BY DEF AnyDates
  <1>4. f = Dates!Date(e.year, e.mon, e.mday + 1)
    BY DEF AnyDates, Dates!Date
  <1>5. Dates!NextDay(e) = Dates!Normal(f)
    BY DEF Dates!NextDay
  <1>6. Dates!Normal(f) = IF e.mday + 1 <= n THEN Dates!Date(e.year, e.mon, e.mday + 1)
                    ELSE IF e.mon < 12 THEN Dates!Date(e.year, e.mon + 1, (e.mday + 1) - n)
                    ELSE Dates!Date(e.year + 1, 1, (e.mday + 1) - n)
    <2>1. e.mday + 1 \in Nat
      BY <1>1
    <2> DEFINE d == e.mday + 1
    <2>2. Dates!Normal(Dates!Date(e.year, e.mon, d)) =
            IF d <= n THEN Dates!Date(e.year, e.mon, d)
            ELSE IF e.mon < 12 THEN Dates!Date(e.year, e.mon + 1, d - n)
            ELSE Dates!Date(e.year + 1, 1, d - n)
      <3>1. d \in Nat
        BY <2>1
      <3> HIDE DEF d
      <3> QED BY <1>1, <3>1, NormalOf
    <2>3. Dates!Normal(f) = Dates!Normal(Dates!Date(e.year, e.mon, d))
      <3> HIDE DEF f
      <3> QED BY <1>4
    <2> HIDE DEF f, n
    <2> QED BY <2>2, <2>3
  <1> HIDE DEF f
  <1> DEFINE g == Dates!NextDay(e)
  <1>7. g = IF e.mday + 1 <= n THEN Dates!Date(e.year, e.mon, e.mday + 1)
            ELSE IF e.mon < 12 THEN Dates!Date(e.year, e.mon + 1, (e.mday + 1) - n)
            ELSE Dates!Date(e.year + 1, 1, (e.mday + 1) - n)
    BY <1>5, <1>6
  <1> HIDE DEF g
  <1>8. \A d \in RealDays : /\ d \in AnyDates /\ d.mday <= Dates!DaysIn(d.year, d.mon)
    BY DEF RealDays, Dates!IsDay
  <1>9. CASE e.mday + 1 <= n
    <2>1. g = Dates!Date(e.year, e.mon, e.mday + 1)
      BY <1>7, <1>9
    <2> DEFINE N == n
    <2>2. g.year = e.year /\ g.mon = e.mon /\ g.mday = e.mday + 1 /\ g \in AnyDates
      <3> HIDE DEF n
      <3> QED BY <1>1, <1>2, <1>9, <2>1 DEF Dates!Date, AnyDates
    <2>3. g \in RealDays
      <3>1. n = Dates!DaysIn(g.year, g.mon)
        BY <2>2
      <3> HIDE DEF n
      <3> QED BY <1>1, <1>2, <1>9, <2>2, <3>1 DEF RealDays, Dates!IsDay
    <2>4. Dates!Earlier(e, g)
      BY <1>1, <2>2 DEF Dates!Earlier
    <2>5. \A d \in RealDays : Dates!Earlier(d, g) => Dates!Earlier(d, e) \/ d = e
      BY <1>1, <1>8, <2>2 DEF Dates!Earlier, AnyDates
    <2> QED BY <2>3, <2>4, <2>5 DEF g
  <1>10. CASE e.mday + 1 > n
    <2>1. g = IF e.mon < 12 THEN Dates!Date(e.year, e.mon + 1, (e.mday + 1) - n)
              ELSE Dates!Date(e.year + 1, 1, (e.mday + 1) - n)
      <3> HIDE DEF n
      <3> QED BY <1>1, <1>2, <1>7, <1>10
    <2>2. /\ g \in AnyDates
          /\ \/ e.mon < 12 /\ g.year = e.year /\ g.mon = e.mon + 1
             \/ e.mon = 12 /\ g.year = e.year + 1 /\ g.mon = 1
          /\ g.mday = (e.mday + 1) - n /\ g.mday <= 4
      <3> HIDE DEF n
      <3> QED BY <1>1, <1>2, <1>10, <2>1 DEF Dates!Date, AnyDates
    <2>3. g.mday <= Dates!DaysIn(g.year, g.mon) /\ g.mday >= 1
      <3>1. Dates!DaysIn(g.year, g.mon) \in 28..31
        BY <2>2, MonthLengths DEF AnyDates
      <3> QED BY <2>2, <3>1 DEF AnyDates
    <2>4. g \in RealDays
      BY <2>2, <2>3 DEF RealDays, Dates!IsDay, AnyDates
    <2>5. Dates!Earlier(e, g)
      BY <1>1, <2>2 DEF Dates!Earlier, AnyDates
    <2>6. ASSUME Dates!IsDay(e), NEW d \in RealDays, Dates!Earlier(d, g)
          PROVE  Dates!Earlier(d, e) \/ d = e
      <3>1. e.mday = n
        <4>1. e.mday <= n
          BY <2>6, <1>1, <1>2 DEF Dates!IsDay
        <4> HIDE DEF n
        <4> QED BY <1>1, <1>2, <1>10, <4>1
      <3>2. g.mday = 1
        <4> HIDE DEF n
        <4> QED BY <3>1, <2>2, <1>1, <1>2
      <3>3. d.year \in Nat /\ d.mon \in 1..12 /\ d.mday \in 1..31 /\ d \in AnyDates
        BY <1>8 DEF AnyDates
      <3>4. \/ d.year < e.year
            \/ d.year = e.year /\ d.mon < e.mon
            \/ d.year = e.year /\ d.mon = e.mon
        BY <1>1, <2>2, <2>6, <3>2, <3>3 DEF Dates!Earlier
      <3>5. d.year = e.year /\ d.mon = e.mon => d.mday <= e.mday
        <4>1. d.mday <= Dates!DaysIn(d.year, d.mon)
          BY <1>8
        <4> QED BY <4>1, <3>1
      <3>6. d.year = e.year /\ d.mon = e.mon /\ d.mday = e.mday => d = e
        BY <3>3 DEF AnyDates
      <3> QED BY <1>1, <3>3, <3>4, <3>5, <3>6 DEF Dates!Earlier
    <2> QED BY <2>4, <2>5, <2>6 DEF g
  <1> QED BY <1>1, <1>2, <1>9, <1>10


\* A number of at most two digits.
LEMMA DigitsOf ==
  ASSUME NEW i \in 0..31
  PROVE  /\ Dates!Digits(i) \in Seq(Nat)
         /\ i < 10 => Len(Dates!Digits(i)) = 1 /\ Dates!Digits(i)[1] = i
         /\ i >= 10 => /\ Len(Dates!Digits(i)) = 2
                       /\ i = 10 * Dates!Digits(i)[1] + Dates!Digits(i)[2]
                       /\ Dates!Digits(i)[1] \in 1..3 /\ Dates!Digits(i)[2] \in 0..9
  <1>1. /\ i \div 10 \in 0..3 /\ i % 10 \in 0..9 /\ i = 10 * (i \div 10) + (i % 10)
        /\ i >= 10 => i \div 10 # 0
    OBVIOUS
  <1>2. CASE i < 10
    <2>1. Dates!Digits(i) = <<i>>
      BY <1>2 DEF Dates!Digits
    <2> QED BY <1>2, <2>1
  <1>3. CASE i >= 10
    <2>1. Dates!Digits(i) = <<i \div 10, i % 10>>
      BY <1>3 DEF Dates!Digits
    <2> QED BY <1>1, <1>3, <2>1
  <1> QED BY <1>2, <1>3

LEMMA DigitsTell ==
  ASSUME NEW i \in 0..31, NEW j \in 0..31
  PROVE  /\ Dates!Digits(i) \in Seq(Nat)
         /\ Len(Dates!Digits(i)) = IF i < 10 THEN 1 ELSE 2
         /\ Dates!Digits(i) = Dates!Digits(j) => i = j
  <1>1. /\ i \div 10 \in Nat /\ i % 10 \in Nat /\ i = 10 * (i \div 10) + (i % 10)
        /\ j \div 10 \in Nat /\ j % 10 \in Nat /\ j = 10 * (j \div 10) + (j % 10)
    OBVIOUS
  <1>2. /\ Dates!Digits(i) = IF i < 10 THEN <<i>> ELSE <<i \div 10, i % 10>>
        /\ Dates!Digits(j) = IF j < 10 THEN <<j>> ELSE <<j \div 10, j % 10>>
    BY DEF Dates!Digits
  <1> QED BY <1>1, <1>2

LEMMA JoinedDigits ==
  ASSUME NEW y \in Nat, NEW s \in Seq(Nat), NEW t \in Seq(Nat)
  PROVE  /\ Len(<<y>> \o s \o t) = 1 + Len(s) + Len(t)
         /\ \A i \in 1..Len(s) : (<<y>> \o s \o t)[1 + i] = s[i]
         /\ \A i \in 1..Len(t) : (<<y>> \o s \o t)[1 + Len(s) + i] = t[i]
  <1>1. <<y>> \in Seq(Nat) /\ Len(<<y>>) = 1
    OBVIOUS
  <1> QED BY <1>1

\* Two days of a year with one name are one day, or namesakes.
LEMMA OneName ==
  ASSUME NEW a \in AnyDates, NEW b \in AnyDates, a.year = b.year,
         Dates!Name(a) = Dates!Name(b)
  PROVE  a = b \/ Dates!Namesakes(a, b) \/ Dates!Namesakes(b, a)
  <1>1. /\ a.mon \in 1..12 /\ a.mday \in 1..31 /\ a.year \in Nat
        /\ b.mon \in 1..12 /\ b.mday \in 1..31
    BY DEF AnyDates
  <1>2. a.mon = b.mon /\ a.mday = b.mday => a = b
    BY DEF AnyDates
  <1> DEFINE Split(e, f) == e.mon >= 10 /\ e.mday < 10 /\ f.mon < 10 /\ f.mday >= 10
  <1>3. ASSUME NEW e \in AnyDates, NEW f \in AnyDates, e.year = f.year, Split(e, f),
               Dates!Name(e) = Dates!Name(f)
        PROVE  Dates!Namesakes(e, f)
    <2> DEFINE s == Dates!Digits(e.mon)
               t == Dates!Digits(e.mday)
               u == Dates!Digits(f.mon)
               w == Dates!Digits(f.mday)
               k == <<e.year>> \o s \o t
    <2>1. /\ e.mon \in 0..31 /\ e.mday \in 0..31 /\ f.mon \in 0..31 /\ f.mday \in 0..31
          /\ e.year \in Nat /\ e.mon <= 12 /\ e.mday >= 1
      BY DEF AnyDates
    <2>2. k = <<e.year>> \o u \o w
      BY <1>3 DEF Dates!Name
    <2>3. /\ s \in Seq(Nat) /\ Len(s) = 2 /\ e.mon = 10 * s[1] + s[2]
          /\ s[1] \in 1..3 /\ s[2] \in 0..9
      BY <1>3, <2>1, DigitsOf
    <2>4. t \in Seq(Nat) /\ Len(t) = 1 /\ t[1] = e.mday
      BY <1>3, <2>1, DigitsOf
    <2>5. u \in Seq(Nat) /\ Len(u) = 1 /\ u[1] = f.mon
      BY <1>3, <2>1, DigitsOf
    <2>6. /\ w \in Seq(Nat) /\ Len(w) = 2 /\ f.mday = 10 * w[1] + w[2]
          /\ w[1] \in 1..3 /\ w[2] \in 0..9
      BY <1>3, <2>1, DigitsOf
    <2> HIDE DEF s, t, u, w
    <2> DEFINE l == <<e.year>> \o u \o w
    <2>7. /\ \A i \in 1..Len(s) : k[1 + i] = s[i]
          /\ \A i \in 1..Len(t) : k[1 + Len(s) + i] = t[i]
      BY <2>1, <2>3, <2>4, JoinedDigits
    <2>8. /\ \A i \in 1..Len(u) : l[1 + i] = u[i]
          /\ \A i \in 1..Len(w) : l[1 + Len(u) + i] = w[i]
      BY <2>1, <2>5, <2>6, JoinedDigits
    <2>10. k = l
      BY <2>2
    <2> HIDE DEF k, l
    <2>11. k[2] = s[1] /\ k[3] = s[2] /\ k[4] = t[1]
      BY <2>3, <2>4, <2>7
    <2>12. l[2] = u[1] /\ l[3] = w[1] /\ l[4] = w[2]
      BY <2>5, <2>6, <2>8
    <2>9. f.mon = 1 /\ f.mday = (10 * (e.mon - 10)) + e.mday /\ e.mon \in {11, 12}
      BY <2>1, <2>3, <2>4, <2>5, <2>6, <2>10, <2>11, <2>12
    <2> QED BY <1>3, <2>9 DEF Dates!Namesakes
  <1>4. CASE Split(a, b)
    BY <1>3, <1>4
  <1>5. CASE Split(b, a)
    BY <1>3, <1>5
  <1>6. CASE ~Split(a, b) /\ ~Split(b, a)
    <2> DEFINE s == Dates!Digits(a.mon)
               t == Dates!Digits(a.mday)
               u == Dates!Digits(b.mon)
               w == Dates!Digits(b.mday)
               k == <<a.year>> \o s \o t
    <2>1. /\ a.mon \in 0..31 /\ a.mday \in 0..31 /\ b.mon \in 0..31 /\ b.mday \in 0..31
      BY <1>1
    <2>2. k = <<a.year>> \o u \o w
      BY DEF Dates!Name
    <2>3. s \in Seq(Nat) /\ t \in Seq(Nat) /\ u \in Seq(Nat) /\ w \in Seq(Nat)
      BY <2>1, DigitsTell
    <2>4. /\ Len(s) = IF a.mon < 10 THEN 1 ELSE 2
          /\ Len(u) = IF b.mon < 10 THEN 1 ELSE 2
          /\ Len(t) = IF a.mday < 10 THEN 1 ELSE 2
          /\ Len(w) = IF b.mday < 10 THEN 1 ELSE 2
      BY <2>1, DigitsTell
    <2>5. (s = u => a.mon = b.mon) /\ (t = w => a.mday = b.mday)
      BY <2>1, DigitsTell
    <2> HIDE DEF s, t, u, w
    <2>6. /\ Len(k) = 1 + Len(s) + Len(t)
          /\ \A i \in 1..Len(s) : k[1 + i] = s[i]
          /\ \A i \in 1..Len(t) : k[1 + Len(s) + i] = t[i]
      BY <1>1, <2>3, JoinedDigits
    <2> DEFINE l == <<a.year>> \o u \o w
    <2>7. /\ Len(l) = 1 + Len(u) + Len(w)
          /\ \A i \in 1..Len(u) : l[1 + i] = u[i]
          /\ \A i \in 1..Len(w) : l[1 + Len(u) + i] = w[i]
      BY <1>1, <2>3, JoinedDigits
    <2>8. k = l
      BY <2>2
    <2> HIDE DEF k, l
    <2>9. Len(s) + Len(t) = Len(u) + Len(w)
      <3>1. 1 + Len(s) + Len(t) = 1 + Len(u) + Len(w)
        BY <2>6, <2>7, <2>8
      <3>2. Len(s) \in Nat /\ Len(t) \in Nat /\ Len(u) \in Nat /\ Len(w) \in Nat
        BY <2>3, LenProperties
      <3> QED BY <3>1, <3>2
    <2>10. Len(s) = Len(u) /\ Len(t) = Len(w)
      BY <2>1, <2>4, <1>6, <2>9
    <2>11. s = u
      <3>1. \A i \in 1..Len(s) : s[i] = u[i]
        BY <2>6, <2>7, <2>8, <2>10
      <3> QED BY <2>3, <2>10, <3>1, SeqEqual
    <2>12. t = w
      <3>1. \A i \in 1..Len(t) : t[i] = w[i]
        BY <2>6, <2>7, <2>8, <2>10
      <3> QED BY <2>3, <2>10, <3>1, SeqEqual
    <2> QED BY <1>2, <2>5, <2>11, <2>12
  <1> QED BY <1>4, <1>5, <1>6

\* A directory of the name of a day is that of the day or of a namesake.
LEMMA DirectoryOf ==
  ASSUME NEW e \in AnyDates, Dates!HasDir(e), Dates!IsDay(e), ~Dates!BackedUp(e)
  PROVE  \E b \in Dates!Calendar(e.year) :
           Dates!BackedUp(b) /\ (Dates!Namesakes(e, b) \/ Dates!Namesakes(b, e))
  <1>1. PICK b \in Dates!Calendar(e.year) : Dates!Name(b) = Dates!Name(e) /\ Dates!BackedUp(b)
    BY DEF Dates!HasDir
  <1>2. b \in AnyDates /\ b.year = e.year
    BY DEF Dates!Calendar, AnyDates
  <1>3. b # e
    BY <1>1
  <1> QED BY <1>1, <1>2, <1>3, OneName

LEMMA BackedUpHasDir ==
  ASSUME NEW e \in AnyDates, Dates!BackedUp(e)
  PROVE  e \in RealDays /\ e \in Dates!Calendar(e.year) /\ Dates!HasDir(e)
  <1>1. Dates!IsDay(e)
    BY DEF Dates!BackedUp
  <1>2. e \in RealDays
    BY <1>1 DEF RealDays
  <1>3. e \in Dates!Calendar(e.year)
    BY <1>1 DEF Dates!Calendar, Dates!IsDay, AnyDates
  <1> QED BY <1>2, <1>3 DEF Dates!HasDir

\* What is in the work file of the days before `until', in their order.
InOrder(w, until) ==
  /\ w \in Seq(AnyDates)
  /\ \A i \in 1..Len(w) : Dates!Earlier(w[i], until) /\ Dates!HasDir(w[i])
  /\ \A i \in 2..Len(w) : Dates!Earlier(w[i - 1], w[i])
Taken(w, until) ==
  Dates!IsDay(request.first) =>
    \A e \in AnyDates :
      Dates!BackedUp(e) /\ ~Dates!Earlier(e, request.first) /\ Dates!Earlier(e, until)
        => Member(w, e)
AllTaken(w) ==
  Dates!IsDay(request.first) =>
    \A e \in AnyDates : Dates!BackedUp(e) /\ Dates!Asked(e) => Member(w, e)

DatesTypes ==
  /\ request \in Requests /\ live \in BOOLEAN /\ gotOne \in BOOLEAN
  /\ dayStep \in {"start", "days", "live", "return", "done"} /\ first \in AnyDates

Daily == IF gotOne THEN merged ELSE <<>>

DaysAreTaken ==
  dayStep \in {"start", "days", "live"} =>
    /\ InOrder(Daily, first) /\ Taken(Daily, first)
    /\ IF gotOne THEN merged # <<>> ELSE merged \in {<<>>, <<Dates!Old>>}
    /\ Dates!IsDay(request.first) => Dates!IsDay(first)
    /\ dayStep = "start" => ~gotOne /\ first = request.first
    /\ dayStep = "live" => Dates!Today /\ AllTaken(Daily)

LiveRead == Dates!Today /\ live
DaysAreRead ==
  dayStep \in {"return", "done"} =>
    \E until \in AnyDates, w \in Seq(AnyDates) :
      /\ InOrder(w, until) /\ AllTaken(w)
      /\ IF LiveRead THEN gotOne /\ merged = Append(w, Dates!Live)
         ELSE IF gotOne THEN w # <<>> /\ merged = w
         ELSE w = <<>> /\ merged \in {<<>>, <<Dates!Old>>}
      /\ dayStep = "done" => returned = IF gotOne THEN 0 ELSE 1

DatesInv == DatesTypes /\ DaysAreTaken /\ DaysAreRead

LEMMA RequestDates ==
  ASSUME Dates!DatesAssumption, NEW r \in Requests
  PROVE  r.first \in AnyDates /\ r.last \in AnyDates /\ r.today \in AnyDates
  BY DEF Dates!DatesAssumption, AnyDates

LEMMA DatesAtFirst == ASSUME Dates!DatesAssumption, Dates!Init PROVE DatesInv
  <1>1. /\ request \in Requests /\ live \in BOOLEAN /\ gotOne = FALSE
        /\ dayStep = "start" /\ first = request.first /\ merged = <<Dates!Old>>
    BY DEF Dates!Init
  <1>2. first \in AnyDates
    BY <1>1, RequestDates
  <1>3. Daily = <<>>
    BY <1>1 DEF Daily
  <1>4. InOrder(Daily, first)
    BY <1>3 DEF InOrder
  <1>5. Taken(Daily, first)
    BY <1>1 DEF Taken
  <1> QED BY <1>1, <1>2, <1>4, <1>5 DEF DatesInv, DatesTypes, DaysAreTaken, DaysAreRead

\* Nothing that was asked for comes after the last day.
LEMMA PastTheLast ==
  ASSUME Dates!DatesAssumption, DatesTypes, NEW w, Taken(w, first), ~Dates!ToLast(first)
  PROVE  AllTaken(w)
  <1>1. request.last \in AnyDates /\ first \in AnyDates
    BY RequestDates DEF DatesTypes
  <1>2. Dates!Earlier(request.last, first)
    BY <1>1, DatesOrder DEF Dates!ToLast
  <1>3. \A e \in AnyDates : Dates!Asked(e) =>
          ~Dates!Earlier(e, request.first) /\ Dates!Earlier(e, first)
    BY <1>1, <1>2, DatesOrder DEF Dates!Asked
  <1> QED BY <1>3 DEF Taken, AllTaken

\* Of one day that is not over, there is no backup.
LEMMA OnlyToday ==
  ASSUME Dates!DatesAssumption, DatesTypes, NEW w, Dates!Today, request.first = request.last
  PROVE  AllTaken(w)
  <1>1. request.last \in AnyDates /\ request.today = request.last
    BY RequestDates DEF DatesTypes, Dates!Today
  <1>2. \A e \in AnyDates : Dates!Asked(e) => e = request.last
    BY <1>1, DatesOrder DEF Dates!Asked
  <1>3. ~Dates!BackedUp(request.last)
    BY <1>1, DatesOrder DEF Dates!BackedUp
  <1> QED BY <1>2, <1>3 DEF AllTaken

LEMMA AllTakenStays ==
  ASSUME NEW w, AllTaken(w), UNCHANGED <<request, missing>>
  PROVE  AllTaken(w)'
  BY DEF AllTaken, Dates!BackedUp, Dates!Asked, Dates!IsDay, Dates!Earlier

LEMMA InOrderStays ==
  ASSUME NEW w, NEW until, InOrder(w, until), UNCHANGED <<request, missing>>
  PROVE  InOrder(w, until)'
  BY DEF InOrder, Dates!HasDir, Dates!BackedUp, Dates!Earlier, Dates!IsDay

LEMMA TakenStays ==
  ASSUME NEW w, NEW until, Taken(w, until), UNCHANGED <<request, missing>>
  PROVE  Taken(w, until)'
  BY DEF Taken, Dates!BackedUp, Dates!Earlier, Dates!IsDay

LEMMA DatesStart ==
  ASSUME Dates!DatesAssumption, DatesInv, Dates!Start PROVE DatesInv'
  <1>1. /\ dayStep = "start" /\ UNCHANGED <<request, missing, live, first, gotOne, merged, returned>>
        /\ dayStep' = IF Dates!Today /\ request.first = request.last THEN "live" ELSE "days"
    BY DEF Dates!Start
  <1>2. PICK w, f : w = Daily /\ f = first
    OBVIOUS
  <1>3. Daily' = w /\ first' = f
    BY <1>1, <1>2 DEF Daily
  <1>4. InOrder(w, f)' /\ Taken(w, f)'
    BY <1>1, <1>2, InOrderStays, TakenStays DEF DatesInv, DaysAreTaken
  <1>5. InOrder(Daily, first)' /\ Taken(Daily, first)'
    BY <1>3, <1>4 DEF InOrder, Taken
  <1>6. dayStep' = "live" => (Dates!Today /\ AllTaken(Daily))'
    <2>1. SUFFICES ASSUME dayStep' = "live" PROVE (Dates!Today /\ AllTaken(Daily))'
      OBVIOUS
    <2>2. Dates!Today /\ request.first = request.last
      BY <1>1, <2>1
    <2>3. AllTaken(w)'
      BY <1>1, <2>2, OnlyToday, AllTakenStays DEF DatesInv
    <2> QED BY <1>1, <1>3, <2>2, <2>3 DEF AllTaken, Dates!Today
  <1>7. DatesTypes'
    BY <1>1 DEF DatesInv, DatesTypes
  <1>8. DaysAreTaken'
    BY <1>1, <1>5, <1>6 DEF DatesInv, DaysAreTaken, Dates!IsDay
  <1> QED BY <1>1, <1>7, <1>8 DEF DatesInv, DaysAreRead

\* One more day at the end.
LEMMA InOrderGrows ==
  ASSUME NEW w, NEW e \in AnyDates, NEW f \in AnyDates, InOrder(w, e),
         Dates!Earlier(e, f), Dates!HasDir(e)
  PROVE  InOrder(Append(w, e), f)
  <1> DEFINE n == Len(w)
             ws == Append(w, e)
  <1>1. w \in Seq(AnyDates) /\ n \in Nat
    BY DEF InOrder
  <1>2. ws \in Seq(AnyDates) /\ Len(ws) = n + 1 /\ ws[n + 1] = e /\ \A i \in 1..n : ws[i] = w[i]
    BY <1>1
  <1>3. \A i \in 1..n : w[i] \in AnyDates
    BY <1>1
  <1> HIDE DEF ws
  <1>4. ASSUME NEW i \in 1..(n + 1) PROVE Dates!Earlier(ws[i], f) /\ Dates!HasDir(ws[i])
    <2>1. CASE i = n + 1
      BY <1>2, <2>1
    <2>2. CASE i \in 1..n
      <3>1. ws[i] = w[i] /\ Dates!Earlier(w[i], e) /\ Dates!HasDir(w[i]) /\ w[i] \in AnyDates
        BY <1>2, <1>3, <2>2 DEF InOrder
      <3> QED BY <3>1, DatesOrder
    <2> QED BY <1>1, <2>1, <2>2
  <1>5. ASSUME NEW i \in 2..(n + 1) PROVE Dates!Earlier(ws[i - 1], ws[i])
    <2>1. CASE i = n + 1
      <3>1. i - 1 \in 1..n /\ ws[i] = e
        BY <1>1, <1>2, <2>1
      <3>2. ws[i - 1] = w[i - 1] /\ Dates!Earlier(w[i - 1], e)
        BY <1>2, <3>1 DEF InOrder
      <3> QED BY <3>1, <3>2
    <2>2. CASE i \in 2..n
      <3>1. i - 1 \in 1..n /\ i \in 1..n
        BY <1>1, <2>2
      <3>2. ws[i - 1] = w[i - 1] /\ ws[i] = w[i] /\ Dates!Earlier(w[i - 1], w[i])
        BY <1>2, <2>2, <3>1 DEF InOrder
      <3> QED BY <3>2
    <2> QED BY <1>1, <2>1, <2>2
  <1>6. InOrder(ws, f)
    BY <1>2, <1>4, <1>5 DEF InOrder
  <1> QED BY <1>6 DEF ws

LEMMA InOrderLater ==
  ASSUME NEW w, NEW e \in AnyDates, NEW f \in AnyDates, InOrder(w, e), Dates!Earlier(e, f)
  PROVE  InOrder(w, f)
  <1>1. \A i \in 1..Len(w) : w[i] \in AnyDates
    BY DEF InOrder
  <1> QED BY <1>1, DatesOrder DEF InOrder

\* After a turn of the loop the day is read, if there is something to read.
LEMMA TakenGrows ==
  ASSUME Dates!DatesAssumption, DatesTypes, NEW w \in Seq(AnyDates), Taken(w, first),
         Dates!IsDay(request.first) => Dates!IsDay(first),
         NEW x \in Seq(AnyDates), \A e : Member(w, e) => Member(x, e),
         Dates!HasDir(first) => Member(x, first)
  PROVE  Taken(x, Dates!NextDay(first))
  <1> SUFFICES ASSUME Dates!IsDay(request.first), NEW e \in AnyDates, Dates!BackedUp(e),
                      ~Dates!Earlier(e, request.first), Dates!Earlier(e, Dates!NextDay(first))
               PROVE  Member(x, e)
    BY DEF Taken
  <1>1. e \in RealDays /\ Dates!HasDir(e)
    BY BackedUpHasDir
  <1>2. first \in AnyDates /\ Dates!IsDay(first)
    BY DEF DatesTypes
  <1>3. Dates!Earlier(e, first) \/ e = first
    BY <1>1, <1>2, DayAfter
  <1>4. CASE e = first
    BY <1>1, <1>4
  <1>5. CASE Dates!Earlier(e, first)
    BY <1>5 DEF Taken
  <1> QED BY <1>3, <1>4, <1>5

LEMMA MemberAppended ==
  ASSUME NEW S, NEW w \in Seq(S), NEW x \in S
  PROVE  Member(Append(w, x), x) /\ \A e : Member(w, e) => Member(Append(w, x), e)
  <1>1. /\ Append(w, x) \in Seq(S) /\ Len(Append(w, x)) = Len(w) + 1 /\ Len(w) \in Nat
        /\ Append(w, x)[Len(w) + 1] = x /\ \A i \in 1..Len(w) : Append(w, x)[i] = w[i]
    OBVIOUS
  <1>2. Len(w) + 1 \in 1..(Len(w) + 1) /\ \A i \in 1..Len(w) : i \in 1..(Len(w) + 1)
    BY <1>1
  <1> HIDE DEF Member
  <1>3. Member(Append(w, x), x)
    BY <1>1, <1>2 DEF Member
  <1>4. ASSUME NEW e, Member(w, e) PROVE Member(Append(w, x), e)
    <2>1. PICK i \in 1..Len(w) : w[i] = e
      BY <1>4 DEF Member
    <2> QED BY <1>1, <1>2, <2>1 DEF Member
  <1> QED BY <1>3, <1>4

LEMMA DatesDay ==
  ASSUME Dates!DatesAssumption, DatesInv, Dates!Day PROVE DatesInv'
  <1> DEFINE dir == Dates!HasDir(first)
             following == Dates!NextDay(first)
             x == IF dir THEN Append(Daily, first) ELSE Daily
  <1>1. /\ dayStep = "days" /\ UNCHANGED <<request, missing, live, dayStep, returned>>
        /\ first' = following /\ gotOne' = (gotOne \/ dir)
        /\ merged' = (IF gotOne THEN merged ELSE <<>>) \o (IF dir THEN <<first>> ELSE <<>>)
    BY DEF Dates!Day, Dates!Cat
  <1>2. /\ InOrder(Daily, first) /\ Taken(Daily, first)
        /\ IF gotOne THEN merged # <<>> ELSE merged \in {<<>>, <<Dates!Old>>}
        /\ Dates!IsDay(request.first) => Dates!IsDay(first)
    BY <1>1 DEF DatesInv, DaysAreTaken
  <1>3. first \in AnyDates /\ gotOne \in BOOLEAN /\ Daily \in Seq(AnyDates)
    BY <1>2 DEF DatesInv, DatesTypes, InOrder
  <1>4. following \in RealDays /\ following \in AnyDates /\ Dates!Earlier(first, following)
    BY <1>3, DayAfter DEF RealDays
  <1>5. dir \in BOOLEAN
    BY DEF Dates!HasDir
  <1> HIDE DEF dir, following
  <1>6. merged' = x
    <2>1. Daily \o <<first>> = Append(Daily, first) /\ Daily \o <<>> = Daily
      BY <1>3
    <2> QED BY <1>1, <1>5, <2>1 DEF Daily
  <1>7. Daily' = x
    BY <1>1, <1>3, <1>5, <1>6 DEF Daily
  <1>8. InOrder(x, following)
    <2>1. CASE dir
      BY <2>1, <1>2, <1>3, <1>4, InOrderGrows DEF dir
    <2>2. CASE ~dir
      BY <2>2, <1>2, <1>3, <1>4, InOrderLater
    <2> QED BY <2>1, <2>2
  <1>9. x \in Seq(AnyDates)
    BY <1>8 DEF InOrder
  <1>10. Taken(x, following)
    <2>1. \A e : Member(Daily, e) => Member(x, e)
      BY <1>3, <1>5, MemberAppended
    <2>2. dir => Member(x, first)
      BY <1>3, MemberAppended
    <2> HIDE DEF x
    <2> QED BY <2>1, <2>2, <1>2, <1>3, <1>9, TakenGrows DEF DatesInv, dir, following
  <1>11. PICK w, f : w = x /\ f = following
    OBVIOUS
  <1>12. InOrder(w, f)' /\ Taken(w, f)'
    <2>1. InOrder(w, f) /\ Taken(w, f)
      BY <1>8, <1>10, <1>11
    <2> QED BY <1>1, <2>1, InOrderStays, TakenStays
  <1>13. InOrder(Daily, first)' /\ Taken(Daily, first)'
    <2>1. Daily' = w /\ first' = f
      BY <1>1, <1>7, <1>11
    <2> HIDE DEF x
    <2> QED BY <1>12, <2>1 DEF InOrder, Taken
  <1>14. gotOne' => merged' # <<>>
    <2>1. Append(Daily, first) # <<>>
      BY <1>3
    <2> QED BY <1>1, <1>2, <1>5, <1>6, <2>1 DEF Daily
  <1>15. ~gotOne' => merged' = <<>>
    BY <1>1, <1>5, <1>6 DEF Daily
  <1>16. Dates!IsDay(first')
    BY <1>1, <1>4 DEF RealDays
  <1>17. DatesTypes'
    BY <1>1, <1>3, <1>4, <1>5 DEF DatesInv, DatesTypes
  <1>18. DaysAreTaken'
    <2> HIDE DEF x
    <2>1. Dates!IsDay(first)'
      BY <1>16 DEF Dates!IsDay
    <2> QED BY <1>1, <1>13, <1>14, <1>15, <2>1 DEF DaysAreTaken
  <1> QED BY <1>1, <1>17, <1>18 DEF DatesInv, DaysAreRead

LEMMA DatesLastDay ==
  ASSUME Dates!DatesAssumption, DatesInv, Dates!LastDay PROVE DatesInv'
  <1>1. /\ dayStep = "days" /\ ~Dates!ToLast(first)
        /\ UNCHANGED <<request, missing, live, first, gotOne, merged, returned>>
        /\ dayStep' = IF Dates!Today THEN "live" ELSE "return"
    BY DEF Dates!LastDay
  <1>2. /\ InOrder(Daily, first) /\ Taken(Daily, first)
        /\ IF gotOne THEN merged # <<>> ELSE merged \in {<<>>, <<Dates!Old>>}
        /\ Dates!IsDay(request.first) => Dates!IsDay(first)
    BY <1>1 DEF DatesInv, DaysAreTaken
  <1>3. PICK w, f : w = Daily /\ f = first
    OBVIOUS
  <1>4. AllTaken(w)
    BY <1>1, <1>2, <1>3, PastTheLast DEF DatesInv
  <1>5. InOrder(w, f)' /\ Taken(w, f)' /\ AllTaken(w)'
    BY <1>1, <1>2, <1>3, <1>4, InOrderStays, TakenStays, AllTakenStays
  <1>6. Daily' = w /\ first' = f
    BY <1>1, <1>3 DEF Daily
  <1>7. InOrder(Daily, first)' /\ Taken(Daily, first)' /\ AllTaken(Daily)'
    BY <1>5, <1>6 DEF InOrder, Taken, AllTaken
  <1>8. DatesTypes'
    BY <1>1 DEF DatesInv, DatesTypes
  <1>9. DaysAreTaken'
    BY <1>1, <1>2, <1>7 DEF DaysAreTaken, Dates!IsDay, Dates!Today
  <1>10. DaysAreRead'
    <2>1. SUFFICES ASSUME dayStep' = "return" PROVE DaysAreRead'
      BY <1>1 DEF DaysAreRead
    <2>2. ~Dates!Today /\ ~LiveRead'
      BY <1>1, <2>1 DEF LiveRead, Dates!Today
    <2>3. f \in AnyDates /\ w \in Seq(AnyDates)
      BY <1>2, <1>3 DEF InOrder, DatesInv, DatesTypes
    <2>4. IF gotOne' THEN w # <<>> /\ merged' = w ELSE w = <<>> /\ merged' \in {<<>>, <<Dates!Old>>}
      BY <1>1, <1>2, <1>3 DEF Daily
    <2>5. dayStep' # "done"
      BY <2>1
    <2> QED BY <1>5, <2>2, <2>3, <2>4, <2>5 DEF DaysAreRead
  <1> QED BY <1>8, <1>9, <1>10 DEF DatesInv

LEMMA DatesLiveDay ==
  ASSUME Dates!DatesAssumption, DatesInv, Dates!LiveDay PROVE DatesInv'
  <1>1. /\ dayStep = "live" /\ dayStep' = "return"
        /\ UNCHANGED <<request, missing, live, first, returned>>
        /\ gotOne' = (gotOne \/ live)
        /\ merged' = (IF gotOne THEN merged ELSE <<>>) \o (IF live THEN <<Dates!Live>> ELSE <<>>)
    BY DEF Dates!LiveDay, Dates!Cat
  <1>2. /\ InOrder(Daily, first) /\ AllTaken(Daily) /\ Dates!Today
        /\ IF gotOne THEN merged # <<>> ELSE merged \in {<<>>, <<Dates!Old>>}
    BY <1>1 DEF DatesInv, DaysAreTaken
  <1>3. PICK w, f : w = Daily /\ f = first
    OBVIOUS
  <1>4. InOrder(w, f)' /\ AllTaken(w)'
    BY <1>1, <1>2, <1>3, InOrderStays, AllTakenStays
  <1>5. f \in AnyDates /\ w \in Seq(AnyDates) /\ live \in BOOLEAN /\ gotOne \in BOOLEAN
    BY <1>2, <1>3 DEF InOrder, DatesInv, DatesTypes
  <1>6. LiveRead' <=> live
    BY <1>1, <1>2 DEF LiveRead, Dates!Today
  <1>7. merged' = IF live THEN Append(w, Dates!Live) ELSE w
    <2>1. w \o <<Dates!Live>> = Append(w, Dates!Live) /\ w \o <<>> = w
      BY <1>5
    <2> QED BY <1>1, <1>3, <2>1 DEF Daily
  <1>8. ~live => IF gotOne' THEN w # <<>> /\ merged' = w
                 ELSE w = <<>> /\ merged' \in {<<>>, <<Dates!Old>>}
    BY <1>1, <1>2, <1>3, <1>7 DEF Daily
  <1>9. DaysAreRead'
    <2>1. dayStep' # "done"
      BY <1>1
    <2>2. IF LiveRead' THEN gotOne' /\ merged' = Append(w, Dates!Live)
          ELSE IF gotOne' THEN w # <<>> /\ merged' = w
          ELSE w = <<>> /\ merged' \in {<<>>, <<Dates!Old>>}
      BY <1>1, <1>5, <1>6, <1>7, <1>8
    <2>3. (InOrder(w, f) /\ AllTaken(w))'
      BY <1>4
    <2>4. Dates!Live' = Dates!Live /\ Dates!Old' = Dates!Old
      BY DEF Dates!Live, Dates!Old, Dates!Date
    <2> QED BY <1>5, <2>1, <2>2, <2>3, <2>4 DEF DaysAreRead
  <1>10. DatesTypes'
    BY <1>1, <1>5 DEF DatesInv, DatesTypes
  <1> QED BY <1>1, <1>9, <1>10 DEF DatesInv, DaysAreTaken

LEMMA DatesReturn ==
  ASSUME Dates!DatesAssumption, DatesInv, Dates!Return PROVE DatesInv'
  <1>1. /\ dayStep = "return" /\ dayStep' = "done"
        /\ UNCHANGED <<request, missing, live, first, gotOne, merged>>
        /\ returned' = IF gotOne THEN 0 ELSE 1
    BY DEF Dates!Return
  <1>2. PICK until \in AnyDates, w \in Seq(AnyDates) :
          /\ InOrder(w, until) /\ AllTaken(w)
          /\ IF LiveRead THEN gotOne /\ merged = Append(w, Dates!Live)
             ELSE IF gotOne THEN w # <<>> /\ merged = w
             ELSE w = <<>> /\ merged \in {<<>>, <<Dates!Old>>}
    BY <1>1 DEF DatesInv, DaysAreRead
  <1>3. (InOrder(w, until) /\ AllTaken(w))'
    BY <1>1, <1>2, InOrderStays, AllTakenStays
  <1>4. LiveRead' <=> LiveRead
    BY <1>1 DEF LiveRead, Dates!Today
  <1>5. DaysAreRead'
    BY <1>1, <1>2, <1>3, <1>4 DEF DaysAreRead
  <1>6. DatesTypes'
    BY <1>1 DEF DatesInv, DatesTypes
  <1> QED BY <1>1, <1>5, <1>6 DEF DatesInv, DaysAreTaken

LEMMA DatesIdle ==
  ASSUME DatesInv, UNCHANGED Dates!vars PROVE DatesInv'
  <1>1. UNCHANGED <<request, missing, live, dayStep, first, gotOne, merged, returned>>
    BY DEF Dates!vars
  <1>2. DatesTypes'
    BY <1>1 DEF DatesInv, DatesTypes
  <1>3. PICK w, f : w = Daily /\ f = first
    OBVIOUS
  <1>4. Daily' = w /\ first' = f
    BY <1>1, <1>3 DEF Daily
  <1>5. /\ InOrder(Daily, first) => InOrder(Daily, first)'
        /\ Taken(Daily, first) => Taken(Daily, first)'
        /\ AllTaken(Daily) => AllTaken(Daily)'
    <2>1. /\ InOrder(w, f) => InOrder(w, f)'
          /\ Taken(w, f) => Taken(w, f)'
          /\ AllTaken(w) => AllTaken(w)'
      BY <1>1, InOrderStays, TakenStays, AllTakenStays
    <2> QED BY <1>3, <1>4, <2>1 DEF InOrder, Taken, AllTaken
  <1>6. DaysAreTaken'
    BY <1>1, <1>5 DEF DatesInv, DaysAreTaken, Dates!IsDay, Dates!Today
  <1>7. DaysAreRead'
    <2>1. SUFFICES ASSUME dayStep \in {"return", "done"} PROVE DaysAreRead'
      BY <1>1 DEF DaysAreRead
    <2>2. PICK until \in AnyDates, w2 \in Seq(AnyDates) :
          /\ InOrder(w2, until) /\ AllTaken(w2)
          /\ IF LiveRead THEN gotOne /\ merged = Append(w2, Dates!Live)
             ELSE IF gotOne THEN w2 # <<>> /\ merged = w2
             ELSE w2 = <<>> /\ merged \in {<<>>, <<Dates!Old>>}
          /\ dayStep = "done" => returned = IF gotOne THEN 0 ELSE 1
      BY <2>1 DEF DatesInv, DaysAreRead
    <2>3. (InOrder(w2, until) /\ AllTaken(w2))'
      BY <1>1, <2>2, InOrderStays, AllTakenStays
    <2>4. LiveRead' <=> LiveRead
      BY <1>1 DEF LiveRead, Dates!Today
    <2> QED BY <1>1, <2>2, <2>3, <2>4 DEF DaysAreRead
  <1> QED BY <1>2, <1>6, <1>7 DEF DatesInv

\* A file in the order of the calendar, and how it ends.
LEMMA WorkIsRight ==
  ASSUME Dates!DatesAssumption, DatesInv PROVE Dates!DaysArrive
  <1> SUFFICES ASSUME dayStep = "done" PROVE Dates!DaysArrive
    BY DEF Dates!DaysArrive
  <1>1. PICK until \in AnyDates, w \in Seq(AnyDates) :
          /\ InOrder(w, until) /\ AllTaken(w)
          /\ IF LiveRead THEN gotOne /\ merged = Append(w, Dates!Live)
             ELSE IF gotOne THEN w # <<>> /\ merged = w
             ELSE w = <<>> /\ merged \in {<<>>, <<Dates!Old>>}
          /\ returned = IF gotOne THEN 0 ELSE 1
    BY DEF DatesInv, DaysAreRead
  <1>2. \A i \in 1..Len(w) : w[i] \in AnyDates /\ w[i] # Dates!Live /\ w[i] # Dates!Old
    <2>1. \A i \in 1..Len(w) : w[i] \in AnyDates
      OBVIOUS
    <2>2. \A e \in AnyDates : e.mon # 0
      BY DEF AnyDates
    <2>3. Dates!Live.mon = 0 /\ Dates!Old.mon = 0 /\ Dates!Live # Dates!Old
      BY DEF Dates!Live, Dates!Old, Dates!Date
    <2> QED BY <2>1, <2>2, <2>3
  <1>3. Dates!Live # Dates!Old
    <2>1. Dates!Live.mday = 1 /\ Dates!Old.mday = 0
      BY DEF Dates!Live, Dates!Old, Dates!Date
    <2> QED BY <2>1
  <1> DEFINE days == Dates!Days
  <1>4. LiveRead => /\ days = w /\ merged # w
                    /\ merged \notin {<<>>, <<Dates!Old>>}
    <2> SUFFICES ASSUME LiveRead
                 PROVE  days = w /\ merged # w /\ merged \notin {<<>>, <<Dates!Old>>}
      OBVIOUS
    <2> DEFINE n == Len(w)
               S == AnyDates \cup {Dates!Live}
    <2>1. merged = Append(w, Dates!Live) /\ w \in Seq(S) /\ Dates!Live \in S /\ n \in Nat
      BY <1>1
    <2> HIDE DEF S
    <2>2. /\ merged \in Seq(S) /\ Len(merged) = n + 1 /\ merged[n + 1] = Dates!Live
          /\ \A i \in 1..n : merged[i] = w[i]
      BY <2>1
    <2>3. \E i \in DOMAIN merged : merged[i] = Dates!Live
      BY <2>1, <2>2
    <2>4. days = SubSeq(merged, 1, n)
      BY <2>1, <2>2, <2>3 DEF Dates!Days
    <2>5. SubSeq(merged, 1, n) \in Seq(S) /\ Len(SubSeq(merged, 1, n)) = n
          /\ \A i \in 1..n : SubSeq(merged, 1, n)[i] = w[i]
      BY <2>1, <2>2
    <2>6. SubSeq(merged, 1, n) = w
      BY <2>1, <2>5, SeqEqual
    <2>7. merged # w /\ merged # <<>>
      BY <2>1, <2>2
    <2>8. merged # <<Dates!Old>>
      <3>1. merged = <<Dates!Old>> => Len(merged) = 1 /\ merged[1] = Dates!Old
        OBVIOUS
      <3>2. Len(merged) = 1 => merged[1] = Dates!Live
        BY <2>1, <2>2
      <3> QED BY <3>1, <3>2, <1>3
    <2> QED BY <2>4, <2>6, <2>7, <2>8
  <1>5. ~LiveRead /\ gotOne => days = w /\ merged = w /\ merged \notin {<<>>, <<Dates!Old>>}
    <2> SUFFICES ASSUME ~LiveRead, gotOne
                 PROVE  days = w /\ merged = w /\ merged \notin {<<>>, <<Dates!Old>>}
      OBVIOUS
    <2>1. merged = w /\ w # <<>>
      BY <1>1
    <2>2. ~\E i \in DOMAIN merged : merged[i] = Dates!Live
      BY <2>1, <1>2
    <2>3. w # <<Dates!Old>>
      <3>1. w = <<Dates!Old>> => 1 \in 1..Len(w) /\ w[1] = Dates!Old
        OBVIOUS
      <3> QED BY <3>1, <1>2
    <2> QED BY <2>1, <2>2, <2>3 DEF Dates!Days
  <1>6. returned = 0 <=> gotOne
    BY <1>1 DEF DatesInv, DatesTypes
  <1>7. returned = 0 <=> merged \notin {<<>>, <<Dates!Old>>}
    BY <1>1, <1>4, <1>5, <1>6
  <1>8. ASSUME returned = 0, Dates!IsDay(request.first)
        PROVE  /\ (merged # days) = (Dates!Today /\ live)
               /\ Dates!InOrder /\ Dates!NoneMissing /\ Dates!OthersAreNamesakes
    <2>1. days = w /\ (merged # days <=> LiveRead)
      BY <1>4, <1>5, <1>6, <1>8
    <2>2. (merged # days) = (Dates!Today /\ live)
      BY <2>1 DEF LiveRead, DatesInv, DatesTypes, Dates!Today
    <2>3. Dates!InOrder
      BY <1>1, <2>1 DEF InOrder, Dates!InOrder
    <2>4. Dates!Got = {w[i] : i \in 1..Len(w)}
      BY <2>1 DEF Dates!Got
    <2>5. Dates!NoneMissing
      <3>1. request.first.year \in Nat /\ request.last.year \in Nat
        BY RequestDates DEF DatesInv, DatesTypes, AnyDates
      <3>2. \A y \in Dates!Years : y \in Nat
        BY <3>1 DEF Dates!Years
      <3>3. \A y \in Nat : Dates!Calendar(y) \subseteq AnyDates
        BY DEF Dates!Calendar, AnyDates
      <3>4. \A e \in AnyDates : Dates!BackedUp(e) /\ Dates!Asked(e) => Member(w, e)
        BY <1>1, <1>8 DEF AllTaken
      <3>5. \A e : Member(w, e) => e \in Dates!Got
        BY <2>4 DEF Member
      <3> QED BY <3>2, <3>3, <3>4, <3>5 DEF Dates!NoneMissing
    <2>6. Dates!OthersAreNamesakes
      <3>1. \A e \in Dates!Got : e \in AnyDates /\ Dates!HasDir(e)
        BY <1>1, <2>4 DEF InOrder
      <3> QED BY <3>1, DirectoryOf DEF Dates!OthersAreNamesakes
    <2> QED BY <2>2, <2>3, <2>5, <2>6
  <1> QED BY <1>7, <1>8 DEF Dates!DaysArrive

\* A day, an answer or nothing: the child is where its days are.
LEMMA DaysAlwaysArrive ==
  ASSUME Dates!DatesAssumption
  PROVE  Dates!Init /\ [][Dates!Next]_(Dates!vars) => []Dates!DaysArrive
  <1>1. Dates!Init => DatesInv
    BY DatesAtFirst
  <1>2. DatesInv /\ [Dates!Next]_(Dates!vars) => DatesInv'
    BY DatesStart, DatesDay, DatesLastDay, DatesLiveDay, DatesReturn, DatesIdle
       DEF Dates!Next
  <1>3. DatesInv => Dates!DaysArrive
    BY WorkIsRight
  <1> QED BY <1>1, <1>2, <1>3, PTL

(* For any request and any backups that are missing, the file holds what   *)
(* was asked for, in the order of the calendar, and the answer is right    *)
(* (CreateCdrFromDates).                                                   *)
THEOREM DaysArriveInOrder ==
  ASSUME Dates!DatesAssumption PROVE Dates!Spec => []Dates!DaysArrive
  BY DaysAlwaysArrive, PTL DEF Dates!Spec
-----------------------------------------------------------------------------
(* The lines that the rows of a daily file become (CdrRecords).            *)
Letter == STRING \ {Calls!Nul}
Byte   == Letter \cup {Calls!Nul, "?"}
Named  == {"abonado", "destino", "fecha_hora", "segundos", "estado"}

\* The calls that are answered, as the list grows by one row.
LEMMA CallsBilled ==
  ASSUME daily \in Seq(CallRows)
  PROVE  /\ Calls!Billed[0] = <<>>
         /\ \A n \in 1..Len(daily) :
              Calls!Billed[n] = IF Calls!Billable(daily[n])
                                  THEN Append(Calls!Billed[n - 1], daily[n])
                                  ELSE Calls!Billed[n - 1]
         /\ \A n \in 0..Len(daily) : Calls!Billed[n] \in Seq(CallRows)
  <1> DEFINE V == Seq(CallRows)
             h == [z \in Nat \X V |-> IF z[1] + 1 \in 1..Len(daily) /\ Calls!Billable(daily[z[1] + 1])
                                      THEN Append(z[2], daily[z[1] + 1]) ELSE z[2]]
  <1>1. h \in [Nat \X V -> V]
    <2>1. ASSUME NEW i \in Nat, NEW s \in V, i + 1 \in 1..Len(daily)
          PROVE  Append(s, daily[i + 1]) \in V
      BY <2>1
    <2> HIDE DEF V
    <2> QED BY <2>1
  <1>2. CanFollow(V, <<>>, h)
    <2>1. <<>> \in V
      OBVIOUS
    <2> HIDE DEF h, V
    <2> QED BY <1>1, <2>1, RecursiveOnNat
  <1>3. PICK g \in [Nat -> V] : g[0] = <<>> /\ \A n \in Nat : g[n + 1] = h[<<n, g[n]>>]
    <2> HIDE DEF h, V
    <2> QED BY <1>2 DEF CanFollow
  <1> DEFINE Is(b) == b = [n \in 0..Len(daily) |->
                             IF n = 0 THEN <<>>
                             ELSE IF Calls!Billable(daily[n])
                                  THEN Append(b[n - 1], daily[n]) ELSE b[n - 1]]
             b0 == [n \in 0..Len(daily) |-> g[n]]
             c == CHOOSE b : Is(b)
  <1>4. Is(b0)
    <2>1. ASSUME NEW n \in 0..Len(daily), n # 0
          PROVE  g[n] = IF Calls!Billable(daily[n]) THEN Append(g[n - 1], daily[n]) ELSE g[n - 1]
      <3> DEFINE j == n - 1
      <3>1. j \in Nat /\ n = j + 1 /\ j + 1 \in 1..Len(daily)
        BY <2>1
      <3> HIDE DEF j
      <3>2. g[j + 1] = h[<<j, g[j]>>] /\ g[j] \in V
        <4> HIDE DEF h, V
        <4> QED BY <1>3, <3>1
      <3>3. g[j + 1] = IF Calls!Billable(daily[j + 1]) THEN Append(g[j], daily[j + 1]) ELSE g[j]
        <4> HIDE DEF V
        <4> QED BY <3>1, <3>2
      <3> QED BY <3>1, <3>3 DEF j
    <2>2. \A n \in 0..Len(daily) : n # 0 => n - 1 \in 0..Len(daily)
      OBVIOUS
    <2>3. g[0] = <<>>
      BY <1>3
    <2> HIDE DEF h, V
    <2> QED BY <2>1, <2>2, <2>3
  <1>5. Is(c)
    <2> HIDE DEF Is, b0
    <2> QED BY <1>4
  <1>6. Calls!Billed = c
    BY DEF Calls!Billed
  <1> HIDE DEF c, b0, h
  <1>7. /\ c[0] = <<>>
        /\ \A n \in 1..Len(daily) : c[n] = IF Calls!Billable(daily[n])
                                          THEN Append(c[n - 1], daily[n]) ELSE c[n - 1]
    <2>1. Len(daily) \in Nat
      OBVIOUS
    <2>2. ASSUME NEW n \in 0..Len(daily)
          PROVE  c[n] = IF n = 0 THEN <<>>
                        ELSE IF Calls!Billable(daily[n])
                             THEN Append(c[n - 1], daily[n]) ELSE c[n - 1]
      BY <1>5, Zenon
    <2>3. 0 \in 0..Len(daily) /\ \A n \in 1..Len(daily) : n \in 0..Len(daily) /\ n # 0
      BY <2>1
    <2> QED BY <2>2, <2>3, Zenon
  <1>8. \A n \in 0..Len(daily) : c[n] \in V
    <2> DEFINE T == {n \in Nat : n <= Len(daily) => c[n] \in V}
    <2>1. 0 \in T
      <3>1. c[0] = <<>> /\ <<>> \in V
        BY <1>7
      <3> HIDE DEF V
      <3> QED BY <3>1
    <2>2. ASSUME NEW n \in Nat, n \in T PROVE n + 1 \in T
      <3>1. SUFFICES ASSUME n + 1 <= Len(daily) PROVE c[n + 1] \in V
        OBVIOUS
      <3>2. n + 1 \in 1..Len(daily) /\ (n + 1) - 1 = n /\ c[n] \in V
        BY <2>2, <3>1
      <3>3. c[n + 1] \in {Append(c[n], daily[n + 1]), c[n]}
        BY <1>7, <3>2
      <3>4. daily[n + 1] \in CallRows
        BY <3>2
      <3>5. Append(c[n], daily[n + 1]) \in V
        BY <3>2, <3>4
      <3> HIDE DEF V
      <3> QED BY <3>2, <3>3, <3>5
    <2> HIDE DEF T
    <2>3. \A n \in Nat : n \in T
      BY <2>1, <2>2, EveryNumber
    <2> QED BY <2>3 DEF T
  <1> QED BY <1>6, <1>7, <1>8

\* Five fields one behind the other.
LEMMA PlacesAre ==
  ASSUME Calls!RecordsAssumption
  PROVE  /\ \A n \in Named : Calls!Start[n] \in Nat /\ Calls!Start[n] + Size <= 5 * Size
         /\ \A n, m \in Named : n # m => \/ Calls!Start[n] + Size <= Calls!Start[m]
                                         \/ Calls!Start[m] + Size <= Calls!Start[n]
         /\ \A n \in Named : Calls!Columns[n] \in Nat
         /\ \A n, m \in Named : Calls!Columns[n] = Calls!Columns[m] => n = m
         /\ DOMAIN Calls!Columns = Named /\ Size \in Nat \ {0}
  <1>1. Size \in Nat \ {0}
    BY DEF Calls!RecordsAssumption
  <1>2. \A n \in Named : Calls!Start[n] \in Nat /\ Calls!Start[n] + Size <= 5 * Size
    BY <1>1 DEF Named, Calls!Start
  <1>3. \A n, m \in Named : n # m => \/ Calls!Start[n] + Size <= Calls!Start[m]
                                     \/ Calls!Start[m] + Size <= Calls!Start[n]
    BY <1>1 DEF Named, Calls!Start
  <1>4. /\ \A n \in Named : Calls!Columns[n] \in Nat
        /\ \A n, m \in Named : Calls!Columns[n] = Calls!Columns[m] => n = m
    BY DEF Named, Calls!Columns
  <1>5. DOMAIN Calls!Columns = Named
    BY DEF Named, Calls!Columns
  <1> QED BY <1>1, <1>2, <1>3, <1>4, <1>5

\* What is in the field of a struct that a value was copied to.
Filled(f, i)        == IF i <= Len(f) THEN f[i] ELSE Calls!Nul
GivenOf(r, c, name) == IF Calls!Columns[name] < c THEN r[Calls!Columns[name] + 1] ELSE <<>>

\* The struct holds what it was given of the first fields of a row.
Holds(d, r, c) ==
  /\ d \in [1..(5 * Size) -> Byte]
  /\ \A name \in Named : \A i \in 1..Size :
       d[Calls!Start[name] + i] = Filled(GivenOf(r, c, name), i)

LEMMA ClearedHolds ==
  ASSUME Calls!RecordsAssumption, NEW r PROVE Holds(Calls!Cleared, r, 0)
  <1>1. \A name \in Named : GivenOf(r, 0, name) = <<>>
    BY PlacesAre DEF GivenOf
  <1>2. \A name \in Named : \A i \in 1..Size : Calls!Start[name] + i \in 1..(5 * Size)
    BY PlacesAre
  <1>3. \A i \in 1..Size : Filled(<<>>, i) = Calls!Nul
    BY PlacesAre DEF Filled
  <1>4. Calls!Cleared \in [1..(5 * Size) -> Byte]
    BY DEF Calls!Cleared, Byte
  <1>5. \A i \in 1..(5 * Size) : Calls!Cleared[i] = Calls!Nul
    BY DEF Calls!Cleared
  <1> QED BY <1>1, <1>2, <1>3, <1>4, <1>5 DEF Holds

Values == Seq(Letter)

\* A field that is given is copied to its place, or nowhere.
LEMMA GivenHolds ==
  ASSUME Calls!RecordsAssumption, NEW r \in Seq(Values), NEW c \in Nat, c < Len(r),
         Holds(cdr, r, c),
         cdr' = IF \E name \in DOMAIN Calls!Columns : Calls!Columns[name] = c
                THEN LET name == CHOOSE name \in DOMAIN Calls!Columns : Calls!Columns[name] = c
                     IN  Calls!Copied(name, r[c + 1])
                ELSE cdr
  PROVE  Holds(cdr', r, c + 1)
  <1>1. CASE \A name \in Named : Calls!Columns[name] # c
    <2>1. cdr' = cdr
      BY <1>1, PlacesAre
    <2>2. \A name \in Named : GivenOf(r, c + 1, name) = GivenOf(r, c, name)
      BY <1>1, PlacesAre DEF GivenOf
    <2> QED BY <2>1, <2>2 DEF Holds
  <1>2. CASE \E name \in Named : Calls!Columns[name] = c
    <2> DEFINE name == CHOOSE name \in DOMAIN Calls!Columns : Calls!Columns[name] = c
               value == r[c + 1]
               n == IF Len(value) <= Size THEN Len(value) ELSE Size
               s == Calls!Start[name]
    <2>1. name \in Named /\ Calls!Columns[name] = c /\ cdr' = Calls!Copied(name, value)
      BY <1>2, PlacesAre
    <2>2. value \in Values /\ Len(value) \in Nat
      <3>1. c + 1 \in 1..Len(r)
        OBVIOUS
      <3>2. value \in Values
        BY <3>1
      <3> HIDE DEF value
      <3> QED BY <3>2, LenProperties DEF Values
    <2>3. DOMAIN cdr = 1..(5 * Size)
      BY DEF Holds
    <2>4. cdr' = [i \in 1..(5 * Size) |-> IF i \in (s + 1)..(s + n) THEN value[i - s] ELSE cdr[i]]
      BY <2>1, <2>3 DEF Calls!Copied
    <2>5. Size \in Nat \ {0} /\ s \in Nat /\ s + Size <= 5 * Size
      BY <2>1, PlacesAre
    <2> HIDE DEF name, value, s
    <2>6. n \in Nat /\ n <= Size /\ n <= Len(value)
      BY <2>2, <2>5
    <2>7. cdr' \in [1..(5 * Size) -> Byte]
      <3>1. \A i \in 1..(5 * Size) : i \in (s + 1)..(s + n) => i - s \in 1..Len(value)
        BY <2>2, <2>5, <2>6
      <3>2. \A i \in 1..(5 * Size) : i \in (s + 1)..(s + n) => value[i - s] \in Byte
        BY <2>2, <3>1, ElementOfSeq DEF Values, Byte
      <3>3. \A i \in 1..(5 * Size) : cdr[i] \in Byte
        BY DEF Holds
      <3> HIDE DEF n
      <3> QED BY <2>4, <3>2, <3>3
    <2>8. ASSUME NEW m \in Named, NEW i \in 1..Size
          PROVE  cdr'[Calls!Start[m] + i] = Filled(GivenOf(r, c + 1, m), i)
      <3> DEFINE q == Calls!Start[m] + i
      <3>1. q \in 1..(5 * Size) /\ Calls!Start[m] \in Nat
        BY PlacesAre
      <3>2. cdr[q] = Filled(GivenOf(r, c, m), i)
        BY DEF Holds
      <3>3. cdr'[q] = IF q \in (s + 1)..(s + n) THEN value[q - s] ELSE cdr[q]
        <4> HIDE DEF q, n
        <4> QED BY <2>4, <3>1
      <3>4. ASSUME m = name PROVE cdr'[q] = Filled(GivenOf(r, c + 1, m), i)
        <4>1. q - s = i /\ (q \in (s + 1)..(s + n) <=> i <= n)
          BY <3>4, <2>5, <2>6 DEF s
        <4>2. GivenOf(r, c + 1, m) = value /\ GivenOf(r, c, m) = <<>>
          BY <3>4, <2>1 DEF GivenOf, value
        <4>3. i <= n <=> i <= Len(value)
          BY <2>2, <2>5
        <4>4. Filled(<<>>, i) = Calls!Nul
          BY DEF Filled
        <4> HIDE DEF q, n
        <4> QED BY <3>2, <3>3, <4>1, <4>2, <4>3, <4>4 DEF Filled
      <3>5. ASSUME m # name PROVE cdr'[q] = Filled(GivenOf(r, c + 1, m), i)
        <4>1. q \notin (s + 1)..(s + n)
          <5>1. Calls!Start[m] + Size <= s \/ s + Size <= Calls!Start[m]
            BY <3>5, <2>1, PlacesAre DEF s
          <5> DEFINE x == Calls!Start[m]
          <5>2. x \in Nat /\ s \in Nat /\ n \in Nat /\ Size \in Nat /\ n <= Size /\ i \in 1..Size /\ q = x + i
            BY <2>5, <2>6, <3>1
          <5>3. x + Size <= s \/ s + Size <= x
            BY <5>1
          <5> HIDE DEF x, q, n
          <5>4. CASE x + Size <= s
            BY <5>2, <5>4
          <5>5. CASE s + Size <= x
            BY <5>2, <5>5
          <5> QED BY <5>3, <5>4, <5>5
        <4>2. GivenOf(r, c + 1, m) = GivenOf(r, c, m)
          <5>1. Calls!Columns[m] # c /\ Calls!Columns[m] \in Nat
            BY <3>5, <2>1, PlacesAre
          <5> QED BY <5>1 DEF GivenOf
        <4> HIDE DEF q, n
        <4> QED BY <3>2, <3>3, <4>1, <4>2
      <3> QED BY <3>4, <3>5 DEF q
    <2> QED BY <2>7, <2>8 DEF Holds
  <1> QED BY <1>1, <1>2

\* Where a string ends that begins at a field: at the first NUL, which may be
\* in a later field, or at the end of the struct.
EndsAt(d, s, n) ==
  /\ n \in 0..(Len(d) - s)
  /\ \A i \in 1..n : d[s + i] # Calls!Nul
  /\ s + n < Len(d) => d[s + n + 1] = Calls!Nul

LEMMA StringEnds ==
  ASSUME Calls!RecordsAssumption, cdr \in [1..(5 * Size) -> Byte], NEW name \in Named
  PROVE  \E n \in Nat : /\ EndsAt(cdr, Calls!Start[name], n)
                        /\ Calls!String(name) = SubSeq(cdr, Calls!Start[name] + 1, Calls!Start[name] + n)
  <1> DEFINE s == Calls!Start[name]
  <1>1. Len(cdr) = 5 * Size /\ Len(cdr) \in Nat /\ s \in Nat /\ s <= Len(cdr)
    <2>1. Size \in Nat /\ s \in Nat /\ s + Size <= 5 * Size
      BY PlacesAre
    <2>2. Len(cdr) = 5 * Size
      BY <2>1
    <2> QED BY <2>1, <2>2
  <1> HIDE DEF s
  <1> DEFINE T == {n \in Nat : s + n <= Len(cdr) /\ (s + n < Len(cdr) => cdr[s + n + 1] = Calls!Nul)}
  <1>2. Len(cdr) - s \in T
    BY <1>1
  <1>3. Min(T) \in T /\ \A y \in T : Min(T) <= y
    <2>1. T \in SUBSET Nat /\ T # {}
      BY <1>2
    <2> HIDE DEF T
    <2> QED BY <2>1, LeastOf
  <1>n. PICK n \in T : \A y \in T : n <= y
    BY <1>3
  <1>4. EndsAt(cdr, s, n)
    <2>1. n \in Nat /\ s + n <= Len(cdr) /\ (s + n < Len(cdr) => cdr[s + n + 1] = Calls!Nul)
      BY <1>n
    <2>2. ASSUME NEW i \in 1..n PROVE cdr[s + i] # Calls!Nul
      <3> DEFINE j == i - 1
      <3>1. j \in Nat /\ j < n /\ s + i = s + j + 1 /\ s + j <= Len(cdr)
        BY <1>1, <2>1
      <3>2. j \notin T
        <4> HIDE DEF T, j
        <4>1. n \in Nat /\ \A y \in T : n <= y
          BY <1>n, <2>1
        <4> QED BY <3>1, <4>1
      <3> HIDE DEF j
      <3> QED BY <3>1, <3>2
    <2>3. n \in 0..(Len(cdr) - s)
      BY <1>1, <2>1
    <2> QED BY <2>1, <2>2, <2>3 DEF EndsAt
  <1> DEFINE m == CHOOSE k \in 0..(Len(cdr) - s) :
                    /\ \A i \in 1..k : cdr[s + i] # Calls!Nul
                    /\ s + k < Len(cdr) => cdr[s + k + 1] = Calls!Nul
  <1>5. EndsAt(cdr, s, m)
    <2>1. /\ n \in 0..(Len(cdr) - s)
          /\ \A i \in 1..n : cdr[s + i] # Calls!Nul
          /\ s + n < Len(cdr) => cdr[s + n + 1] = Calls!Nul
      BY <1>4 DEF EndsAt
    <2>2. /\ m \in 0..(Len(cdr) - s)
          /\ \A i \in 1..m : cdr[s + i] # Calls!Nul
          /\ s + m < Len(cdr) => cdr[s + m + 1] = Calls!Nul
      BY <2>1, Zenon
    <2> HIDE DEF m
    <2> QED BY <2>2 DEF EndsAt
  <1>6. Calls!String(name) = SubSeq(cdr, s + 1, s + m)
    BY DEF Calls!String, s
  <1> HIDE DEF m
  <1>7. m \in Nat
    BY <1>1, <1>5 DEF EndsAt
  <1> QED BY <1>5, <1>6, <1>7 DEF s

\* Two ends are the same.
LEMMA OneEnd ==
  ASSUME NEW d, Len(d) \in Nat, NEW s \in Nat, NEW n \in Nat, NEW m \in Nat,
         EndsAt(d, s, n), EndsAt(d, s, m)
  PROVE  n = m
  <1>1. s + n <= Len(d) /\ s + m <= Len(d)
    BY DEF EndsAt
  <1>2. ASSUME n < m PROVE FALSE
    <2>1. n + 1 \in 1..m /\ s + n < Len(d) /\ s + (n + 1) = s + n + 1
      BY <1>1, <1>2
    <2> QED BY <2>1 DEF EndsAt
  <1>3. ASSUME m < n PROVE FALSE
    <2>1. m + 1 \in 1..n /\ s + m < Len(d) /\ s + (m + 1) = s + m + 1
      BY <1>1, <1>3
    <2> QED BY <2>1 DEF EndsAt
  <1> QED BY <1>2, <1>3

\* A string is what was copied, if it does not fill its field; its first
\* character is that of the value in any case.
LEMMA StringIs ==
  ASSUME Calls!RecordsAssumption, NEW r, NEW c, Holds(cdr, r, c), NEW name \in Named,
         NEW f \in Values, f = GivenOf(r, c, name)
  PROVE  /\ Len(f) < Size => Calls!String(name) = f
         /\ \A x : Len(Calls!String(name)) > 0 /\ Head(Calls!String(name)) = x
                   <=> f # <<>> /\ Head(f) = x
         /\ Calls!String(name) \in Seq(Byte)
  <1> DEFINE s == Calls!Start[name]
  <1>1. cdr \in [1..(5 * Size) -> Byte] /\ \A i \in 1..Size : cdr[s + i] = Filled(f, i)
    BY DEF Holds
  <1>2. PICK n \in Nat : /\ EndsAt(cdr, s, n)
                         /\ Calls!String(name) = SubSeq(cdr, s + 1, s + n)
    BY <1>1, StringEnds
  <1>3. /\ Size \in Nat \ {0} /\ s \in Nat /\ s + Size <= 5 * Size
    BY PlacesAre
  <1> HIDE DEF s
  <1>4. cdr \in Seq(Byte) /\ Len(cdr) = 5 * Size
    BY <1>1, <1>3
  <1>5. Len(f) \in Nat /\ \A i \in 1..Len(f) : f[i] # Calls!Nul
    <2>1. f \in Seq(Letter)
      BY DEF Values
    <2>2. Len(f) \in Nat /\ \A i \in 1..Len(f) : f[i] \in Letter
      BY <2>1, ElementOfSeq, LenProperties
    <2> QED BY <2>2 DEF Letter
  <1>6. s + n <= Len(cdr) /\ Len(cdr) \in Nat
    BY <1>2, <1>3, <1>4 DEF EndsAt
  <1>7. Calls!String(name) = [i \in 1..n |-> cdr[s + i]]
    BY <1>2, <1>3, <1>4, <1>6, PieceIs
  <1>8. ASSUME Len(f) < Size PROVE Calls!String(name) = f
    <2> DEFINE k == Len(f)
    <2>1. EndsAt(cdr, s, k)
      <3>1. k \in 0..(Len(cdr) - s)
        BY <1>3, <1>4, <1>5, <1>8
      <3>2. \A i \in 1..k : cdr[s + i] # Calls!Nul
        <4>1. \A i \in 1..k : i \in 1..Size /\ cdr[s + i] = f[i]
          BY <1>1, <1>3, <1>5, <1>8 DEF Filled
        <4> QED BY <4>1, <1>5
      <3>3. cdr[s + k + 1] = Calls!Nul
        <4>1. k + 1 \in 1..Size /\ ~(k + 1 <= Len(f)) /\ s + (k + 1) = s + k + 1
          BY <1>3, <1>5, <1>8
        <4>2. cdr[s + (k + 1)] = Filled(f, k + 1)
          BY <1>1, <4>1
        <4> QED BY <4>1, <4>2 DEF Filled
      <3> QED BY <3>1, <3>2, <3>3 DEF EndsAt
    <2>2. n = k
      BY <1>2, <1>3, <1>5, <1>6, <2>1, OneEnd
    <2>3. \A i \in 1..k : cdr[s + i] = f[i]
      BY <1>1, <1>3, <1>5, <1>8 DEF Filled
    <2>4. f = [i \in 1..k |-> f[i]]
      BY DEF Values
    <2> QED BY <1>7, <2>2, <2>3, <2>4
  <1>9. Len(Calls!String(name)) = n /\ Calls!String(name) \in Seq(Byte)
    <2>1. \A i \in 1..n : cdr[s + i] \in Byte
      <3>1. \A i \in 1..n : s + i \in 1..(5 * Size)
        BY <1>3, <1>4, <1>6
      <3> QED BY <1>1, <3>1
    <2>2. Calls!String(name) \in [1..n -> Byte]
      BY <1>7, <2>1
    <2> QED BY <2>2
  <1>10. cdr[s + 1] = Filled(f, 1) /\ s + 0 + 1 = s + 1 /\ s + 0 < Len(cdr)
    <2>1. 1 \in 1..Size /\ s < Len(cdr)
      BY <1>3, <1>4
    <2> QED BY <2>1, <1>1, <1>3
  <1>11. CASE f = <<>>
    <2>1. Filled(f, 1) = Calls!Nul
      BY <1>11 DEF Filled
    <2>2. n = 0
      <3>1. n > 0 => cdr[s + 1] # Calls!Nul
        BY <1>2 DEF EndsAt
      <3> QED BY <3>1, <2>1, <1>10
    <2> QED BY <1>8, <1>9, <2>2, <1>11
  <1>12. CASE f # <<>>
    <2>1. Len(f) > 0
      BY <1>5, <1>12 DEF Values
    <2>2. Filled(f, 1) = f[1] /\ f[1] # Calls!Nul
      BY <2>1, <1>5 DEF Filled
    <2>3. n > 0
      <3>1. n = 0 => cdr[s + 1] = Calls!Nul
        BY <1>2, <1>10 DEF EndsAt
      <3> QED BY <3>1, <2>2, <1>10
    <2>4. Head(Calls!String(name)) = cdr[s + 1]
      <3>1. Calls!String(name)[1] = cdr[s + 1]
        BY <1>7, <2>3
      <3> QED BY <3>1
    <2>5. Head(f) = f[1]
      OBVIOUS
    <2>6. \A x : Len(Calls!String(name)) > 0 /\ Head(Calls!String(name)) = x
                   <=> f # <<>> /\ Head(f) = x
      BY <1>9, <2>2, <2>3, <2>4, <2>5, <1>10, <1>12
    <2> QED BY <1>8, <1>9, <2>6
  <1> QED BY <1>11, <1>12

Entry  == Seq(Seq(Byte)) \cup {<<<<"FIN">>, n>> : n \in Nat}
RowNow == IF call <= Len(daily) THEN daily[call] ELSE <<>>

\* After the line that closes the file, the row without an end may follow.
IsClosed ==
  \E k \in DOMAIN billing :
    /\ billing[k] = Calls!Fin(k - 1)
    /\ Calls!AreRight(RemoveAt(billing, k), Calls!Billed[call - 1])
    /\ \/ k = Len(billing) /\ (call > Len(daily) \/ (call = Len(daily) /\ ~ended))
       \/ k = Len(billing) - 1 /\ ~ended /\ call > Len(daily) /\ Calls!Billable(Last(daily))

\* The struct holds the fields that were given of this row, and the lines are
\* those of the answered calls before it.
RecordsInv ==
  /\ daily \in Seq(CallRows) /\ Len(daily) >= 1 /\ call \in 1..(Len(daily) + 1)
  /\ campos \in Nat /\ campos <= Len(RowNow) /\ Holds(cdr, RowNow, campos)
  /\ billing \in Seq(Entry) /\ processed \in Nat
  /\ lamaStep \in {"parse", "fini", "done"} /\ (lamaStep = "done" => call > Len(daily))
  /\ lamaStep = "parse" => /\ processed = Len(billing)
                           /\ Calls!AreRight(billing, Calls!Billed[call - 1])
  /\ lamaStep # "parse" => IsClosed

\* A right line more, of a call more.
LEMMA OneMoreRight ==
  ASSUME NEW S, NEW C, NEW ls \in Seq(S), NEW cs \in Seq(C), NEW l \in S, NEW r \in C,
         Calls!AreRight(ls, cs), Calls!LineIsRight(l, r)
  PROVE  Calls!AreRight(Append(ls, l), Append(cs, r))
  <1>1. Len(ls) = Len(cs) /\ \A i \in 1..Len(ls) : Calls!LineIsRight(ls[i], cs[i])
    BY DEF Calls!AreRight
  <1>2. /\ Append(ls, l) \in Seq(S) /\ Len(Append(ls, l)) = Len(ls) + 1 /\ Append(ls, l)[Len(ls) + 1] = l
        /\ \A i \in 1..Len(ls) : Append(ls, l)[i] = ls[i]
    BY AppendProperties
  <1>3. /\ Len(Append(cs, r)) = Len(cs) + 1 /\ Append(cs, r)[Len(cs) + 1] = r
        /\ \A i \in 1..Len(cs) : Append(cs, r)[i] = cs[i]
    BY AppendProperties
  <1>4. ASSUME NEW i \in 1..(Len(ls) + 1)
        PROVE  Calls!LineIsRight(Append(ls, l)[i], Append(cs, r)[i])
    <2>1. CASE i = Len(ls) + 1
      BY <1>1, <1>2, <1>3, <2>1
    <2>2. CASE i # Len(ls) + 1
      <3>1. i \in 1..Len(ls)
        BY <2>2
      <3>2. Append(ls, l)[i] = ls[i] /\ Append(cs, r)[i] = cs[i]
        BY <1>1, <1>2, <1>3, <3>1
      <3> QED BY <1>1, <3>1, <3>2
    <2> QED BY <2>1, <2>2
  <1>5. DOMAIN Append(ls, l) = 1..(Len(ls) + 1)
    BY <1>2
  <1> QED BY <1>1, <1>2, <1>3, <1>4, <1>5 DEF Calls!AreRight

\* The row that is parsed has its fields, without a NUL in them.
LEMMA RowIs ==
  ASSUME Calls!RecordsAssumption, daily \in Seq(CallRows), call \in 1..Len(daily)
  PROVE  RowNow = daily[call] /\ RowNow \in CallRows /\ RowNow \in Seq(Values) /\ Len(RowNow) \in Nat
  <1>1. RowNow = daily[call] /\ daily[call] \in CallRows
    BY DEF RowNow
  <1>2. CallRows \subseteq Seq(Values)
    BY DEF Calls!RecordsAssumption, Values, Letter
  <1> QED BY <1>1, <1>2, LenProperties

LEMMA RecordsBegin == ASSUME Calls!RecordsAssumption, Calls!Init PROVE RecordsInv
  <1>1. PICK n \in 1..MaxRows : daily \in [1..n -> CallRows]
    BY DEF Calls!Init, Calls!Files
  <1>2. daily \in Seq(CallRows) /\ Len(daily) = n /\ n >= 1 /\ n \in Nat
    BY <1>1
  <1>3. call = 1 /\ campos = 0 /\ cdr = Calls!Cleared /\ processed = 0 /\ billing = <<>> /\ lamaStep = "parse"
    BY DEF Calls!Init
  <1>4. call \in 1..Len(daily) /\ call \in 1..(Len(daily) + 1) /\ call - 1 = 0
    BY <1>2, <1>3
  <1>5. Len(RowNow) \in Nat
    BY <1>2, <1>4, RowIs
  <1>6. Holds(cdr, RowNow, campos)
    BY <1>3, ClearedHolds
  <1>7. Calls!Billed[0] = <<>>
    BY <1>2, CallsBilled
  <1>8. Calls!AreRight(<<>>, <<>>) /\ Len(<<>>) = 0 /\ <<>> \in Seq(Entry)
    BY DEF Calls!AreRight
  <1> QED BY <1>2, <1>3, <1>4, <1>5, <1>6, <1>7, <1>8 DEF RecordsInv

\* While fields are given there is a row.
LEMMA GivingRow ==
  ASSUME RecordsInv, Calls!Giving
  PROVE  /\ call \in 1..Len(daily) /\ lamaStep \in {"parse", "fini"}
         /\ lamaStep = "fini" => /\ call = Len(daily) /\ ~ended
  <1>1. call <= Len(daily) /\ lamaStep \in {"parse", "fini"} /\ Len(daily) \in Nat /\ call \in Nat /\ call >= 1
    <2>1. Len(daily) \in Nat /\ call \in 1..(Len(daily) + 1)
      BY LenProperties DEF RecordsInv
    <2> QED BY <2>1 DEF RecordsInv, Calls!Giving, Calls!AllGiven
  <1>2. ASSUME lamaStep = "fini" PROVE call = Len(daily) /\ ~ended
    <2>1. IsClosed
      BY <1>2 DEF RecordsInv
    <2> QED BY <2>1, <1>1 DEF IsClosed
  <1> QED BY <1>1, <1>2

LEMMA Cb1Keeps == ASSUME Calls!RecordsAssumption, RecordsInv, Calls!cb1 PROVE RecordsInv'
  <1>1. UNCHANGED <<daily, ended, call, processed, billing, lamaStep>> /\ campos' = campos + 1
    BY DEF Calls!cb1
  <1>2. daily \in Seq(CallRows) /\ call \in 1..Len(daily) /\ campos \in Nat /\ Holds(cdr, RowNow, campos)
    BY GivingRow DEF RecordsInv, Calls!cb1
  <1>3. RowNow = daily[call] /\ RowNow \in Seq(Values) /\ Len(RowNow) \in Nat
    BY <1>2, RowIs
  <1>4. campos < Len(RowNow)
    BY <1>3 DEF Calls!cb1, Calls!Fields
  <1>5. cdr' = IF \E name \in DOMAIN Calls!Columns : Calls!Columns[name] = campos
               THEN LET name == CHOOSE name \in DOMAIN Calls!Columns : Calls!Columns[name] = campos
                    IN  Calls!Copied(name, RowNow[campos + 1])
               ELSE cdr
    BY <1>3 DEF Calls!cb1, Calls!Fields
  <1>6. Holds(cdr', RowNow, campos + 1)
    BY <1>2, <1>3, <1>4, <1>5, GivenHolds
  <1>7. RowNow' = RowNow /\ Calls!Billed' = Calls!Billed
    BY <1>1 DEF RowNow, Calls!Billed
  <1>8. IsClosed => IsClosed'
    BY <1>1, <1>7 DEF IsClosed
  <1>9. campos' \in Nat /\ campos' <= Len(RowNow')
    BY <1>1, <1>2, <1>3, <1>4, <1>7
  <1>10. Holds(cdr', RowNow', campos')
    BY <1>1, <1>6, <1>7
  <1> QED BY <1>1, <1>7, <1>8, <1>9, <1>10 DEF RecordsInv

\* What the struct has of a whole row.
LEMMA WholeRow ==
  ASSUME Calls!RecordsAssumption, NEW r \in Seq(Values), Holds(cdr, r, Len(r)), NEW name \in Named
  PROVE  /\ Calls!Field(r, name) \in Values
         /\ Len(Calls!Field(r, name)) < Size => Calls!String(name) = Calls!Field(r, name)
         /\ \A x : Len(Calls!String(name)) > 0 /\ Head(Calls!String(name)) = x
                   <=> Calls!Begins(Calls!Field(r, name), x)
         /\ Calls!String(name) \in Seq(Byte)
  <1> DEFINE f == Calls!Field(r, name)
  <1>1. f = GivenOf(r, Len(r), name)
    BY DEF Calls!Field, GivenOf
  <1>2. f \in Values
    <2>1. Calls!Columns[name] \in Nat /\ Len(r) \in Nat
      BY PlacesAre
    <2>2. Calls!Columns[name] < Len(r) => Calls!Columns[name] + 1 \in 1..Len(r)
      BY <2>1
    <2>3. \A i \in 1..Len(r) : r[i] \in Values
      BY ElementOfSeq
    <2>4. <<>> \in Values
      BY DEF Values
    <2> QED BY <2>2, <2>3, <2>4 DEF Calls!Field
  <1> HIDE DEF f
  <1>3. /\ Len(f) < Size => Calls!String(name) = f
        /\ \A x : Len(Calls!String(name)) > 0 /\ Head(Calls!String(name)) = x
                   <=> f # <<>> /\ Head(f) = x
        /\ Calls!String(name) \in Seq(Byte)
    BY <1>1, <1>2, StringIs
  <1> QED BY <1>2, <1>3 DEF f, Calls!Begins

\* A text is cut at its first blank.
LEMMA CutAtBlank ==
  ASSUME NEW t \in Seq(Byte), NEW k \in 1..Len(t), t[k] = Calls!Blank
  PROVE  /\ SubSeq(t, 1, k - 1) \o <<Calls!Blank>> \o SubSeq(t, k + 1, Len(t)) = t
         /\ SubSeq(t, 1, k - 1) \in Seq(Byte) /\ SubSeq(t, k + 1, Len(t)) \in Seq(Byte)
  <1> DEFINE a == SubSeq(t, 1, k - 1)
             b == SubSeq(t, k + 1, Len(t))
             o == <<Calls!Blank>>
  <1>1. k \in Nat /\ k >= 1 /\ k <= Len(t) /\ Len(t) \in Nat
    OBVIOUS
  <1>2. a \in Seq(Byte) /\ Len(a) = k - 1 /\ \A i \in 1..(k - 1) : a[i] = t[i]
    <2>1. \A i \in 1..(k - 1) : i \in 1..Len(t) /\ t[i] \in Byte
      BY <1>1
    <2>2. /\ a \in Seq(Byte) /\ Len(a) = IF 1 <= k - 1 THEN (k - 1) - 1 + 1 ELSE 0
          /\ \A i \in 1..((k - 1) - 1 + 1) : a[i] = t[1 + i - 1]
      BY <1>1, <2>1, SubSeqProperties
    <2> HIDE DEF a
    <2> QED BY <1>1, <2>2
  <1>3. b \in Seq(Byte) /\ Len(b) = Len(t) - k /\ \A i \in 1..(Len(t) - k) : b[i] = t[k + i]
    <2>1. \A i \in (k + 1)..Len(t) : i \in 1..Len(t) /\ t[i] \in Byte
      BY <1>1
    <2>2. /\ b \in Seq(Byte) /\ Len(b) = IF k + 1 <= Len(t) THEN Len(t) - (k + 1) + 1 ELSE 0
          /\ \A i \in 1..(Len(t) - (k + 1) + 1) : b[i] = t[(k + 1) + i - 1]
      BY <1>1, <2>1, SubSeqProperties
    <2> HIDE DEF b
    <2>3. \A i \in 1..(Len(t) - k) : i \in 1..(Len(t) - (k + 1) + 1) /\ (k + 1) + i - 1 = k + i
      BY <1>1
    <2>4. Len(b) = Len(t) - k
      BY <1>1, <2>2
    <2> QED BY <2>2, <2>3, <2>4
  <1>4. o \in Seq(Byte) /\ Len(o) = 1 /\ o[1] = t[k]
    <2>1. t[k] \in Byte
      BY <1>1
    <2> QED BY <2>1
  <1> HIDE DEF a, b, o
  <1>5. /\ a \o o \in Seq(Byte) /\ Len(a \o o) = Len(a) + Len(o)
        /\ \A i \in 1..(Len(a) + Len(o)) : (a \o o)[i] = IF i <= Len(a) THEN a[i] ELSE o[i - Len(a)]
    BY <1>2, <1>4, ConcatProperties
  <1> DEFINE c == a \o o
  <1>6. c \in Seq(Byte) /\ Len(c) = k /\ \A i \in 1..k : c[i] = t[i]
    <2>1. Len(c) = k
      BY <1>1, <1>2, <1>4, <1>5
    <2>2. ASSUME NEW i \in 1..k PROVE c[i] = t[i]
      <3>1. CASE i < k
        <4>1. i \in 1..(k - 1) /\ i \in 1..(Len(a) + Len(o)) /\ i <= Len(a)
          BY <1>1, <1>2, <1>4, <3>1
        <4> QED BY <1>2, <1>5, <4>1
      <3>2. CASE i = k
        <4>1. i \in 1..(Len(a) + Len(o)) /\ ~(i <= Len(a)) /\ i - Len(a) = 1
          <5>1. Len(a) = k - 1 /\ Len(o) = 1 /\ k \in Nat /\ k >= 1
            BY <1>1, <1>2, <1>4
          <5>2. i = k
            BY <3>2
          <5> QED BY <5>1, <5>2
        <4> QED BY <1>4, <1>5, <4>1, <3>2
      <3>3. i < k \/ i = k
        BY <1>1
      <3> QED BY <3>1, <3>2, <3>3
    <2> QED BY <1>5, <2>1, <2>2
  <1> HIDE DEF c
  <1>7. /\ c \o b \in Seq(Byte) /\ Len(c \o b) = Len(c) + Len(b)
        /\ \A i \in 1..(Len(c) + Len(b)) : (c \o b)[i] = IF i <= Len(c) THEN c[i] ELSE b[i - Len(c)]
    BY <1>3, <1>6, ConcatProperties
  <1>8. Len(c \o b) = Len(t)
    BY <1>1, <1>3, <1>6, <1>7
  <1>9. ASSUME NEW i \in 1..Len(t) PROVE (c \o b)[i] = t[i]
    <2>1. i \in 1..(Len(c) + Len(b)) /\ i \in Nat
      BY <1>1, <1>3, <1>6
    <2>2. CASE i <= k
      <3>1. i \in 1..k
        BY <1>1, <2>2
      <3> QED BY <1>6, <1>7, <2>1, <2>2, <3>1
    <2>3. CASE ~(i <= k)
      <3> DEFINE j == i - k
      <3>1. j \in 1..(Len(t) - k) /\ k + j = i
        BY <1>1, <2>3
      <3>2. (c \o b)[i] = b[j]
        BY <1>6, <1>7, <2>1, <2>3
      <3> HIDE DEF j
      <3>3. b[j] = t[k + j]
        BY <1>3, <3>1
      <3> QED BY <3>1, <3>2, <3>3
    <2> QED BY <2>2, <2>3
  <1>10. c \o b = t
    BY <1>7, <1>8, <1>9, SeqEqual
  <1> QED BY <1>2, <1>3, <1>10 DEF a, b, c, o

\* The first blank of a text.
LEMMA FirstBlank ==
  ASSUME NEW t \in Seq(Byte), Calls!Contains(t, Calls!Blank)
  PROVE  LET k == CHOOSE k \in DOMAIN t : t[k] = Calls!Blank /\ \A j \in 1..(k - 1) : t[j] # Calls!Blank
         IN  k \in 1..Len(t) /\ t[k] = Calls!Blank
  <1> DEFINE T == {i \in 1..Len(t) : t[i] = Calls!Blank}
  <1>1. T \in SUBSET Nat /\ T # {}
    BY DEF Calls!Contains
  <1>2. PICK m \in T : \A y \in T : m <= y
    <2> HIDE DEF T
    <2> QED BY <1>1, LeastOf
  <1>3. m \in 1..Len(t) /\ t[m] = Calls!Blank
    BY <1>2
  <1>4. ASSUME NEW j \in 1..(m - 1) PROVE t[j] # Calls!Blank
    <2>1. j \in 1..Len(t) /\ j < m
      BY <1>3
    <2>2. j \notin T
      <3>1. m \in Nat
        BY <1>3
      <3> HIDE DEF T
      <3> QED BY <1>2, <2>1, <3>1
    <2> QED BY <2>1, <2>2
  <1>5. DOMAIN t = 1..Len(t)
    OBVIOUS
  <1>6. \E k \in DOMAIN t : t[k] = Calls!Blank /\ \A j \in 1..(k - 1) : t[j] # Calls!Blank
    BY <1>3, <1>4, <1>5
  <1> QED BY <1>5, <1>6

\* A line that is written is right for the row that the struct holds.
LEMMA WrittenIs ==
  ASSUME Calls!RecordsAssumption, NEW r \in Seq(Values), Holds(cdr, r, Len(r)),
         NEW d \in Calls!Split
  PROVE  Calls!LineIsRight(Calls!Written(d), r) /\ Calls!Written(d) \in Entry
  <1> DEFINE t == Calls!String("fecha_hora")
             k == CHOOSE k \in DOMAIN t : t[k] = Calls!Blank /\ \A j \in 1..(k - 1) : t[j] # Calls!Blank
  <1>1. t \in Seq(Byte)
    BY WholeRow DEF Named
  <1>2. ASSUME Calls!Contains(t, Calls!Blank)
        PROVE  /\ d[1] \in Seq(Byte) /\ d[2] \in Seq(Byte)
               /\ d[1] \o <<Calls!Blank>> \o d[2] = t
    <2>1. k \in 1..Len(t) /\ t[k] = Calls!Blank
      BY <1>1, <1>2, FirstBlank
    <2>2. d = <<SubSeq(t, 1, k - 1), SubSeq(t, k + 1, Len(t))>>
      BY <1>2 DEF Calls!Split
    <2> HIDE DEF t, k
    <2>3. d[1] = SubSeq(t, 1, k - 1) /\ d[2] = SubSeq(t, k + 1, Len(t))
      BY <2>2
    <2>4. SubSeq(t, 1, k - 1) \in Seq(Byte) /\ SubSeq(t, k + 1, Len(t)) \in Seq(Byte)
      BY <1>1, <2>1, CutAtBlank
    <2>5. SubSeq(t, 1, k - 1) \o <<Calls!Blank>> \o SubSeq(t, k + 1, Len(t)) = t
      BY <1>1, <2>1, CutAtBlank
    <2> QED BY <2>3, <2>4, <2>5
  <1>3. ASSUME ~Calls!Contains(t, Calls!Blank) PROVE d[1] \in Seq(Byte) /\ d[2] \in Seq(Byte)
    <2>1. d \in Calls!Stack \X Calls!Stack
      BY <1>3 DEF Calls!Split
    <2>2. <<>> \in Seq(Byte) /\ <<"?">> \in Seq(Byte)
      BY DEF Byte
    <2> QED BY <2>1, <2>2 DEF Calls!Stack
  <1>4. d[1] \in Seq(Byte) /\ d[2] \in Seq(Byte)
    BY <1>2, <1>3
  <1> DEFINE l == Calls!Written(d)
  <1>5. /\ l = <<Calls!String("abonado"), Calls!String("destino"), d[1], d[2], Calls!String("segundos")>>
        /\ l[1] = Calls!String("abonado") /\ l[2] = Calls!String("destino")
        /\ l[3] = d[1] /\ l[4] = d[2]
    BY DEF Calls!Written
  <1>6. l \in Seq(Seq(Byte))
    <2>1. /\ Calls!String("abonado") \in Seq(Byte) /\ Calls!String("destino") \in Seq(Byte)
          /\ Calls!String("segundos") \in Seq(Byte)
      BY WholeRow DEF Named
    <2> DEFINE B == Seq(Byte)
    <2>2. /\ Calls!String("abonado") \in B /\ Calls!String("destino") \in B
          /\ Calls!String("segundos") \in B /\ d[1] \in B /\ d[2] \in B
      BY <1>4, <2>1
    <2> HIDE DEF l, B
    <2>3. l \in Seq(B)
      BY <1>5, <2>2
    <2> QED BY <2>3 DEF B
  <1>7. /\ Len(Calls!Field(r, "abonado")) < Size => Calls!String("abonado") = Calls!Field(r, "abonado")
        /\ Len(Calls!Field(r, "destino")) < Size => Calls!String("destino") = Calls!Field(r, "destino")
        /\ Len(Calls!Field(r, "fecha_hora")) < Size => t = Calls!Field(r, "fecha_hora")
    BY WholeRow DEF Named
  <1>8. Calls!ToBeSplit(r) => d[1] \o <<Calls!Blank>> \o d[2] = Calls!Field(r, "fecha_hora")
    BY <1>2, <1>7 DEF Calls!ToBeSplit, Calls!HasRoom
  <1> HIDE DEF l
  <1>9. Calls!LineIsRight(l, r)
    BY <1>5, <1>7, <1>8 DEF Calls!LineIsRight
  <1> QED BY <1>6, <1>9 DEF l, Entry

LEMMA Cb2Keeps == ASSUME Calls!RecordsAssumption, RecordsInv, Calls!cb2 PROVE RecordsInv'
  <1> DEFINE r == daily[call]
  <1>1. /\ daily \in Seq(CallRows) /\ call \in 1..Len(daily) /\ lamaStep \in {"parse", "fini"}
        /\ (lamaStep = "fini" => call = Len(daily) /\ ~ended)
        /\ Holds(cdr, RowNow, campos) /\ billing \in Seq(Entry) /\ processed \in Nat
    BY GivingRow DEF RecordsInv, Calls!cb2
  <1>2. RowNow = r /\ r \in CallRows /\ r \in Seq(Values) /\ Len(r) \in Nat /\ Len(daily) \in Nat
    BY <1>1, RowIs, LenProperties
  <1>3. campos = Len(r) /\ Holds(cdr, r, Len(r))
    BY <1>1, <1>2 DEF Calls!cb2, Calls!Fields
  <1>4. Calls!Answered /\ Calls!Lasted <=> Calls!Billable(r)
    BY <1>2, <1>3, WholeRow DEF Named, Calls!Answered, Calls!Lasted, Calls!Billable
  <1>5. /\ cdr' = Calls!Cleared /\ campos' = 0 /\ call' = call + 1
        /\ UNCHANGED <<daily, ended, lamaStep>>
    BY DEF Calls!cb2, Calls!FlushCDR
  <1>6. Calls!Billed' = Calls!Billed
    BY <1>5 DEF Calls!Billed
  <1>7. /\ call' \in 1..(Len(daily) + 1) /\ call' - 1 = call /\ call \in 0..Len(daily)
        /\ call - 1 \in 0..Len(daily) /\ Len(billing) \in Nat
    BY <1>1, <1>2, <1>5, LenProperties
  <1>8. /\ Calls!Billed[call] = IF Calls!Billable(r) THEN Append(Calls!Billed[call - 1], r)
                                  ELSE Calls!Billed[call - 1]
        /\ Calls!Billed[call - 1] \in Seq(CallRows)
    BY <1>1, <1>7, CallsBilled
  <1>9. Holds(cdr', RowNow', campos') /\ campos' \in Nat /\ campos' <= Len(RowNow')
    <2>1. Holds(Calls!Cleared, RowNow', 0)
      BY ClearedHolds
    <2>2. Len(RowNow') \in Nat
      <3>1. \A i \in 1..Len(daily) : daily[i] \in CallRows
        BY <1>1
      <3>2. \A x \in CallRows : Len(x) \in Nat
        <4>1. CallRows \subseteq Seq(Values)
          BY DEF Calls!RecordsAssumption, Values, Letter
        <4> QED BY <4>1, LenProperties
      <3>3. call' <= Len(daily) => call' \in 1..Len(daily)
        BY <1>2, <1>7
      <3>4. RowNow' = IF call' <= Len(daily) THEN daily[call'] ELSE <<>>
        BY <1>5 DEF RowNow
      <3> QED BY <3>1, <3>2, <3>3, <3>4
    <2> QED BY <1>5, <2>1, <2>2
  <1> HIDE DEF r
  <1>10. CASE ~Calls!Billable(r)
    <2>1. billing' = billing /\ processed' = processed
      BY <1>4, <1>10 DEF Calls!cb2
    <2>2. Calls!Billed[call] = Calls!Billed[call - 1]
      BY <1>8, <1>10
    <2>3. lamaStep = "parse" => /\ processed' = Len(billing')
                                /\ Calls!AreRight(billing', Calls!Billed[call])
      BY <2>1, <2>2 DEF RecordsInv
    <2>4. lamaStep = "fini" => IsClosed'
      <3>1. SUFFICES ASSUME lamaStep = "fini" PROVE IsClosed'
        OBVIOUS
      <3>2. IsClosed
        BY <3>1 DEF RecordsInv
      <3>3. PICK k \in DOMAIN billing :
              /\ billing[k] = Calls!Fin(k - 1)
              /\ Calls!AreRight(RemoveAt(billing, k), Calls!Billed[call - 1])
              /\ k = Len(billing)
        BY <3>1, <3>2, <1>1 DEF IsClosed
      <3>4. call' > Len(daily)
        BY <1>1, <1>5, <3>1, <1>2
      <3> QED BY <3>3, <3>4, <2>1, <2>2, <1>5, <1>6, <1>7 DEF IsClosed
    <2>5. (lamaStep = "parse" => /\ processed' = Len(billing')
                                 /\ Calls!AreRight(billing, Calls!Billed[call - 1])')
      BY <2>3, <1>5, <1>6, <1>7, <2>1 DEF Calls!AreRight, Calls!LineIsRight
    <2> QED BY <1>1, <1>5, <1>7, <1>9, <2>1, <2>4, <2>5 DEF RecordsInv
  <1>11. CASE Calls!Billable(r)
    <2>1. PICK d \in Calls!Split : billing' = Append(billing, Calls!Written(d))
      BY <1>4, <1>11 DEF Calls!cb2
    <2> DEFINE l == Calls!Written(d)
    <2>2. Calls!LineIsRight(l, r) /\ l \in Entry
      BY <1>2, <1>3, WrittenIs
    <2>3. billing' = Append(billing, l) /\ processed' = processed + 1
      BY <1>4, <1>11, <2>1 DEF Calls!cb2
    <2> HIDE DEF l
    <2>4. Calls!Billed[call] = Append(Calls!Billed[call - 1], r)
      BY <1>8, <1>11
    <2>5. /\ billing' \in Seq(Entry) /\ Len(billing') = Len(billing) + 1 /\ processed' \in Nat
          /\ \A i \in 1..Len(billing) : billing'[i] = billing[i]
      BY <1>1, <2>2, <2>3, AppendProperties
    <2>6. lamaStep = "parse" => /\ processed' = Len(billing')
                                /\ Calls!AreRight(billing', Calls!Billed[call])
      <3>1. SUFFICES ASSUME lamaStep = "parse"
                     PROVE  /\ processed' = Len(billing')
                            /\ Calls!AreRight(billing', Calls!Billed[call])
        OBVIOUS
      <3>2. processed = Len(billing) /\ Calls!AreRight(billing, Calls!Billed[call - 1])
        BY <3>1 DEF RecordsInv
      <3>3. Calls!AreRight(Append(billing, l), Append(Calls!Billed[call - 1], r))
        BY <3>2, <1>1, <1>2, <1>8, <2>2, OneMoreRight
      <3> QED BY <3>2, <3>3, <2>3, <2>4, <2>5
    <2>7. lamaStep = "fini" => IsClosed'
      <3>1. SUFFICES ASSUME lamaStep = "fini" PROVE IsClosed'
        OBVIOUS
      <3>2. IsClosed
        BY <3>1 DEF RecordsInv
      <3>3. PICK k \in DOMAIN billing :
              /\ billing[k] = Calls!Fin(k - 1)
              /\ Calls!AreRight(RemoveAt(billing, k), Calls!Billed[call - 1])
              /\ k = Len(billing)
        BY <3>1, <3>2, <1>1 DEF IsClosed
      <3>4. k \in 1..Len(billing) /\ k \in DOMAIN billing' /\ k = Len(billing') - 1 /\ billing'[k] = billing[k]
        BY <3>3, <1>1, <1>7, <2>5
      <3>5. RemoveAt(billing', k) = Append(RemoveAt(billing, k), l)
        <4>1. Len(billing) > 0
          BY <3>3, <3>4, <1>7
        <4> QED BY <1>1, <2>2, <2>3, <3>3, <4>1, LastOut
      <3>6. Calls!AreRight(RemoveAt(billing', k), Calls!Billed[call])
        <4>1. RemoveAt(billing, k) \in Seq(Entry)
          BY <1>1, <3>4, WithoutOne
        <4>2. Calls!AreRight(Append(RemoveAt(billing, k), l), Append(Calls!Billed[call - 1], r))
          BY <4>1, <1>2, <1>8, <2>2, <3>3, OneMoreRight
        <4> QED BY <4>2, <3>5, <2>4
      <3>7. ~ended /\ call' > Len(daily) /\ Last(daily) = r
        BY <3>1, <1>1, <1>2, <1>5 DEF Last, r
      <3>8. /\ billing'[k] = Calls!Fin(k - 1) /\ ~ended' /\ call' > Len(daily')
            /\ Calls!Billable(Last(daily'))
            /\ Calls!AreRight(RemoveAt(billing', k), Calls!Billed'[call' - 1])
        BY <3>3, <3>4, <3>6, <3>7, <1>5, <1>6, <1>7, <1>11
      <3> QED BY <3>4, <3>8 DEF IsClosed
    <2>8. (lamaStep = "parse" => /\ processed' = Len(billing')
                                 /\ Calls!AreRight(billing', Calls!Billed'[call' - 1]))
      BY <2>6, <1>6, <1>7
    <2> QED BY <1>1, <1>5, <1>7, <1>9, <2>5, <2>7, <2>8 DEF RecordsInv
  <1> QED BY <1>10, <1>11

LEMMA CloseKeeps == ASSUME Calls!RecordsAssumption, RecordsInv, Calls!Close PROVE RecordsInv'
  <1>1. /\ lamaStep = "parse" /\ billing' = Append(billing, Calls!Fin(processed)) /\ lamaStep' = "fini"
        /\ UNCHANGED <<daily, ended, call, campos, cdr, processed>>
    BY DEF Calls!Close
  <1>2. /\ billing \in Seq(Entry) /\ processed \in Nat /\ processed = Len(billing)
        /\ Calls!AreRight(billing, Calls!Billed[call - 1])
    BY <1>1 DEF RecordsInv
  <1>3. Calls!Fin(processed) \in Entry
    BY <1>2 DEF Entry, Calls!Fin
  <1> DEFINE k == Len(billing) + 1
  <1>4. /\ billing' \in Seq(Entry) /\ Len(billing') = k /\ billing'[k] = Calls!Fin(processed)
        /\ k \in DOMAIN billing' /\ k - 1 = processed
    BY <1>1, <1>2, <1>3, AppendProperties
  <1>5. RemoveAt(billing', k) = billing
    BY <1>1, <1>2, <1>3, LastOut
  <1>6. RowNow' = RowNow /\ Calls!Billed' = Calls!Billed
    BY <1>1 DEF RowNow, Calls!Billed
  <1>7. call > Len(daily) \/ (call = Len(daily) /\ ~ended)
    BY DEF Calls!Close, Calls!AllGiven, Calls!IsOpen
  <1> HIDE DEF k
  <1>8. IsClosed'
    <2>1. /\ billing'[k] = Calls!Fin(k - 1)
          /\ Calls!AreRight(RemoveAt(billing', k), Calls!Billed'[call' - 1])
          /\ k = Len(billing') /\ (call' > Len(daily') \/ (call' = Len(daily') /\ ~ended'))
      BY <1>1, <1>2, <1>4, <1>5, <1>6, <1>7
    <2> QED BY <1>4, <2>1 DEF IsClosed
  <1> QED BY <1>1, <1>4, <1>6, <1>8 DEF RecordsInv

LEMMA StillKeeps ==
  ASSUME RecordsInv, UNCHANGED <<daily, ended, call, campos, cdr, processed, billing>>,
         lamaStep' = lamaStep \/ (lamaStep = "fini" /\ lamaStep' = "done" /\ call > Len(daily))
  PROVE  RecordsInv'
  <1>1. RowNow' = RowNow /\ Calls!Billed' = Calls!Billed
    BY DEF RowNow, Calls!Billed
  <1>2. IsClosed => IsClosed'
    BY <1>1 DEF IsClosed
  <1> QED BY <1>1, <1>2 DEF RecordsInv

LEMMA RecordsStep ==
  ASSUME Calls!RecordsAssumption, RecordsInv, [Calls!Next]_Calls!vars PROVE RecordsInv'
  <1>1. CASE Calls!cb1
    BY <1>1, Cb1Keeps
  <1>2. CASE Calls!cb2
    BY <1>2, Cb2Keeps
  <1>3. CASE Calls!Close
    BY <1>3, CloseKeeps
  <1>4. CASE Calls!Done
    BY <1>4, StillKeeps DEF Calls!Done
  <1>5. CASE UNCHANGED Calls!vars
    BY <1>5, StillKeeps DEF Calls!vars
  <1> QED BY <1>1, <1>2, <1>3, <1>4, <1>5 DEF Calls!Next

(* Every answered call of a daily file has its line in lama.cal, and no    *)
(* other has, with nothing in it of the rows before, and the closing line  *)
(* counts the lines before it (cb1, cb2, AsteriskCDRProcessFile), if the   *)
(* two parts of every date fit in fecha and hora, whose length cb2 does    *)
(* not look at (HasRoom, in RecordsAssumption; cdr_asterisk.c:242-274).    *)
THEOREM LinesStayRight ==
  ASSUME Calls!RecordsAssumption
  PROVE  Calls!Spec => []Calls!LinesAreRight
  <1>1. Calls!Init => RecordsInv
    BY RecordsBegin
  <1>2. RecordsInv /\ [Calls!Next]_Calls!vars => RecordsInv'
    BY RecordsStep
  <1>3. RecordsInv => Calls!LinesAreRight
    <2>1. SUFFICES ASSUME RecordsInv, lamaStep = "done"
                   PROVE  \E k \in DOMAIN billing :
                            Calls!Closes(k) /\ Calls!AreRight(Calls!RemoveAt(billing, k), Calls!Billed[Len(daily)])
      BY DEF Calls!LinesAreRight
    <2>2. IsClosed /\ call > Len(daily) /\ call \in 1..(Len(daily) + 1) /\ Len(daily) \in Nat
      BY <2>1, LenProperties DEF RecordsInv
    <2>3. call - 1 = Len(daily)
      BY <2>2
    <2>4. PICK k \in DOMAIN billing :
            /\ billing[k] = Calls!Fin(k - 1)
            /\ Calls!AreRight(RemoveAt(billing, k), Calls!Billed[call - 1])
            /\ \/ k = Len(billing) /\ (call > Len(daily) \/ (call = Len(daily) /\ ~ended))
               \/ k = Len(billing) - 1 /\ ~ended /\ call > Len(daily) /\ Calls!Billable(Last(daily))
      BY <2>2 DEF IsClosed
    <2>5. Calls!RemoveAt(billing, k) = RemoveAt(billing, k) /\ Calls!Last(daily) = Last(daily)
      BY DEF RemoveAt, Calls!RemoveAt, Last, Calls!Last
    <2>6. Calls!Closes(k)
      BY <2>4, <2>5 DEF Calls!Closes
    <2> QED BY <2>3, <2>4, <2>5, <2>6
  <1> QED BY <1>1, <1>2, <1>3, PTL DEF Calls!Spec
-----------------------------------------------------------------------------
(* The rows that are read from a CSV file (CsvParser).                     *)

LEMMA SameFlat == ASSUME NEW ss PROVE Csv!FlattenSeq(ss) = FlattenSeq(ss)
  BY Zenon DEF Csv!FlattenSeq, FlattenSeq

Sign == STRING \cup {"quote", "comma", "lf"}
Word == Seq(Sign)

\* A text without its spaces at both ends.
LEMMA TrimIs ==
  ASSUME NEW v \in Word
  PROVE  /\ (\A i \in 1..Len(v) : v[i] = "space") => Csv!Trim(v) = <<>>
         /\ \A s, b \in 1..Len(v) :
              /\ s <= b /\ v[s] # "space" /\ \A i \in 1..(s - 1) : v[i] = "space"
              /\ v[b] # "space" /\ \A i \in (b + 1)..Len(v) : v[i] = "space"
              => Csv!Trim(v) = SubSeq(v, s, b)
  <1> DEFINE letters == {i \in DOMAIN v : v[i] # "space"}
             least == Csv!Min(letters)
             most == Csv!Max(letters)
  <1>1. DOMAIN v = 1..Len(v) /\ Len(v) \in Nat
    BY DEF Word
  <1>5. Len(v) \in Nat
    BY <1>1
  <1>2. Csv!Trim(v) = IF letters = {} THEN <<>> ELSE SubSeq(v, least, most)
    BY DEF Csv!Trim
  <1>3. ASSUME \A i \in 1..Len(v) : v[i] = "space" PROVE Csv!Trim(v) = <<>>
    BY <1>1, <1>2, <1>3
  <1>4. ASSUME NEW s \in 1..Len(v), NEW b \in 1..Len(v), s <= b,
               v[s] # "space", \A i \in 1..(s - 1) : v[i] = "space",
               v[b] # "space", \A i \in (b + 1)..Len(v) : v[i] = "space"
        PROVE  Csv!Trim(v) = SubSeq(v, s, b)
    <2>1. /\ s \in letters /\ b \in letters /\ letters \subseteq Nat
          /\ \A i \in letters : s <= i /\ i <= b
      <3>1. \A i : i \in letters <=> i \in 1..Len(v) /\ v[i] # "space"
        BY <1>1
      <3> HIDE DEF letters
      <3>2. ASSUME NEW i \in letters PROVE i \in Nat /\ s <= i /\ i <= b
        <4>1. i \in 1..Len(v) /\ v[i] # "space"
          BY <3>1
        <4>2. i \notin 1..(s - 1) /\ i \notin (b + 1)..Len(v)
          BY <1>4, <4>1
        <4>3. i \in Nat /\ i >= 1 /\ i <= Len(v) /\ Len(v) \in Nat
          BY <1>5, <4>1
        <4> QED BY <4>2, <4>3
      <3> QED BY <1>4, <3>1, <3>2
    <2> HIDE DEF letters
    <2>2. least = s
      <3>1. least = CHOOSE x \in letters : \A y \in letters : x <= y
        BY DEF Csv!Min
      <3>2. \A x \in letters : (\A y \in letters : x <= y) => x = s
        BY <2>1
      <3> HIDE DEF least
      <3> QED BY <2>1, <3>1, <3>2
    <2>3. most = b
      <3>1. most = CHOOSE x \in letters : \A y \in letters : x >= y
        BY DEF Csv!Max
      <3>2. \A x \in letters : (\A y \in letters : x >= y) => x = b
        BY <2>1
      <3>3. \A y \in letters : b >= y
        BY <2>1
      <3> HIDE DEF most
      <3> QED BY <2>1, <3>1, <3>2, <3>3
    <2> HIDE DEF least, most
    <2>4. letters # {}
      BY <2>1
    <2> QED BY <1>2, <2>2, <2>3, <2>4
  <1> QED BY <1>3, <1>4

\* The files that are written: rows of fields, none without any.
Rows1(S) == {r \in Seq(S) : Len(r) > 0}
FilesInv ==
  /\ given \in Rows1(Rows1(CsvFields))
  /\ \/ text = Csv!File(given)
     \/ text = Csv!Front(Csv!File(given))

LEMMA FilesAre == ASSUME Csv!CsvAssumption, Csv!Init PROVE FilesInv
  <1>1. MaxFields \in Nat
    BY DEF Csv!CsvAssumption
  <1>2. ASSUME NEW S, NEW r \in Csv!Lists(S, MaxFields) PROVE r \in Rows1(S)
    <2>1. PICK n \in 1..MaxFields : r \in [1..n -> S]
      BY <1>2 DEF Csv!Lists
    <2>2. n \in Nat /\ n > 0
      BY <1>1
    <2>3. r \in Seq(S) /\ Len(r) = n
      BY <2>1, <2>2
    <2> QED BY <2>2, <2>3 DEF Rows1
  <1>3. given \in Csv!Lists(Csv!Lists(CsvFields, MaxFields), MaxFields)
    BY DEF Csv!Init, Csv!Files
  <1>4. given \in Rows1(Csv!Lists(CsvFields, MaxFields))
    BY <1>2, <1>3
  <1>5. given \in Seq(Csv!Lists(CsvFields, MaxFields)) /\ Len(given) > 0
    BY <1>4 DEF Rows1
  <1>6. given \in Seq(Rows1(CsvFields))
    <2> DEFINE L == Csv!Lists(CsvFields, MaxFields)
    <2>1. \A i \in 1..Len(given) : given[i] \in L
      BY <1>5
    <2> HIDE DEF L
    <2>2. \A i \in 1..Len(given) : given[i] \in Rows1(CsvFields)
      BY <1>2, <2>1 DEF L
    <2>3. Len(given) \in Nat /\ given = [i \in 1..Len(given) |-> given[i]]
      BY <1>5
    <2> QED BY <2>2, <2>3
  <1> QED BY <1>5, <1>6 DEF FilesInv, Rows1, Csv!Init

\* The pieces that a file is made of.
Pairs(v)    == [i \in DOMAIN v |-> IF v[i] = "quote" THEN <<"quote", "quote">> ELSE <<v[i]>>]
Closing(r, k) == IF k = Len(r) THEN "lf" ELSE "comma"
Pieces(r)   == [k \in DOMAIN r |-> Csv!Written(r[k]) \o <<Closing(r, k)>>]
Lines(rs)   == [i \in DOMAIN rs |-> Csv!Line(rs[i])]

LEMMA ShortIn == ASSUME NEW S, NEW a \in S PROVE <<a>> \in Seq(S) /\ <<a, a>> \in Seq(S)
  OBVIOUS

LEMMA PairsIn == ASSUME NEW v \in Word PROVE Pairs(v) \in Seq(Word) /\ Len(Pairs(v)) = Len(v)
  <1>1. \A i \in 1..Len(v) : Pairs(v)[i] \in Word
    <2>1. ASSUME NEW i \in 1..Len(v) PROVE Pairs(v)[i] \in Word
      <3>1. v[i] \in Sign /\ i \in DOMAIN v
        BY DEF Word
      <3>2. <<"quote", "quote">> \in Word /\ <<v[i]>> \in Word
        <4>1. "quote" \in Sign
          BY DEF Sign
        <4> QED BY <3>1, <4>1, ShortIn DEF Word
      <3> QED BY <3>1, <3>2 DEF Pairs
    <2> QED BY <2>1
  <1>2. Len(v) \in Nat /\ DOMAIN v = 1..Len(v)
    BY DEF Word
  <1>3. Pairs(v) = [i \in 1..Len(v) |-> Pairs(v)[i]]
    BY <1>2 DEF Pairs
  <1> QED BY <1>1, <1>2, <1>3

FieldOk(f) == f.value \in Word /\ (f.quoted \/ Csv!Plain(f.value))

LEMMA FieldsOk == ASSUME Csv!CsvAssumption PROVE \A f \in CsvFields : FieldOk(f)
  <1>1. \A f \in CsvFields : Csv!FieldAssumption(f)
    BY DEF Csv!CsvAssumption
  <1>2. ASSUME NEW s \in Seq(STRING) PROVE s \in Seq(Sign)
    <2>1. Len(s) \in Nat /\ s = [i \in 1..Len(s) |-> s[i]] /\ \A i \in 1..Len(s) : s[i] \in STRING
      OBVIOUS
    <2>2. \A i \in 1..Len(s) : s[i] \in Sign
      BY <2>1 DEF Sign
    <2> QED BY <2>1, <2>2
  <1>3. ASSUME NEW f \in CsvFields PROVE FieldOk(f)
    <2>1. f.value \in Seq(STRING) /\ (f.quoted \/ Csv!Plain(f.value))
      BY <1>1 DEF Csv!FieldAssumption
    <2>2. f.value \in Seq(Sign)
      BY <1>2, <2>1
    <2> QED BY <2>1, <2>2 DEF FieldOk, Word
  <1> QED BY <1>3

\* A field in quotes, and where each letter of it is.
LEMMA WrittenIs1 ==
  ASSUME NEW f, FieldOk(f)
  PROVE  /\ Csv!Written(f) \in Word
         /\ ~f.quoted => Csv!Written(f) = f.value
         /\ f.quoted =>
              LET v == f.value
                  e == EndsOf(Pairs(v))
                  w == Csv!Written(f)
              IN /\ Laid(Pairs(v), e) /\ Len(w) = 2 + e[Len(v)] /\ w[1] = "quote"
                 /\ w[2 + e[Len(v)]] = "quote"
                 /\ \A m \in 0..(Len(v) - 1) :
                      /\ w[2 + e[m]] = v[m + 1]
                      /\ v[m + 1] = "quote" => w[3 + e[m]] = "quote" /\ e[m + 1] = e[m] + 2
                      /\ v[m + 1] # "quote" => e[m + 1] = e[m] + 1
  <1> DEFINE v == f.value
             e == EndsOf(Pairs(v))
             d == FlattenSeq(Pairs(v))
             w == Csv!Written(f)
  <1>1. v \in Word /\ Len(v) \in Nat /\ Pairs(v) \in Seq(Word) /\ Len(Pairs(v)) = Len(v)
    BY PairsIn DEF FieldOk, Word
  <1>2. ~f.quoted => w = v
    BY DEF Csv!Written
  <1>3. ASSUME f.quoted
        PROVE  /\ w \in Word /\ Laid(Pairs(v), e) /\ Len(w) = 2 + e[Len(v)] /\ w[1] = "quote"
               /\ w[2 + e[Len(v)]] = "quote"
               /\ \A m \in 0..(Len(v) - 1) :
                    /\ w[2 + e[m]] = v[m + 1]
                    /\ v[m + 1] = "quote" => w[3 + e[m]] = "quote" /\ e[m + 1] = e[m] + 2
                    /\ v[m + 1] # "quote" => e[m + 1] = e[m] + 1
    <2>1. Csv!Doubled(v) = d
      <3>1. Csv!Doubled(v) = Csv!FlattenSeq(Pairs(v))
        BY Zenon DEF Csv!Doubled, Pairs
      <3> QED BY <3>1, SameFlat
    <2>2. d \in Word /\ Laid(Pairs(v), e)
      <3> HIDE DEF v
      <3> QED BY <1>1, Flattened DEF Word
    <2>3. w = <<"quote">> \o d \o <<"quote">>
      BY <1>3, <2>1 DEF Csv!Written
    <2> HIDE DEF d, e, w, v
    <2>4. /\ w \in Word /\ Len(d) \in Nat /\ Len(w) = 2 + Len(d) /\ w[1] = "quote" /\ w[2 + Len(d)] = "quote"
          /\ \A i \in 1..Len(d) : w[1 + i] = d[i]
      <3> DEFINE o == <<"quote">> \o d
      <3>1. <<"quote">> \in Seq(Sign) /\ d \in Seq(Sign) /\ Len(d) \in Nat
        <4>1. "quote" \in Sign
          BY DEF Sign
        <4> QED BY <2>2, <4>1, ShortIn DEF Word
      <3>2. Len(<<"quote">>) = 1 /\ <<"quote">>[1] = "quote"
        OBVIOUS
      <3>3. /\ o \in Seq(Sign) /\ Len(o) = 1 + Len(d)
            /\ \A i \in 1..(1 + Len(d)) : o[i] = IF i <= 1 THEN <<"quote">>[i] ELSE d[i - 1]
        BY <3>1, <3>2, JoinedAt
      <3> HIDE DEF o
      <3>4. /\ w \in Seq(Sign) /\ Len(w) = 2 + Len(d)
            /\ \A i \in 1..(2 + Len(d)) : w[i] = IF i <= 1 + Len(d) THEN o[i] ELSE <<"quote">>[i - (1 + Len(d))]
        <4>1. w = o \o <<"quote">>
          BY <2>3 DEF o
        <4>2. /\ o \o <<"quote">> \in Seq(Sign) /\ Len(o \o <<"quote">>) = Len(o) + 1
              /\ \A i \in 1..(Len(o) + 1) :
                   (o \o <<"quote">>)[i] = IF i <= Len(o) THEN o[i] ELSE <<"quote">>[i - Len(o)]
          BY <3>1, <3>2, <3>3, JoinedAt
        <4> QED BY <3>1, <3>3, <4>1, <4>2
      <3>5. w[1] = "quote" /\ w[2 + Len(d)] = "quote"
        <4>1. 1 \in 1..(2 + Len(d)) /\ 1 \in 1..(1 + Len(d)) /\ 1 <= 1 + Len(d)
          BY <3>1
        <4>2. /\ 2 + Len(d) \in 1..(2 + Len(d)) /\ ~(2 + Len(d) <= 1 + Len(d))
              /\ (2 + Len(d)) - (1 + Len(d)) = 1
          BY <3>1
        <4>3. w[1] = o[1] /\ o[1] = "quote"
          BY <3>2, <3>3, <3>4, <4>1
        <4>4. w[2 + Len(d)] = <<"quote">>[1]
          BY <3>4, <4>2
        <4> QED BY <3>2, <4>3, <4>4
      <3>6. ASSUME NEW i \in 1..Len(d) PROVE w[1 + i] = d[i]
        <4>1. 1 + i \in 1..(2 + Len(d)) /\ 1 + i <= 1 + Len(d) /\ 1 + i \in 1..(1 + Len(d))
              /\ ~(1 + i <= 1) /\ (1 + i) - 1 = i
          BY <3>1
        <4>2. w[1 + i] = o[1 + i]
          BY <3>4, <4>1
        <4>3. o[1 + i] = d[(1 + i) - 1]
          BY <3>3, <4>1
        <4> QED BY <4>1, <4>2, <4>3
      <3> QED BY <3>1, <3>4, <3>5, <3>6 DEF Word
    <2>5. /\ e \in [0..Len(v) -> Nat] /\ e[Len(v)] = Len(d)
          /\ \A i \in 1..Len(v) :
               /\ e[i] = e[i - 1] + Len(Pairs(v)[i])
               /\ \A u \in 1..Len(Pairs(v)[i]) : d[e[i - 1] + u] = Pairs(v)[i][u]
      BY <1>1, <2>2 DEF Laid, d
    <2>6. \A i, k \in 0..Len(v) : i <= k => e[i] <= e[k]
      <3>1. \A i \in 1..Len(Pairs(v)) : Len(Pairs(v)[i]) \in Nat
        BY <1>1 DEF Word
      <3> QED BY <1>1, <2>2, <3>1, Ascending
    <2>7. ASSUME NEW m \in 0..(Len(v) - 1)
          PROVE  /\ w[2 + e[m]] = v[m + 1]
                 /\ v[m + 1] = "quote" => w[3 + e[m]] = "quote" /\ e[m + 1] = e[m] + 2
                 /\ v[m + 1] # "quote" => e[m + 1] = e[m] + 1
      <3> DEFINE i == m + 1
                 pair == Pairs(v)[i]
      <3>1. i \in 1..Len(v) /\ i - 1 = m /\ m \in 0..Len(v)
        BY <1>1
      <3>2. pair = IF v[i] = "quote" THEN <<"quote", "quote">> ELSE <<v[i]>>
        BY <1>1, <3>1 DEF Pairs, Word
      <3>3. /\ v[i] = "quote" => Len(pair) = 2 /\ pair[1] = "quote" /\ pair[2] = "quote"
            /\ v[i] # "quote" => Len(pair) = 1 /\ pair[1] = v[i]
        BY <3>2
      <3> HIDE DEF i, pair
      <3>4. e[i] = e[m] + Len(pair) /\ \A u \in 1..Len(pair) : d[e[m] + u] = pair[u]
        BY <2>5, <3>1 DEF pair
      <3>5. e[m] \in Nat /\ e[i] \in Nat /\ e[i] <= Len(d)
        <4> DEFINE n == Len(v)
        <4>1. n \in Nat /\ e \in [0..n -> Nat] /\ e[n] = Len(d)
          BY <1>1, <2>5
        <4>2. i \in 0..n /\ m \in 0..n /\ n \in 0..n /\ i <= n
          BY <3>1, <4>1
        <4>3. e[m] \in Nat /\ e[i] \in Nat
          BY <4>1, <4>2
        <4>4. e[i] <= e[n]
          BY <2>6, <4>2
        <4> QED BY <4>1, <4>3, <4>4
      <3>6. CASE v[i] = "quote"
        <4>1. d[e[m] + 1] = "quote" /\ d[e[m] + 2] = "quote" /\ e[i] = e[m] + 2
          <5>1. 1 \in 1..Len(pair) /\ 2 \in 1..Len(pair)
            BY <3>3, <3>6
          <5>2. d[e[m] + 1] = pair[1] /\ d[e[m] + 2] = pair[2]
            BY <3>4, <5>1
          <5> QED BY <3>3, <3>4, <3>6, <5>2
        <4>2. e[m] + 1 \in 1..Len(d) /\ e[m] + 2 \in 1..Len(d)
          BY <2>4, <3>5, <4>1
        <4>3. w[1 + (e[m] + 1)] = "quote" /\ w[1 + (e[m] + 2)] = "quote"
          BY <2>4, <4>1, <4>2
        <4>4. 1 + (e[m] + 1) = 2 + e[m] /\ 1 + (e[m] + 2) = 3 + e[m]
          BY <3>5
        <4> QED BY <3>6, <4>1, <4>3, <4>4 DEF i
      <3>7. CASE v[i] # "quote"
        <4>1. d[e[m] + 1] = v[i] /\ e[i] = e[m] + 1
          BY <3>3, <3>4, <3>7
        <4>2. e[m] + 1 \in 1..Len(d)
          BY <2>4, <3>5, <4>1
        <4>3. w[1 + (e[m] + 1)] = v[i]
          BY <2>4, <4>1, <4>2
        <4>4. 1 + (e[m] + 1) = 2 + e[m]
          BY <3>5
        <4> QED BY <3>7, <4>1, <4>3, <4>4 DEF i
      <3> QED BY <3>6, <3>7
    <2> QED BY <2>2, <2>4, <2>5, <2>7
  <1>4. w \in Word
    BY <1>1, <1>2, <1>3 DEF FieldOk
  <1> QED BY <1>2, <1>3, <1>4

Words == Seq(Word)

LEMMA TrimIn == ASSUME NEW v \in Word PROVE Csv!Trim(v) \in Word
  <1> DEFINE T == {i \in 1..Len(v) : v[i] # "space"}
  <1>1. Len(v) \in Nat
    BY DEF Word
  <1>2. CASE T = {}
    <2>1. Csv!Trim(v) = <<>>
      BY <1>2, TrimIs
    <2> QED BY <2>1 DEF Word
  <1>3. CASE T # {}
    <2> DEFINE s == Min(T)
               b == Max(T)
    <2>1. T \in SUBSET Nat /\ T \in SUBSET (1..Len(v)) /\ \A i : i \in T <=> i \in 1..Len(v) /\ v[i] # "space"
      OBVIOUS
    <2> HIDE DEF T
    <2>2. s \in T /\ (\A i \in T : s <= i) /\ b \in T /\ (\A i \in T : i <= b)
      BY <1>1, <1>3, <2>1, LeastOf, LastPlace
    <2> HIDE DEF s, b
    <2>3. /\ s \in 1..Len(v) /\ b \in 1..Len(v) /\ s <= b /\ v[s] # "space" /\ v[b] # "space"
      BY <2>1, <2>2
    <2>4. ASSUME NEW i \in 1..(s - 1) PROVE v[i] = "space"
      BY <1>1, <2>1, <2>2, <2>3
    <2>5. ASSUME NEW i \in (b + 1)..Len(v) PROVE v[i] = "space"
      BY <1>1, <2>1, <2>2, <2>3
    <2>6. Csv!Trim(v) = SubSeq(v, s, b)
      BY <2>3, <2>4, <2>5, TrimIs
    <2> QED BY <2>3, <2>6 DEF Word
  <1> QED BY <1>2, <1>3

LEMMA ValuesAre ==
  ASSUME \A f \in CsvFields : FieldOk(f), NEW r \in Rows1(CsvFields)
  PROVE  /\ Csv!Values(r) \in Words /\ Len(Csv!Values(r)) = Len(r)
         /\ \A k \in 1..Len(r) :
              Csv!Values(r)[k] = IF r[k].quoted THEN r[k].value ELSE Csv!Trim(r[k].value)
  <1>1. Len(r) \in Nat /\ DOMAIN r = 1..Len(r) /\ \A k \in 1..Len(r) : r[k] \in CsvFields
    BY DEF Rows1
  <1> DEFINE x(k) == IF r[k].quoted THEN r[k].value ELSE Csv!Trim(r[k].value)
  <1>2. ASSUME NEW k \in 1..Len(r) PROVE x(k) \in Word
    <2>1. r[k].value \in Word
      BY <1>1 DEF FieldOk
    <2>2. Csv!Trim(r[k].value) \in Word
      BY <2>1, TrimIn
    <2> QED BY <2>1, <2>2
  <1>3. Csv!Values(r) = [k \in 1..Len(r) |-> x(k)]
    BY <1>1 DEF Csv!Values
  <1> HIDE DEF x
  <1>4. Csv!Values(r) \in Words /\ Len(Csv!Values(r)) = Len(r) /\ \A k \in 1..Len(r) : Csv!Values(r)[k] = x(k)
    BY <1>1, <1>2, <1>3 DEF Words
  <1> QED BY <1>4 DEF x

LEMMA ShownGrows ==
  ASSUME given \in Seq(Rows1(CsvFields)), \A f \in CsvFields : FieldOk(f)
  PROVE  /\ Csv!Shown[0] = <<>>
         /\ \A n \in 1..Len(given) :
              Csv!Shown[n] = IF ~Csv!IsBlank(given[n])
                                  THEN Append(Csv!Shown[n - 1], Csv!Values(given[n]))
                                  ELSE Csv!Shown[n - 1]
         /\ \A n \in 0..Len(given) : Csv!Shown[n] \in Seq(Words)
  <1> DEFINE V == Seq(Words)
             h == [z \in Nat \X V |-> IF z[1] + 1 \in 1..Len(given) /\ ~Csv!IsBlank(given[z[1] + 1])
                                      THEN Append(z[2], Csv!Values(given[z[1] + 1])) ELSE z[2]]
  <1>1. h \in [Nat \X V -> V]
    <2>1. ASSUME NEW i \in Nat, NEW s \in V, i + 1 \in 1..Len(given)
          PROVE  Append(s, Csv!Values(given[i + 1])) \in V
      <3>1. Csv!Values(given[i + 1]) \in Words
        BY <2>1, ValuesAre
      <3> HIDE DEF Words
      <3> QED BY <3>1
    <2> HIDE DEF V
    <2> QED BY <2>1
  <1>2. CanFollow(V, <<>>, h)
    <2>1. <<>> \in V
      OBVIOUS
    <2> HIDE DEF h, V
    <2> QED BY <1>1, <2>1, RecursiveOnNat
  <1>3. PICK g \in [Nat -> V] : g[0] = <<>> /\ \A n \in Nat : g[n + 1] = h[<<n, g[n]>>]
    <2> HIDE DEF h, V
    <2> QED BY <1>2 DEF CanFollow
  <1> DEFINE Is(b) == b = [n \in 0..Len(given) |->
                             IF n = 0 THEN <<>>
                             ELSE IF ~Csv!IsBlank(given[n])
                                  THEN Append(b[n - 1], Csv!Values(given[n])) ELSE b[n - 1]]
             b0 == [n \in 0..Len(given) |-> g[n]]
             c == CHOOSE b : Is(b)
  <1>4. Is(b0)
    <2>1. ASSUME NEW n \in 0..Len(given), n # 0
          PROVE  g[n] = IF ~Csv!IsBlank(given[n]) THEN Append(g[n - 1], Csv!Values(given[n])) ELSE g[n - 1]
      <3> DEFINE j == n - 1
      <3>1. j \in Nat /\ n = j + 1 /\ j + 1 \in 1..Len(given)
        BY <2>1
      <3> HIDE DEF j
      <3>2. g[j + 1] = h[<<j, g[j]>>] /\ g[j] \in V
        <4> HIDE DEF h, V
        <4> QED BY <1>3, <3>1
      <3>3. g[j + 1] = IF ~Csv!IsBlank(given[j + 1]) THEN Append(g[j], Csv!Values(given[j + 1])) ELSE g[j]
        <4> HIDE DEF V
        <4> QED BY <3>1, <3>2
      <3> QED BY <3>1, <3>3 DEF j
    <2>2. \A n \in 0..Len(given) : n # 0 => n - 1 \in 0..Len(given)
      OBVIOUS
    <2>3. g[0] = <<>>
      BY <1>3
    <2> HIDE DEF h, V
    <2> QED BY <2>1, <2>2, <2>3
  <1>5. Is(c)
    <2> HIDE DEF Is, b0
    <2> QED BY <1>4
  <1>6. Csv!Shown = c
    BY DEF Csv!Shown
  <1> HIDE DEF c, b0, h
  <1>7. /\ c[0] = <<>>
        /\ \A n \in 1..Len(given) : c[n] = IF ~Csv!IsBlank(given[n])
                                          THEN Append(c[n - 1], Csv!Values(given[n])) ELSE c[n - 1]
    <2>1. Len(given) \in Nat
      OBVIOUS
    <2>2. ASSUME NEW n \in 0..Len(given)
          PROVE  c[n] = IF n = 0 THEN <<>>
                        ELSE IF ~Csv!IsBlank(given[n])
                             THEN Append(c[n - 1], Csv!Values(given[n])) ELSE c[n - 1]
      BY <1>5, Zenon
    <2>3. 0 \in 0..Len(given) /\ \A n \in 1..Len(given) : n \in 0..Len(given) /\ n # 0
      BY <2>1
    <2> QED BY <2>2, <2>3, Zenon
  <1>8. \A n \in 0..Len(given) : c[n] \in V
    <2> DEFINE T == {n \in Nat : n <= Len(given) => c[n] \in V}
    <2>1. 0 \in T
      <3>1. c[0] = <<>> /\ <<>> \in V
        BY <1>7
      <3> HIDE DEF V
      <3> QED BY <3>1
    <2>2. ASSUME NEW n \in Nat, n \in T PROVE n + 1 \in T
      <3>1. SUFFICES ASSUME n + 1 <= Len(given) PROVE c[n + 1] \in V
        OBVIOUS
      <3>2. n + 1 \in 1..Len(given) /\ (n + 1) - 1 = n /\ c[n] \in V
        BY <2>2, <3>1
      <3>3. c[n + 1] \in {Append(c[n], Csv!Values(given[n + 1])), c[n]}
        BY <1>7, <3>2
      <3>4. Csv!Values(given[n + 1]) \in Words
        <4>1. given[n + 1] \in Rows1(CsvFields)
          BY <3>2
        <4> QED BY <4>1, ValuesAre
      <3>5. Append(c[n], Csv!Values(given[n + 1])) \in V
        BY <3>2, <3>4
      <3> HIDE DEF V
      <3> QED BY <3>2, <3>3, <3>5
    <2> HIDE DEF T
    <2>3. \A n \in Nat : n \in T
      BY <2>1, <2>2, EveryNumber
    <2> QED BY <2>3 DEF T
  <1> QED BY <1>6, <1>7, <1>8

LEMMA ShownFirst ==
  ASSUME given \in Seq(Rows1(CsvFields)), \A f \in CsvFields : FieldOk(f), NEW i \in 0..Len(given)
  PROVE  Csv!IsPrefix(Csv!Shown[i], Csv!Expected)
  <1> DEFINE c == Csv!Shown
             n == Len(given)
  <1>1. /\ \A k \in 1..n : \/ c[k] = c[k - 1]
                           \/ Csv!Values(given[k]) \in Words /\ c[k] = Append(c[k - 1], Csv!Values(given[k]))
        /\ \A k \in 0..n : c[k] \in Seq(Words)
    <2>1. \A k \in 1..n : Csv!Values(given[k]) \in Words
      BY ValuesAre
    <2> QED BY <2>1, ShownGrows
  <1>2. n \in Nat /\ i \in Nat /\ i <= n
    OBVIOUS
  <1> DEFINE First(s, t) == Len(s) <= Len(t) /\ \A u \in 1..Len(s) : s[u] = t[u]
             T == {m \in Nat : i + m <= n => First(c[i], c[i + m])}
  <1> HIDE DEF c, n
  <1>3. 0 \in T
    <2>1. i + 0 = i /\ Len(c[i]) \in Nat
      BY <1>1, <1>2
    <2> QED BY <2>1
  <1>4. ASSUME NEW m \in Nat, m \in T PROVE m + 1 \in T
    <2>1. ASSUME i + (m + 1) <= n PROVE First(c[i], c[i + (m + 1)])
      <3> DEFINE k == i + (m + 1)
      <3>1. k \in 1..n /\ k - 1 = i + m /\ i + m <= n /\ i + m \in 0..n /\ i \in 0..n /\ k \in 0..n
        BY <1>2, <2>1
      <3>2. First(c[i], c[i + m])
        BY <1>4, <3>1
      <3> HIDE DEF k
      <3>3. c[i] \in Seq(Words) /\ c[i + m] \in Seq(Words)
        BY <1>1, <3>1
      <3>4. \/ c[k] = c[i + m]
            \/ \E x \in Words : c[k] = Append(c[i + m], x)
        BY <1>1, <3>1
      <3>5. ASSUME NEW s \in Seq(Words), NEW t \in Seq(Words), NEW x \in Words, First(s, t)
            PROVE  First(s, Append(t, x))
        <4>1. /\ Len(s) \in Nat /\ Len(t) \in Nat /\ Len(Append(t, x)) = Len(t) + 1
              /\ \A u \in 1..Len(t) : Append(t, x)[u] = t[u]
          OBVIOUS
        <4> QED BY <3>5, <4>1
      <3> HIDE DEF First
      <3> QED BY <3>2, <3>3, <3>4, <3>5 DEF k
    <2> QED BY <2>1
  <1> HIDE DEF T
  <1>5. \A m \in Nat : m \in T
    BY <1>3, <1>4, EveryNumber
  <1>6. First(c[i], c[n])
    <2>1. n - i \in Nat /\ i + (n - i) = n
      BY <1>2
    <2> DEFINE m == n - i
    <2> HIDE DEF m
    <2>2. i + m <= n => First(c[i], c[i + m])
      <3>1. m \in T
        BY <1>5, <2>1 DEF m
      <3> QED BY <3>1 DEF T
    <2>3. i + m = n /\ n <= n
      BY <1>2, <2>1 DEF m
    <2> QED BY <2>2, <2>3
  <1>7. c[i] \in Seq(Words) /\ c[n] \in Seq(Words)
    BY <1>1, <1>2
  <1>8. Csv!IsPrefix(c[i], c[n])
    <2> DEFINE s == c[i]
               t == c[n]
    <2>1. s \in Seq(Words) /\ t \in Seq(Words) /\ Len(s) \in Nat /\ Len(t) \in Nat
          /\ Len(s) <= Len(t) /\ \A u \in 1..Len(s) : s[u] = t[u]
      BY <1>6, <1>7
    <2> HIDE DEF s, t
    <2>2. SubSeq(s, 1, Len(s)) = SubSeq(t, 1, Len(s))
      <3>1. /\ SubSeq(s, 0 + 1, 0 + Len(s)) = [u \in 1..Len(s) |-> s[0 + u]]
            /\ SubSeq(t, 0 + 1, 0 + Len(s)) = [u \in 1..Len(s) |-> t[0 + u]]
        BY <2>1, PieceIs
      <3>2. 0 + 1 = 1 /\ 0 + Len(s) = Len(s) /\ \A u \in 1..Len(s) : 0 + u = u
        BY <2>1
      <3> QED BY <2>1, <3>1, <3>2
    <2> QED BY <2>1, <2>2 DEF Csv!IsPrefix, s, t
  <1> QED BY <1>8 DEF Csv!Expected, c, n

\* Where the k-th field of the i-th row begins; the file is made of fields and
\* what closes each.
RowEnds      == EndsOf(Lines(given))
FieldEnds(i) == EndsOf(Pieces(given[i]))
Beginning(i, k) == RowEnds[i - 1] + FieldEnds(i)[k - 1]
Place(i, k, t)  == i \in 1..Len(given) /\ k \in 1..Len(given[i]) /\ t \in 0..Len(Csv!Written(given[i][k]))

LEMMA PiecesIn ==
  ASSUME \A f \in CsvFields : FieldOk(f), NEW r \in Rows1(CsvFields)
  PROVE  /\ Pieces(r) \in Seq(Word) /\ Len(Pieces(r)) = Len(r) /\ Csv!Line(r) = FlattenSeq(Pieces(r))
         /\ Csv!Line(r) \in Word
         /\ \A k \in 1..Len(r) :
              /\ Len(Csv!Written(r[k])) \in Nat /\ Len(Pieces(r)[k]) = Len(Csv!Written(r[k])) + 1
              /\ \A t \in 1..Len(Csv!Written(r[k])) : Pieces(r)[k][t] = Csv!Written(r[k])[t]
              /\ Pieces(r)[k][Len(Csv!Written(r[k])) + 1] = Closing(r, k)
  <1>1. Len(r) \in Nat /\ DOMAIN r = 1..Len(r) /\ \A k \in 1..Len(r) : r[k] \in CsvFields
    BY DEF Rows1
  <1>2. ASSUME NEW k \in 1..Len(r)
        PROVE  /\ Pieces(r)[k] \in Word
               /\ Len(Csv!Written(r[k])) \in Nat /\ Len(Pieces(r)[k]) = Len(Csv!Written(r[k])) + 1
               /\ \A t \in 1..Len(Csv!Written(r[k])) : Pieces(r)[k][t] = Csv!Written(r[k])[t]
               /\ Pieces(r)[k][Len(Csv!Written(r[k])) + 1] = Closing(r, k)
    <2> DEFINE w == Csv!Written(r[k])
               z == Closing(r, k)
    <2>1. w \in Seq(Sign) /\ z \in Sign
      <3>1. w \in Word
        BY <1>1, WrittenIs1
      <3> QED BY <3>1 DEF Word, Sign, Closing
    <2>2. Pieces(r)[k] = w \o <<z>>
      BY <1>1 DEF Pieces
    <2> HIDE DEF w, z
    <2>3. /\ w \o <<z>> \in Seq(Sign) /\ Len(w) \in Nat /\ Len(w \o <<z>>) = Len(w) + 1
          /\ \A t \in 1..Len(w) : (w \o <<z>>)[t] = w[t]
          /\ (w \o <<z>>)[Len(w) + 1] = z
      BY <2>1
    <2> QED BY <2>2, <2>3 DEF w, z, Word
  <1>3. Pieces(r) \in Seq(Word) /\ Len(Pieces(r)) = Len(r)
    <2>1. Pieces(r) = [k \in 1..Len(r) |-> Pieces(r)[k]]
      BY <1>1 DEF Pieces
    <2>2. \A k \in 1..Len(r) : Pieces(r)[k] \in Word
      BY <1>2
    <2> QED BY <1>1, <2>1, <2>2
  <1>4. Csv!Line(r) = FlattenSeq(Pieces(r))
    <2>1. Csv!Line(r) = Csv!FlattenSeq(Pieces(r))
      BY Zenon DEF Csv!Line, Pieces, Closing
    <2> QED BY <2>1, SameFlat
  <1>5. Csv!Line(r) \in Word
    BY <1>3, <1>4, Flattened DEF Word
  <1> QED BY <1>2, <1>3, <1>4, <1>5

LEMMA LinesIn ==
  ASSUME \A f \in CsvFields : FieldOk(f), given \in Seq(Rows1(CsvFields))
  PROVE  /\ Lines(given) \in Seq(Word) /\ Len(Lines(given)) = Len(given)
         /\ Csv!File(given) = FlattenSeq(Lines(given)) /\ Csv!File(given) \in Word
         /\ \A i \in 1..Len(given) : Lines(given)[i] = Csv!Line(given[i])
  <1>1. Len(given) \in Nat /\ DOMAIN given = 1..Len(given) /\ \A i \in 1..Len(given) : given[i] \in Rows1(CsvFields)
    OBVIOUS
  <1>2. \A i \in 1..Len(given) : Lines(given)[i] = Csv!Line(given[i]) /\ Csv!Line(given[i]) \in Word
    BY <1>1, PiecesIn DEF Lines
  <1>3. Lines(given) \in Seq(Word) /\ Len(Lines(given)) = Len(given)
    <2>1. Lines(given) = [i \in 1..Len(given) |-> Lines(given)[i]]
      BY <1>1 DEF Lines
    <2> QED BY <1>1, <1>2, <2>1
  <1>4. Csv!File(given) = FlattenSeq(Lines(given))
    <2>1. Csv!File(given) = Csv!FlattenSeq(Lines(given))
      BY Zenon DEF Csv!File, Lines
    <2> QED BY <2>1, SameFlat
  <1> QED BY <1>2, <1>3, <1>4, Flattened DEF Word

LEMMA Begins ==
  ASSUME \A f \in CsvFields : FieldOk(f), given \in Seq(Rows1(CsvFields)), Len(given) > 0
  PROVE  /\ Len(Csv!File(given)) \in Nat /\ RowEnds \in [0..Len(given) -> Nat] /\ RowEnds[0] = 0
         /\ RowEnds[Len(given)] = Len(Csv!File(given))
         /\ \A i, k, t : Place(i, k, t) =>
              LET w == Csv!Written(given[i][k])
                  n == Beginning(i, k) + t + 1
              IN /\ given[i][k] \in CsvFields /\ Beginning(i, k) \in Nat /\ Beginning(i, 1) = RowEnds[i - 1]
                 /\ n \in 1..Len(Csv!File(given))
                 /\ t < Len(w) => Csv!File(given)[n] = w[t + 1] /\ n < Len(Csv!File(given))
                 /\ t = Len(w) => Csv!File(given)[n] = Closing(given[i], k)
                 /\ t = Len(w) /\ k < Len(given[i]) => n < Len(Csv!File(given)) /\ n = Beginning(i, k + 1)
                 /\ t = Len(w) /\ k = Len(given[i]) => n = RowEnds[i]
                 /\ i < Len(given) => n < Len(Csv!File(given))
  <1> DEFINE F == Csv!File(given)
  <1>1. /\ RowEnds \in [0..Len(given) -> Nat] /\ RowEnds[0] = 0 /\ RowEnds[Len(given)] = Len(F)
        /\ Len(given) \in Nat
        /\ \A i \in 1..Len(given) :
             /\ RowEnds[i] = RowEnds[i - 1] + Len(Csv!Line(given[i]))
             /\ \A u \in 1..Len(Csv!Line(given[i])) : F[RowEnds[i - 1] + u] = Csv!Line(given[i])[u]
    <2>1. Laid(Lines(given), RowEnds)
      BY LinesIn, Flattened DEF RowEnds, Word
    <2>2. Len(given) \in Nat
      OBVIOUS
    <2>3. /\ Len(Lines(given)) = Len(given) /\ F = FlattenSeq(Lines(given))
          /\ \A i \in 1..Len(given) : Lines(given)[i] = Csv!Line(given[i])
      BY LinesIn
    <2> HIDE DEF F
    <2>4. RowEnds \in [0..Len(given) -> Nat] /\ RowEnds[0] = 0 /\ RowEnds[Len(given)] = Len(F)
      BY <2>1, <2>3 DEF Laid
    <2>5. ASSUME NEW i \in 1..Len(given)
          PROVE  /\ RowEnds[i] = RowEnds[i - 1] + Len(Csv!Line(given[i]))
                 /\ \A u \in 1..Len(Csv!Line(given[i])) : F[RowEnds[i - 1] + u] = Csv!Line(given[i])[u]
      BY <2>1, <2>3 DEF Laid
    <2> QED BY <2>2, <2>4, <2>5
  <1>2. \A i, k \in 0..Len(given) : i <= k => RowEnds[i] <= RowEnds[k]
    <2>1. Laid(Lines(given), RowEnds)
      BY LinesIn, Flattened DEF RowEnds, Word
    <2>2. \A i \in 1..Len(given) : Len(Lines(given)[i]) \in Nat
      BY LinesIn DEF Word
    <2> QED BY <1>1, <2>1, <2>2, LinesIn, Ascending
  <1>3. Len(F) \in Nat
    BY LinesIn DEF Word
  <1>4. ASSUME NEW i, NEW k, NEW t, Place(i, k, t)
        PROVE  LET w == Csv!Written(given[i][k])
                   n == Beginning(i, k) + t + 1
               IN /\ given[i][k] \in CsvFields /\ Beginning(i, k) \in Nat /\ Beginning(i, 1) = RowEnds[i - 1]
                  /\ n \in 1..Len(F)
                  /\ t < Len(w) => F[n] = w[t + 1] /\ n < Len(F)
                  /\ t = Len(w) => F[n] = Closing(given[i], k)
                  /\ t = Len(w) /\ k < Len(given[i]) => n < Len(F) /\ n = Beginning(i, k + 1)
                  /\ t = Len(w) /\ k = Len(given[i]) => n = RowEnds[i]
                  /\ i < Len(given) => n < Len(F)
    <2> DEFINE r == given[i]
               w == Csv!Written(r[k])
               e == FieldEnds(i)
               b == RowEnds[i - 1]
               line == Csv!Line(r)
    <2>1. /\ i \in 1..Len(given) /\ k \in 1..Len(r) /\ t \in 0..Len(w)
          /\ r \in Rows1(CsvFields) /\ r[k] \in CsvFields /\ Len(r) \in Nat
      BY <1>4 DEF Place, Rows1
    <2>2. /\ Pieces(r) \in Seq(Word) /\ Len(Pieces(r)) = Len(r) /\ line = FlattenSeq(Pieces(r)) /\ line \in Word
          /\ \A j \in 1..Len(r) : Len(Pieces(r)[j]) = Len(Csv!Written(r[j])) + 1 /\ Len(Csv!Written(r[j])) \in Nat
          /\ Len(w) \in Nat /\ Len(Pieces(r)[k]) = Len(w) + 1
          /\ \A u \in 1..Len(w) : Pieces(r)[k][u] = w[u]
          /\ Pieces(r)[k][Len(w) + 1] = Closing(r, k)
      <3> HIDE DEF r
      <3> QED BY <2>1, PiecesIn
    <2> HIDE DEF w, r, line
    <2>3. Laid(Pieces(r), e)
      BY <2>2, Flattened DEF FieldEnds, r, Word
    <2>4. /\ e \in [0..Len(r) -> Nat] /\ e[0] = 0 /\ e[Len(r)] = Len(line)
          /\ e[k] = e[k - 1] + (Len(w) + 1)
          /\ \A u \in 1..(Len(w) + 1) : line[e[k - 1] + u] = Pieces(r)[k][u]
      BY <2>1, <2>2, <2>3 DEF Laid
    <2>5. \A j, l \in 0..Len(r) : j <= l => e[j] <= e[l]
      <3>1. \A j \in 1..Len(r) : Len(Pieces(r)[j]) \in Nat
        BY <2>2
      <3> QED BY <2>1, <2>2, <2>3, <3>1, Ascending
    <2>6. /\ b \in Nat /\ RowEnds[i] \in Nat /\ RowEnds[i] = b + Len(line) /\ Len(line) \in Nat
          /\ \A u \in 1..Len(line) : F[b + u] = line[u]
          /\ RowEnds[i] <= Len(F)
      <3>1. i - 1 \in 0..Len(given) /\ i \in 0..Len(given) /\ Len(given) \in 0..Len(given) /\ i <= Len(given)
        BY <1>1, <2>1
      <3>2. b \in Nat /\ RowEnds[i] \in Nat
        BY <1>1, <3>1
      <3>3. RowEnds[i] <= RowEnds[Len(given)]
        BY <1>2, <3>1
      <3>4. Len(line) \in Nat
        BY <2>2 DEF Word
      <3> QED BY <1>1, <2>1, <3>2, <3>3, <3>4 DEF line, r
    <2>7. /\ e[k - 1] \in Nat /\ e[k] \in Nat /\ e[k] <= Len(line) /\ t \in Nat /\ t <= Len(w)
          /\ k < Len(r) => e[k] < Len(line)
      <3>1. k - 1 \in 0..Len(r) /\ k \in 0..Len(r) /\ Len(r) \in 0..Len(r) /\ k <= Len(r)
        BY <2>1
      <3>2. e[k - 1] \in Nat /\ e[k] \in Nat /\ e[k] <= Len(line) /\ t \in Nat /\ t <= Len(w)
        <4> HIDE DEF e, b
        <4>1. e[k - 1] \in Nat /\ e[k] \in Nat
          BY <2>4, <3>1
        <4>2. e[k] <= e[Len(r)]
          BY <2>5, <3>1
        <4>3. t \in Nat /\ t <= Len(w)
          BY <2>1, <2>2
        <4> QED BY <2>4, <4>1, <4>2, <4>3
      <3>3. ASSUME k < Len(r) PROVE e[k] < Len(line)
        <4> DEFINE j == k + 1
        <4>1. j \in 1..Len(r) /\ j - 1 = k /\ j \in 0..Len(r) /\ j <= Len(r)
          BY <2>1, <3>3
        <4> HIDE DEF j
        <4>2. e[j] = e[j - 1] + Len(Pieces(r)[j]) /\ Len(Pieces(r)[j]) > 0 /\ Len(Pieces(r)[j]) \in Nat
          BY <2>2, <2>3, <4>1 DEF Laid
        <4>3. e[j] <= Len(line) /\ e[j] \in Nat
          BY <2>4, <2>5, <3>1, <4>1
        <4>4. Len(line) \in Nat
          BY <2>6
        <4> QED BY <3>2, <4>1, <4>2, <4>3, <4>4
      <3> QED BY <3>2, <3>3
    <2> DEFINE u == e[k - 1] + (t + 1)
    <2>8. /\ u \in 1..Len(line) /\ u <= e[k] /\ (t < Len(w) => u < e[k]) /\ (t = Len(w) => u = e[k])
          /\ t + 1 \in 1..(Len(w) + 1)
      <3> DEFINE x == e[k - 1]
                 y == e[k]
                 z == Len(line)
                 m == Len(w)
      <3>1. /\ x \in Nat /\ y \in Nat /\ z \in Nat /\ m \in Nat /\ t \in Nat /\ t <= m /\ y <= z
            /\ y = x + (m + 1)
        <4> HIDE DEF e
        <4> QED BY <2>2, <2>4, <2>6, <2>7
      <3> HIDE DEF e, x, y, z, m
      <3>2. /\ x + (t + 1) \in 1..z /\ x + (t + 1) <= y /\ (t < m => x + (t + 1) < y)
            /\ (t = m => x + (t + 1) = y) /\ t + 1 \in 1..(m + 1)
        BY <3>1
      <3> QED BY <3>2 DEF x, y, z, m
    <2>9. line[u] = Pieces(r)[k][t + 1]
      BY <2>4, <2>8
    <2>10. Beginning(i, k) = b + e[k - 1] /\ Beginning(i, k) + t + 1 = b + u
      <3>1. Beginning(i, k) = b + e[k - 1]
        BY DEF Beginning
      <3> DEFINE x == e[k - 1]
      <3>2. x \in Nat /\ b \in Nat /\ t \in Nat /\ u = x + (t + 1) /\ Beginning(i, k) = b + x
        <4> HIDE DEF e
        <4> QED BY <2>6, <2>7, <3>1
      <3> HIDE DEF x, b, u, e
      <3> QED BY <3>2 DEF x
    <2>11. F[b + u] = Pieces(r)[k][t + 1]
      <3> HIDE DEF u
      <3> QED BY <2>6, <2>8, <2>9
    <2>12. /\ Beginning(i, k) \in Nat /\ Beginning(i, 1) = b
      <3>1. 1 - 1 = 0 /\ b + 0 = b
        BY <2>6
      <3>2. Beginning(i, 1) = b
        BY <2>4, <3>1 DEF Beginning
      <3> DEFINE x == e[k - 1]
      <3>3. x \in Nat /\ b \in Nat /\ Beginning(i, k) = b + x
        <4> HIDE DEF e, b
        <4> QED BY <2>6, <2>7, <2>10
      <3> HIDE DEF x, b
      <3>4. Beginning(i, k) \in Nat
        BY <3>3
      <3> QED BY <3>2, <3>4
    <2>13. /\ b + u \in 1..Len(F) /\ (t < Len(w) => b + u < Len(F))
           /\ k < Len(r) => b + u < Len(F)
      <3> DEFINE x == e[k]
                 z == Len(line)
                 g == Len(F)
      <3>1. b \in Nat /\ z \in Nat /\ g \in Nat /\ b + z <= g
        <4> HIDE DEF e, u, b
        <4> QED BY <1>3, <2>6
      <3>2. u \in 1..z /\ x \in Nat /\ x <= z /\ u <= x /\ (t < Len(w) => u < x)
            /\ (k < Len(r) => x < z)
        <4> HIDE DEF e, u, b
        <4> QED BY <2>7, <2>8
      <3> HIDE DEF x, z, g, u, b, e
      <3>3. b + u \in 1..g
        BY <3>1, <3>2
      <3>4. u < x => b + u < g
        BY <3>1, <3>2
      <3>5. x < z => b + u < g
        BY <3>1, <3>2
      <3> QED BY <3>2, <3>3, <3>4, <3>5 DEF g
    <2>14. t < Len(w) => F[b + u] = w[t + 1]
      <3>1. t < Len(w) => t + 1 \in 1..Len(w)
        BY <2>2, <2>7
      <3> HIDE DEF u
      <3> QED BY <2>2, <2>11, <3>1
    <2>15. t = Len(w) => F[b + u] = Closing(r, k)
      <3> HIDE DEF u
      <3> QED BY <2>2, <2>11
    <2>16. t = Len(w) /\ k < Len(r) => b + u = Beginning(i, k + 1)
      <3>1. (k + 1) - 1 = k
        BY <2>1
      <3>2. Beginning(i, k + 1) = b + e[k]
        BY <3>1 DEF Beginning
      <3> HIDE DEF u
      <3> QED BY <2>8, <3>2
    <2>17. t = Len(w) /\ k = Len(r) => b + u = RowEnds[i]
      <3> HIDE DEF u
      <3> QED BY <2>4, <2>6, <2>8
    <2>18. i < Len(given) => b + u < Len(F)
      <3>1. ASSUME i < Len(given) PROVE RowEnds[i] < Len(F)
        <4> DEFINE j == i + 1
        <4>1. j \in 1..Len(given) /\ j - 1 = i /\ j \in 0..Len(given) /\ j <= Len(given) /\ Len(given) \in 0..Len(given)
          BY <1>1, <2>1, <3>1
        <4> HIDE DEF j
        <4>2. RowEnds[j] = RowEnds[j - 1] + Len(Csv!Line(given[j]))
          BY <1>1, <4>1
        <4>3. Len(Csv!Line(given[j])) > 0 /\ Len(Csv!Line(given[j])) \in Nat
          <5> DEFINE q == given[j]
          <5>1. q \in Rows1(CsvFields)
            BY <4>1
          <5>2. Len(q) \in Nat /\ Len(q) > 0
            BY <5>1 DEF Rows1
          <5> HIDE DEF q
          <5>3. /\ Pieces(q) \in Seq(Word) /\ Len(Pieces(q)) = Len(q) /\ Csv!Line(q) = FlattenSeq(Pieces(q))
                /\ Csv!Line(q) \in Word /\ Len(Pieces(q)[1]) = Len(Csv!Written(q[1])) + 1 /\ Len(Csv!Written(q[1])) \in Nat
                /\ \A l \in 1..Len(q) : Len(Pieces(q)[l]) = Len(Csv!Written(q[l])) + 1 /\ Len(Csv!Written(q[l])) \in Nat
            BY <5>1, <5>2, PiecesIn
          <5> DEFINE d == EndsOf(Pieces(q))
          <5>4. Laid(Pieces(q), d)
            BY <5>3, Flattened DEF Word
          <5>5. d[1] <= d[Len(q)]
            <6>1. \A l \in 1..Len(q) : Len(Pieces(q)[l]) \in Nat
              BY <5>3
            <6>2. 1 \in 0..Len(q) /\ Len(q) \in 0..Len(q) /\ 1 <= Len(q)
              BY <5>2
            <6> QED BY <5>2, <5>3, <5>4, <6>1, <6>2, Ascending
          <5>6. d[1] = 0 + Len(Pieces(q)[1]) /\ d[Len(q)] = Len(Csv!Line(q)) /\ d[1] \in Nat
            <6>1. 1 \in 1..Len(q) /\ 1 - 1 = 0
              BY <5>2
            <6> HIDE DEF d
            <6> QED BY <5>2, <5>3, <5>4, <6>1 DEF Laid
          <5>7. Len(Csv!Line(q)) \in Nat
            BY <5>3 DEF Word
          <5> HIDE DEF d
          <5>8. Len(Csv!Line(q)) > 0
            BY <5>3, <5>5, <5>6, <5>7
          <5> QED BY <5>7, <5>8 DEF q
        <4>4. RowEnds[j] <= RowEnds[Len(given)] /\ RowEnds[j] \in Nat
          BY <1>1, <1>2, <4>1
        <4> DEFINE x == Len(Csv!Line(given[j]))
        <4>5. /\ RowEnds[j] = RowEnds[i] + x /\ x \in Nat /\ x > 0 /\ RowEnds[i] \in Nat
              /\ RowEnds[j] \in Nat /\ RowEnds[j] <= Len(F)
          <5> HIDE DEF b, F
          <5> QED BY <1>1, <2>6, <4>1, <4>2, <4>3, <4>4
        <4> HIDE DEF x, F, b
        <4> QED BY <1>3, <4>5
      <3> HIDE DEF u
      <3> QED BY <1>3, <2>6, <2>7, <2>8, <3>1
    <2> HIDE DEF u, e, b
    <2> QED BY <2>1, <2>10, <2>12, <2>13, <2>14, <2>15, <2>16, <2>17, <2>18 DEF r, w, b
  <1> QED BY <1>1, <1>3, <1>4

\* The parser's state.
States  == {"ROW_NOT_BEGUN", "FIELD_NOT_BEGUN", "FIELD_BEGUN", "FIELD_MIGHT_HAVE_ENDED"}
Parsers == [pstate : States, quoted : BOOLEAN, spaces : Nat, pos : Nat]
IsFresh(s, state) == s \in Parsers /\ s.pstate = state /\ ~s.quoted /\ s.spaces = 0 /\ s.pos = 0
FirstState(k)     == IF k = 1 THEN "ROW_NOT_BEGUN" ELSE "FIELD_NOT_BEGUN"

\* What a character does.
Stays == lstate' = lstate /\ buf' = buf /\ row' = row /\ parsed' = parsed
Turns(q) ==
  /\ lstate' \in Parsers /\ lstate'.pstate = "FIELD_BEGUN" /\ lstate'.spaces = lstate.spaces
  /\ lstate'.pos = lstate.pos /\ lstate'.quoted = q /\ buf' = buf /\ row' = row /\ parsed' = parsed
Keeps(state, n, c) ==
  /\ lstate' \in Parsers /\ lstate'.pstate = state /\ lstate'.spaces = n
  /\ lstate'.pos = lstate.pos + 1 /\ lstate'.quoted = lstate.quoted
  /\ buf' \in Word /\ Len(buf') = lstate.pos + 1 /\ buf'[lstate.pos + 1] = c
  /\ \A j \in 1..lstate.pos : buf'[j] = buf[j]
  /\ row' = row /\ parsed' = parsed
Submits(n) ==
  /\ row' = Append(row, Csv!Field(lstate, n)) /\ IsFresh(lstate', "FIELD_NOT_BEGUN")
  /\ buf' = buf /\ parsed' = parsed
SubmitsRow(n) ==
  /\ parsed' = Append(parsed, Append(row, Csv!Field(lstate, n))) /\ row' = <<>>
  /\ IsFresh(lstate', "ROW_NOT_BEGUN") /\ buf' = buf

LEMMA FreshIs ==
  ASSUME NEW state \in States
  PROVE  IsFresh(Csv!Fresh(state), state)
  <1>1. FALSE \in BOOLEAN /\ 0 \in Nat
    OBVIOUS
  <1>2. Csv!Fresh(state) = [pstate |-> state, quoted |-> FALSE, spaces |-> 0, pos |-> 0]
    BY DEF Csv!Fresh
  <1>3. ASSUME NEW q \in BOOLEAN, NEW n \in Nat
        PROVE  LET s == [pstate |-> state, quoted |-> q, spaces |-> n, pos |-> n]
               IN s \in Parsers /\ s.pstate = state /\ s.quoted = q /\ s.spaces = n /\ s.pos = n
    BY DEF Parsers
  <1> DEFINE s == Csv!Fresh(state)
  <1>4. s \in Parsers /\ s.pstate = state /\ s.quoted = FALSE /\ s.spaces = 0 /\ s.pos = 0
    <2> HIDE <1>3
    <2> DEFINE q == FALSE
               n == 0
    <2>1. q \in BOOLEAN /\ n \in Nat /\ s = [pstate |-> state, quoted |-> q, spaces |-> n, pos |-> n]
      BY <1>1, <1>2
    <2>2. q = FALSE /\ n = 0
      OBVIOUS
    <2> HIDE DEF q, n, s
    <2>3. s \in Parsers /\ s.pstate = state /\ s.quoted = q /\ s.spaces = n /\ s.pos = n
      BY <1>3, <2>1
    <2> QED BY <2>2, <2>3
  <1> HIDE DEF s
  <1>5. ~s.quoted
    BY <1>4
  <1> QED BY <1>4, <1>5 DEF IsFresh, s

LEMMA KeepIs ==
  ASSUME NEW state \in States, NEW n \in Nat, lstate \in Parsers, buf \in Word, lstate.pos <= Len(buf),
         text[next] \in Sign, Csv!Keep(state, n)
  PROVE  Keeps(state, n, text[next])
  <1> DEFINE c == text[next]
             z == SubSeq(buf, 1, lstate.pos)
             m == lstate.pos
  <1>1. /\ buf' = Append(z, c) /\ row' = row /\ parsed' = parsed
        /\ lstate' = [lstate EXCEPT !.pos = @ + 1, !.pstate = state, !.spaces = n]
    BY DEF Csv!Keep, Csv!Char, Csv!output
  <1>2. m \in Nat /\ buf \in Seq(Sign) /\ m <= Len(buf) /\ Len(buf) \in Nat
    BY DEF Parsers, Word
  <1>3. /\ lstate' \in Parsers /\ lstate'.pstate = state /\ lstate'.spaces = n
        /\ lstate'.pos = m + 1 /\ lstate'.quoted = lstate.quoted
    <2> DEFINE x == lstate.pos + 1
    <2>1. x \in Nat /\ lstate' = [lstate EXCEPT !.pos = x, !.pstate = state, !.spaces = n]
      BY <1>1 DEF Parsers
    <2> HIDE DEF x
    <2>2. /\ lstate' \in Parsers /\ lstate'.pstate = state /\ lstate'.spaces = n
          /\ lstate'.pos = x /\ lstate'.quoted = lstate.quoted
      BY <2>1 DEF Parsers
    <2> QED BY <2>2 DEF x
  <1> HIDE DEF c, z, m
  <1>4. z \in Seq(Sign) /\ Len(z) = m /\ \A j \in 1..m : z[j] = buf[j]
    <2>1. SubSeq(buf, 0 + 1, 0 + m) = [j \in 1..m |-> buf[0 + j]]
      BY <1>2, PieceIs
    <2>2. 0 + 1 = 1 /\ 0 + m = m /\ \A j \in 1..m : 0 + j = j /\ buf[j] \in Sign
      BY <1>2
    <2>3. z = [j \in 1..m |-> buf[j]]
      BY <2>1, <2>2 DEF z, m
    <2> QED BY <1>2, <2>2, <2>3
  <1>5. /\ buf' \in Seq(Sign) /\ Len(buf') = m + 1 /\ buf'[m + 1] = c
        /\ \A j \in 1..m : buf'[j] = buf[j]
    <2>1. c \in Sign
      BY DEF c
    <2>2. /\ Append(z, c) \in Seq(Sign) /\ Len(Append(z, c)) = m + 1 /\ Append(z, c)[m + 1] = c
          /\ \A j \in 1..m : Append(z, c)[j] = z[j]
      BY <1>2, <1>4, <2>1
    <2> QED BY <1>1, <1>4, <2>2
  <1> QED BY <1>1, <1>3, <1>5 DEF Keeps, Word, c, m

LEMMA TurnsIs ==
  ASSUME NEW q \in BOOLEAN, lstate \in Parsers,
         Csv!Becomes([lstate EXCEPT !.pstate = "FIELD_BEGUN", !.quoted = q])
  PROVE  Turns(q)
  <1>1. lstate' = [lstate EXCEPT !.pstate = "FIELD_BEGUN", !.quoted = q] /\ buf' = buf /\ row' = row /\ parsed' = parsed
    BY DEF Csv!Becomes, Csv!output
  <1> QED BY <1>1 DEF Parsers, States, Turns

LEMMA SubmitIs ==
  ASSUME NEW n
  PROVE  (Csv!SubmitField(n) => Submits(n)) /\ (Csv!SubmitRow(lstate, n) => SubmitsRow(n))
  <1>1. IsFresh(Csv!Fresh("FIELD_NOT_BEGUN"), "FIELD_NOT_BEGUN") /\ IsFresh(Csv!Fresh("ROW_NOT_BEGUN"), "ROW_NOT_BEGUN")
    BY FreshIs DEF States
  <1>2. ASSUME Csv!SubmitField(n) PROVE Submits(n)
    <2>1. /\ row' = Append(row, Csv!Field(lstate, n)) /\ lstate' = Csv!Fresh("FIELD_NOT_BEGUN")
          /\ buf' = buf /\ parsed' = parsed
      BY <1>2 DEF Csv!SubmitField
    <2> QED BY <1>1, <2>1 DEF Submits
  <1>3. ASSUME Csv!SubmitRow(lstate, n) PROVE SubmitsRow(n)
    <2>1. /\ parsed' = Append(parsed, Append(row, Csv!Field(lstate, n))) /\ row' = <<>>
          /\ lstate' = Csv!Fresh("ROW_NOT_BEGUN") /\ buf' = buf
      BY <1>3 DEF Csv!SubmitRow
    <2> QED BY <1>1, <2>1 DEF SubmitsRow
  <1> QED BY <1>2, <1>3

\* What each state does with each character.
OtherSign(c) == c \notin {"quote", "comma", "lf", "space"}
Reads(c) ==
  /\ lstate.pstate \in {"ROW_NOT_BEGUN", "FIELD_NOT_BEGUN"} =>
       /\ c = "space" => Stays
       /\ c = "lf" /\ lstate.pstate = "FIELD_NOT_BEGUN" => SubmitsRow(lstate.pos)
       /\ c = "lf" /\ lstate.pstate = "ROW_NOT_BEGUN" => Stays
       /\ c = "comma" => Submits(lstate.pos)
       /\ c = "quote" => Turns(TRUE)
       /\ OtherSign(c) => Keeps("FIELD_BEGUN", lstate.spaces, c)
  /\ lstate.pstate = "FIELD_BEGUN" /\ lstate.quoted =>
       /\ c = "quote" => Keeps("FIELD_MIGHT_HAVE_ENDED", lstate.spaces, c)
       /\ c = "comma" \/ c = "lf" => Keeps("FIELD_BEGUN", lstate.spaces, c)
       /\ c = "space" \/ OtherSign(c) => Keeps("FIELD_BEGUN", 0, c)
  /\ lstate.pstate = "FIELD_BEGUN" /\ ~lstate.quoted =>
       /\ c = "quote" \/ OtherSign(c) => Keeps("FIELD_BEGUN", 0, c)
       /\ c = "space" => Keeps("FIELD_BEGUN", lstate.spaces + 1, c)
       /\ c = "comma" => Submits(lstate.pos)
       /\ c = "lf" => SubmitsRow(lstate.pos)
  /\ lstate.pstate = "FIELD_MIGHT_HAVE_ENDED" =>
       /\ c = "comma" => Submits(lstate.pos - lstate.spaces - 1)
       /\ c = "lf" => SubmitsRow(lstate.pos - lstate.spaces - 1)
       /\ c = "quote" /\ lstate.spaces = 0 => Turns(lstate.quoted)

LEMMA ParseReads ==
  ASSUME lstate \in Parsers, buf \in Word, lstate.pos <= Len(buf), text[next] \in Sign,
         Csv!NotBegun \/ Csv!Begun \/ Csv!MightHaveEnded
  PROVE  Reads(text[next])
  <1> DEFINE c == text[next]
             ps == lstate.pstate
             n == lstate.spaces
  <1>1. Csv!Char = c
    BY DEF Csv!Char
  <1>2. /\ Csv!IsSpace <=> c = "space"
        /\ Csv!IsTerm <=> c = "lf"
        /\ Csv!IsLetter <=> OtherSign(c)
    BY <1>1 DEF Csv!IsSpace, Csv!IsTerm, Csv!IsLetter, OtherSign
  <1>3. Csv!Skip <=> Stays
    BY DEF Csv!Skip, Stays, Csv!output
  <1>4. n \in Nat /\ n + 1 \in Nat /\ 0 \in Nat
    BY DEF Parsers
  <1>5. \A state \in States, m \in Nat : Csv!Keep(state, m) => Keeps(state, m, c)
    BY KeepIs
  <1>6. "FIELD_BEGUN" \in States /\ "FIELD_MIGHT_HAVE_ENDED" \in States
    BY DEF States
  <1>7. Csv!Becomes([lstate EXCEPT !.pstate = "FIELD_BEGUN", !.quoted = TRUE]) => Turns(TRUE)
    <2>1. TRUE \in BOOLEAN
      OBVIOUS
    <2> QED BY Zenon, <2>1, TurnsIs
  <1>8. Csv!Becomes([lstate EXCEPT !.pstate = "FIELD_BEGUN"]) => Turns(lstate.quoted)
    <2>1. lstate.quoted \in BOOLEAN
      BY DEF Parsers
    <2>2. [lstate EXCEPT !.pstate = "FIELD_BEGUN"] =
            [lstate EXCEPT !.pstate = "FIELD_BEGUN", !.quoted = lstate.quoted]
      BY DEF Parsers
    <2> QED BY <2>1, <2>2, TurnsIs
  <1>9. \A m : (Csv!SubmitField(m) => Submits(m)) /\ (Csv!SubmitRow(lstate, m) => SubmitsRow(m))
    BY SubmitIs
  <1> HIDE DEF c
  <1>10. CASE Csv!NotBegun
    <2> DEFINE begins == Csv!Becomes([lstate EXCEPT !.pstate = "FIELD_BEGUN", !.quoted = TRUE])
    <2>1. /\ ps \in {"ROW_NOT_BEGUN", "FIELD_NOT_BEGUN"}
          /\ \/ c = "space" /\ Stays
             \/ c = "lf" /\ ps = "FIELD_NOT_BEGUN" /\ Csv!SubmitRow(lstate, lstate.pos)
             \/ c = "lf" /\ ps = "ROW_NOT_BEGUN" /\ Stays
             \/ c = "comma" /\ Csv!SubmitField(lstate.pos)
             \/ c = "quote" /\ begins
             \/ OtherSign(c) /\ Csv!Keep("FIELD_BEGUN", n)
      BY Zenon, <1>1, <1>2, <1>3, <1>10 DEF Csv!NotBegun
    <2>2. begins => Turns(TRUE)
      BY <1>7
    <2> HIDE DEF begins
    <2>3. /\ ps \in {"ROW_NOT_BEGUN", "FIELD_NOT_BEGUN"}
          /\ \/ c = "space" /\ Stays
             \/ c = "lf" /\ ps = "FIELD_NOT_BEGUN" /\ SubmitsRow(lstate.pos)
             \/ c = "lf" /\ ps = "ROW_NOT_BEGUN" /\ Stays
             \/ c = "comma" /\ Submits(lstate.pos)
             \/ c = "quote" /\ Turns(TRUE)
             \/ OtherSign(c) /\ Keeps("FIELD_BEGUN", n, c)
      BY <2>1, <2>2, <1>4, <1>5, <1>6, <1>9
    <2> QED BY <2>3 DEF Reads, OtherSign, c
  <1>11. CASE Csv!Begun
    <2>1. /\ ps = "FIELD_BEGUN"
          /\ \/ c = "quote" /\ lstate.quoted /\ Csv!Keep("FIELD_MIGHT_HAVE_ENDED", n)
             \/ c = "quote" /\ ~lstate.quoted /\ Csv!Keep("FIELD_BEGUN", 0)
             \/ c = "comma" /\ lstate.quoted /\ Csv!Keep("FIELD_BEGUN", n)
             \/ c = "comma" /\ ~lstate.quoted /\ Csv!SubmitField(lstate.pos)
             \/ c = "lf" /\ lstate.quoted /\ Csv!Keep("FIELD_BEGUN", n)
             \/ c = "lf" /\ ~lstate.quoted /\ Csv!SubmitRow(lstate, lstate.pos)
             \/ c = "space" /\ ~lstate.quoted /\ Csv!Keep("FIELD_BEGUN", n + 1)
             \/ c = "space" /\ lstate.quoted /\ Csv!Keep("FIELD_BEGUN", 0)
             \/ OtherSign(c) /\ Csv!Keep("FIELD_BEGUN", 0)
      BY Zenon, <1>1, <1>2, <1>11 DEF Csv!Begun
    <2>2. /\ ps = "FIELD_BEGUN"
          /\ \/ c = "quote" /\ lstate.quoted /\ Keeps("FIELD_MIGHT_HAVE_ENDED", n, c)
             \/ c = "quote" /\ ~lstate.quoted /\ Keeps("FIELD_BEGUN", 0, c)
             \/ c = "comma" /\ lstate.quoted /\ Keeps("FIELD_BEGUN", n, c)
             \/ c = "comma" /\ ~lstate.quoted /\ Submits(lstate.pos)
             \/ c = "lf" /\ lstate.quoted /\ Keeps("FIELD_BEGUN", n, c)
             \/ c = "lf" /\ ~lstate.quoted /\ SubmitsRow(lstate.pos)
             \/ c = "space" /\ ~lstate.quoted /\ Keeps("FIELD_BEGUN", n + 1, c)
             \/ c = "space" /\ lstate.quoted /\ Keeps("FIELD_BEGUN", 0, c)
             \/ OtherSign(c) /\ Keeps("FIELD_BEGUN", 0, c)
      BY <2>1, <1>4, <1>5, <1>6, <1>9
    <2> QED BY <2>2 DEF Reads, OtherSign, c
  <1>12. CASE Csv!MightHaveEnded
    <2> DEFINE ends == Csv!Becomes([lstate EXCEPT !.pstate = "FIELD_BEGUN"])
    <2>1. /\ ps = "FIELD_MIGHT_HAVE_ENDED"
          /\ \/ c = "comma" /\ Csv!SubmitField(lstate.pos - n - 1)
             \/ c = "lf" /\ Csv!SubmitRow(lstate, lstate.pos - n - 1)
             \/ c = "space"
             \/ c = "quote" /\ n = 0 /\ ends
             \/ c = "quote" /\ n > 0
             \/ OtherSign(c)
      BY Zenon, <1>1, <1>2, <1>12 DEF Csv!MightHaveEnded
    <2>2. ends => Turns(lstate.quoted)
      BY <1>8
    <2> HIDE DEF ends
    <2>3. n > 0 => n # 0
      BY <1>4
    <2>4. /\ ps = "FIELD_MIGHT_HAVE_ENDED"
          /\ \/ c = "comma" /\ Submits(lstate.pos - n - 1)
             \/ c = "lf" /\ SubmitsRow(lstate.pos - n - 1)
             \/ c = "space"
             \/ c = "quote" /\ n = 0 /\ Turns(lstate.quoted)
             \/ c = "quote" /\ n # 0
             \/ OtherSign(c)
      BY <2>1, <2>2, <2>3, <1>9
    <2> QED BY <2>4 DEF Reads, OtherSign, c
  <1> QED BY <1>10, <1>11, <1>12

\* What the parser has of a field after t characters of it.
Same(b, n, v, a) == \A j \in 1..n : b[j] = v[a + j]
BareFrom(v, a, t, s, b) ==
  /\ v[a] # "space" /\ \A j \in 1..(a - 1) : v[j] = "space"
  /\ s.pstate = "FIELD_BEGUN" /\ ~s.quoted /\ s.pos = t - (a - 1)
  /\ s.spaces <= t - a /\ v[t - s.spaces] # "space"
  /\ \A j \in (t - s.spaces + 1)..t : v[j] = "space"
  /\ Same(b, s.pos, v, a - 1)
BareAt(v, k, t, s, b) ==
  \/ IsFresh(s, FirstState(k)) /\ \A j \in 1..t : v[j] = "space"
  \/ \E a \in 1..t : BareFrom(v, a, t, s, b)
InQuotes(v, m, t, s, b) ==
  /\ s.quoted /\ s.spaces = 0 /\ Same(b, m, v, 0)
  /\ \/ t = 1 + EndsOf(Pairs(v))[m] /\ s.pstate = "FIELD_BEGUN" /\ s.pos = m
     \/ /\ t = 2 + EndsOf(Pairs(v))[m] /\ s.pstate = "FIELD_MIGHT_HAVE_ENDED" /\ s.pos = m + 1
        /\ b[m + 1] = "quote" /\ (m < Len(v) => v[m + 1] = "quote")
QuotedAt(v, k, t, s, b) ==
  \/ t = 0 /\ IsFresh(s, FirstState(k))
  \/ \E m \in 0..Len(v) : InQuotes(v, m, t, s, b)
FieldAt(f, k, t, s, b) ==
  /\ f.quoted => QuotedAt(f.value, k, t, s, b)
  /\ ~f.quoted => BareAt(f.value, k, t, s, b)

LEMMA SignIs == ASSUME NEW c PROVE c \in {"quote", "comma", "lf", "space"} \/ OtherSign(c)
  BY DEF OtherSign

LEMMA SameMore ==
  ASSUME NEW v, NEW a \in Nat, NEW state, NEW n, NEW c, lstate \in Parsers, Keeps(state, n, c),
         Same(buf, lstate.pos, v, a), v[a + (lstate.pos + 1)] = c
  PROVE  Same(buf', lstate'.pos, v, a)
  <1> DEFINE m == lstate.pos
  <1>1. m \in Nat
    BY DEF Parsers
  <1>2. /\ lstate'.pos = m + 1 /\ buf'[m + 1] = c /\ (\A j \in 1..m : buf'[j] = buf[j])
        /\ (\A j \in 1..m : buf[j] = v[a + j]) /\ v[a + (m + 1)] = c
    BY DEF Keeps, Same
  <1> HIDE DEF m
  <1>3. ASSUME NEW j \in 1..(m + 1) PROVE buf'[j] = v[a + j]
    <2>1. j \in 1..m \/ j = m + 1
      BY <1>1
    <2> QED BY <1>2, <2>1
  <1> QED BY <1>2, <1>3 DEF Same

LEMMA BareStep ==
  ASSUME NEW v \in Word, Csv!Plain(v), NEW k, NEW t \in Nat, t < Len(v), lstate \in Parsers,
         BareAt(v, k, t, lstate, buf), Reads(v[t + 1])
  PROVE  BareAt(v, k, t + 1, lstate', buf') /\ row' = row /\ parsed' = parsed /\ lstate' \in Parsers
         /\ ((lstate' = lstate /\ buf' = buf) \/ \E state, n : Keeps(state, n, v[t + 1]))
  <1> DEFINE c == v[t + 1]
  <1>1. Len(v) \in Nat /\ DOMAIN v = 1..Len(v) /\ t + 1 \in 1..Len(v)
    BY DEF Word
  <1>2. c # "comma" /\ c # "lf" /\ (c = "quote" => \E j \in 1..t : v[j] # "space")
    <2>1. /\ \A i \in DOMAIN v : v[i] \notin {"comma", "lf"}
          /\ \A i \in DOMAIN v : v[i] = "quote" => \E j \in 1..(i - 1) : v[j] # "space"
      BY DEF Csv!Plain
    <2>2. (t + 1) - 1 = t
      OBVIOUS
    <2> QED BY <1>1, <2>1, <2>2
  <1> HIDE DEF c
  <1>3. c = "quote" \/ c = "space" \/ OtherSign(c)
    BY <1>2, SignIs
  <1>4. Reads(c)
    BY DEF c
  <1>5. CASE IsFresh(lstate, FirstState(k)) /\ \A j \in 1..t : v[j] = "space"
    <2>1. lstate.pstate \in {"ROW_NOT_BEGUN", "FIELD_NOT_BEGUN"} /\ ~lstate.quoted /\ lstate.pos = 0 /\ lstate.spaces = 0
      BY <1>5 DEF IsFresh, FirstState
    <2>2. c # "quote"
      BY <1>2, <1>5
    <2>3. CASE c = "space"
      <3>1. Stays
        BY <1>4, <2>1, <2>3 DEF Reads
      <3>2. lstate' = lstate /\ buf' = buf /\ row' = row /\ parsed' = parsed
        BY <3>1 DEF Stays
      <3>3. \A j \in 1..(t + 1) : v[j] = "space"
        <4>1. \A j \in 1..(t + 1) : j \in 1..t \/ j = t + 1
          OBVIOUS
        <4> QED BY <1>5, <2>3, <4>1 DEF c
      <3>4. IsFresh(lstate', FirstState(k))
        BY <1>5, <3>2
      <3> QED BY <3>2, <3>3, <3>4 DEF BareAt
    <2>4. CASE OtherSign(c)
      <3>1. Keeps("FIELD_BEGUN", lstate.spaces, c)
        BY <1>4, <2>1, <2>4 DEF Reads
      <3>2. /\ lstate'.pstate = "FIELD_BEGUN" /\ ~lstate'.quoted /\ lstate'.pos = 1 /\ lstate'.spaces = 0
            /\ lstate' \in Parsers /\ row' = row /\ parsed' = parsed
        BY <2>1, <3>1 DEF Keeps
      <3> DEFINE a == t + 1
      <3>3. c # "space" /\ v[a] = c
        BY <2>4 DEF OtherSign, c
      <3>4. Same(buf', lstate'.pos, v, t)
        <4>1. Same(buf, lstate.pos, v, t)
          BY <2>1 DEF Same
        <4>2. v[t + (lstate.pos + 1)] = c
          BY <2>1, <3>3
        <4> QED BY <3>1, <4>1, <4>2, SameMore
      <3>5. a \in 1..(t + 1) /\ a - 1 = t /\ (t + 1) - (a - 1) = 1 /\ (t + 1) - a = 0 /\ (t + 1) - 0 = a
            /\ (a + 1)..(t + 1) = {}
        OBVIOUS
      <3> HIDE DEF a
      <3>6. BareFrom(v, a, t + 1, lstate', buf')
        <4>1. v[a] # "space" /\ \A j \in 1..(a - 1) : v[j] = "space"
          BY <1>5, <3>3, <3>5
        <4>2. lstate'.pos = (t + 1) - (a - 1) /\ lstate'.spaces <= (t + 1) - a /\ v[(t + 1) - lstate'.spaces] # "space"
          BY <3>2, <3>3, <3>5
        <4>3. \A j \in ((t + 1) - lstate'.spaces + 1)..(t + 1) : v[j] = "space"
          BY <3>2, <3>5
        <4>4. Same(buf', lstate'.pos, v, a - 1)
          BY <3>4, <3>5
        <4> QED BY <3>2, <4>1, <4>2, <4>3, <4>4 DEF BareFrom
      <3> QED BY <3>1, <3>2, <3>5, <3>6 DEF BareAt, c
    <2> QED BY <1>3, <2>2, <2>3, <2>4
  <1>6. ASSUME NEW a \in 1..t, BareFrom(v, a, t, lstate, buf)
        PROVE  BareAt(v, k, t + 1, lstate', buf') /\ row' = row /\ parsed' = parsed /\ lstate' \in Parsers
               /\ \E state, n : Keeps(state, n, v[t + 1])
    <2> DEFINE n == IF c = "space" THEN lstate.spaces + 1 ELSE 0
    <2>1. /\ v[a] # "space" /\ (\A j \in 1..(a - 1) : v[j] = "space")
          /\ lstate.pstate = "FIELD_BEGUN" /\ ~lstate.quoted /\ lstate.pos = t - (a - 1)
          /\ lstate.spaces <= t - a /\ v[t - lstate.spaces] # "space"
          /\ (\A j \in (t - lstate.spaces + 1)..t : v[j] = "space")
          /\ Same(buf, lstate.pos, v, a - 1) /\ lstate.spaces \in Nat /\ lstate.pos \in Nat
      BY <1>6 DEF BareFrom, Parsers
    <2>2. Keeps("FIELD_BEGUN", n, c)
      <3>1. CASE c = "space"
        BY <1>4, <2>1, <3>1 DEF Reads
      <3>2. CASE c # "space"
        <4>1. Keeps("FIELD_BEGUN", 0, c)
          BY <1>3, <1>4, <2>1, <3>2 DEF Reads
        <4> QED BY <3>2, <4>1
      <3> QED BY <3>1, <3>2
    <2>3. n \in Nat /\ n <= (t + 1) - a /\ a \in Nat /\ a >= 1 /\ a <= t
      BY <2>1
    <2>4. v[(t + 1) - n] # "space"
      <3>1. CASE c = "space"
        <4>1. (t + 1) - n = t - lstate.spaces
          BY <2>1, <3>1
        <4> QED BY <2>1, <4>1
      <3>2. CASE c # "space"
        <4>1. (t + 1) - n = t + 1
          BY <3>2
        <4> QED BY <3>2, <4>1 DEF c
      <3> QED BY <3>1, <3>2
    <2>5. ASSUME NEW j \in ((t + 1) - n + 1)..(t + 1) PROVE v[j] = "space"
      <3>1. CASE c = "space"
        <4>1. j \in (t - lstate.spaces + 1)..t \/ j = t + 1
          BY <2>1, <3>1
        <4> QED BY <2>1, <3>1, <4>1 DEF c
      <3>2. CASE c # "space"
        BY <3>2
      <3> QED BY <3>1, <3>2
    <2> HIDE DEF n
    <2>6. /\ lstate'.pstate = "FIELD_BEGUN" /\ ~lstate'.quoted /\ lstate'.pos = lstate.pos + 1 /\ lstate'.spaces = n
          /\ lstate' \in Parsers /\ row' = row /\ parsed' = parsed
      BY <2>1, <2>2 DEF Keeps
    <2>7. Same(buf', lstate'.pos, v, a - 1)
      <3>1. (a - 1) + (lstate.pos + 1) = t + 1 /\ a - 1 \in Nat
        BY <2>1, <2>3
      <3>2. v[(a - 1) + (lstate.pos + 1)] = c
        BY <3>1 DEF c
      <3> QED BY <2>1, <2>2, <3>1, <3>2, SameMore
    <2>8. BareFrom(v, a, t + 1, lstate', buf')
      <3>1. lstate'.pos = (t + 1) - (a - 1)
        BY <2>1, <2>3, <2>6
      <3>2. lstate'.spaces <= (t + 1) - a /\ v[(t + 1) - lstate'.spaces] # "space"
        BY <2>3, <2>4, <2>6
      <3>3. \A j \in ((t + 1) - lstate'.spaces + 1)..(t + 1) : v[j] = "space"
        BY <2>5, <2>6
      <3> QED BY <2>1, <2>6, <2>7, <3>1, <3>2, <3>3 DEF BareFrom
    <2>9. a \in 1..(t + 1)
      BY <2>3
    <2> QED BY <2>2, <2>6, <2>8, <2>9 DEF BareAt, c
  <1> QED BY <1>5, <1>6 DEF BareAt

LEMMA PairEnds ==
  ASSUME NEW f, FieldOk(f), f.quoted
  PROVE  LET v == f.value
             e == EndsOf(Pairs(v))
             w == Csv!Written(f)
         IN /\ v \in Word /\ Len(v) \in Nat /\ e[0] = 0 /\ Len(w) = 2 + e[Len(v)] /\ w[1] = "quote"
            /\ w[2 + e[Len(v)]] = "quote"
            /\ \A m \in 0..Len(v) :
                 /\ e[m] \in Nat /\ e[m] <= e[Len(v)]
                 /\ m < Len(v) =>
                      /\ w[2 + e[m]] = v[m + 1] /\ e[m] < e[Len(v)]
                      /\ v[m + 1] = "quote" => w[3 + e[m]] = "quote" /\ e[m + 1] = e[m] + 2
                      /\ v[m + 1] # "quote" => e[m + 1] = e[m] + 1
  <1> DEFINE v == f.value
             e == EndsOf(Pairs(v))
             w == Csv!Written(f)
  <1>1. v \in Word /\ Len(v) \in Nat /\ Pairs(v) \in Seq(Word) /\ Len(Pairs(v)) = Len(v)
    BY PairsIn DEF FieldOk, Word
  <1>2. /\ Laid(Pairs(v), e) /\ Len(w) = 2 + e[Len(v)] /\ w[1] = "quote"
        /\ w[2 + e[Len(v)]] = "quote"
        /\ \A m \in 0..(Len(v) - 1) :
             /\ w[2 + e[m]] = v[m + 1]
             /\ v[m + 1] = "quote" => w[3 + e[m]] = "quote" /\ e[m + 1] = e[m] + 2
             /\ v[m + 1] # "quote" => e[m + 1] = e[m] + 1
    BY WrittenIs1
  <1> HIDE DEF v, w, e
  <1>3. e \in [0..Len(v) -> Nat] /\ e[0] = 0
    BY <1>1, <1>2 DEF Laid
  <1>4. \A i, k \in 0..Len(v) : i <= k => e[i] <= e[k]
    <2>1. \A i \in 1..Len(Pairs(v)) : Len(Pairs(v)[i]) \in Nat
      BY <1>1 DEF Word
    <2> QED BY <1>1, <1>2, <2>1, Ascending
  <1>5. ASSUME NEW m \in 0..Len(v)
        PROVE  /\ e[m] \in Nat /\ e[m] <= e[Len(v)]
               /\ m < Len(v) => m \in 0..(Len(v) - 1) /\ e[m] < e[Len(v)]
    <2>1. e[m] \in Nat /\ e[m] <= e[Len(v)] /\ Len(v) \in 0..Len(v)
      BY <1>1, <1>3, <1>4
    <2>2. ASSUME m < Len(v) PROVE m \in 0..(Len(v) - 1) /\ e[m] < e[Len(v)]
      <3>1. m \in 0..(Len(v) - 1) /\ m + 1 \in 0..Len(v) /\ m + 1 <= Len(v)
        BY <1>1, <2>2
      <3>2. e[m + 1] <= e[Len(v)] /\ e[m + 1] \in Nat /\ e[Len(v)] \in Nat
        BY <1>3, <1>4, <2>1, <3>1
      <3>3. e[m + 1] = e[m] + 1 \/ e[m + 1] = e[m] + 2
        BY <1>2, <3>1
      <3> QED BY <2>1, <3>1, <3>2, <3>3
    <2> QED BY <2>1, <2>2
  <1> QED BY <1>1, <1>2, <1>3, <1>5 DEF v, w, e

LEMMA QuotedStep ==
  ASSUME NEW f, FieldOk(f), f.quoted, NEW k, NEW t \in Nat, t < Len(Csv!Written(f)), lstate \in Parsers,
         QuotedAt(f.value, k, t, lstate, buf), Reads(Csv!Written(f)[t + 1])
  PROVE  /\ QuotedAt(f.value, k, t + 1, lstate', buf') /\ row' = row /\ parsed' = parsed /\ lstate' \in Parsers
         /\ \/ \E q : Turns(q)
            \/ \E state, n : Keeps(state, n, Csv!Written(f)[t + 1])
  <1> DEFINE v == f.value
             e == EndsOf(Pairs(v))
             w == Csv!Written(f)
             c == w[t + 1]
             Done == \/ \E q : Turns(q)
                     \/ \E state, n : Keeps(state, n, c)
  <1>1. /\ v \in Word /\ Len(v) \in Nat /\ e[0] = 0 /\ Len(w) = 2 + e[Len(v)] /\ w[1] = "quote"
        /\ w[2 + e[Len(v)]] = "quote"
        /\ \A m \in 0..Len(v) :
             /\ e[m] \in Nat /\ e[m] <= e[Len(v)]
             /\ m < Len(v) =>
                  /\ w[2 + e[m]] = v[m + 1] /\ e[m] < e[Len(v)]
                  /\ v[m + 1] = "quote" => w[3 + e[m]] = "quote" /\ e[m + 1] = e[m] + 2
                  /\ v[m + 1] # "quote" => e[m + 1] = e[m] + 1
    BY PairEnds
  <1>2. Reads(c) /\ t < Len(w) /\ QuotedAt(v, k, t, lstate, buf)
    OBVIOUS
  <1> HIDE DEF v, w, e, c
  <1>3. ASSUME t = 0, IsFresh(lstate, FirstState(k))
        PROVE  QuotedAt(v, k, t + 1, lstate', buf') /\ row' = row /\ parsed' = parsed /\ lstate' \in Parsers /\ Done
    <2>1. lstate.pstate \in {"ROW_NOT_BEGUN", "FIELD_NOT_BEGUN"} /\ lstate.pos = 0 /\ lstate.spaces = 0
      BY <1>3 DEF IsFresh, FirstState
    <2>2. c = "quote"
      BY <1>1, <1>3 DEF c
    <2>3. Turns(TRUE)
      BY <1>2, <2>1, <2>2 DEF Reads
    <2>4. /\ lstate'.quoted /\ lstate'.spaces = 0 /\ lstate'.pos = 0 /\ lstate'.pstate = "FIELD_BEGUN"
          /\ lstate' \in Parsers /\ row' = row /\ parsed' = parsed
      BY <2>1, <2>3 DEF Turns
    <2>5. 0 \in 0..Len(v) /\ t + 1 = 1 + e[0]
      BY <1>1, <1>3
    <2>6. InQuotes(v, 0, t + 1, lstate', buf')
      <3>1. Same(buf', 0, v, 0)
        BY DEF Same
      <3> QED BY <2>4, <2>5, <3>1 DEF InQuotes, e
    <2> QED BY <2>3, <2>4, <2>5, <2>6 DEF QuotedAt
  <1>4. ASSUME NEW m \in 0..Len(v), InQuotes(v, m, t, lstate, buf)
        PROVE  QuotedAt(v, k, t + 1, lstate', buf') /\ row' = row /\ parsed' = parsed /\ lstate' \in Parsers /\ Done
    <2>1. /\ lstate.quoted /\ lstate.spaces = 0 /\ Same(buf, m, v, 0)
          /\ \/ t = 1 + e[m] /\ lstate.pstate = "FIELD_BEGUN" /\ lstate.pos = m
             \/ /\ t = 2 + e[m] /\ lstate.pstate = "FIELD_MIGHT_HAVE_ENDED" /\ lstate.pos = m + 1
                /\ buf[m + 1] = "quote" /\ (m < Len(v) => v[m + 1] = "quote")
      BY <1>4 DEF InQuotes, e
    <2>2. /\ e[m] \in Nat /\ m \in Nat /\ m <= Len(v)
          /\ m < Len(v) =>
               /\ m + 1 \in 0..Len(v) /\ w[2 + e[m]] = v[m + 1] /\ e[m] < e[Len(v)]
               /\ v[m + 1] = "quote" => w[3 + e[m]] = "quote" /\ e[m + 1] = e[m] + 2
               /\ v[m + 1] # "quote" => e[m + 1] = e[m] + 1
      BY <1>1
    <2>3. CASE t = 1 + e[m] /\ lstate.pstate = "FIELD_BEGUN" /\ lstate.pos = m
      <3>1. c = w[2 + e[m]]
        <4>1. t + 1 = 2 + e[m]
          BY <2>2, <2>3
        <4> QED BY <4>1 DEF c
      <3>2. CASE c = "quote"
        <4>1. Keeps("FIELD_MIGHT_HAVE_ENDED", lstate.spaces, c)
          BY <1>2, <2>1, <2>3, <3>2 DEF Reads
        <4>2. /\ lstate'.quoted /\ lstate'.spaces = 0 /\ lstate'.pos = m + 1 /\ lstate'.pstate = "FIELD_MIGHT_HAVE_ENDED"
              /\ lstate' \in Parsers /\ row' = row /\ parsed' = parsed /\ buf'[m + 1] = "quote"
              /\ \A j \in 1..m : buf'[j] = buf[j]
          BY <2>1, <2>3, <3>2, <4>1 DEF Keeps
        <4>3. Same(buf', m, v, 0)
          BY <2>1, <4>2 DEF Same
        <4>4. t + 1 = 2 + e[m] /\ (m < Len(v) => v[m + 1] = "quote")
          BY <2>2, <2>3, <3>1, <3>2
        <4>5. InQuotes(v, m, t + 1, lstate', buf')
          BY <4>2, <4>3, <4>4 DEF InQuotes, e
        <4> QED BY <1>4, <4>1, <4>2, <4>5 DEF QuotedAt
      <3>3. CASE c # "quote"
        <4>1. m < Len(v)
          <5>1. m # Len(v)
            BY <1>1, <3>1, <3>3
          <5> QED BY <1>1, <2>2, <5>1
        <4>2. Keeps("FIELD_BEGUN", 0, c)
          BY <1>2, <2>1, <2>3, <3>3, SignIs DEF Reads
        <4>3. /\ lstate'.quoted /\ lstate'.spaces = 0 /\ lstate'.pos = m + 1 /\ lstate'.pstate = "FIELD_BEGUN"
              /\ lstate' \in Parsers /\ row' = row /\ parsed' = parsed
          BY <2>1, <2>3, <4>2 DEF Keeps
        <4>4. Same(buf', m + 1, v, 0)
          <5>1. v[0 + (lstate.pos + 1)] = c
            <6>1. 0 + (lstate.pos + 1) = m + 1
              BY <2>2, <2>3
            <6> QED BY <2>2, <3>1, <4>1, <6>1
          <5>2. Same(buf, lstate.pos, v, 0)
            BY <2>1, <2>3
          <5>3. Same(buf', lstate'.pos, v, 0)
            <6>1. 0 \in Nat
              OBVIOUS
            <6> QED BY <4>2, <5>1, <5>2, <6>1, SameMore
          <5> QED BY <4>3, <5>3
        <4>5. t + 1 = 1 + e[m + 1]
          <5>1. v[m + 1] # "quote"
            BY <2>2, <3>1, <3>3, <4>1
          <5> QED BY <2>2, <2>3, <4>1, <5>1
        <4>6. InQuotes(v, m + 1, t + 1, lstate', buf') /\ m + 1 \in 0..Len(v)
          BY <2>2, <4>1, <4>3, <4>4, <4>5 DEF InQuotes, e
        <4> QED BY <4>2, <4>3, <4>6 DEF QuotedAt
      <3> QED BY <3>2, <3>3
    <2>4. CASE /\ t = 2 + e[m] /\ lstate.pstate = "FIELD_MIGHT_HAVE_ENDED" /\ lstate.pos = m + 1
               /\ buf[m + 1] = "quote" /\ (m < Len(v) => v[m + 1] = "quote")
      <3>1. m < Len(v)
        <4>1. m # Len(v)
          BY <1>1, <1>2, <2>2, <2>4
        <4> QED BY <1>1, <2>2, <4>1
      <3>2. v[m + 1] = "quote" /\ w[3 + e[m]] = "quote" /\ e[m + 1] = e[m] + 2
        BY <2>2, <2>4, <3>1
      <3>3. c = "quote" /\ t + 1 = 1 + e[m + 1]
        <4>1. t + 1 = 3 + e[m]
          BY <2>2, <2>4
        <4> QED BY <2>2, <3>2, <4>1 DEF c
      <3>4. Turns(lstate.quoted)
        BY <1>2, <2>1, <2>4, <3>3 DEF Reads
      <3>5. /\ lstate'.quoted /\ lstate'.spaces = 0 /\ lstate'.pos = m + 1 /\ lstate'.pstate = "FIELD_BEGUN"
            /\ lstate' \in Parsers /\ row' = row /\ parsed' = parsed /\ buf' = buf
        BY <2>1, <2>4, <3>4 DEF Turns
      <3>6. Same(buf', m + 1, v, 0)
        <4>1. ASSUME NEW j \in 1..(m + 1) PROVE buf[j] = v[0 + j]
          <5>1. 0 + j = j /\ (j \in 1..m \/ j = m + 1)
            BY <2>2
          <5>2. j \in 1..m => buf[j] = v[0 + j]
            BY <2>1 DEF Same
          <5> QED BY <2>4, <3>2, <5>1, <5>2
        <4> QED BY <3>5, <4>1 DEF Same
      <3>7. InQuotes(v, m + 1, t + 1, lstate', buf') /\ m + 1 \in 0..Len(v)
        BY <2>2, <3>1, <3>3, <3>5, <3>6 DEF InQuotes, e
      <3> QED BY <3>4, <3>5, <3>7 DEF QuotedAt
    <2> QED BY <2>1, <2>3, <2>4
  <1>5. QuotedAt(v, k, t + 1, lstate', buf') /\ row' = row /\ parsed' = parsed /\ lstate' \in Parsers /\ Done
    <2>1. \/ t = 0 /\ IsFresh(lstate, FirstState(k))
          \/ \E m \in 0..Len(v) : InQuotes(v, m, t, lstate, buf)
      BY <1>2 DEF QuotedAt
    <2> HIDE DEF Done
    <2> QED BY <1>3, <1>4, <2>1
  <1> QED BY <1>5 DEF v, w, c

\* The value of a field that was read, and what ends it.
ValueOf(f) == IF f.quoted THEN f.value ELSE Csv!Trim(f.value)
Extent ==
  IF lstate.pstate = "FIELD_MIGHT_HAVE_ENDED" THEN lstate.pos - lstate.spaces - 1 ELSE lstate.pos

LEMMA ValueRead ==
  ASSUME NEW f, FieldOk(f), NEW k, lstate \in Parsers, buf \in Word, lstate.pos <= Len(buf),
         FieldAt(f, k, Len(Csv!Written(f)), lstate, buf)
  PROVE  /\ Csv!Field(lstate, Extent) = ValueOf(f) /\ ValueOf(f) \in Word
         /\ lstate.pstate = "ROW_NOT_BEGUN" => k = 1 /\ ~f.quoted /\ ValueOf(f) = <<>> /\ IsFresh(lstate, "ROW_NOT_BEGUN")
         /\ lstate.pstate # "ROW_NOT_BEGUN" => f.quoted \/ k # 1 \/ ValueOf(f) # <<>>
         /\ lstate.pstate = "FIELD_BEGUN" => ~lstate.quoted
         /\ lstate.pstate \in States
  <1> DEFINE v == f.value
             w == Csv!Written(f)
             t == Len(w)
  <1>1. v \in Word /\ v \in Seq(Sign) /\ Len(v) \in Nat /\ DOMAIN v = 1..Len(v) /\ buf \in Seq(Sign) /\ Len(buf) \in Nat
    BY DEF FieldOk, Word
  <1>2. lstate.pos \in Nat /\ lstate.spaces \in Nat /\ lstate.pstate \in States /\ lstate.pos <= Len(buf)
    BY DEF Parsers
  <1>3. ASSUME NEW n \in Nat, n <= Len(buf) PROVE SubSeq(buf, 1, n) = [j \in 1..n |-> buf[j]]
    <2>1. SubSeq(buf, 0 + 1, 0 + n) = [j \in 1..n |-> buf[0 + j]]
      BY <1>1, <1>3, PieceIs
    <2>2. 0 + 1 = 1 /\ 0 + n = n /\ \A j \in 1..n : 0 + j = j
      BY <1>3
    <2> QED BY <2>1, <2>2
  <1> HIDE DEF v, w
  <1>4. CASE f.quoted
    <2> DEFINE e == EndsOf(Pairs(v))
    <2>1. /\ e[0] = 0 /\ Len(w) = 2 + e[Len(v)]
          /\ \A m \in 0..Len(v) : e[m] \in Nat /\ e[m] <= e[Len(v)] /\ (m < Len(v) => e[m] < e[Len(v)])
      BY <1>4, PairEnds DEF v, w
    <2>2. QuotedAt(v, k, t, lstate, buf)
      BY <1>4 DEF FieldAt, v, w
    <2> HIDE DEF e
    <2>3. Len(v) \in 0..Len(v) /\ e[Len(v)] \in Nat /\ t # 0
      BY <1>1, <2>1
    <2>4. PICK m \in 0..Len(v) : InQuotes(v, m, t, lstate, buf)
      BY <2>2, <2>3 DEF QuotedAt
    <2>5. e[m] \in Nat /\ t = 2 + e[Len(v)] /\ e[m] <= e[Len(v)] /\ (m < Len(v) => e[m] < e[Len(v)]) /\ m <= Len(v) /\ m \in Nat
      BY <1>1, <2>1
    <2>6. t # 1 + e[m] /\ (t = 2 + e[m] => m = Len(v))
      <3> DEFINE x == e[m]
                 y == e[Len(v)]
      <3>1. x \in Nat /\ y \in Nat /\ t = 2 + y /\ x <= y /\ (m < Len(v) => x < y)
        BY <2>3, <2>5
      <3> HIDE DEF x, y, t
      <3>2. t # 1 + x /\ (t = 2 + x => ~(m < Len(v)))
        BY <3>1
      <3>3. ~(m < Len(v)) => m = Len(v)
        <4>1. Len(v) \in Nat
          BY <1>1
        <4>2. m \in 0..Len(v)
          OBVIOUS
        <4> DEFINE z == Len(v)
        <4> HIDE DEF z
        <4>3. z \in Nat /\ m \in 0..z
          BY <4>1, <4>2 DEF z
        <4>4. ~(m < z) => m = z
          BY <4>3
        <4> QED BY <4>4 DEF z
      <3> QED BY <3>2, <3>3 DEF x
    <2>7. /\ lstate.quoted /\ lstate.spaces = 0 /\ Same(buf, m, v, 0) /\ m = Len(v)
          /\ lstate.pstate = "FIELD_MIGHT_HAVE_ENDED" /\ lstate.pos = m + 1
      BY <2>4, <2>6 DEF InQuotes, e
    <2>8. Extent = m
      BY <2>5, <2>7 DEF Extent
    <2>9. m - 0 = m /\ m <= Len(buf)
      BY <1>1, <1>2, <2>5, <2>7
    <2>10. Csv!Field(lstate, m) = SubSeq(buf, 1, m)
      BY <2>7, <2>9 DEF Csv!Field
    <2>11. v = [j \in 1..m |-> v[j]]
      BY <1>1, <2>7
    <2>12. \A j \in 1..m : buf[j] = v[j]
      <3>1. \A j \in 1..m : 0 + j = j
        BY <2>5
      <3> QED BY <2>7, <3>1 DEF Same
    <2>13. SubSeq(buf, 1, m) = v
      BY <1>3, <2>5, <2>9, <2>11, <2>12
    <2>14. ValueOf(f) = v
      BY <1>4 DEF ValueOf, v
    <2> QED BY <1>1, <1>2, <1>4, <2>7, <2>8, <2>10, <2>13, <2>14
  <1>5. CASE ~f.quoted
    <2>1. w = v /\ ValueOf(f) = Csv!Trim(v) /\ t = Len(v)
      BY <1>5, WrittenIs1 DEF ValueOf, v, w
    <2>2. BareAt(v, k, Len(v), lstate, buf) /\ Csv!Trim(v) \in Word
      BY <1>1, <1>5, <2>1, TrimIn DEF FieldAt, v, w
    <2>3. CASE IsFresh(lstate, FirstState(k)) /\ \A j \in 1..Len(v) : v[j] = "space"
      <3>1. lstate.pos = 0 /\ lstate.spaces = 0 /\ ~lstate.quoted /\ lstate.pstate = FirstState(k)
        BY <2>3 DEF IsFresh
      <3>2. Csv!Trim(v) = <<>>
        BY <1>1, <2>3, TrimIs
      <3>3. Extent = 0 /\ 0 - 0 = 0
        BY <3>1 DEF Extent, FirstState
      <3>4. Csv!Field(lstate, 0) = SubSeq(buf, 1, 0)
        BY <3>1, <3>3 DEF Csv!Field
      <3>5. SubSeq(buf, 1, 0) = <<>>
        <4>1. 0 \in Nat /\ 0 <= Len(buf) /\ 1..0 = {}
          BY <1>1
        <4>2. SubSeq(buf, 1, 0) = [j \in 1..0 |-> buf[j]]
          BY <1>3, <4>1
        <4> QED BY <4>1, <4>2
      <3>6. /\ lstate.pstate = "ROW_NOT_BEGUN" => k = 1
            /\ lstate.pstate # "ROW_NOT_BEGUN" => k # 1
            /\ lstate.pstate # "FIELD_BEGUN"
        BY <3>1 DEF FirstState
      <3>7. lstate.pstate = "ROW_NOT_BEGUN" => IsFresh(lstate, "ROW_NOT_BEGUN")
        BY <2>3, <3>1
      <3> QED BY <1>2, <1>5, <2>1, <2>2, <3>2, <3>3, <3>4, <3>5, <3>6, <3>7
    <2>4. ASSUME NEW a \in 1..Len(v), BareFrom(v, a, Len(v), lstate, buf)
          PROVE  /\ Csv!Field(lstate, Extent) = Csv!Trim(v) /\ Csv!Trim(v) # <<>>
                 /\ lstate.pstate = "FIELD_BEGUN" /\ ~lstate.quoted
      <3> DEFINE b == Len(v) - lstate.spaces
                 n == lstate.pos - lstate.spaces
      <3>1. /\ v[a] # "space" /\ (\A j \in 1..(a - 1) : v[j] = "space")
            /\ lstate.pstate = "FIELD_BEGUN" /\ ~lstate.quoted /\ lstate.pos = Len(v) - (a - 1)
            /\ lstate.spaces <= Len(v) - a /\ v[b] # "space"
            /\ (\A j \in (b + 1)..Len(v) : v[j] = "space")
            /\ Same(buf, lstate.pos, v, a - 1)
        BY <2>4 DEF BareFrom
      <3>2. Extent = lstate.pos /\ Csv!Field(lstate, lstate.pos) = SubSeq(buf, 1, n)
        BY <3>1 DEF Extent, Csv!Field
      <3>3. /\ b \in 1..Len(v) /\ a <= b /\ n \in Nat /\ n > 0 /\ a - 1 \in Nat /\ (a - 1) + n = b /\ (a - 1) + 1 = a
            /\ n <= Len(buf) /\ n <= lstate.pos
        <4> DEFINE x == lstate.spaces
                   y == lstate.pos
                   z == Len(v)
                   u == Len(buf)
        <4>1. /\ x \in Nat /\ y \in Nat /\ z \in Nat /\ u \in Nat /\ a \in 1..z
              /\ y = z - (a - 1) /\ x <= z - a /\ y <= u
          BY <1>1, <1>2, <3>1
        <4> HIDE DEF x, y, z, u
        <4>2. /\ z - x \in 1..z /\ a <= z - x /\ y - x \in Nat /\ y - x > 0 /\ a - 1 \in Nat
              /\ (a - 1) + (y - x) = z - x /\ (a - 1) + 1 = a /\ y - x <= u /\ y - x <= y
          BY <4>1
        <4> QED BY <4>2 DEF x, y, z, u
      <3> HIDE DEF b, n
      <3>4. Csv!Trim(v) = SubSeq(v, a, b)
        BY <1>1, <2>4, <3>1, <3>3, TrimIs
      <3>5. SubSeq(v, a, b) = [j \in 1..n |-> v[(a - 1) + j]]
        <4>1. SubSeq(v, (a - 1) + 1, (a - 1) + n) = [j \in 1..n |-> v[(a - 1) + j]]
          <5>1. (a - 1) + n <= Len(v)
            BY <1>1, <3>3
          <5> QED BY <1>1, <3>3, <5>1, PieceIs
        <4> QED BY <3>3, <4>1
      <3>6. \A j \in 1..n : buf[j] = v[(a - 1) + j]
        <4>1. \A j \in 1..n : j \in 1..lstate.pos
          BY <1>2, <3>3
        <4> QED BY <3>1, <4>1 DEF Same
      <3>7. SubSeq(buf, 1, n) = SubSeq(v, a, b)
        BY <1>3, <3>3, <3>5, <3>6
      <3>8. SubSeq(v, a, b) # <<>>
        <4>1. Len(SubSeq(v, a, b)) = n
          BY <3>3, <3>5
        <4>2. Len(<<>>) = 0
          OBVIOUS
        <4> QED BY <3>3, <4>1, <4>2
      <3> QED BY <3>1, <3>2, <3>4, <3>7, <3>8
    <2>5. ASSUME NEW a \in 1..Len(v), BareFrom(v, a, Len(v), lstate, buf)
          PROVE  /\ Csv!Field(lstate, Extent) = ValueOf(f) /\ ValueOf(f) \in Word
                 /\ lstate.pstate = "FIELD_BEGUN" /\ ~lstate.quoted /\ ValueOf(f) # <<>>
      BY <2>1, <2>2, <2>4, <2>5
    <2>6. "FIELD_BEGUN" # "ROW_NOT_BEGUN"
      OBVIOUS
    <2> QED BY <1>2, <2>2, <2>3, <2>5, <2>6 DEF BareAt
  <1> QED BY <1>4, <1>5

NextField(x) ==
  /\ row' = Append(row, x) /\ IsFresh(lstate', "FIELD_NOT_BEGUN") /\ buf' = buf /\ parsed' = parsed
NextRow(x) ==
  /\ parsed' = Append(parsed, Append(row, x)) /\ row' = <<>> /\ IsFresh(lstate', "ROW_NOT_BEGUN") /\ buf' = buf

LEMMA FieldEnded ==
  ASSUME NEW f, FieldOk(f), NEW k, lstate \in Parsers, buf \in Word, lstate.pos <= Len(buf),
         FieldAt(f, k, Len(Csv!Written(f)), lstate, buf), NEW c, Reads(c)
  PROVE  /\ c = "comma" => NextField(ValueOf(f))
         /\ c = "lf" =>
              \/ NextRow(ValueOf(f)) /\ (f.quoted \/ k # 1 \/ ValueOf(f) # <<>>)
              \/ Stays /\ IsFresh(lstate, "ROW_NOT_BEGUN") /\ k = 1 /\ ~f.quoted /\ ValueOf(f) = <<>>
  <1>1. /\ Csv!Field(lstate, Extent) = ValueOf(f)
        /\ lstate.pstate = "ROW_NOT_BEGUN" => k = 1 /\ ~f.quoted /\ ValueOf(f) = <<>> /\ IsFresh(lstate, "ROW_NOT_BEGUN")
        /\ lstate.pstate # "ROW_NOT_BEGUN" => f.quoted \/ k # 1 \/ ValueOf(f) # <<>>
        /\ lstate.pstate = "FIELD_BEGUN" => ~lstate.quoted
        /\ lstate.pstate \in States
    BY ValueRead
  <1>2. ASSUME c = "comma" PROVE Submits(Extent)
    BY <1>1, <1>2 DEF Reads, States, Extent
  <1>3. ASSUME c = "lf", lstate.pstate = "ROW_NOT_BEGUN" PROVE Stays
    BY <1>3 DEF Reads
  <1>4. ASSUME c = "lf", lstate.pstate # "ROW_NOT_BEGUN" PROVE SubmitsRow(Extent)
    BY <1>1, <1>4 DEF Reads, States, Extent
  <1>5. Submits(Extent) => NextField(ValueOf(f))
    BY <1>1 DEF Submits, NextField
  <1>6. SubmitsRow(Extent) => NextRow(ValueOf(f))
    BY <1>1 DEF SubmitsRow, NextRow
  <1> QED BY <1>1, <1>2, <1>3, <1>4, <1>5, <1>6

\* Where the parser is in the file: in a field of it, or at its end.
InField(i, k, t, nx, pa, ro, s, b) ==
  /\ Place(i, k, t) /\ nx = Beginning(i, k) + t + 1
  /\ pa = Csv!Shown[i - 1] /\ ro = SubSeq(Csv!Values(given[i]), 1, k - 1)
  /\ FieldAt(given[i][k], k, t, s, b)
AtEnd(nx, pa, ro, s) ==
  nx = Len(text) + 1 /\ pa = Csv!Expected /\ ro = <<>> /\ IsFresh(s, "ROW_NOT_BEGUN")
Reached(nx, pa, ro, s, b) ==
  AtEnd(nx, pa, ro, s) \/ \E i, k, t : InField(i, k, t, nx, pa, ro, s, b)

\* The beginning of a field, whatever it is.
LEMMA AtFieldStart ==
  ASSUME NEW f, FieldOk(f), NEW k, NEW s, NEW b, IsFresh(s, FirstState(k))
  PROVE  FieldAt(f, k, 0, s, b)
  <1>1. 1..0 = {}
    OBVIOUS
  <1>2. BareAt(f.value, k, 0, s, b) /\ QuotedAt(f.value, k, 0, s, b)
    BY <1>1 DEF BareAt, QuotedAt
  <1> QED BY <1>2 DEF FieldAt

LEMMA RowStart ==
  ASSUME \A f \in CsvFields : FieldOk(f), given \in Seq(Rows1(CsvFields)), NEW i \in 1..Len(given),
         NEW s, NEW b, NEW nx, NEW pa, IsFresh(s, "ROW_NOT_BEGUN"), nx = RowEnds[i - 1] + 1,
         pa = Csv!Shown[i - 1]
  PROVE  InField(i, 1, 0, nx, pa, <<>>, s, b)
  <1>1. given[i] \in Rows1(CsvFields) /\ Len(given) > 0
    OBVIOUS
  <1>2. 1 \in 1..Len(given[i]) /\ given[i][1] \in CsvFields
    BY <1>1 DEF Rows1
  <1>3. Place(i, 1, 0)
    <2>1. Len(Csv!Written(given[i][1])) \in Nat
      BY <1>2, WrittenIs1 DEF Word
    <2>2. 0 \in 0..Len(Csv!Written(given[i][1]))
      BY <2>1
    <2> QED BY <1>2, <2>2 DEF Place
  <1>4. Beginning(i, 1) = RowEnds[i - 1] /\ Beginning(i, 1) \in Nat
    BY <1>1, <1>3, Begins
  <1>5. nx = Beginning(i, 1) + 0 + 1
    BY <1>4
  <1>6. SubSeq(Csv!Values(given[i]), 1, 1 - 1) = <<>>
    <2> DEFINE v == Csv!Values(given[i])
    <2>1. v \in Seq(Word) /\ Len(v) \in Nat
      BY <1>1, ValuesAre DEF Words
    <2> HIDE DEF v
    <2>2. SubSeq(v, 0 + 1, 0 + 0) = [j \in 1..0 |-> v[0 + j]]
      <3>1. 0 \in Nat /\ 0 + 0 <= Len(v)
        BY <2>1
      <3> QED BY <2>1, <3>1, PieceIs
    <2>3. 0 + 1 = 1 /\ 0 + 0 = 1 - 1 /\ [j \in 1..0 |-> v[0 + j]] = <<>>
      OBVIOUS
    <2> QED BY <2>2, <2>3 DEF v
  <1>7. FirstState(1) = "ROW_NOT_BEGUN"
    BY DEF FirstState
  <1>8. FieldAt(given[i][1], 1, 0, s, b)
    BY <1>2, <1>7, AtFieldStart
  <1> QED BY <1>3, <1>5, <1>6, <1>8 DEF InField

\* The values of the fields before the k-th, and then of it too.
LEMMA RowGrows ==
  ASSUME \A f \in CsvFields : FieldOk(f), NEW r \in Rows1(CsvFields), NEW k \in 1..Len(r)
  PROVE  /\ Append(SubSeq(Csv!Values(r), 1, k - 1), ValueOf(r[k])) = SubSeq(Csv!Values(r), 1, k)
         /\ SubSeq(Csv!Values(r), 1, Len(r)) = Csv!Values(r)
  <1> DEFINE v == Csv!Values(r)
             n == Len(r)
             j == k - 1
  <1>1. v \in Seq(Word) /\ Len(v) = n /\ v[k] = ValueOf(r[k]) /\ n \in Nat
    BY ValuesAre DEF Words, ValueOf, Rows1
  <1>2. j \in Nat /\ k = j + 1 /\ k \in Nat /\ k <= n
    BY <1>1
  <1> HIDE DEF v, n, j
  <1>3. ASSUME NEW m \in Nat, m <= n
        PROVE  /\ SubSeq(v, 1, m) \in Seq(Word) /\ Len(SubSeq(v, 1, m)) = m
               /\ \A u \in 1..m : SubSeq(v, 1, m)[u] = v[u]
    <2>1. SubSeq(v, 0 + 1, 0 + m) = [u \in 1..m |-> v[0 + u]]
      BY <1>1, <1>3, PieceIs
    <2>2. 0 + 1 = 1 /\ 0 + m = m /\ \A u \in 1..m : 0 + u = u /\ v[u] \in Word
      BY <1>1, <1>3
    <2>3. SubSeq(v, 1, m) = [u \in 1..m |-> v[u]]
      BY <2>1, <2>2
    <2> QED BY <2>2, <2>3
  <1>4. ASSUME NEW a \in Seq(Word), NEW b \in Seq(Word), NEW x \in Word, Len(a) = j, Len(b) = j + 1,
               (\A u \in 1..j : a[u] = b[u]), b[j + 1] = x
        PROVE  Append(a, x) = b
    <2>1. Append(a, x) \in Seq(Word) /\ Len(Append(a, x)) = j + 1 /\ Append(a, x)[j + 1] = x
          /\ \A u \in 1..j : Append(a, x)[u] = a[u]
      BY <1>2, <1>4
    <2>2. \A u \in 1..(j + 1) : u \in 1..j \/ u = j + 1
      BY <1>2
    <2>3. \A u \in 1..(j + 1) : Append(a, x)[u] = b[u]
      BY <1>4, <2>1, <2>2
    <2> QED BY <1>2, <1>4, <2>1, <2>3
  <1>5. Append(SubSeq(v, 1, j), v[k]) = SubSeq(v, 1, k)
    <2>1. /\ SubSeq(v, 1, j) \in Seq(Word) /\ Len(SubSeq(v, 1, j)) = j
          /\ \A u \in 1..j : SubSeq(v, 1, j)[u] = v[u]
      <3>1. j <= n
        BY <1>1, <1>2
      <3> QED BY <1>2, <1>3, <3>1
    <2>2. /\ SubSeq(v, 1, k) \in Seq(Word) /\ Len(SubSeq(v, 1, k)) = j + 1
          /\ \A u \in 1..k : SubSeq(v, 1, k)[u] = v[u]
      BY <1>2, <1>3
    <2>3. v[k] \in Word /\ (\A u \in 1..j : u \in 1..k) /\ j + 1 \in 1..k /\ k = j + 1
      BY <1>1, <1>2
    <2> DEFINE a == SubSeq(v, 1, j)
               b == SubSeq(v, 1, k)
    <2>4. a \in Seq(Word) /\ b \in Seq(Word) /\ Len(a) = j /\ Len(b) = j + 1 /\ (\A u \in 1..j : a[u] = b[u]) /\ b[j + 1] = v[k]
      BY <2>1, <2>2, <2>3
    <2> HIDE DEF a, b
    <2>5. Append(a, v[k]) = b
      BY <1>4, <2>3, <2>4
    <2> QED BY <2>5 DEF a, b
  <1>6. SubSeq(v, 1, n) = v
    <2>1. /\ SubSeq(v, 1, n) \in Seq(Word) /\ Len(SubSeq(v, 1, n)) = n
          /\ \A u \in 1..n : SubSeq(v, 1, n)[u] = v[u]
      BY <1>1, <1>3
    <2> QED BY <1>1, <2>1
  <1> QED BY <1>1, <1>5, <1>6 DEF v, n, j

\* Of a row, what is shown.
LEMMA RowShown ==
  ASSUME \A f \in CsvFields : FieldOk(f), given \in Seq(Rows1(CsvFields)), NEW i \in 1..Len(given)
  PROVE  LET r == given[i]
         IN /\ (Len(r) # 1 \/ r[1].quoted \/ ValueOf(r[1]) # <<>>) =>
                  Csv!Shown[i] = Append(Csv!Shown[i - 1], Csv!Values(r))
            /\ Len(r) = 1 /\ ~r[1].quoted /\ ValueOf(r[1]) = <<>> => Csv!Shown[i] = Csv!Shown[i - 1]
  <1> DEFINE r == given[i]
  <1>1. r \in Rows1(CsvFields) /\ Len(r) \in Nat /\ Len(r) > 0
    BY DEF Rows1
  <1> HIDE DEF r
  <1>2. Csv!Values(r) \in Seq(Word) /\ Len(Csv!Values(r)) = Len(r) /\ Csv!Values(r)[1] = ValueOf(r[1])
    BY <1>1, ValuesAre DEF Words, ValueOf
  <1>3. /\ (Len(r) # 1 \/ r[1].quoted \/ ValueOf(r[1]) # <<>>) => ~Csv!IsBlank(r)
        /\ Len(r) = 1 /\ ~r[1].quoted /\ ValueOf(r[1]) = <<>> => Csv!IsBlank(r)
    <2> DEFINE v == Csv!Values(r)
               x == ValueOf(r[1])
    <2>1. Csv!IsBlank(r) <=> Len(r) = 1 /\ ~r[1].quoted /\ v = <<<<>>>>
      BY DEF Csv!IsBlank
    <2>2. v \in Seq(Word) /\ Len(v) = Len(r) /\ v[1] = x
      BY <1>2
    <2> HIDE DEF v, x
    <2>3. v = <<<<>>>> => x = <<>>
      BY <2>2
    <2>4. Len(r) = 1 /\ x = <<>> => v = <<<<>>>>
      <3>1. ASSUME NEW y \in Word, Len(r) = 1, x = y PROVE v = <<y>>
        BY <2>2, <3>1
      <3>2. <<>> \in Word
        BY DEF Word
      <3> QED BY <3>1, <3>2
    <2> QED BY <2>1, <2>3, <2>4 DEF x
  <1>4. Csv!Shown[i] = IF ~Csv!IsBlank(r) THEN Append(Csv!Shown[i - 1], Csv!Values(r)) ELSE Csv!Shown[i - 1]
    BY ShownGrows DEF r
  <1> QED BY <1>3, <1>4 DEF r

\* The file, and what of it has been read.
FileOk ==
  /\ given \in Rows1(Rows1(CsvFields)) /\ \A f \in CsvFields : FieldOk(f)
  /\ text \in Word /\ Len(text) \in Nat
  /\ \A n \in 1..Len(text) : text[n] = Csv!File(given)[n]
  /\ Len(text) = Len(Csv!File(given)) \/ Len(text) + 1 = Len(Csv!File(given))

LEMMA FileIs == ASSUME FilesInv, \A f \in CsvFields : FieldOk(f) PROVE FileOk
  <1> DEFINE F == Csv!File(given)
             n == Len(F)
  <1>1. given \in Seq(Rows1(CsvFields)) /\ Len(given) > 0
    BY DEF FilesInv, Rows1
  <1>2. F \in Seq(Sign) /\ n \in Nat
    BY <1>1, LinesIn DEF Word
  <1>3. n > 0
    <2>1. /\ RowEnds[1] \in Nat /\ RowEnds[Len(given)] = n /\ 1 \in 1..Len(given)
      <3>1. 1 \in 0..Len(given)
        BY <1>1
      <3> QED BY <1>1, <3>1, Begins
    <2>2. given[1] \in Rows1(CsvFields)
      BY <1>1
    <2>3. 1 \in 1..Len(given[1]) /\ given[1][1] \in CsvFields
      BY <2>2 DEF Rows1
    <2>4. Place(1, 1, 0)
      <3>1. Len(Csv!Written(given[1][1])) \in Nat
        BY <2>3, WrittenIs1 DEF Word
      <3> QED BY <2>1, <2>3, <3>1 DEF Place
    <2>5. Beginning(1, 1) + 0 + 1 \in 1..n
      BY <1>1, <2>4, Begins
    <2> QED BY <1>2, <2>5
  <1> HIDE DEF n
  <1>4. CASE text = F
    <2>1. text \in Seq(Sign) /\ Len(text) = n /\ \A m \in 1..Len(text) : text[m] = F[m]
      BY <1>2, <1>4 DEF n
    <2> QED BY <1>2, <2>1 DEF FilesInv, FileOk, Word, n
  <1>5. CASE text = Csv!Front(F)
    <2> DEFINE m == n - 1
    <2>1. m \in Nat /\ m + 1 = n /\ m <= n
      BY <1>2, <1>3
    <2>2. Csv!Front(F) = SubSeq(F, 1, Len(F) - 1)
      BY DEF Csv!Front
    <2> HIDE DEF F, m
    <2>3. SubSeq(F, 0 + 1, 0 + m) = [j \in 1..m |-> F[0 + j]]
      <3>1. 0 + m <= Len(F)
        BY <2>1 DEF n
      <3> QED BY <1>2, <2>1, <3>1, PieceIs
    <2>4. 0 + 1 = 1 /\ 0 + m = m /\ \A j \in 1..m : 0 + j = j /\ F[j] \in Sign
      BY <1>2, <2>1 DEF n
    <2>5. text = [j \in 1..m |-> F[j]]
      <3>1. SubSeq(F, 0 + 1, 0 + m) = [j \in 1..m |-> F[j]]
        BY <2>3, <2>4
      <3>2. Len(F) - 1 = m
        BY DEF m, n
      <3> QED BY <1>5, <2>2, <2>4, <3>1, <3>2
    <2>6. text \in Seq(Sign) /\ Len(text) = m /\ \A j \in 1..m : text[j] = F[j]
      BY <2>1, <2>4, <2>5
    <2> QED BY <1>2, <2>1, <2>6 DEF FilesInv, FileOk, Word, n, F
  <1> QED BY <1>4, <1>5 DEF FilesInv

\* A character of a field.
LEMMA InsideStep ==
  ASSUME FileOk, NEW i, NEW k, NEW t, InField(i, k, t, next, parsed, row, lstate, buf),
         lstate \in Parsers, t < Len(Csv!Written(given[i][k])), next \in 1..Len(text), Reads(text[next])
  PROVE  /\ InField(i, k, t + 1, next + 1, parsed', row', lstate', buf') /\ lstate' \in Parsers
         /\ \/ lstate' = lstate /\ buf' = buf
            \/ \E q : Turns(q)
            \/ \E state, n : Keeps(state, n, text[next])
  <1> DEFINE f == given[i][k]
             w == Csv!Written(f)
             Done == \/ lstate' = lstate /\ buf' = buf
                     \/ \E q : Turns(q)
                     \/ \E state, n : Keeps(state, n, text[next])
  <1>1. Place(i, k, t) /\ next = Beginning(i, k) + t + 1 /\ FieldAt(f, k, t, lstate, buf)
    BY DEF InField
  <1>2. given \in Seq(Rows1(CsvFields)) /\ Len(given) > 0 /\ \A g \in CsvFields : FieldOk(g)
    BY DEF FileOk, Rows1
  <1>3. f \in CsvFields /\ Beginning(i, k) \in Nat /\ Csv!File(given)[next] = w[t + 1]
    BY <1>1, <1>2, Begins
  <1>4. FieldOk(f) /\ text[next] = w[t + 1] /\ t \in Nat /\ Len(w) \in Nat
    BY <1>1, <1>2, <1>3, WrittenIs1 DEF FileOk, Place, Word
  <1>5. FieldAt(f, k, t + 1, lstate', buf') /\ row' = row /\ parsed' = parsed /\ lstate' \in Parsers /\ Done
    <2>1. CASE f.quoted
      <3>1. QuotedAt(f.value, k, t, lstate, buf) /\ Reads(w[t + 1]) /\ t < Len(w)
        BY <1>1, <1>4, <2>1 DEF FieldAt
      <3>2. /\ QuotedAt(f.value, k, t + 1, lstate', buf') /\ row' = row /\ parsed' = parsed /\ lstate' \in Parsers
            /\ \/ \E q : Turns(q)
               \/ \E state, n : Keeps(state, n, w[t + 1])
        <4> HIDE DEF f
        <4> QED BY <1>4, <2>1, <3>1, QuotedStep
      <3> QED BY <1>4, <2>1, <3>2 DEF FieldAt
    <2>2. CASE ~f.quoted
      <3> DEFINE v == f.value
      <3>1. w = v /\ v \in Word /\ Csv!Plain(v)
        BY <1>4, <2>2, WrittenIs1 DEF FieldOk
      <3>2. BareAt(v, k, t, lstate, buf) /\ Reads(v[t + 1]) /\ t < Len(v)
        BY <1>1, <1>4, <2>2, <3>1 DEF FieldAt
      <3>3. /\ BareAt(v, k, t + 1, lstate', buf') /\ row' = row /\ parsed' = parsed /\ lstate' \in Parsers
            /\ ((lstate' = lstate /\ buf' = buf) \/ \E state, n : Keeps(state, n, v[t + 1]))
        <4> HIDE DEF v
        <4> QED BY <1>4, <3>1, <3>2, BareStep
      <3> QED BY <1>4, <2>2, <3>1, <3>3 DEF FieldAt
    <2> QED BY <2>1, <2>2
  <1>6. Place(i, k, t + 1)
    BY <1>1, <1>4 DEF Place
  <1>7. next + 1 = Beginning(i, k) + (t + 1) + 1
    BY <1>1, <1>3, <1>4
  <1>8. parsed' = Csv!Shown[i - 1] /\ row' = SubSeq(Csv!Values(given[i]), 1, k - 1)
    BY <1>5 DEF InField
  <1> HIDE DEF w, Done
  <1>9. InField(i, k, t + 1, next + 1, parsed', row', lstate', buf')
    BY <1>5, <1>6, <1>7, <1>8 DEF InField
  <1> QED BY <1>5, <1>9 DEF Done

\* The end of a row.
LEMMA RowRead ==
  ASSUME FileOk, NEW i, NEW k, NEW t, InField(i, k, t, next, parsed, row, lstate, buf), k = Len(given[i]),
         \/ NextRow(ValueOf(given[i][k])) /\ (given[i][k].quoted \/ k # 1 \/ ValueOf(given[i][k]) # <<>>)
         \/ /\ Stays /\ IsFresh(lstate, "ROW_NOT_BEGUN") /\ k = 1
            /\ ~given[i][k].quoted /\ ValueOf(given[i][k]) = <<>>
  PROVE  parsed' = Csv!Shown[i] /\ row' = <<>> /\ IsFresh(lstate', "ROW_NOT_BEGUN") /\ buf' = buf
  <1> DEFINE r == given[i]
             f == r[k]
             x == ValueOf(f)
  <1>1. /\ i \in 1..Len(given) /\ k \in 1..Len(r) /\ parsed = Csv!Shown[i - 1]
        /\ row = SubSeq(Csv!Values(r), 1, k - 1) /\ k = Len(r)
    BY DEF InField, Place
  <1>2. given \in Seq(Rows1(CsvFields)) /\ (\A g \in CsvFields : FieldOk(g)) /\ r \in Rows1(CsvFields)
    BY <1>1 DEF FileOk, Rows1
  <1>3. /\ Append(SubSeq(Csv!Values(r), 1, k - 1), x) = SubSeq(Csv!Values(r), 1, k)
        /\ SubSeq(Csv!Values(r), 1, k) = Csv!Values(r)
    <2> HIDE DEF r
    <2> QED BY <1>1, <1>2, RowGrows DEF r
  <1>4. /\ (Len(r) # 1 \/ r[1].quoted \/ ValueOf(r[1]) # <<>>) =>
             Csv!Shown[i] = Append(Csv!Shown[i - 1], Csv!Values(r))
        /\ Len(r) = 1 /\ ~r[1].quoted /\ ValueOf(r[1]) = <<>> => Csv!Shown[i] = Csv!Shown[i - 1]
    BY <1>1, <1>2, RowShown
  <1>5. CASE NextRow(x) /\ (f.quoted \/ k # 1 \/ x # <<>>)
    <2>1. Append(row, x) = Csv!Values(r)
      BY <1>1, <1>3
    <2>2. Csv!Shown[i] = Append(Csv!Shown[i - 1], Csv!Values(r))
      <3>1. Len(r) # 1 \/ r[1].quoted \/ ValueOf(r[1]) # <<>>
        <4> HIDE DEF r
        <4> QED BY <1>1, <1>5
      <3> QED BY <1>4, <3>1
    <2> HIDE DEF r, x
    <2> QED BY <1>1, <1>5, <2>1, <2>2 DEF NextRow
  <1>6. CASE Stays /\ IsFresh(lstate, "ROW_NOT_BEGUN") /\ k = 1 /\ ~f.quoted /\ x = <<>>
    <2>1. Csv!Shown[i] = Csv!Shown[i - 1]
      BY <1>1, <1>4, <1>6
    <2>2. row = <<>>
      <3> DEFINE v == Csv!Values(r)
      <3>1. v \in Seq(Word) /\ Len(v) \in Nat
        BY <1>2, ValuesAre DEF Words
      <3>2. row = SubSeq(v, 1, 0)
        <4>1. k - 1 = 0
          BY <1>6
        <4> QED BY <1>1, <4>1
      <3> HIDE DEF v
      <3>3. SubSeq(v, 0 + 1, 0 + 0) = [j \in 1..0 |-> v[0 + j]]
        <4>1. 0 \in Nat /\ 0 + 0 <= Len(v)
          BY <3>1
        <4> QED BY <3>1, <4>1, PieceIs
      <3>4. 0 + 1 = 1 /\ 0 + 0 = 0 /\ [j \in 1..0 |-> v[0 + j]] = <<>>
        OBVIOUS
      <3> QED BY <3>2, <3>3, <3>4
    <2> QED BY <1>1, <1>6, <2>1, <2>2 DEF Stays
  <1> QED BY <1>5, <1>6

\* A character of the file: of a field, or the one that closes it.
LEMMA ReadStep ==
  ASSUME FileOk, Reached(next, parsed, row, lstate, buf), lstate \in Parsers, buf \in Word,
         lstate.pos <= Len(buf), next \in 1..Len(text), Reads(text[next])
  PROVE  /\ Reached(next + 1, parsed', row', lstate', buf') /\ lstate' \in Parsers
         /\ \/ lstate'.pos = 0 /\ buf' = buf
            \/ lstate'.pos = lstate.pos /\ buf' = buf
            \/ lstate'.pos = lstate.pos + 1 /\ buf' \in Word /\ Len(buf') = lstate.pos + 1
  <1> DEFINE Moved == \/ lstate'.pos = 0 /\ buf' = buf
                      \/ lstate'.pos = lstate.pos /\ buf' = buf
                      \/ lstate'.pos = lstate.pos + 1 /\ buf' \in Word /\ Len(buf') = lstate.pos + 1
  <1>1. given \in Seq(Rows1(CsvFields)) /\ Len(given) > 0 /\ (\A g \in CsvFields : FieldOk(g)) /\ Len(text) \in Nat
    BY DEF FileOk, Rows1
  <1>2. PICK i, k, t : InField(i, k, t, next, parsed, row, lstate, buf)
    <2>1. ~AtEnd(next, parsed, row, lstate)
      BY <1>1 DEF AtEnd
    <2> QED BY <2>1 DEF Reached
  <1> DEFINE r == given[i]
             f == r[k]
             w == Csv!Written(f)
             F == Csv!File(given)
  <1>3. Place(i, k, t) /\ next = Beginning(i, k) + t + 1 /\ FieldAt(f, k, t, lstate, buf)
    BY <1>2 DEF InField
  <1>4. /\ i \in 1..Len(given) /\ k \in 1..Len(r) /\ t \in Nat /\ t <= Len(w) /\ Len(w) \in Nat
        /\ f \in CsvFields /\ FieldOk(f) /\ r \in Rows1(CsvFields) /\ Len(r) \in Nat
    <2>1. i \in 1..Len(given) /\ k \in 1..Len(r) /\ t \in 0..Len(w)
      BY <1>3 DEF Place
    <2>2. r \in Rows1(CsvFields) /\ f \in CsvFields /\ Len(r) \in Nat
      BY <1>1, <2>1 DEF Rows1
    <2>3. FieldOk(f) /\ Len(w) \in Nat
      BY <1>1, <2>2, WrittenIs1 DEF Word
    <2> QED BY <2>1, <2>2, <2>3
  <1>5. /\ Beginning(i, k) \in Nat /\ next \in 1..Len(F) /\ Len(F) \in Nat
        /\ t = Len(w) => F[next] = Closing(r, k)
        /\ t = Len(w) /\ k < Len(r) => next = Beginning(i, k + 1)
        /\ t = Len(w) /\ k = Len(r) => next = RowEnds[i]
        /\ i < Len(given) => next < Len(F)
        /\ RowEnds[Len(given)] = Len(F)
    BY <1>1, <1>3, Begins
  <1>6. CASE t < Len(w)
    <2>1. /\ InField(i, k, t + 1, next + 1, parsed', row', lstate', buf') /\ lstate' \in Parsers
          /\ \/ lstate' = lstate /\ buf' = buf
             \/ \E q : Turns(q)
             \/ \E state, n : Keeps(state, n, text[next])
      BY <1>2, <1>6, InsideStep
    <2>2. Reached(next + 1, parsed', row', lstate', buf')
      BY <2>1 DEF Reached
    <2>3. Moved
      BY <2>1 DEF Turns, Keeps
    <2> QED BY <2>1, <2>2, <2>3
  <1>7. CASE t = Len(w)
    <2> DEFINE x == ValueOf(f)
               c == text[next]
    <2>1. c = Closing(r, k) /\ FieldAt(f, k, Len(w), lstate, buf)
      BY <1>3, <1>5, <1>7 DEF FileOk
    <2>2. /\ c = "comma" => NextField(x)
          /\ c = "lf" =>
               \/ NextRow(x) /\ (f.quoted \/ k # 1 \/ x # <<>>)
               \/ Stays /\ IsFresh(lstate, "ROW_NOT_BEGUN") /\ k = 1 /\ ~f.quoted /\ x = <<>>
      <3> HIDE DEF f, c
      <3>1. Reads(c)
        BY DEF c
      <3> QED BY <1>4, <2>1, <3>1, FieldEnded
    <2>3. CASE k < Len(r)
      <3>1. c = "comma"
        BY <1>4, <2>1, <2>3 DEF Closing
      <3>2. /\ row' = Append(row, x) /\ IsFresh(lstate', "FIELD_NOT_BEGUN") /\ buf' = buf /\ parsed' = parsed
        BY <2>2, <3>1 DEF NextField
      <3>3. k + 1 \in 1..Len(r) /\ (k + 1) - 1 = k /\ k + 1 # 1
        BY <1>4, <2>3
      <3>4. Append(SubSeq(Csv!Values(r), 1, k - 1), x) = SubSeq(Csv!Values(r), 1, k)
        <4> HIDE DEF r
        <4> QED BY <1>1, <1>4, RowGrows
      <3>5. r[k + 1] \in CsvFields /\ FieldOk(r[k + 1]) /\ Len(Csv!Written(r[k + 1])) \in Nat
        <4>1. r[k + 1] \in CsvFields
          BY <1>4, <3>3 DEF Rows1
        <4> QED BY <1>1, <4>1, WrittenIs1 DEF Word
      <3>6. Place(i, k + 1, 0)
        BY <1>4, <3>3, <3>5 DEF Place
      <3>7. FirstState(k + 1) = "FIELD_NOT_BEGUN"
        BY <3>3 DEF FirstState
      <3>8. FieldAt(r[k + 1], k + 1, 0, lstate', buf')
        BY <3>2, <3>5, <3>7, AtFieldStart
      <3>9. next + 1 = Beginning(i, k + 1) + 0 + 1
        BY <1>5, <1>7, <2>3
      <3>10. parsed' = Csv!Shown[i - 1] /\ row' = SubSeq(Csv!Values(r), 1, (k + 1) - 1)
        BY <1>2, <3>2, <3>3, <3>4 DEF InField
      <3>11. InField(i, k + 1, 0, next + 1, parsed', row', lstate', buf')
        BY <3>6, <3>8, <3>9, <3>10 DEF InField
      <3>12. Reached(next + 1, parsed', row', lstate', buf')
        BY <3>11 DEF Reached
      <3> QED BY <3>2, <3>12 DEF IsFresh
    <2>4. CASE k = Len(r)
      <3>1. c = "lf"
        BY <2>1, <2>4 DEF Closing
      <3>2. parsed' = Csv!Shown[i] /\ row' = <<>> /\ IsFresh(lstate', "ROW_NOT_BEGUN") /\ buf' = buf
        <4>1. \/ NextRow(x) /\ (f.quoted \/ k # 1 \/ x # <<>>)
              \/ Stays /\ IsFresh(lstate, "ROW_NOT_BEGUN") /\ k = 1 /\ ~f.quoted /\ x = <<>>
          BY <2>2, <3>1
        <4> QED BY <1>2, <2>4, <4>1, RowRead
      <3>3. CASE i < Len(given)
        <4> DEFINE j == i + 1
        <4>1. j \in 1..Len(given) /\ j - 1 = i
          BY <1>1, <1>4, <3>3
        <4>2. next + 1 = RowEnds[j - 1] + 1 /\ parsed' = Csv!Shown[j - 1]
          BY <1>5, <1>7, <2>4, <3>2, <4>1
        <4> HIDE DEF j
        <4>3. InField(j, 1, 0, next + 1, parsed', <<>>, lstate', buf')
          BY <1>1, <3>2, <4>1, <4>2, RowStart
        <4>4. Reached(next + 1, parsed', row', lstate', buf')
          BY <3>2, <4>3 DEF Reached
        <4> QED BY <3>2, <4>4 DEF IsFresh
      <3>4. CASE i = Len(given)
        <4>1. next = Len(F)
          BY <1>5, <1>7, <2>4, <3>4
        <4>2. next + 1 = Len(text) + 1
          <5>1. Len(text) = Len(F) \/ Len(text) + 1 = Len(F)
            BY DEF FileOk
          <5> HIDE DEF F
          <5> QED BY <1>1, <1>5, <4>1, <5>1
        <4>3. parsed' = Csv!Expected
          BY <3>2, <3>4 DEF Csv!Expected
        <4>4. AtEnd(next + 1, parsed', row', lstate')
          BY <3>2, <4>2, <4>3 DEF AtEnd
        <4> QED BY <3>2, <4>4 DEF IsFresh, Reached
      <3> QED BY <1>1, <1>4, <3>3, <3>4
    <2> QED BY <1>4, <2>3, <2>4
  <1> QED BY <1>4, <1>6, <1>7

\* At the end of the text: in the last field of the file, or after it.
LEMMA TextEnds ==
  ASSUME FileOk, Reached(next, parsed, row, lstate, buf), lstate \in Parsers, buf \in Word,
         lstate.pos <= Len(buf), next = Len(text) + 1
  PROVE  /\ lstate.pstate = "ROW_NOT_BEGUN" => parsed = Csv!Expected /\ row = <<>>
         /\ lstate.pstate # "ROW_NOT_BEGUN" /\ SubmitsRow(Extent) =>
              Reached(next, parsed', row', lstate', buf')
  <1>1. CASE AtEnd(next, parsed, row, lstate)
    BY <1>1 DEF AtEnd, IsFresh
  <1>2. ASSUME NEW i, NEW k, NEW t, InField(i, k, t, next, parsed, row, lstate, buf)
        PROVE  /\ lstate.pstate = "ROW_NOT_BEGUN" => parsed = Csv!Expected /\ row = <<>>
               /\ lstate.pstate # "ROW_NOT_BEGUN" /\ SubmitsRow(Extent) =>
                    Reached(next, parsed', row', lstate', buf')
    <2> DEFINE r == given[i]
               f == r[k]
               w == Csv!Written(f)
               F == Csv!File(given)
               x == ValueOf(f)
    <2>1. given \in Seq(Rows1(CsvFields)) /\ Len(given) > 0 /\ (\A g \in CsvFields : FieldOk(g)) /\ Len(text) \in Nat
      BY DEF FileOk, Rows1
    <2>2. Place(i, k, t) /\ next = Beginning(i, k) + t + 1 /\ FieldAt(f, k, t, lstate, buf)
      BY <1>2 DEF InField
    <2>3. /\ i \in 1..Len(given) /\ k \in 1..Len(r) /\ t \in Nat /\ t <= Len(w) /\ Len(w) \in Nat
          /\ f \in CsvFields /\ FieldOk(f) /\ r \in Rows1(CsvFields) /\ Len(r) \in Nat
      <3>1. i \in 1..Len(given) /\ k \in 1..Len(r) /\ t \in 0..Len(w)
        BY <2>2 DEF Place
      <3>2. r \in Rows1(CsvFields) /\ f \in CsvFields /\ Len(r) \in Nat
        BY <2>1, <3>1 DEF Rows1
      <3>3. FieldOk(f) /\ Len(w) \in Nat
        BY <2>1, <3>2, WrittenIs1 DEF Word
      <3> QED BY <3>1, <3>2, <3>3
    <2>4. /\ next \in 1..Len(F) /\ Len(F) \in Nat /\ (t < Len(w) => next < Len(F))
          /\ t = Len(w) /\ k < Len(r) => next < Len(F)
          /\ i < Len(given) => next < Len(F)
      BY <2>1, <2>2, Begins
    <2>5. ~(next < Len(F))
      <3>1. Len(text) = Len(F) \/ Len(text) + 1 = Len(F)
        BY DEF FileOk
      <3> HIDE DEF F
      <3> QED BY <2>1, <2>4, <3>1
    <2>6. t = Len(w) /\ k = Len(r) /\ i = Len(given)
      <3> HIDE DEF F, w, r
      <3> QED BY <2>1, <2>3, <2>4, <2>5
    <2>7. /\ Csv!Field(lstate, Extent) = x
          /\ lstate.pstate = "ROW_NOT_BEGUN" => k = 1 /\ ~f.quoted /\ x = <<>> /\ IsFresh(lstate, "ROW_NOT_BEGUN")
          /\ lstate.pstate # "ROW_NOT_BEGUN" => f.quoted \/ k # 1 \/ x # <<>>
      <3>1. FieldAt(f, k, Len(Csv!Written(f)), lstate, buf)
        BY <2>2, <2>6
      <3> HIDE DEF f
      <3> QED BY <2>3, <3>1, ValueRead
    <2>8. ASSUME lstate.pstate = "ROW_NOT_BEGUN" PROVE parsed = Csv!Expected /\ row = <<>>
      <3> DEFINE v == Csv!Values(r)
      <3>1. k = 1 /\ ~f.quoted /\ x = <<>> /\ Len(r) = 1
        BY <2>6, <2>7, <2>8
      <3>2. Csv!Shown[i] = Csv!Shown[i - 1]
        BY <2>1, <2>3, <3>1, RowShown
      <3>3. parsed = Csv!Shown[i - 1] /\ row = SubSeq(v, 1, k - 1)
        BY <1>2 DEF InField
      <3>4. parsed = Csv!Expected
        BY <2>6, <3>2, <3>3 DEF Csv!Expected
      <3>5. v \in Seq(Word) /\ Len(v) \in Nat
        BY <2>1, <2>3, ValuesAre DEF Words
      <3> HIDE DEF v
      <3>6. SubSeq(v, 0 + 1, 0 + 0) = [j \in 1..0 |-> v[0 + j]]
        <4>1. 0 \in Nat /\ 0 + 0 <= Len(v)
          BY <3>5
        <4> QED BY <3>5, <4>1, PieceIs
      <3>7. 0 + 1 = 1 /\ 0 + 0 = k - 1 /\ [j \in 1..0 |-> v[0 + j]] = <<>>
        BY <3>1
      <3>8. row = <<>>
        BY <3>3, <3>6, <3>7
      <3> QED BY <3>4, <3>8
    <2>9. ASSUME lstate.pstate # "ROW_NOT_BEGUN", SubmitsRow(Extent)
          PROVE  Reached(next, parsed', row', lstate', buf')
      <3>1. NextRow(x) /\ (f.quoted \/ k # 1 \/ x # <<>>)
        BY <2>7, <2>9 DEF SubmitsRow, NextRow
      <3>2. parsed' = Csv!Shown[i] /\ row' = <<>> /\ IsFresh(lstate', "ROW_NOT_BEGUN") /\ buf' = buf
        BY <1>2, <2>6, <3>1, RowRead
      <3>3. parsed' = Csv!Expected
        BY <2>6, <3>2 DEF Csv!Expected
      <3> QED BY <3>2, <3>3 DEF AtEnd, Reached
    <2> QED BY <2>8, <2>9
  <1> QED BY <1>1, <1>2 DEF Reached

\* The file stays as it is.
LEMMA FileKept ==
  ASSUME given' = given
  PROVE  /\ RowEnds' = RowEnds /\ (Csv!Shown)' = Csv!Shown /\ (Csv!Expected)' = Csv!Expected
         /\ \A i, k : Beginning(i, k)' = Beginning(i, k)
         /\ \A i, k, t : Place(i, k, t)' <=> Place(i, k, t)
  <1>1. RowEnds' = RowEnds
    BY Zenon DEF RowEnds
  <1>2. (Csv!Shown)' = Csv!Shown
    BY Zenon DEF Csv!Shown
  <1>3. (Csv!Expected)' = Csv!Expected
    BY Zenon, <1>2 DEF Csv!Expected
  <1>4. \A i : FieldEnds(i)' = FieldEnds(i)
    BY Zenon DEF FieldEnds
  <1>5. \A i, k : Beginning(i, k)' = Beginning(i, k)
    BY Zenon, <1>1, <1>4 DEF Beginning
  <1>6. \A i, k, t : Place(i, k, t)' <=> Place(i, k, t)
    BY Zenon DEF Place
  <1> QED BY <1>1, <1>2, <1>3, <1>5, <1>6

LEMMA ReachedKept ==
  ASSUME given' = given, text' = text, Reached(next', parsed', row', lstate', buf')
  PROVE  Reached(next, parsed, row, lstate, buf)'
  <1>1. CASE AtEnd(next', parsed', row', lstate')
    <2>1. AtEnd(next, parsed, row, lstate)'
      BY <1>1, FileKept DEF AtEnd
    <2> QED BY <2>1 DEF Reached
  <1>2. ASSUME NEW i, NEW k, NEW t, InField(i, k, t, next', parsed', row', lstate', buf')
        PROVE  Reached(next, parsed, row, lstate, buf)'
    <2>1. /\ Place(i, k, t)' /\ next' = Beginning(i, k)' + t + 1 /\ parsed' = (Csv!Shown)'[i - 1]
          /\ row' = SubSeq(Csv!Values(given'[i]), 1, k - 1)
          /\ FieldAt(given'[i][k], k, t, lstate', buf')
      BY <1>2, FileKept DEF InField
    <2>2. InField(i, k, t, next, parsed, row, lstate, buf)'
      BY <2>1 DEF InField
    <2> QED BY <2>2 DEF Reached
  <1> QED BY <1>1, <1>2 DEF Reached

\* The strengthening of RowsArrive that every step preserves.
BadField ==
  \E i \in 1..Len(given) : \E k \in 1..Len(given[i]) :
    ~given[i][k].quoted /\ \E j \in 1..Len(given[i][k].value) : given[i][k].value[j] = "quote"
Nul == IF null THEN 1 ELSE 0
CallsOk ==
  /\ next \in Nat /\ next >= 1 /\ next <= Len(text) + 1
  /\ upto \in Nat /\ upto <= Len(text) /\ (upto # 0 => next <= upto + 1)
  /\ upto = 0 => pstate = lstate
  /\ status = "CSV_EPARSE" => strict /\ BadField
RoomOk ==
  /\ lstate \in Parsers /\ buf \in Word /\ lstate.pos <= Len(buf)
  /\ size \in Nat /\ (size = 0 => lstate.pos = 0) /\ (size > 0 => lstate.pos + Nul <= size)
CsvInv == FileOk /\ CallsOk /\ RoomOk /\ Reached(next, parsed, row, lstate, buf)

LEMMA CsvInit == ASSUME Csv!CsvAssumption, Csv!Init PROVE CsvInv
  <1>1. FileOk
    BY FilesAre, FieldsOk, FileIs
  <1>2. given \in Seq(Rows1(CsvFields)) /\ Len(given) > 0 /\ (\A f \in CsvFields : FieldOk(f)) /\ Len(text) \in Nat
    BY <1>1 DEF FileOk, Rows1
  <1>3. /\ next = 1 /\ upto = 0 /\ pstate = Csv!Fresh("ROW_NOT_BEGUN") /\ lstate = pstate /\ buf = <<>>
        /\ size = 0 /\ row = <<>> /\ parsed = <<>> /\ status = "CSV_SUCCESS"
    BY DEF Csv!Init
  <1>4. IsFresh(lstate, "ROW_NOT_BEGUN")
    BY <1>3, FreshIs DEF States
  <1>5. CallsOk
    BY <1>2, <1>3 DEF CallsOk
  <1>6. RoomOk
    <2>1. buf \in Word /\ Len(buf) = 0
      BY <1>3 DEF Word
    <2>2. ~(0 > 0) /\ 0 \in Nat /\ 0 <= 0
      OBVIOUS
    <2> QED BY <1>3, <1>4, <2>1, <2>2 DEF RoomOk, IsFresh
  <1>7. Reached(next, parsed, row, lstate, buf)
    <2>1. 1 \in 1..Len(given) /\ 1 - 1 = 0
      BY <1>2
    <2>2. RowEnds[0] = 0
      BY <1>2, Begins
    <2>3. Csv!Shown[0] = <<>>
      BY <1>2, ShownGrows
    <2>4. next = RowEnds[1 - 1] + 1 /\ parsed = Csv!Shown[1 - 1]
      BY <1>3, <2>1, <2>2, <2>3
    <2>5. InField(1, 1, 0, next, parsed, <<>>, lstate, buf)
      BY <1>2, <1>4, <2>1, <2>4, RowStart
    <2> QED BY <1>3, <2>5 DEF Reached
  <1> QED BY <1>1, <1>5, <1>6, <1>7 DEF CsvInv

\* A strict parser refuses a quote in a field without quotes.
LEMMA Refused ==
  ASSUME FileOk, Reached(next, parsed, row, lstate, buf), lstate \in Parsers, next \in 1..Len(text),
         Csv!Unescaped
  PROVE  BadField
  <1>1. given \in Seq(Rows1(CsvFields)) /\ Len(given) > 0 /\ (\A g \in CsvFields : FieldOk(g)) /\ Len(text) \in Nat
    BY DEF FileOk, Rows1
  <1>2. PICK i, k, t : InField(i, k, t, next, parsed, row, lstate, buf)
    <2>1. ~AtEnd(next, parsed, row, lstate)
      BY <1>1 DEF AtEnd
    <2> QED BY <2>1 DEF Reached
  <1> DEFINE r == given[i]
             f == r[k]
             v == f.value
             w == Csv!Written(f)
             c == text[next]
  <1>3. Place(i, k, t) /\ next = Beginning(i, k) + t + 1 /\ FieldAt(f, k, t, lstate, buf)
    BY <1>2 DEF InField
  <1>4. /\ i \in 1..Len(given) /\ k \in 1..Len(r) /\ t \in Nat /\ t <= Len(w) /\ Len(w) \in Nat
        /\ f \in CsvFields /\ FieldOk(f)
    <2>1. i \in 1..Len(given) /\ k \in 1..Len(r) /\ t \in 0..Len(w)
      BY <1>3 DEF Place
    <2>2. r \in Rows1(CsvFields) /\ f \in CsvFields
      BY <1>1, <2>1 DEF Rows1
    <2>3. FieldOk(f) /\ Len(w) \in Nat
      BY <1>1, <2>2, WrittenIs1 DEF Word
    <2> QED BY <2>1, <2>2, <2>3
  <1>5. (t < Len(w) => c = w[t + 1]) /\ (t = Len(w) => c = "comma" \/ c = "lf")
    BY <1>1, <1>3, Begins DEF FileOk, Closing
  <1>6. \/ lstate.pstate = "FIELD_BEGUN" /\ c = "quote" /\ ~lstate.quoted
        \/ lstate.pstate = "FIELD_MIGHT_HAVE_ENDED" /\ c = "quote" /\ lstate.spaces > 0
        \/ lstate.pstate = "FIELD_MIGHT_HAVE_ENDED" /\ OtherSign(c)
    BY Zenon DEF Csv!Unescaped, Csv!Char, Csv!IsLetter, OtherSign
  <1> HIDE DEF c
  <1>7. CASE f.quoted
    <2>1. QuotedAt(v, k, t, lstate, buf)
      BY <1>3, <1>7 DEF FieldAt
    <2>2. ~IsFresh(lstate, FirstState(k))
      BY <1>6 DEF IsFresh, FirstState
    <2>3. PICK m \in 0..Len(v) : InQuotes(v, m, t, lstate, buf)
      BY <2>1, <2>2 DEF QuotedAt
    <2> DEFINE e == EndsOf(Pairs(v))
    <2>4. /\ Len(v) \in Nat /\ Len(w) = 2 + e[Len(v)]
          /\ e[m] \in Nat /\ e[m] <= e[Len(v)] /\ e[Len(v)] \in Nat
          /\ m < Len(v) => w[3 + e[m]] = "quote" \/ v[m + 1] # "quote"
          /\ m < Len(v) => e[m] < e[Len(v)]
      <3> HIDE DEF f
      <3>1. Len(v) \in Nat
        BY <1>4, <1>7, PairEnds
      <3>2. Len(v) \in 0..Len(v)
        BY <3>1
      <3> QED BY <1>4, <1>7, <3>1, <3>2, PairEnds
    <2> HIDE DEF v, w
    <2>5. lstate.quoted /\ lstate.spaces = 0 /\ ~(0 > 0)
      BY <2>3 DEF InQuotes
    <2>6. lstate.pstate = "FIELD_MIGHT_HAVE_ENDED" /\ OtherSign(c)
      BY <1>6, <2>5
    <2>7. t = 2 + e[m] /\ (m < Len(v) => v[m + 1] = "quote")
      BY <2>3, <2>6 DEF InQuotes
    <2> HIDE DEF e
    <2>8. CASE m < Len(v)
      <3> DEFINE x == e[m]
                 y == e[Len(v)]
                 z == Len(w)
      <3>a. x \in Nat /\ y \in Nat /\ x < y /\ z = 2 + y /\ t = 2 + x
        BY <2>4, <2>7, <2>8
      <3> HIDE DEF x, y, z
      <3>b. t < z /\ t + 1 = 3 + x
        BY <3>a
      <3>1. t < Len(w) /\ t + 1 = 3 + e[m]
        BY <3>b DEF x, z
      <3>2. c = "quote"
        BY <1>5, <2>4, <2>7, <2>8, <3>1
      <3> QED BY <2>6, <3>2 DEF OtherSign
    <2>9. CASE ~(m < Len(v))
      <3>1. m = Len(v)
        BY <2>4, <2>9
      <3>2. t = Len(w)
        BY <2>4, <2>7, <3>1
      <3> QED BY <1>5, <2>6, <3>2 DEF OtherSign
    <2> QED BY <2>8, <2>9
  <1>8. CASE ~f.quoted
    <2>1. BareAt(v, k, t, lstate, buf) /\ w = v
      BY <1>3, <1>4, <1>8, WrittenIs1 DEF FieldAt
    <2>2. lstate.pstate # "FIELD_MIGHT_HAVE_ENDED"
      BY <2>1 DEF BareAt, BareFrom, IsFresh, FirstState
    <2>3. c = "quote"
      BY <1>6, <2>2
    <2>4. t < Len(w) /\ v[t + 1] = "quote"
      <3>1. t # Len(w)
        BY <1>5, <2>3
      <3>2. t < Len(w)
        <4> HIDE DEF w
        <4> QED BY <1>4, <3>1
      <3> QED BY <1>5, <2>1, <2>3, <3>2
    <2>5. t + 1 \in 1..Len(v)
      <3>1. Len(v) \in Nat /\ t < Len(v)
        BY <1>4, <2>1, <2>4
      <3> HIDE DEF v
      <3> QED BY <1>4, <3>1
    <2> QED BY <1>4, <1>8, <2>4, <2>5 DEF BadField
  <1> QED BY <1>7, <1>8

LEMMA BadKept == ASSUME given' = given PROVE BadField' <=> BadField
  BY Zenon DEF BadField

\* What a step that leaves the text has to show.
LEMMA InvKept ==
  ASSUME CsvInv, given' = given, text' = text, strict' = strict, null' = null,
         next' \in Nat, next' >= 1, next' <= Len(text) + 1, upto' \in Nat, upto' <= Len(text),
         upto' # 0 => next' <= upto' + 1, upto' = 0 => pstate' = lstate',
         status' = "CSV_EPARSE" => strict /\ BadField,
         lstate' \in Parsers, buf' \in Word, lstate'.pos <= Len(buf'), size' \in Nat,
         size' = 0 => lstate'.pos = 0, size' > 0 => lstate'.pos + Nul <= size',
         Reached(next', parsed', row', lstate', buf')
  PROVE  CsvInv'
  <1>1. FileOk'
    <2>1. FileOk
      BY DEF CsvInv
    <2> QED BY Zenon, <2>1 DEF FileOk
  <1>2. CallsOk'
    BY BadKept DEF CallsOk
  <1>3. RoomOk'
    <2>1. Nul' = Nul
      BY DEF Nul
    <2> QED BY <2>1 DEF RoomOk
  <1>4. Reached(next, parsed, row, lstate, buf)'
    BY ReachedKept
  <1> QED BY <1>1, <1>2, <1>3, <1>4 DEF CsvInv

LEMMA CsvStep == ASSUME Csv!CsvAssumption, CsvInv, [Csv!Next]_(Csv!vars) PROVE CsvInv'
  <1> DEFINE Goal == CsvInv'
  <1>1. /\ next \in Nat /\ next >= 1 /\ next <= Len(text) + 1 /\ Len(text) \in Nat
        /\ upto \in Nat /\ upto <= Len(text) /\ (upto # 0 => next <= upto + 1)
        /\ (upto = 0 => pstate = lstate) /\ (status = "CSV_EPARSE" => strict /\ BadField)
    BY DEF CsvInv, CallsOk, FileOk
  <1>2. /\ lstate \in Parsers /\ buf \in Word /\ lstate.pos <= Len(buf)
        /\ size \in Nat /\ (size = 0 => lstate.pos = 0) /\ (size > 0 => lstate.pos + Nul <= size)
        /\ lstate.pos \in Nat /\ Nul \in Nat /\ Nul <= 1
    BY DEF CsvInv, RoomOk, Parsers, Nul
  <1>3. FileOk /\ Reached(next, parsed, row, lstate, buf)
    BY DEF CsvInv
  <1>4. CASE Csv!Call
    <2>1. /\ upto = 0 /\ given' = given /\ text' = text /\ strict' = strict /\ null' = null
          /\ next' = next /\ buf' = buf /\ size' = size /\ row' = row /\ parsed' = parsed /\ status' = status
          /\ upto' \in next..Len(text) /\ lstate' = pstate
      BY <1>4 DEF Csv!Call, Csv!InCall, Csv!file, Csv!output
    <2>2. lstate' = lstate
      BY <1>1, <2>1
    <2>3. upto' \in Nat /\ upto' <= Len(text) /\ next' <= upto' + 1 /\ upto' # 0
      <3> DEFINE u == upto'
                 n == Len(text)
      <3>1. u \in next..n /\ next \in Nat /\ next >= 1 /\ n \in Nat /\ next' = next
        BY <1>1, <2>1
      <3> HIDE DEF u, n
      <3>2. u \in Nat /\ u <= n /\ next <= u + 1 /\ u # 0
        BY <3>1
      <3> QED BY <3>1, <3>2 DEF u, n
    <2>4. Reached(next', parsed', row', lstate', buf')
      BY <1>3, <2>1, <2>2
    <2> QED BY <1>1, <1>2, <2>1, <2>2, <2>3, <2>4, InvKept
  <1>5. CASE Csv!Grow
    <2>1. /\ given' = given /\ text' = text /\ strict' = strict /\ null' = null
          /\ next' = next /\ buf' = buf /\ row' = row /\ parsed' = parsed
          /\ upto # 0 /\ (size = 0 \/ (Csv!Full /\ next <= upto)) /\ Csv!IncreaseBuffer(size)
      BY <1>5 DEF Csv!Grow, Csv!InCall, Csv!file, Csv!output
    <2>2. CASE /\ \E k \in Csv!Increases : size' = size + k
               /\ UNCHANGED <<lstate, pstate, upto, status, failures>>
      <3>1. PICK k \in Csv!Increases : size' = size + k
        BY <2>2
      <3>2. k \in Nat /\ k >= 1
        <4>1. BlkSize \in Nat
          BY DEF Csv!CsvAssumption
        <4>2. k \in 1..BlkSize
          BY DEF Csv!Increases
        <4> QED BY <4>1, <4>2
      <3>3. size' \in Nat /\ size' > 0 /\ size' # 0 /\ lstate.pos + Nul <= size'
        BY <1>2, <3>1, <3>2
      <3>4. lstate' = lstate /\ pstate' = pstate /\ upto' = upto /\ status' = status
        BY <2>2
      <3>5. Reached(next', parsed', row', lstate', buf')
        BY <1>3, <2>1, <3>4
      <3> QED BY <1>1, <1>2, <2>1, <3>3, <3>4, <3>5, InvKept
    <2>3. CASE /\ failures < MaxFailures /\ failures' = failures + 1
               /\ pstate' = lstate /\ upto' = 0 /\ status' = "CSV_ENOMEM"
               /\ UNCHANGED <<lstate, size>>
      <3>1. lstate' = lstate /\ size' = size /\ pstate' = lstate' /\ upto' = 0 /\ status' # "CSV_EPARSE"
        BY <2>3
      <3>2. upto' \in Nat /\ upto' <= Len(text)
        BY <1>1, <3>1
      <3>3. Reached(next', parsed', row', lstate', buf')
        BY <1>3, <2>1, <3>1
      <3> QED BY <1>1, <1>2, <2>1, <3>1, <3>2, <3>3, InvKept
    <2> QED BY Zenon, <2>1, <2>2, <2>3 DEF Csv!IncreaseBuffer
  <1>6. CASE Csv!Return
    <2>1. /\ given' = given /\ text' = text /\ strict' = strict /\ null' = null
          /\ next' = next /\ buf' = buf /\ row' = row /\ parsed' = parsed /\ size' = size /\ status' = status
          /\ upto' = 0 /\ pstate' = lstate /\ lstate' = lstate
      BY <1>6 DEF Csv!Return, Csv!Saved, Csv!file, Csv!output
    <2>2. upto' \in Nat /\ upto' <= Len(text)
      BY <1>1, <2>1
    <2>3. Reached(next', parsed', row', lstate', buf')
      BY <1>3, <2>1
    <2> QED BY <1>1, <1>2, <2>1, <2>2, <2>3, InvKept
  <1>7. CASE Csv!Parse
    <2> DEFINE stops == strict /\ Csv!Unescaped
    <2>1. /\ given' = given /\ text' = text /\ strict' = strict /\ null' = null /\ size' = size
          /\ upto # 0 /\ size > 0 /\ next <= upto /\ ~Csv!Full
          /\ stops => pstate' = lstate /\ upto' = 0 /\ next' = next /\ lstate' = lstate /\ buf' = buf
                      /\ row' = row /\ parsed' = parsed
          /\ ~stops => /\ next' = next + 1 /\ (Csv!NotBegun \/ Csv!Begun \/ Csv!MightHaveEnded)
                       /\ pstate' = pstate /\ upto' = upto /\ status' = status
      BY <1>7 DEF Csv!Parse, Csv!InCall, Csv!file, Csv!output
    <2>2. next \in 1..Len(text)
      BY <1>1, <2>1
    <2>3. CASE stops
      <3>1. BadField /\ strict
        BY <1>2, <1>3, <2>2, <2>3, Refused
      <3>2. Reached(next', parsed', row', lstate', buf')
        BY <1>3, <2>1, <2>3
      <3>3. upto' \in Nat /\ upto' <= Len(text) /\ upto' = 0
        BY <1>1, <2>1, <2>3
      <3>4. pstate' = lstate' /\ lstate' = lstate /\ buf' = buf /\ next' = next
        BY <2>1, <2>3
      <3> HIDE DEF stops
      <3> QED BY <1>1, <1>2, <2>1, <3>1, <3>2, <3>3, <3>4, InvKept
    <2>4. CASE ~stops
      <3>1. Csv!NotBegun \/ Csv!Begun \/ Csv!MightHaveEnded
        BY <2>1, <2>4
      <3>2. text[next] \in Sign
        BY <1>3, <2>2 DEF FileOk, Word
      <3>3. Reads(text[next])
        BY <1>2, <3>1, <3>2, ParseReads
      <3>4. /\ Reached(next + 1, parsed', row', lstate', buf') /\ lstate' \in Parsers
            /\ \/ lstate'.pos = 0 /\ buf' = buf
               \/ lstate'.pos = lstate.pos /\ buf' = buf
               \/ lstate'.pos = lstate.pos + 1 /\ buf' \in Word /\ Len(buf') = lstate.pos + 1
        BY <1>2, <1>3, <2>2, <3>3, ReadStep
      <3>5. lstate.pos + Nul < size
        <4>1. lstate.pos # (IF null THEN size - 1 ELSE size)
          BY <2>1 DEF Csv!Full
        <4>2. lstate.pos + Nul <= size
          BY <1>2, <2>1
        <4>3. lstate.pos + Nul # size
          <5>1. CASE null
            <6>1. Nul = 1 /\ lstate.pos # size - 1
              BY <4>1, <5>1 DEF Nul
            <6> QED BY <1>2, <6>1
          <5>2. CASE ~null
            <6>1. Nul = 0 /\ lstate.pos # size
              BY <4>1, <5>2 DEF Nul
            <6> QED BY <1>2, <6>1
          <5> QED BY <5>1, <5>2
        <4> QED BY <1>2, <4>2, <4>3
      <3>6. buf' \in Word /\ lstate'.pos <= Len(buf') /\ lstate'.pos + Nul <= size
        <4>1. Len(buf) \in Nat
          BY <1>2 DEF Word
        <4> DEFINE a == lstate'.pos
                   b == lstate.pos
        <4>2. \/ a = 0 /\ buf' = buf
              \/ a = b /\ buf' = buf
              \/ a = b + 1 /\ buf' \in Word /\ Len(buf') = b + 1
          BY <3>4
        <4>3. b \in Nat /\ b <= Len(buf) /\ b + Nul < size /\ Nul \in Nat /\ size \in Nat /\ buf \in Word
          BY <1>2, <3>5
        <4> HIDE DEF a, b
        <4>4. buf' \in Word /\ a <= Len(buf') /\ a + Nul <= size
          BY <4>1, <4>2, <4>3
        <4> QED BY <4>4 DEF a
      <3>7. next' \in Nat /\ next' >= 1 /\ next' <= Len(text) + 1 /\ upto' = upto /\ next' <= upto' + 1
        BY <1>1, <2>1, <2>4
      <3>8. Reached(next', parsed', row', lstate', buf') /\ status' = status /\ size' # 0 /\ size' > 0 /\ size' = size
        BY <1>2, <2>1, <2>4, <3>4
      <3> HIDE DEF stops
      <3> QED BY <1>1, <1>2, <2>1, <3>4, <3>6, <3>7, <3>8, InvKept
    <2> QED BY <2>3, <2>4
  <1>8. CASE Csv!Fini
    <2>1. /\ given' = given /\ text' = text /\ strict' = strict /\ null' = null /\ size' = size
          /\ upto = 0 /\ next = Len(text) + 1 /\ pstate.pstate # "ROW_NOT_BEGUN" /\ next' = next /\ upto' = upto
          /\ pstate' = lstate' /\ status' = "CSV_SUCCESS"
          /\ Csv!SubmitRow(pstate, IF pstate.pstate = "FIELD_MIGHT_HAVE_ENDED"
                                   THEN pstate.pos - pstate.spaces - 1 ELSE pstate.pos)
      BY <1>8 DEF Csv!Fini, Csv!InCall, Csv!file
    <2>2. pstate = lstate
      BY <1>1, <2>1
    <2>3. Csv!SubmitRow(lstate, Extent) /\ lstate.pstate # "ROW_NOT_BEGUN"
      BY <2>1, <2>2 DEF Extent
    <2>4. SubmitsRow(Extent)
      BY <2>3, SubmitIs
    <2>5. Reached(next, parsed', row', lstate', buf')
      BY <1>2, <1>3, <2>1, <2>3, <2>4, TextEnds
    <2>6. lstate' \in Parsers /\ lstate'.pos = 0 /\ buf' = buf
      BY <2>4 DEF SubmitsRow, IsFresh
    <2>7. Len(buf) \in Nat
      BY <1>2 DEF Word
    <2>8. lstate'.pos <= Len(buf') /\ (size > 0 => lstate'.pos + Nul <= size)
      BY <1>2, <2>6, <2>7
    <2>9. Reached(next', parsed', row', lstate', buf') /\ status' # "CSV_EPARSE"
      BY <2>1, <2>5
    <2> QED BY <1>1, <1>2, <2>1, <2>6, <2>8, <2>9, InvKept
  <1>9. CASE UNCHANGED Csv!vars
    <2>1. /\ given' = given /\ text' = text /\ strict' = strict /\ null' = null
          /\ next' = next /\ buf' = buf /\ row' = row /\ parsed' = parsed /\ size' = size /\ status' = status
          /\ upto' = upto /\ pstate' = pstate /\ lstate' = lstate
      BY <1>9 DEF Csv!vars, Csv!file, Csv!output
    <2>2. Reached(next', parsed', row', lstate', buf')
      BY <1>3, <2>1
    <2> QED BY <1>1, <1>2, <2>1, <2>2, InvKept
  <1> QED BY <1>4, <1>5, <1>6, <1>7, <1>8, <1>9 DEF Csv!Next

LEMMA CsvRight == ASSUME CsvInv PROVE Csv!RowsArrive
  <1>1. FileOk /\ Reached(next, parsed, row, lstate, buf)
    BY DEF CsvInv
  <1>2. given \in Seq(Rows1(CsvFields)) /\ Len(given) > 0 /\ Len(given) \in Nat
        /\ (\A g \in CsvFields : FieldOk(g)) /\ Len(text) \in Nat
    BY <1>1 DEF FileOk, Rows1
  <1>3. Csv!IsPrefix(parsed, Csv!Expected)
    <2>1. \E i \in 0..Len(given) : parsed = Csv!Shown[i]
      <3>1. CASE AtEnd(next, parsed, row, lstate)
        <4>1. Len(given) \in 0..Len(given) /\ parsed = Csv!Shown[Len(given)]
          BY <1>2, <3>1 DEF AtEnd, Csv!Expected
        <4> QED BY <4>1
      <3>2. CASE \E i, k, t : InField(i, k, t, next, parsed, row, lstate, buf)
        <4>1. PICK i, k, t : InField(i, k, t, next, parsed, row, lstate, buf)
          BY <3>2
        <4>2. i \in 1..Len(given) /\ parsed = Csv!Shown[i - 1]
          BY <4>1 DEF InField, Place
        <4>3. i - 1 \in 0..Len(given)
          BY <1>2, <4>2
        <4> QED BY <4>2, <4>3
      <3> QED BY <1>1, <3>1, <3>2 DEF Reached
    <2> QED BY <1>2, <2>1, ShownFirst
  <1>4. next = Len(text) + 1 /\ ~Csv!InCall /\ pstate.pstate = "ROW_NOT_BEGUN" => parsed = Csv!Expected
    <2>1. ASSUME next = Len(text) + 1, ~Csv!InCall, pstate.pstate = "ROW_NOT_BEGUN" PROVE parsed = Csv!Expected
      <3>1. lstate.pstate = "ROW_NOT_BEGUN" /\ lstate \in Parsers /\ buf \in Word /\ lstate.pos <= Len(buf)
        BY <2>1 DEF CsvInv, CallsOk, RoomOk, Csv!InCall
      <3> QED BY <1>1, <2>1, <3>1, TextEnds
    <2> QED BY <2>1
  <1>5. ASSUME status = "CSV_EPARSE"
        PROVE  strict /\ \E f \in Csv!ToSet(Csv!FlattenSeq(given)) : ~f.quoted /\ "quote" \in Csv!ToSet(f.value)
    <2>1. strict /\ BadField
      BY <1>5 DEF CsvInv, CallsOk
    <2>0. PICK i \in 1..Len(given) : \E k \in 1..Len(given[i]) :
            ~given[i][k].quoted /\ \E j \in 1..Len(given[i][k].value) : given[i][k].value[j] = "quote"
      BY <2>1 DEF BadField
    <2>2. PICK k \in 1..Len(given[i]) :
            ~given[i][k].quoted /\ \E j \in 1..Len(given[i][k].value) : given[i][k].value[j] = "quote"
      BY <2>0
    <2> DEFINE f == given[i][k]
               flat == FlattenSeq(given)
               e == EndsOf(given)
    <2>3. /\ given[i] \in Rows1(CsvFields) /\ f \in CsvFields /\ Len(given[i]) \in Nat
          /\ given \in Seq(Seq(CsvFields))
      <3>1. given[i] \in Rows1(CsvFields)
        BY <1>2
      <3>2. \A n \in 1..Len(given) : given[n] \in Seq(CsvFields)
        BY <1>2 DEF Rows1
      <3>3. given = [n \in 1..Len(given) |-> given[n]]
        BY <1>2
      <3>4. given \in Seq(Seq(CsvFields))
        BY <1>2, <3>2, <3>3
      <3> QED BY <3>1, <3>4 DEF Rows1
    <2>4. flat \in Seq(CsvFields) /\ Laid(given, e)
      BY <2>3, Flattened
    <2>5. \A n \in 1..Len(given) : Len(given[n]) \in Nat
      BY <1>2 DEF Rows1
    <2> HIDE DEF flat, e
    <2>6. \A a, b \in 0..Len(given) : a <= b => e[a] <= e[b]
      BY <1>2, <2>4, <2>5, Ascending
    <2>7. /\ e \in [0..Len(given) -> Nat] /\ e[Len(given)] = Len(flat) /\ e[i] = e[i - 1] + Len(given[i])
          /\ flat[e[i - 1] + k] = f
      BY <2>2, <2>4 DEF Laid, flat
    <2>8. e[i - 1] + k \in 1..Len(flat)
      <3>1. i \in 0..Len(given) /\ i - 1 \in 0..Len(given) /\ Len(given) \in 0..Len(given) /\ i <= Len(given)
        BY <1>2
      <3>2. e[i] <= Len(flat) /\ e[i] \in Nat /\ e[i - 1] \in Nat /\ Len(flat) \in Nat
        BY <2>6, <2>7, <3>1
      <3> DEFINE a == e[i - 1]
                 b == e[i]
                 d == Len(given[i])
                 z == Len(flat)
      <3>3. a \in Nat /\ b \in Nat /\ d \in Nat /\ z \in Nat /\ b <= z /\ b = a + d /\ k \in 1..d
        BY <2>2, <2>3, <2>7, <3>2
      <3> HIDE DEF a, b, d, z
      <3>4. a + k \in 1..z
        BY <3>3
      <3> QED BY <3>4 DEF a, z
    <2>9. f \in Csv!ToSet(flat)
      <3>1. DOMAIN flat = 1..Len(flat)
        BY <2>4
      <3> QED BY <2>7, <2>8, <3>1 DEF Csv!ToSet
    <2>10. "quote" \in Csv!ToSet(f.value)
      <3>1. DOMAIN f.value = 1..Len(f.value)
        <4>1. f.value \in Seq(Sign)
          BY <1>2, <2>3 DEF FieldOk, Word
        <4> QED BY <4>1
      <3> QED BY <2>2, <3>1 DEF Csv!ToSet
    <2>11. Csv!FlattenSeq(given) = flat
      BY SameFlat DEF flat
    <2> QED BY <2>1, <2>2, <2>9, <2>10, <2>11
  <1>6. size > 0 => lstate.pos + (IF null THEN 1 ELSE 0) <= size
    BY DEF CsvInv, RoomOk, Nul
  <1> QED BY <1>3, <1>4, <1>5, <1>6 DEF Csv!RowsArrive

(* The rows of a CSV file are read as they were written, however the calls *)
(* of csv_parse are cut and whichever of them end for lack of memory, for  *)
(* all fields, sizes of the buffer and options of the parser (csv_parse,   *)
(* csv_fini, csv_increase_buffer, csv_fwrite2).                            *)
THEOREM RowsStayRight ==
  ASSUME Csv!CsvAssumption
  PROVE  Csv!Spec => []Csv!RowsArrive
  <1>1. Csv!Init => CsvInv
    BY CsvInit
  <1>2. CsvInv /\ [Csv!Next]_(Csv!vars) => CsvInv'
    BY CsvStep
  <1>3. CsvInv => Csv!RowsArrive
    BY CsvRight
  <1> QED BY <1>1, <1>2, <1>3, PTL DEF Csv!Spec
-----------------------------------------------------------------------------
(* What a child does with the daily files (DailyFiles): the days of a      *)
(* request are read in order, the rows of a file are read as they were     *)
(* written, and each answered call has its line in lama.cal                *)
(* (CreateCdrFromDates, libcsv.c, AsteriskCDRProcessFile), with its date,  *)
(* of those that fit in fecha and hora (HasRoom).                          *)
THEOREM RecordsStayRight ==
  ASSUME DailyAssumption PROVE DailySpec => []RecordsArrive
<1>1. Csv!CsvAssumption /\ Dates!DatesAssumption /\ Calls!RecordsAssumption
  BY DEF DailyAssumption
<1>2. DailyInit => Csv!Init /\ Dates!Init /\ Calls!Init
  BY DEF DailyInit
<1>3. [DailyNext]_<<part, dailyVars>> =>
        [Csv!Next]_(Csv!vars) /\ [Dates!Next]_(Dates!vars) /\ [Calls!Next]_(Calls!vars)
  <2> SUFFICES ASSUME [DailyNext]_<<part, dailyVars>>
               PROVE  [Csv!Next]_(Csv!vars) /\ [Dates!Next]_(Dates!vars) /\ [Calls!Next]_(Calls!vars)
    OBVIOUS
  <2>1. UNCHANGED csvVars => UNCHANGED Csv!vars
    BY DEF csvVars, Csv!vars, Csv!file, Csv!output
  <2>2. UNCHANGED datesVars => UNCHANGED Dates!vars
    BY DEF datesVars, Dates!vars
  <2>3. UNCHANGED recordsVars => UNCHANGED Calls!vars
    BY DEF recordsVars, Calls!vars
  <2>4. CASE UNCHANGED <<part, dailyVars>>
    <3>1. UNCHANGED <<csvVars, datesVars, recordsVars>>
      BY <2>4 DEF dailyVars
    <3> QED BY <2>1, <2>2, <2>3, <3>1
  <2>5. CASE DailyNext
    <3>1. CASE Csv!Next /\ UNCHANGED <<datesVars, recordsVars>>
      BY <2>2, <2>3, <3>1
    <3>2. CASE Dates!Next /\ UNCHANGED <<csvVars, recordsVars>>
      BY <2>1, <2>3, <3>2
    <3>3. CASE Calls!Next /\ UNCHANGED <<csvVars, datesVars>>
      BY <2>1, <2>2, <3>3
    <3> QED BY <2>5, <3>1, <3>2, <3>3 DEF DailyNext
  <2> QED BY <2>4, <2>5
<1>4. DailySpec => Csv!Spec /\ Dates!Init /\ [][Dates!Next]_(Dates!vars) /\ Calls!Spec
  BY <1>2, <1>3, PTL DEF DailySpec, Csv!Spec, Calls!Spec
<1>5. Csv!Spec => []Csv!RowsArrive
  BY <1>1, RowsStayRight
<1>6. Dates!Init /\ [][Dates!Next]_(Dates!vars) => []Dates!DaysArrive
  BY <1>1, DaysAlwaysArrive
<1>7. Calls!Spec => []Calls!LinesAreRight
  BY <1>1, LinesStayRight
<1>8. Csv!RowsArrive /\ Dates!DaysArrive /\ Calls!LinesAreRight => RecordsArrive
  BY DEF RecordsArrive
<1> QED BY <1>4, <1>5, <1>6, <1>7, <1>8, PTL
=============================================================================
