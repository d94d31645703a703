----------------------------- MODULE Conversions -----------------------------
(* Text to integer and back, digit by digit: myAtoi of string_to_int_atoi  *)
(* and reverse of reverse_integer.  An int has the limits IntMax and       *)
(* -IntMax - 1; a character is its code.                                   *)
EXTENDS Integers, Sequences, FiniteSets, SequencesExt

CONSTANTS
  Chars,    \* the characters a text is made of
  MaxLen,   \* bound: how many of them
  IntMax    \* 2^31 - 1

VARIABLES
  asked,    \* the function and its argument
  answer    \* what it returned

vars == <<asked, answer>>

IntMin   == -IntMax - 1
Modulus  == 2 * (IntMax + 1)
ToInt(x) == IF x % Modulus > IntMax THEN (x % Modulus) - Modulus ELSE x % Modulus
Abs(x)   == IF x < 0 THEN -x ELSE x

Space == 32
Plus  == 43
Comma == 44
Minus == 45
IsNumber(c) == c \in 48..57
IsSign(c)   == c \in Plus..Minus     \* the comma lies between the two

(* Digits, the first one the most significant, and their value; a number   *)
(* without the last i of its digits.                                       *)
ValueOf(ds)  == FoldLeft(LAMBDA v, d : (10 * v) + d, 0, ds)
Cut(n)       == LET cut[i \in Nat] == IF i = 0 THEN n ELSE cut[i - 1] \div 10 IN cut
NumDigits(n) == CHOOSE k \in 1..(n + 1) : Cut(n)[k] = 0 /\ \A j \in 1..(k - 1) : Cut(n)[j] # 0
DigitsOf(n)  == [i \in 1..NumDigits(n) |-> Cut(n)[NumDigits(n) - i] % 10]

(* checkBigNumber, for as many digits as the limit has.                    *)
LastOff(ds, limit) ==       \* mutant: the last digit is not compared
  \E i \in 1..(Len(limit) - 1) : ds[i] > limit[i] /\ \A j \in 1..(i - 1) : ds[j] = limit[j]
Above(ds, limit) ==
  \E i \in DOMAIN limit : ds[i] > limit[i] /\ \A j \in 1..(i - 1) : ds[j] = limit[j]
Most  == DigitsOf(IntMax)
Least == DigitsOf(IntMax + 1)

(* The two limits have as many digits, and that of the negative ones is no *)
(* int backwards: 8463847412 is none.                                      *)
ConversionsAssumption ==
  /\ Chars \subseteq Nat /\ MaxLen \in Nat /\ IntMax \in Nat \ {0}
  /\ Len(Most) = Len(Least) /\ ValueOf(Reverse(Least)) > IntMax
-----------------------------------------------------------------------------
(* One character of the loop that looks for the sign and the digits.       *)
Begun == [number |-> 0, len |-> 0, sign |-> 0, zeroes |-> FALSE, stop |-> "no"]

Before(st, i, c) ==   \* no digit but zeroes so far
  IF IsNumber(c)
    THEN [st EXCEPT !.zeroes = TRUE,
                    !.number = IF c = 48 THEN 0 ELSE i, !.len = IF c = 48 THEN 0 ELSE 1]
  ELSE IF IsSign(c) /\ ~st.zeroes
    THEN IF st.sign = 0 THEN [st EXCEPT !.sign = i] ELSE [st EXCEPT !.stop = "zero"]
  ELSE IF c # Space \/ st.zeroes \/ st.sign # 0
    THEN [st EXCEPT !.stop = "zero"]
  ELSE st

Look(st, i, c) ==
  IF st.stop # "no" THEN st
  ELSE IF st.number = 0 THEN Before(st, i, c)
  ELSE IF IsNumber(c) THEN [st EXCEPT !.len = st.len + 1]
  ELSE [st EXCEPT !.stop = "end"]

Scanned(s) == FoldLeft(LAMBDA st, i : Look(st, i, s[i]), Begun, [i \in DOMAIN s |-> i])

myAtoi(s) ==
  LET st  == Scanned(s)
      ds  == [i \in 1..st.len |-> s[st.number + i - 1] - 48]
      pos == st.sign = 0 \/ s[st.sign] = Plus
      big == \/ st.len > Len(Most)
             \/ st.len = Len(Most) /\ Above(ds, IF pos THEN Most ELSE Least)
  IN IF st.stop = "zero" \/ st.number = 0 THEN 0
     ELSE IF big THEN (IF pos THEN IntMax ELSE IntMin)
     ELSE LET total == ValueOf(ds) % Modulus
          IN ToInt(IF pos THEN total ELSE (Modulus - total) % Modulus)

reverse(x) ==
  LET back == Reverse(DigitsOf(Abs(x)))
  IN IF x = IntMin THEN 0
     ELSE IF Len(back) = Len(Most) /\ Above(back, Least) THEN 0
     ELSE IF x < 0 THEN -ValueOf(back) ELSE ValueOf(back)
-----------------------------------------------------------------------------
Texts == UNION {[1..n -> Chars] : n \in 0..MaxLen}

Init == asked = <<"none", 0>> /\ answer = 0

AskAtoi ==
  /\ asked[1] = "none"
  /\ \E s \in Texts : asked' = <<"myAtoi", s>> /\ answer' = myAtoi(s)

AskReverse ==
  /\ asked[1] = "none"
  /\ \E x \in IntMin..IntMax : asked' = <<"reverse", x>> /\ answer' = reverse(x)

Next == AskAtoi \/ AskReverse

Spec == Init /\ [][Next]_vars
-----------------------------------------------------------------------------
(* The value of what atoi(3) reads of a text: spaces, a sign, digits.      *)
FirstNot(s, from, Test(_)) ==
  CHOOSE i \in from..(Len(s) + 1) :
    /\ \A j \in from..(i - 1) : Test(s[j])
    /\ i <= Len(s) => ~Test(s[i])
AtoiValue(s) ==
  LET a == FirstNot(s, 1, LAMBDA c : c = Space)
      b == IF a <= Len(s) /\ IsSign(s[a]) THEN a + 1 ELSE a
      e == FirstNot(s, b, IsNumber)
      v == ValueOf([i \in 1..(e - b) |-> s[b + i - 1] - 48])
      n == IF b > a /\ s[a] # Plus THEN -v ELSE v
  IN IF n > IntMax THEN IntMax ELSE IF n < IntMin THEN IntMin ELSE n

(* A text gives the value of its digits, or the nearest int, at the limits *)
(* too; a comma is read as a minus; and the digits of an int in reverse    *)
(* are the int they write, or 0 when it is none (myAtoi, reverse).         *)
ConversionsAreRight ==
  /\ asked[1] = "myAtoi" => answer = AtoiValue(asked[2])
  /\ asked[1] = "reverse" =>
       LET x == asked[2]
           k == NumDigits(Abs(x))
           v == CHOOSE v \in 0..ValueOf([i \in 1..k |-> 9]) :
                  \A i \in 0..(k - 1) : Cut(v)[i] % 10 = Cut(Abs(x))[k - 1 - i] % 10
       IN answer = IF v > IntMax THEN 0 ELSE IF x < 0 THEN -v ELSE v
=============================================================================
