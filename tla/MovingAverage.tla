--------------------------- MODULE MovingAverage ---------------------------
(* What a filter of eight samples promises: its answer is the mean of the  *)
(* last eight, rounded down, zeros standing for those before the first.    *)
EXTENDS Integers

CONSTANT Sample

VARIABLES last,   \* the last eight samples, newest first
          out     \* what the last call answered

Sum8(f) == f[1] + f[2] + f[3] + f[4] + f[5] + f[6] + f[7] + f[8]
Shifted(f, x) == [i \in 1..8 |-> IF i = 1 THEN x ELSE f[i - 1]]

Init == last = [i \in 1..8 |-> 0] /\ out = 0

Reset == last' = [i \in 1..8 |-> 0] /\ UNCHANGED out

Filter(x) ==
  /\ last' = Shifted(last, x)
  /\ out' = Sum8(last') \div 8

Next == Reset \/ \E x \in Sample : Filter(x)

Spec == Init /\ [][Next]_<<last, out>>
=============================================================================
