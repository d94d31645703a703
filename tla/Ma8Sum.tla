------------------------------- MODULE Ma8Sum -------------------------------
(* MA8Circular of test_dsp: a circular buffer of eight samples, added up   *)
(* anew in every call.                                                     *)
EXTENDS Integers

CONSTANTS Sample,   \* what the filter is given
          Short     \* 2^16: the answer is an unsigned short

ASSUME Ma8Assumption ==
  /\ Short \in Nat \ {0}
  /\ Sample \subseteq 0..(Short - 1)

VARIABLES v,    \* v_ma8
          p,    \* p_ma8, as an index
          out   \* what the last call answered

Slot == 0..7

Init == v = [i \in Slot |-> 0] /\ p = 0 /\ out = 0

AdvanceShort(q) == IF q < 6 THEN q + 1 ELSE 0   \* mutant: one slot is lost
AdvancePast(q)  == IF q < 8 THEN q + 1 ELSE 0   \* mutant: past the buffer
Advance(q) == IF q < 7 THEN q + 1 ELSE 0

Total(f) == f[0] + f[1] + f[2] + f[3] + f[4] + f[5] + f[6] + f[7]

MA8Circular_Reset ==
  /\ v' = [i \in Slot |-> 0] /\ p' = 0
  /\ UNCHANGED out

MA8Circular(x) ==
  /\ v' = [v EXCEPT ![p] = x]
  /\ p' = Advance(p)
  /\ out' = (Total(v') \div 8) % Short

Next == MA8Circular_Reset \/ \E x \in Sample : MA8Circular(x)

Spec == Init /\ [][Next]_<<v, p, out>>
-----------------------------------------------------------------------------
(* The cursor stays on a slot of the buffer, which holds shorts            *)
(* (test_dsp/main.c:236-239).                                              *)
TypeOK == v \in [Slot -> 0..(Short - 1)] /\ p \in Slot /\ out \in 0..(Short - 1)

(* The circular buffer is a window that slides: the filter answers the     *)
(* mean of the last eight samples, wherever in the buffer they start       *)
(* (test_dsp/main.c:226-242).                                              *)
Newest == [i \in 1..8 |-> v[(p - i) % 8]]
Average == INSTANCE MovingAverage WITH last <- Newest
AverageSpec == Average!Spec
=============================================================================
