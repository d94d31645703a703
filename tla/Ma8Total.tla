------------------------------ MODULE Ma8Total ------------------------------
(* MA8Circular of test_struct_pointers: the same buffer, cursor and answer *)
(* as in test_dsp, with a running total, an unsigned int, from which the   *)
(* sample that leaves is taken.                                            *)
EXTENDS Ma8Sum

CONSTANT Word      \* 2^32: the total is an unsigned int

ASSUME WordAssumption == Word \in Nat /\ Word >= 8 * Short

VARIABLE total     \* total_ma8

vars == <<v, p, total, out>>

TotalInit == Init /\ total = 0

KeepTotal  == total    \* mutant: the total is not cleared
ClearTotal == 0

TotalReset ==
  /\ v' = [i \in Slot |-> 0] /\ p' = 0
  /\ total' = ClearTotal
  /\ UNCHANGED out

LeavingNext == v[(p + 1) % 8]    \* mutant: the slot after the cursor
Leaving == v[p]

TotalCircular(x) ==
  /\ total' = (((total - Leaving) % Word) + x) % Word
  /\ v' = [v EXCEPT ![p] = x]
  /\ p' = Advance(p)
  /\ out' = (total' \div 8) % Short

TotalNext == TotalReset \/ \E x \in Sample : TotalCircular(x)

TotalSpec == TotalInit /\ [][TotalNext]_vars
-----------------------------------------------------------------------------
(* The total is the sum of the samples in the buffer, so that subtracting  *)
(* the one that leaves never goes below zero (main.c:70-72).               *)
TotalIsSum == total = Total(v) /\ total >= v[p]

(* The filter with the running total answers what the one that adds all    *)
(* the samples up in every call does (test_dsp).                           *)
RecomputedSpec == Spec
=============================================================================
