--------------------------------- MODULE Pid ---------------------------------
(* The two PID loops of test_dsp, PID and PID_Small_Ki, given the same     *)
(* samples.  Gains are in parts of Divider; shorts wrap around at Half.    *)
EXTENDS Integers

CONSTANTS
  Gains,      \* what kp, ki and kd can be: records of the three
  Errors,     \* what setpoint - sample can be
  Half,       \* 2^15: a short is in -Half..Half - 1
  Divider,    \* 128
  MaxCalls    \* bound: calls since the last flush

PidAssumption ==
  /\ Half \in Nat \ {0} /\ Divider \in 1..Half /\ MaxCalls \in Nat
  /\ Gains \subseteq [kp : 0..(2 * Half - 1), ki : 0..(2 * Half - 1), kd : 0..(2 * Half - 1)]
  /\ Errors \subseteq -Half..(Half - 1)

VARIABLES
  gain,
  pid,      \* the object of PID
  small,    \* the object of PID_Small_Ki
  calls,    \* history: calls since the flush
  sum,      \* history: the sum of ki * error since the flush
  held,     \* history: that since the small loop's output last moved
  signs     \* history: the signs of the errors since the flush

vars == <<gain, pid, small, calls, sum, held, signs>>

ToShort(x)  == ((x + Half) % (2 * Half)) - Half
ToUShort(x) == x % (2 * Half)
Abs(x)    == IF x < 0 THEN -x ELSE x
Sign(x)   == IF x < 0 THEN -1 ELSE IF x = 0 THEN 0 ELSE 1

Shifted(acc) == acc \div Divider   \* mutant: acc >> 7, as it once was
Part(acc)    == Sign(acc) * (Abs(acc) \div Divider)

K1 == ToUShort(gain.kp + gain.ki + gain.kd)
K2 == ToUShort(gain.kp + gain.kd + gain.kd)
K3 == ToUShort(gain.kd)

(* The terms of the two errors before, and the outputs with those of this. *)
Older(o) == ToShort(Part(K2 * o.error_z1)) - ToShort(Part(K3 * o.error_z2))
Output(e) == ToShort(pid.last_d + ToShort(Part(K1 * e)) - Older(pid))

Integral(e) == ToShort(small.ki_accumulator + (gain.ki * e))
SmallAcc(e) == (ToUShort(gain.kp + gain.kd) * e) + Integral(e)
SmallOutput(e) == ToShort(small.last_d + ToShort(Part(SmallAcc(e))) - Older(small))
KeptAlways(a) == a            \* mutant: the accumulator is counted again
Kept(a) == IF a \in -(Divider - 1)..(Divider - 1) THEN a ELSE 0

Flushed == [last_d |-> 0, error_z1 |-> 0, error_z2 |-> 0]
SmallFlushed == [last_d |-> 0, ki_accumulator |-> 0, error_z1 |-> 0, error_z2 |-> 0]

Init ==
  /\ gain \in Gains
  /\ pid = Flushed /\ small = SmallFlushed
  /\ calls = 0 /\ sum = 0 /\ held = 0 /\ signs = {}

PID(e) ==
  pid' = [last_d |-> Output(e), error_z1 |-> e, error_z2 |-> pid.error_z1]

PID_Small_Ki(e) ==
  small' = [last_d |-> SmallOutput(e), ki_accumulator |-> Kept(Integral(e)),
            error_z1 |-> e, error_z2 |-> small.error_z1]

Call(e) ==
  /\ calls < MaxCalls
  /\ PID(e) /\ PID_Small_Ki(e)
  /\ calls' = calls + 1
  /\ sum' = sum + gain.ki * e
  /\ held' = IF small'.last_d = small.last_d THEN held + gain.ki * e ELSE 0
  /\ signs' = signs \cup ({Sign(e)} \ {0})
  /\ UNCHANGED gain

PID_Flush_Errors ==
  /\ pid' = Flushed /\ small' = SmallFlushed
  /\ calls' = 0 /\ sum' = 0 /\ held' = 0 /\ signs' = {}
  /\ UNCHANGED gain

Next == PID_Flush_Errors \/ \E e \in Errors : Call(e)

Spec == Init /\ [][Next]_vars
-----------------------------------------------------------------------------
(* With no error for three calls neither output moves, whatever the gains  *)
(* and whatever is left in the accumulator (main.c:275, 352-355).          *)
HoldsAtZero ==
  pid.error_z1 = 0 /\ pid.error_z2 = 0 =>
    Output(0) = pid.last_d /\ SmallOutput(0) = small.last_d

(* A constant error that nothing integrates moves the outputs by one at    *)
(* most in a call, against the error: the three parts are cut separately.  *)
(* Only if the factors still add up, though: k2 can wrap around alone.     *)
SlowDrift ==
  gain.ki = 0 /\ pid.error_z1 = pid.error_z2 /\ K1 + K3 = K2 =>
    LET e == pid.error_z1 IN
    /\ ToShort(Output(e) - pid.last_d) \in {0, -Sign(e)}
    /\ SmallOutput(e) = Output(e)

(* With a proportional gain alone the output depends on the last error     *)
(* only: what was added for the others was taken away again, even where    *)
(* the shorts wrapped around.                                              *)
Proportional ==
  gain.ki = 0 /\ gain.kd = 0 =>
    /\ pid.last_d = ToShort(Part(gain.kp * pid.error_z1))
    /\ small.last_d = pid.last_d

(* Errors too small for the output to move are kept, all of them, until it *)
(* moves, and it moves before they come to the Divider, if what one of     *)
(* them adds fits into a short (main.c:340, 352-355).                      *)
Integrates == gain.kp = 0 /\ gain.kd = 0
Fits == \A e \in Errors : Abs(gain.ki * e) + Divider <= Half
SmallErrorsCount ==
  Integrates /\ Fits => small.ki_accumulator = held /\ Abs(held) < Divider

(* For errors of one sign the small loop loses no more of the integral     *)
(* than PID does, as long as no output wraps around.                       *)
LosesLess ==
  Integrates /\ Fits /\ signs # {-1, 1} /\ Abs(sum) < Half * Divider =>
    /\ Abs(pid.last_d) <= Abs(small.last_d)
    /\ (Divider * Abs(small.last_d)) + Abs(held) <= Abs(sum)
=============================================================================
