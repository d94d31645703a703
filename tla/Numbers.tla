-------------------------------- MODULE Numbers --------------------------------
(* The programs that compute with numbers, a behaviour of each: the PID    *)
(* loops (Pid), the conversions of texts and ints (Conversions) and the    *)
(* checksums (Crc).                                                        *)
EXTENDS Parts, Integers, Sequences

CONSTANTS
  Gains, Errors, Half, Divider, MaxCalls,   \* of Pid
  Chars, MaxLen, IntMax,                    \* of Conversions
  Messages                                  \* of Crc

VARIABLES
  gain, pid, small, samples, sum, held, signs,
  asked, answer,
  message, crc8, crcByte, crc16

Loops == INSTANCE Pid WITH calls <- samples
Ints  == INSTANCE Conversions
Sums  == INSTANCE Crc WITH one <- crcByte

NumbersAssumption ==
  Loops!PidAssumption /\ Ints!ConversionsAssumption /\ Sums!CrcAssumption

loopsVars   == <<gain, pid, small, samples, sum, held, signs>>
intsVars    == <<asked, answer>>
crcVars     == <<message, crc8, crcByte, crc16>>
numbersVars == <<loopsVars, intsVars, crcVars>>

NumbersInit == Loops!Init /\ Ints!Init /\ Sums!Init

(* `part' is the program: "pid", "sums" or another.  In "sums" a           *)
(* conversion is asked for, or a checksum.                                 *)
NumbersNext ==
  /\ UNCHANGED part
  /\ \/ part = "pid" /\ Loops!Next /\ UNCHANGED <<intsVars, crcVars>>
     \/ part = "sums" /\ message = <<>> /\ Ints!Next /\ UNCHANGED <<loopsVars, crcVars>>
     \/ part = "sums" /\ asked[1] = "none" /\ Sums!Next /\ UNCHANGED <<loopsVars, intsVars>>

NumbersSpec == NumbersInit /\ [][NumbersNext]_<<part, numbersVars>>
-----------------------------------------------------------------------------
(* Numbers: the two PID loops hold at zero, forget old errors and lose     *)
(* what they say they lose; texts, ints and checksums are what they        *)
(* stand for (PID, PID_Small_Ki, myAtoi, reverse, Compute_CRC16_Simple).   *)
NumbersAreRight ==
  /\ part = "pid" => /\ Loops!HoldsAtZero /\ Loops!SlowDrift /\ Loops!Proportional
                     /\ Loops!SmallErrorsCount /\ Loops!LosesLess
  /\ part = "sums" => Ints!ConversionsAreRight /\ Sums!ChecksumsAreRight
=============================================================================
