---------------------------- MODULE LamaSequence ----------------------------
(***************************************************************************)
(* What the clients of the CDR server rely on: a dispenser of consecutive  *)
(* numbers.  A crash may set it back to 0, and nothing else may.           *)
(***************************************************************************)
EXTENDS Integers, Sequences

CONSTANTS FirstSeq, MaxSeq

VARIABLES up, next, issued

Init == up = TRUE /\ next = FirstSeq /\ issued = <<>>

Take ==
  /\ next <= MaxSeq
  /\ issued' = Append(issued, next)
  /\ next' = next + 1
  /\ UNCHANGED up

Crash ==
  /\ up = TRUE /\ up' = FALSE
  /\ next' \in {next, 0}
  /\ UNCHANGED issued

Recover ==
  /\ up = FALSE /\ up' = TRUE
  /\ UNCHANGED <<next, issued>>

Next == Take \/ Crash \/ Recover

Spec == Init /\ [][Next]_<<up, next, issued>>
=============================================================================
