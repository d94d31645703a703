---------------------------- MODULE MCLamaServer ----------------------------
(* LamaServer for TLC: two days with a backup, a gap or none, and the day  *)
(* that is not over.                                                       *)
EXTENDS LamaServer, SequencesExt

CONSTANTS r1, r2, r3, r4, r5

MCCdr      == (1 :> <<r1, r2>>) @@ (3 :> <<r3>>) @@ (0 :> <<r4, r5>>)
MCBillable == {r1, r3, r4}

\* Records and lines of different lengths: so are the replies.
MCCallWidth == (r1 :> 1) @@ (r2 :> 1) @@ (r3 :> 2) @@ (r4 :> 2) @@ (r5 :> 2)
MCRowWidth  == (r1 :> 1) @@ (r2 :> 1) @@ (r3 :> 1) @@ (r4 :> 2) @@ (r5 :> 1)

MCSymmetry == Permutations(Conn)

From(f, l) == [ok |-> TRUE, first |-> f, last |-> l]

\* Day 1 is there, day 2 is missing, day 3 is today and has a backup too.
AllRequests ==
  {From(1, 3), From(1, 2), From(2, 3), From(2, 2), From(3, 3), From(3, 1),
   [ok |-> FALSE, first |-> 1, last |-> 1]}

\* Replies of different lengths, for the runs with several children.
OneRequest  == {From(1, 1)}
TwoRequests == {From(3, 3), From(1, 3)}
=============================================================================
