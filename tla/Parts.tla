--------------------------------- MODULE Parts ---------------------------------
(* The parts of the repository that run in one thread are checked and       *)
(* proved each in behaviours of its own.                                    *)
VARIABLE part     \* which one a behaviour is of; it never changes
=============================================================================
