----------------------------- MODULE MCWorkQueue ----------------------------
(* A small instance of WorkQueue for TLC. *)
EXTENDS WorkQueue, TLC

CONSTANTS k1, k2, k3

MCKeys == {k1, k2, k3}
MCWaits == {1, 3}
MCScores == {1, 2}
KeySymmetry == Permutations(MCKeys)
=============================================================================
