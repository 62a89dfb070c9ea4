---------------------------- MODULE MCWorkerPass ----------------------------
(***************************************************************************)
(* Instances of WorkerPass for TLC.                                        *)
(***************************************************************************)
EXTENDS WorkerPass, TLC

CONSTANTS b1, b2, b3

ThreeMbufs   == {b1, b2, b3}
MbufSymmetry == Permutations(ThreeMbufs)
=============================================================================
