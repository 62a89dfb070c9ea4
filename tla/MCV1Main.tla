------------------------------ MODULE MCV1Main ------------------------------
(***************************************************************************)
(* Instances of V1Main for TLC.                                            *)
(***************************************************************************)
EXTENDS V1Main

CONSTANTS k1, k2, m1, m2, h1, h2

TwoKeys    == {k1, k2}
TwoMetas   == {m1, m2}
TwoHandles == {h1, h2}
=============================================================================
