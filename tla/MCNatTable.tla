----------------------------- MODULE MCNatTable -----------------------------
(***************************************************************************)
(* Instances of NatTable for TLC.                                          *)
(***************************************************************************)
EXTENDS NatTable

CONSTANTS c1, c2, w1, w2

\* Dual port mode, a worker on each port; the tuples of c1 on the first.
TwoWorkers == [t \in Tuples |-> IF t[1] = c1 THEN w1 ELSE w2]
=============================================================================
