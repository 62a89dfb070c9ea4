--------------------------- MODULE MCFlowOffload ---------------------------
(***************************************************************************)
(* Instances of FlowOffload for TLC: one flow, that is two keys.           *)
(***************************************************************************)
EXTENDS FlowOffload, TLC

CONSTANTS out1, in1, w1, w2

OneOutbound == {out1}
OneFlow == {out1, in1}
OnePeer == (out1 :> in1) @@ (in1 :> out1)

\* RSS may hash the two directions of a flow to different RX queues.
TwoQueues == [k \in Keys |-> IF k \in Outbound THEN w1 ELSE w2]
\* GENERAL_QUEUES_QUANTITY = 1: one RX queue, one worker.
OneQueue == [k \in Keys |-> w1]

\* Bound of the liveness run: up to the first duplicate, or the first failed
\* call of the aging path.  Both are for ever.
AgingIntact == ~duplicated /\ ~agingError

HandleSymmetry == Permutations(Handles)
=============================================================================
