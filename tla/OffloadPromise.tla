--------------------------- MODULE OffloadPromise ---------------------------
(***************************************************************************)
(* What Smart Offload promises of the rules in the NIC, in the terms of    *)
(* its documents: a rule is created for a flow after n packets             *)
(* (src/README.md:9) and deleted when no packet matches it any more        *)
(* (src/README.md:11).  Threads, ring, status and handles do not exist     *)
(* here; FlowOffload shows that they add up to this.                       *)
(***************************************************************************)
CONSTANTS
    Keys,   \* both directions of every flow
    Peer    \* the other direction

VARIABLES
    busy,       \* the directions that have had their n packets
    requested,  \* the flows, both directions, whose rules are asked for
    ruled,      \* the directions with a rule in the NIC
    quiet,      \* ... whose rule has had no packet for the timeout
    broken      \* a direction got a second rule: nothing more is promised

vars == <<busy, requested, ruled, quiet, broken>>

Init ==
    /\ busy = {} /\ requested = {} /\ ruled = {} /\ quiet = {}
    /\ broken = FALSE

\* A direction gets to n packets, and stays there.
Reach(k) ==
    /\ busy' = busy \cup {k}
    /\ UNCHANGED <<requested, ruled, quiet, broken>>

\* A busy direction asks for the rules of its flow.
Request(k) ==
    /\ k \in busy
    /\ requested' = requested \cup {k, Peer[k]}
    /\ UNCHANGED <<busy, ruled, quiet, broken>>

\* A rule appears for a direction that was asked for and has none.
Offload(k) ==
    /\ k \in requested \ ruled
    /\ ruled' = ruled \cup {k}
    /\ UNCHANGED <<busy, requested, quiet, broken>>

\* The request is dealt with, whether or not both rules exist.
Answer(k) ==
    /\ requested' = requested \ {k, Peer[k]}
    /\ UNCHANGED <<busy, ruled, quiet, broken>>

Expire(k) ==
    /\ k \in ruled
    /\ quiet' = quiet \cup {k}
    /\ UNCHANGED <<busy, requested, ruled, broken>>

\* Only the rule of a quiet direction goes away, and it goes alone.
Remove(k) ==
    /\ k \in quiet
    /\ ruled' = ruled \ {k}
    /\ quiet' = quiet \ {k}
    /\ UNCHANGED <<busy, requested, broken>>

\* A second rule for a direction, which only a standing request can bring
\* about; from then on anything may happen.
Break == ~broken /\ broken' = TRUE /\ \E k \in requested \cap ruled : TRUE
Broken == broken /\ broken' = TRUE

Next ==
    \/ \E k \in Keys : \/ Reach(k) \/ Request(k) \/ Offload(k)
                       \/ Answer(k) \/ Expire(k) \/ Remove(k)
    \/ Break
    \/ Broken

Spec == Init /\ [][Next]_vars
=============================================================================
