----------------------------- MODULE WorkerPass -----------------------------
(***************************************************************************)
(* One pass of process_loop (src/src/smto_worker.c) in detail: who owns    *)
(* the mbufs between rte_eth_rx_burst, rte_eth_tx_burst and the free loop, *)
(* and what becomes of packet_amount, which the worker increments and      *)
(* delete_timeout_flows (src/src/smto_event.c) adds the hits of the rule   *)
(* to, each by reading and writing it without a lock.                      *)
(*                                                                         *)
(* One flow-table entry; the other packets of a burst are not counted.     *)
(***************************************************************************)
EXTENDS Naturals, FiniteSets

CONSTANTS
    Mbufs,         \* the packet buffers
    NULL,
    MaxBulkSize,   \* MAX_BULK_SIZE, the size of the mbufs array
    CounterModulus,\* 2^32, packet_amount is a uint32_t
    MaxPackets     \* bound: packets of the flow, and one that is being counted

ASSUME PassAssumption ==
    /\ MaxBulkSize \in Nat \ {0} /\ CounterModulus \in Nat \ {0, 1}
    /\ MaxPackets \in Nat /\ NULL \notin Mbufs

Slots == 0..(MaxBulkSize - 1)

VARIABLES
    owned,      \* the mbufs received and neither sent nor freed
    badRelease, \* history: an mbuf was sent or freed that was not owned
    wpc,        \* the worker: program counter
    mbufs, nb_rx, nb_tx, packet_index,  \* ... its local variables
    wtmp,       \* ... packet_amount as it has read it
    packet_amount,
    slow, fast, \* history: packets the worker has counted, the NIC has hit
    ruled, hits,\* NIC: a rule for the entry, and its counter
    dpc,        \* delete_timeout_flows: program counter
    dhits, dtmp,\* ... the counter it got, packet_amount as it has read it
    overlap,    \* history: one update fell between the two halves of another
    disturbed   \* history: a query or a destruction failed, or a packet hit
                \* the rule after its counter was queried

vars == <<owned, badRelease, wpc, mbufs, nb_rx, nb_tx, packet_index, wtmp,
          packet_amount, slow, fast, ruled, hits, dpc, dhits, dtmp, overlap,
          disturbed>>

mbufVars  == <<owned, badRelease, mbufs, nb_rx, nb_tx>>
nicVars   == <<ruled, hits, fast>>
agingVars == <<dpc, dhits, dtmp>>

\* nb_tx is not initialised.
Init ==
    /\ owned = {} /\ badRelease = FALSE
    /\ wpc = "rx" /\ mbufs = [s \in Slots |-> NULL]
    /\ nb_rx = 0 /\ nb_tx \in 0..MaxBulkSize /\ packet_index = 0 /\ wtmp = 0
    /\ packet_amount = 0 /\ slow = 0 /\ fast = 0
    /\ ruled = FALSE /\ hits = 0
    /\ dpc = "idle" /\ dhits = 0 /\ dtmp = 0
    /\ overlap = FALSE /\ disturbed = FALSE

----------------------------------------------------------------------------
(* The worker.                                                             *)

\* The burst fills the first nb_rx slots; the others keep what they had.
RxBurst ==
    /\ wpc = "rx"
    /\ \E n \in 0..MaxBulkSize :
       \E got \in [0..(n - 1) -> Mbufs \ owned] :
         /\ \A a, b \in 0..(n - 1) : got[a] = got[b] => a = b
         /\ owned' = owned \cup {got[a] : a \in 0..(n - 1)}
         /\ mbufs' = [s \in Slots |-> IF s < n THEN got[s] ELSE mbufs[s]]
         /\ nb_rx' = n
         /\ wpc' = IF n > 0 THEN "process" ELSE "free"
    /\ packet_index' = 0
    /\ UNCHANGED <<badRelease, nb_tx, wtmp, packet_amount, slow, nicVars,
                   agingVars, overlap, disturbed>>

\* A packet of another flow, or one packet_processing returns early for: the
\* result is not looked at.
OtherPacket ==
    /\ wpc = "process" /\ packet_index < nb_rx
    /\ packet_index' = packet_index + 1
    /\ UNCHANGED <<mbufVars, wpc, wtmp, packet_amount, slow, nicVars,
                   agingVars, overlap, disturbed>>

ReadCount ==
    /\ wpc = "process" /\ packet_index < nb_rx
    /\ slow + fast < MaxPackets
    /\ wtmp' = packet_amount /\ wpc' = "count"
    /\ UNCHANGED <<mbufVars, packet_index, packet_amount, slow, nicVars,
                   agingVars, overlap, disturbed>>

WriteCount ==
    /\ wpc = "count"
    /\ packet_amount' = (wtmp + 1) % CounterModulus
    /\ slow' = slow + 1
    /\ overlap' = (overlap \/ dpc = "write")
    /\ wtmp' = 0
    /\ wpc' = "process" /\ packet_index' = packet_index + 1
    /\ UNCHANGED <<mbufVars, nicVars, agingVars, disturbed>>

\* What happens to the mbufs of some slots: they leave the worker.
ReleaseSlots(slots) ==
    /\ owned' = owned \ {mbufs[s] : s \in slots}
    /\ badRelease' = (badRelease \/ \E s \in slots : mbufs[s] \notin owned)

TxBurst ==
    /\ wpc = "process" /\ packet_index = nb_rx
    /\ nb_tx' \in 0..nb_rx
    /\ ReleaseSlots(0..(nb_tx' - 1))
    /\ wpc' = "free"
    /\ UNCHANGED <<mbufs, nb_rx, packet_index, wtmp, packet_amount, slow,
                   nicVars, agingVars, overlap, disturbed>>

\* Mutant: what was sent is freed as well.
FreeUnsent_All ==
    /\ wpc = "free"
    /\ ReleaseSlots(0..(nb_rx - 1))
    /\ wpc' = "rx"
    /\ UNCHANGED <<mbufs, nb_rx, nb_tx, packet_index, wtmp, packet_amount,
                   slow, nicVars, agingVars, overlap, disturbed>>

\* In a pass that has received nothing nb_tx is that of an earlier pass, or
\* was never set.
FreeUnsent ==
    /\ wpc = "free"
    /\ ReleaseSlots({s \in Slots : nb_tx <= s /\ s < nb_rx})
    /\ wpc' = "rx"
    /\ UNCHANGED <<mbufs, nb_rx, nb_tx, packet_index, wtmp, packet_amount,
                   slow, nicVars, agingVars, overlap, disturbed>>

Worker ==
    RxBurst \/ OtherPacket \/ ReadCount \/ WriteCount \/ TxBurst \/ FreeUnsent

----------------------------------------------------------------------------
(* The rule of the entry, and delete_timeout_flows for it.                 *)

\* The engine makes a rule, with a counter of its own, for an entry without
\* one: of this entry's traffic or of its reverse's, so at any count.
CreateRule ==
    /\ ~ruled /\ dpc = "idle"
    /\ ruled' = TRUE /\ hits' = 0
    /\ UNCHANGED <<mbufVars, wpc, packet_index, wtmp, packet_amount, slow,
                   fast, agingVars, overlap, disturbed>>

HitRule ==
    /\ ruled /\ slow + fast < MaxPackets
    /\ hits' = hits + 1 /\ fast' = fast + 1
    /\ disturbed' = (disturbed \/ dpc # "idle")
    /\ UNCHANGED <<mbufVars, wpc, packet_index, wtmp, packet_amount, slow,
                   ruled, agingVars, overlap>>

\* The rule has aged: the counter is queried without being reset, and only
\* then packet_amount read.
QueryCounter ==
    /\ dpc = "idle" /\ ruled
    /\ dhits' = hits /\ dpc' = "read"
    /\ UNCHANGED <<mbufVars, wpc, packet_index, wtmp, packet_amount, slow,
                   nicVars, dtmp, overlap, disturbed>>

QueryFailed ==
    /\ dpc = "idle" /\ ruled
    /\ disturbed' = TRUE /\ dpc' = "destroy"
    /\ UNCHANGED <<mbufVars, wpc, packet_index, wtmp, packet_amount, slow,
                   nicVars, dhits, dtmp, overlap>>

ReadAmount ==
    /\ dpc = "read"
    /\ dtmp' = packet_amount /\ dpc' = "write"
    /\ UNCHANGED <<mbufVars, wpc, packet_index, wtmp, packet_amount, slow,
                   nicVars, dhits, overlap, disturbed>>

\* Mutant: the sum of the log line above is stored (amount + hits + hits).
WriteAmount_Twice ==
    /\ dpc = "write"
    /\ packet_amount' = (dtmp + 2 * dhits) % CounterModulus
    /\ overlap' = (overlap \/ wpc = "count")
    /\ dhits' = 0 /\ dtmp' = 0 /\ dpc' = "destroy"
    /\ UNCHANGED <<mbufVars, wpc, packet_index, wtmp, slow, nicVars,
                   disturbed>>

\* packet_amount += counter.hits
WriteAmount ==
    /\ dpc = "write"
    /\ packet_amount' = (dtmp + dhits) % CounterModulus
    /\ overlap' = (overlap \/ wpc = "count")
    /\ dhits' = 0 /\ dtmp' = 0 /\ dpc' = "destroy"
    /\ UNCHANGED <<mbufVars, wpc, packet_index, wtmp, slow, nicVars,
                   disturbed>>

\* Mutant: the rule and its counter stay.
DestroyRule_Missing ==
    /\ dpc = "destroy"
    /\ dpc' = "idle"
    /\ UNCHANGED <<mbufVars, wpc, packet_index, wtmp, packet_amount, slow,
                   nicVars, dhits, dtmp, overlap, disturbed>>

DestroyRule ==
    /\ dpc = "destroy"
    /\ ruled' = FALSE /\ hits' = 0
    /\ dpc' = "idle"
    /\ UNCHANGED <<mbufVars, wpc, packet_index, wtmp, packet_amount, slow,
                   fast, dhits, dtmp, overlap, disturbed>>

\* The rule stays, with its counter.
DestroyFailed ==
    /\ dpc = "destroy"
    /\ disturbed' = TRUE /\ dpc' = "idle"
    /\ UNCHANGED <<mbufVars, wpc, packet_index, wtmp, packet_amount, slow,
                   nicVars, dhits, dtmp, overlap>>

DeleteTimeoutFlows ==
    \/ QueryCounter \/ QueryFailed \/ ReadAmount \/ WriteAmount
    \/ DestroyRule \/ DestroyFailed

Next == Worker \/ CreateRule \/ HitRule \/ DeleteTimeoutFlows

Spec == Init /\ [][Next]_vars

----------------------------------------------------------------------------
(* What must hold.                                                         *)

\* Every mbuf that was received is sent or freed, and no mbuf twice: when a
\* pass ends none is left with the worker, whatever rte_eth_tx_burst accepted
\* and whatever nb_tx says in a pass without packets.
MbufsAccounted == ~badRelease /\ (wpc = "rx" => owned = {})

\* What of the rule's hits has yet to be added to packet_amount.
Pending == IF ruled /\ dpc # "destroy" THEN hits ELSE 0

\* packet_amount counts every packet of the flow, those of the worker and
\* those of the rules it has had, up to the width of the counter: packets are
\* lost only when an update of the worker and one of the interrupt thread
\* overlap, or a call of the driver fails or comes late.
CountExact ==
    ~overlap /\ ~disturbed =>
        (packet_amount + Pending) % CounterModulus
            = (slow + fast) % CounterModulus

\* Overlapping updates lose packets and never invent any: as long as the
\* counter has not wrapped, a flow is not offloaded sooner because of them.
CountNeverOverstated ==
    ~disturbed /\ slow + fast < CounterModulus => packet_amount <= slow + fast
=============================================================================
