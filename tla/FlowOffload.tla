---------------------------- MODULE FlowOffload ----------------------------
(***************************************************************************)
(* The life of an offloaded flow in Smart Offload (src/src/*.c).           *)
(*                                                                         *)
(* Three kinds of threads share the flow table entries                     *)
(* (struct smto_flow_key) without a lock:                                  *)
(*   - a packet worker per RX queue (process_loop, packet_processing)      *)
(*     counts the packets of a flow and, at the threshold, puts the entry  *)
(*     into flow_rules_ring and marks it OFFLOADING;                       *)
(*   - the flow engine (create_flow_loop) takes entries out of the ring    *)
(*     and creates one hardware rule for the entry and one for the         *)
(*     symmetrical entry;                                                  *)
(*   - the interrupt thread (aged_event_callback, delete_timeout_flows)    *)
(*     destroys the rules that the NIC reports as aged.                    *)
(*                                                                         *)
(* An entry is named by its key.  A thread is a program counter; a step is *)
(* the code between two accesses that another thread can observe.          *)
(*                                                                         *)
(* In SINGLE_PORT_MODE both rules of a flow are on ports[0].  In           *)
(* DOUBLE_PORT_MODE the rule of the entry that was in the ring is on       *)
(* ports[0] and that of the symmetrical entry on ports[1].                 *)
(***************************************************************************)
EXTENDS Naturals, Sequences, FiniteSets

CONSTANTS
    Keys,                  \* flow table keys, both directions of every flow
    Outbound,              \* the keys whose first packet creates the pair
    Peer,                  \* symmetrical_flow_key
    Workers,               \* packet processing lcores
    Queue,                 \* the worker of the RX queue RSS picks for a key
    Handles,               \* addresses a struct rte_flow can have
    Modes,                 \* the values of smto_cb->mode to consider
    NULL,
    PktAmountToOffload,    \* PKT_AMOUNT_TO_OFFLOAD
    MaxRingEntries,        \* usable slots of flow_rules_ring
    BurstSize,             \* 5, the burst of create_flow_loop
    TimeoutFlowBatchSize   \* TIMEOUT_FLOW_BATCH_SIZE

ASSUME PeerAssumption ==
    /\ Outbound \subseteq Keys
    /\ Peer \in [Keys -> Keys]
    /\ \A k \in Keys : /\ Peer[Peer[k]] = k
                       /\ Peer[k] # k
                       /\ k \in Outbound <=> Peer[k] \notin Outbound

ASSUME QueueAssumption == Queue \in [Keys -> Workers]

ASSUME ModeAssumption == Modes \subseteq {"SINGLE_PORT_MODE", "DOUBLE_PORT_MODE"}

ASSUME NullAssumption == NULL \notin Keys /\ NULL \notin Handles

ASSUME BoundAssumption ==
    /\ PktAmountToOffload \in Nat \ {0}
    /\ MaxRingEntries \in Nat \ {0}
    /\ BurstSize \in Nat \ {0}
    /\ TimeoutFlowBatchSize \in Nat \ {0}

VARIABLES
    known,          \* the keys in flow_hash_map
    packetAmount,   \* packet_amount of an entry, up to the threshold
    isOffload,      \* is_offload of an entry
    flow,           \* flow of an entry: the handle of its rule
    flowRulesRing,  \* the entries waiting for the flow engine
    wpc, wkey,      \* each worker: program counter and entry in hand
    epc,            \* flow engine: program counter
    batch,          \* ... the burst it is working through, head first
    side,           \* ... which rule of the head it is at: "own" or "peer"
    created,        \* ... the handle rte_flow_create returned
    mode,           \* smto_cb->mode, which init_smto sets
    rule,           \* NIC: the key matched by the rule of each handle
    port,           \* NIC: the port of each rule, 0 or 1; 0 where there is none
    aged,           \* NIC: the rules without a packet for the timeout
    armed,          \* NIC: the next rule that ages raises an event
    alarm,          \* EAL: delete_timeout_flows is scheduled
    dpc,            \* delete_timeout_flows: program counter
    todo,           \* ... <<rule, context>> of the batch still to look at
    dkey,           \* ... the entry in hand
    refused,        \* history: the NIC refused to create a rule
    duplicated,     \* history: a rule was created beside a live one
    staleUse,       \* history: a handle not of the entry's rule on ports[0] was used
    agingError      \* history: a call of the aging path failed

entryVars  == <<known, packetAmount, isOffload, flow>>
workerVars == <<wpc, wkey>>
engineVars == <<epc, batch, side, created>>
nicVars    == <<mode, rule, port, aged, armed>>
agingVars  == <<alarm, dpc, todo, dkey>>
ghostVars  == <<refused, duplicated, staleUse, agingError>>
vars == <<entryVars, flowRulesRing, workerVars, engineVars, nicVars,
          agingVars, ghostVars>>

OffloadStatus == {"NOT_OFFLOAD", "OFFLOADING", "OFFLOAD_SUCCESS"}

AtMost(n, bound) == IF n > bound THEN bound ELSE n

\* The entry for which the flow engine is creating, storing or marking.
Target == IF side = "own" THEN Head(batch) ELSE Peer[Head(batch)]

Live(h) == rule[h] # NULL

\* The handle in the entry k is that of a rule for k on ports[0].
HandleFits(k) == rule[flow[k]] = k /\ port[flow[k]] = 0

----------------------------------------------------------------------------
Init ==
    /\ known = {}
    /\ packetAmount = [k \in Keys |-> 0]
    /\ isOffload = [k \in Keys |-> "NOT_OFFLOAD"]
    /\ flow = [k \in Keys |-> NULL]
    /\ flowRulesRing = <<>>
    /\ wpc = [w \in Workers |-> "idle"]
    /\ wkey = [w \in Workers |-> NULL]
    /\ epc = "idle" /\ batch = <<>> /\ side = "own" /\ created = NULL
    /\ mode \in Modes
    /\ rule = [h \in Handles |-> NULL] /\ port = [h \in Handles |-> 0]
    /\ aged = {} /\ armed = TRUE
    /\ alarm = FALSE /\ dpc = "idle" /\ todo = {} /\ dkey = NULL
    /\ refused = FALSE /\ duplicated = FALSE
    /\ staleUse = FALSE /\ agingError = FALSE

----------------------------------------------------------------------------
(* The packet workers.                                                     *)

\* The first packet of a flow: both entries go into the table.  The second
\* insertion may fail on a full table, which leaves the symmetrical entry out
\* of the table but linked.  (If the first one fails, nothing here changes.)
NewFlow(w, k) ==
    /\ wpc[w] = "idle" /\ Queue[k] = w
    /\ k \in Outbound \ known
    /\ known' \in {known \cup {k}, known \cup {k, Peer[k]}}
    /\ packetAmount' = [packetAmount EXCEPT ![k] = 1]
    /\ UNCHANGED <<isOffload, flow, flowRulesRing, workerVars, engineVars,
                   nicVars, agingVars, ghostVars>>

\* Mutant: the threshold test is off by one.
CountPacket_OffByOne(w, k) ==
    /\ wpc[w] = "idle" /\ Queue[k] = w
    /\ k \in known
    /\ packetAmount' = [packetAmount EXCEPT
                          ![k] = AtMost(@ + 1, PktAmountToOffload)]
    /\ IF packetAmount'[k] + 1 >= PktAmountToOffload /\ isOffload[k] = "NOT_OFFLOAD"
         THEN /\ wpc' = [wpc EXCEPT ![w] = "enqueue"]
              /\ wkey' = [wkey EXCEPT ![w] = k]
         ELSE UNCHANGED workerVars
    /\ UNCHANGED <<known, isOffload, flow, flowRulesRing, engineVars,
                   nicVars, agingVars, ghostVars>>

\* A further packet: count it and test the threshold and the status.  The
\* counter stays at the threshold; that of the code begins anew after 2^32
\* packets (uint32_t), which would only put off the next request.
CountPacket(w, k) ==
    /\ wpc[w] = "idle" /\ Queue[k] = w
    /\ k \in known
    /\ packetAmount' = [packetAmount EXCEPT
                          ![k] = AtMost(@ + 1, PktAmountToOffload)]
    /\ IF packetAmount'[k] >= PktAmountToOffload /\ isOffload[k] = "NOT_OFFLOAD"
         THEN /\ wpc' = [wpc EXCEPT ![w] = "enqueue"]
              /\ wkey' = [wkey EXCEPT ![w] = k]
         ELSE UNCHANGED workerVars
    /\ UNCHANGED <<known, isOffload, flow, flowRulesRing, engineVars,
                   nicVars, agingVars, ghostVars>>

\* Mutant: the result of rte_ring_enqueue is ignored.
Enqueue_ResultIgnored(w) ==
    /\ wpc[w] = "enqueue"
    /\ flowRulesRing' = IF Len(flowRulesRing) < MaxRingEntries
                           THEN Append(flowRulesRing, wkey[w])
                           ELSE flowRulesRing
    /\ wpc' = [wpc EXCEPT ![w] = "mark"]
    /\ UNCHANGED wkey
    /\ UNCHANGED <<entryVars, engineVars, nicVars, agingVars, ghostVars>>

\* rte_ring_enqueue; on a full ring the packet goes on without offloading.
Enqueue(w) ==
    /\ wpc[w] = "enqueue"
    /\ IF Len(flowRulesRing) < MaxRingEntries
         THEN /\ flowRulesRing' = Append(flowRulesRing, wkey[w])
              /\ wpc' = [wpc EXCEPT ![w] = "mark"]
              /\ UNCHANGED wkey
         ELSE /\ wpc' = [wpc EXCEPT ![w] = "idle"]
              /\ wkey' = [wkey EXCEPT ![w] = NULL]
              /\ UNCHANGED flowRulesRing
    /\ UNCHANGED <<entryVars, engineVars, nicVars, agingVars, ghostVars>>

\* is_offload = OFFLOADING, written after the entry is in the ring.
MarkOffloading(w) ==
    /\ wpc[w] = "mark"
    /\ isOffload' = [isOffload EXCEPT ![wkey[w]] = "OFFLOADING"]
    /\ wpc' = [wpc EXCEPT ![w] = "idle"]
    /\ wkey' = [wkey EXCEPT ![w] = NULL]
    /\ UNCHANGED <<known, packetAmount, flow, flowRulesRing, engineVars,
                   nicVars, agingVars, ghostVars>>

Worker(w) == Enqueue(w) \/ MarkOffloading(w)

----------------------------------------------------------------------------
(* The flow engine.                                                        *)

\* Mutant: rte_ring_dequeue_bulk, which waits for a full burst.
DequeueBurst_Bulk ==
    /\ epc = "idle" /\ Len(flowRulesRing) >= BurstSize
    /\ batch' = SubSeq(flowRulesRing, 1, BurstSize)
    /\ flowRulesRing' = SubSeq(flowRulesRing, BurstSize + 1, Len(flowRulesRing))
    /\ epc' = "create" /\ side' = "own"
    /\ UNCHANGED <<entryVars, workerVars, created, nicVars, agingVars,
                   ghostVars>>

DequeueBurst ==
    /\ epc = "idle" /\ flowRulesRing # <<>>
    /\ LET n == AtMost(Len(flowRulesRing), BurstSize) IN
         /\ batch' = SubSeq(flowRulesRing, 1, n)
         /\ flowRulesRing' = SubSeq(flowRulesRing, n + 1, Len(flowRulesRing))
    /\ epc' = "create" /\ side' = "own"
    /\ UNCHANGED <<entryVars, workerVars, created, nicVars, agingVars,
                   ghostVars>>

\* Mutant: the loop runs once too often.
NextRequest_OneTooMany ==
    /\ batch' = Tail(batch)
    /\ side' = "own"
    /\ epc' = IF batch = <<>> THEN "idle" ELSE "create"

NextRequest ==
    /\ batch' = Tail(batch)
    /\ side' = "own"
    /\ epc' = IF Len(batch) = 1 THEN "idle" ELSE "create"

\* rte_flow_create succeeds: the NIC has a rule before the entry says so.
CreateRule(h) ==
    /\ epc = "create" /\ ~Live(h)
    /\ rule' = [rule EXCEPT ![h] = Target]
    /\ port' = [port EXCEPT
                  ![h] = IF side = "peer" /\ mode = "DOUBLE_PORT_MODE" THEN 1 ELSE 0]
    /\ created' = h
    /\ epc' = "store"
    /\ duplicated' = (duplicated \/ \E g \in Handles : rule[g] = Target)
    /\ UNCHANGED <<entryVars, flowRulesRing, workerVars, batch, side, mode,
                   aged, armed, agingVars, refused, staleUse, agingError>>

\* rte_flow_create fails: back to NOT_OFFLOAD, and on to the next request
\* (a request refused on its own side never gets to its symmetrical side).
CreateRefused ==
    /\ epc = "create"
    /\ isOffload' = [isOffload EXCEPT ![Target] = "NOT_OFFLOAD"]
    /\ refused' = TRUE
    /\ NextRequest
    /\ UNCHANGED <<known, packetAmount, flow, flowRulesRing, workerVars,
                   created, nicVars, agingVars, duplicated, staleUse,
                   agingError>>

\* Mutant: both handles are stored in the entry that was dequeued.
StoreHandle_OwnEntryOnly ==
    /\ epc = "store"
    /\ flow' = [flow EXCEPT ![Head(batch)] = created]
    /\ epc' = "mark"
    /\ UNCHANGED <<known, packetAmount, isOffload, flowRulesRing, workerVars,
                   batch, side, created, nicVars, agingVars, ghostVars>>

StoreHandle ==
    /\ epc = "store"
    /\ flow' = [flow EXCEPT ![Target] = created]
    /\ epc' = "mark"
    /\ UNCHANGED <<known, packetAmount, isOffload, flowRulesRing, workerVars,
                   batch, side, created, nicVars, agingVars, ghostVars>>

MarkOffloaded ==
    /\ epc = "mark"
    /\ isOffload' = [isOffload EXCEPT ![Target] = "OFFLOAD_SUCCESS"]
    /\ created' = NULL
    /\ IF side = "own"
         THEN side' = "peer" /\ epc' = "create" /\ UNCHANGED batch
         ELSE NextRequest
    /\ UNCHANGED <<known, packetAmount, flow, flowRulesRing, workerVars,
                   nicVars, agingVars, ghostVars>>

Engine ==
    \/ DequeueBurst \/ StoreHandle \/ MarkOffloaded
    \/ CreateRefused \/ \E h \in Handles : CreateRule(h)

----------------------------------------------------------------------------
(* The NIC and the aging path.                                             *)

\* Straight-line code does not take FLOW_TIMEOUT_SECOND: a rule does not age
\* while the engine has still to write its entry, or a worker is between its
\* test of that entry and its write.
InFlight(h) ==
    \/ created = h
    \/ \E w \in Workers : wpc[w] # "idle" /\ wkey[w] = rule[h]

\* A rule ages.  The driver raises RTE_ETH_EVENT_FLOW_AGED only for the first
\* one after rte_flow_get_aged_flows; aged_event_callback then schedules
\* delete_timeout_flows, if rte_eal_alarm_set succeeds.  The callback is
\* registered for ports[0] only: nobody hears of the rules of ports[1].
Age(h) ==
    /\ Live(h) /\ h \notin aged /\ ~InFlight(h)
    /\ aged' = aged \cup {h}
    /\ armed' = (armed /\ port[h] = 1)
    /\ IF armed /\ port[h] = 0
         THEN \/ alarm' = TRUE /\ UNCHANGED agingError
              \/ agingError' = TRUE /\ UNCHANGED alarm
         ELSE UNCHANGED <<alarm, agingError>>
    /\ UNCHANGED <<entryVars, flowRulesRing, workerVars, engineVars, mode,
                   rule, port, dpc, todo, dkey, refused, duplicated, staleUse>>

\* The aged rules rte_flow_get_aged_flows reports for ports[0].
Reportable == {h \in aged : port[h] = 0}

\* The alarm fires: take the contexts of at most TimeoutFlowBatchSize rules.
GetAgedFlows ==
    /\ dpc = "idle" /\ alarm
    /\ alarm' = FALSE
    /\ armed' = TRUE
    /\ \E S \in SUBSET Reportable :
         /\ Cardinality(S) = AtMost(Cardinality(Reportable), TimeoutFlowBatchSize)
         /\ todo' = {<<h, rule[h]>> : h \in S}
         /\ dpc' = IF S = {} THEN "idle" ELSE "next"
    /\ UNCHANGED <<entryVars, flowRulesRing, workerVars, engineVars, mode,
                   rule, port, aged, dkey, ghostVars>>

\* The call fails; whether the next rule that ages raises an event then is
\* the driver's choice.
GetAgedError ==
    /\ dpc = "idle" /\ alarm
    /\ alarm' = FALSE
    /\ armed' \in {armed, TRUE}
    /\ agingError' = TRUE
    /\ UNCHANGED <<entryVars, flowRulesRing, workerVars, engineVars, mode,
                   rule, port, aged, dpc, todo, dkey, refused, duplicated,
                   staleUse>>

\* Mutant: return where the loop continues.
MoreAged_Return(rest) == dpc' = "idle"

MoreAged(rest) == dpc' = IF rest = {} THEN "idle" ELSE "next"

\* Mutant: the loop does not advance.
QueryCounter_NotAdvanced(p) ==
    /\ dpc = "next" /\ p \in todo
    /\ todo' = todo
    /\ IF flow[p[2]] = NULL
         THEN MoreAged(todo') /\ UNCHANGED <<packetAmount, dkey, staleUse>>
         ELSE /\ packetAmount' = packetAmount
              /\ staleUse' = (staleUse \/ ~HandleFits(p[2]))
              /\ dkey' = p[2]
              /\ dpc' = "destroy"
    /\ UNCHANGED <<known, isOffload, flow, flowRulesRing, workerVars,
                   engineVars, nicVars, alarm, refused, duplicated,
                   agingError>>

\* Query the counter of the next entry's rule and add the hits to the entry;
\* hits = 0 also stands for a query that fails.
QueryCounter(p) ==
    /\ dpc = "next" /\ p \in todo
    /\ todo' = todo \ {p}
    /\ IF flow[p[2]] = NULL
         THEN MoreAged(todo') /\ UNCHANGED <<packetAmount, dkey, staleUse>>
         ELSE /\ \E hits \in 0..PktAmountToOffload :
                   packetAmount' = [packetAmount EXCEPT
                              ![p[2]] = AtMost(@ + hits, PktAmountToOffload)]
              /\ staleUse' = (staleUse \/ ~HandleFits(p[2]))
              /\ dkey' = p[2]
              /\ dpc' = "destroy"
    /\ UNCHANGED <<known, isOffload, flow, flowRulesRing, workerVars,
                   engineVars, nicVars, alarm, refused, duplicated,
                   agingError>>

\* Mutant: the rules of both directions are destroyed.
DestroyRule_BothDirections ==
    /\ dpc = "destroy"
    /\ rule' = [h \in Handles |->
                  IF rule[h] \in {dkey, Peer[dkey]} THEN NULL ELSE rule[h]]
    /\ port' = [h \in Handles |-> IF rule'[h] = NULL THEN 0 ELSE port[h]]
    /\ aged' = {h \in aged : rule'[h] # NULL}
    /\ staleUse' = (staleUse \/ ~HandleFits(dkey))
    /\ dpc' = "reset"
    /\ UNCHANGED <<entryVars, flowRulesRing, workerVars, engineVars, mode,
                   armed, alarm, todo, dkey, refused, duplicated, agingError>>

\* rte_flow_destroy(flow_key->flow).  The handle is read again here, and is
\* never cleared: of a dangling one the driver may report either outcome.
DestroyRule ==
    /\ dpc = "destroy"
    /\ rule' = [rule EXCEPT ![flow[dkey]] = NULL]
    /\ port' = [port EXCEPT ![flow[dkey]] = 0]
    /\ aged' = aged \ {flow[dkey]}
    /\ staleUse' = (staleUse \/ ~HandleFits(dkey))
    /\ dpc' = "reset"
    /\ UNCHANGED <<entryVars, flowRulesRing, workerVars, engineVars, mode,
                   armed, alarm, todo, dkey, refused, duplicated, agingError>>

DestroyFailed ==
    /\ dpc = "destroy"
    /\ staleUse' = (staleUse \/ ~HandleFits(dkey))
    /\ agingError' = TRUE
    /\ dkey' = NULL
    /\ MoreAged(todo)
    /\ UNCHANGED <<entryVars, flowRulesRing, workerVars, engineVars, nicVars,
                   alarm, todo, refused, duplicated>>

\* Mutant: the status is not reset.
ResetStatus_Missing ==
    /\ dpc = "reset"
    /\ dkey' = NULL
    /\ MoreAged(todo)
    /\ UNCHANGED <<entryVars, flowRulesRing, workerVars, engineVars, nicVars,
                   alarm, todo, ghostVars>>

ResetStatus ==
    /\ dpc = "reset"
    /\ isOffload' = [isOffload EXCEPT ![dkey] = "NOT_OFFLOAD"]
    /\ dkey' = NULL
    /\ MoreAged(todo)
    /\ UNCHANGED <<known, packetAmount, flow, flowRulesRing, workerVars,
                   engineVars, nicVars, alarm, todo, ghostVars>>

DeleteTimeoutFlows ==
    \/ GetAgedFlows \/ GetAgedError
    \/ \E p \in todo : QueryCounter(p)
    \/ DestroyRule \/ DestroyFailed \/ ResetStatus

----------------------------------------------------------------------------
Next ==
    \/ \E w \in Workers, k \in Keys : NewFlow(w, k) \/ CountPacket(w, k)
    \/ \E w \in Workers : Worker(w)
    \/ Engine
    \/ \E h \in Handles : Age(h)
    \/ DeleteTimeoutFlows

\* Each thread runs on its own lcore (the interrupt thread is the EAL's), so
\* a step it can take it eventually takes.  Packets and aging are the
\* environment's: nothing is assumed of them.
Fairness ==
    /\ \A w \in Workers : WF_vars(Worker(w))
    /\ WF_vars(Engine)
    /\ WF_vars(DeleteTimeoutFlows)

Spec == Init /\ [][Next]_vars
FairSpec == Spec /\ Fairness

----------------------------------------------------------------------------
(* What must hold.                                                         *)

\* Every variable has its type; the engine and the deleter have an entry in
\* hand exactly where their program counter says so.
TypeOK ==
    /\ known \subseteq Keys
    /\ packetAmount \in [Keys -> 0..PktAmountToOffload]
    /\ isOffload \in [Keys -> OffloadStatus]
    /\ flow \in [Keys -> Handles \cup {NULL}]
    /\ flowRulesRing \in Seq(Keys)
    /\ wpc \in [Workers -> {"idle", "enqueue", "mark"}]
    /\ wkey \in [Workers -> Keys \cup {NULL}]
    /\ \A w \in Workers : wpc[w] # "idle" => wkey[w] \in Keys
    /\ epc \in {"idle", "create", "store", "mark"}
    /\ batch \in Seq(Keys)
    /\ epc = "idle" <=> batch = <<>>
    /\ side \in {"own", "peer"}
    /\ created \in Handles \cup {NULL}
    /\ epc \in {"store", "mark"} <=> created # NULL
    /\ mode \in Modes
    /\ rule \in [Handles -> Keys \cup {NULL}]
    /\ port \in [Handles -> {0, 1}]
    /\ \A h \in Handles : port[h] = 1 => rule[h] # NULL /\ mode = "DOUBLE_PORT_MODE"
    /\ aged \subseteq {h \in Handles : rule[h] # NULL}
    /\ armed \in BOOLEAN /\ alarm \in BOOLEAN
    /\ dpc \in {"idle", "next", "destroy", "reset"}
    /\ todo \subseteq Handles \X Keys
    /\ dkey \in Keys \cup {NULL}
    /\ dpc \in {"destroy", "reset"} <=> dkey # NULL
    /\ dpc = "destroy" => flow[dkey] # NULL
    /\ refused \in BOOLEAN /\ duplicated \in BOOLEAN
    /\ staleUse \in BOOLEAN /\ agingError \in BOOLEAN

\* packet_processing asks for a rule only from the threshold on: a flow whose
\* two directions are both below it has no rule in the NIC, whatever is still
\* in the ring, in the engine's burst or in a worker's hand.
OffloadOnlyAfterThreshold ==
    \A h \in Handles : Live(h) =>
        \/ packetAmount[rule[h]] >= PktAmountToOffload
        \/ packetAmount[Peer[rule[h]]] >= PktAmountToOffload

\* delete_timeout_flows queries and destroys on ports[0] with the handle it
\* finds in the entry, which nobody ever clears: the handle is that of the
\* entry's live rule, and on that port, unless the engine created a second rule for some key.
NoStaleHandle == staleUse => duplicated

\* The status the engine writes is backed by the NIC: an entry that says
\* OFFLOAD_SUCCESS holds the handle of a live rule of its own, except between
\* rte_flow_destroy and the reset of its status.
OffloadedHasRule ==
    \A k \in Keys :
        isOffload[k] = "OFFLOAD_SUCCESS" /\ ~duplicated =>
            \/ flow[k] # NULL /\ rule[flow[k]] = k
            \/ dpc = "reset" /\ dkey = k

\* No rule is lost: a live rule is recorded in its entry or still in the
\* engine's hand, so the aging path can destroy it.
NoLostRule ==
    ~duplicated =>
        \A h \in Handles : Live(h) => flow[rule[h]] = h \/ created = h

Pending(k) ==
    \/ \E i \in 1..Len(flowRulesRing) : flowRulesRing[i] = k
    \/ \E i \in 1..Len(batch) : batch[i] = k

\* OFFLOADING, written after the enqueue, is never a dead end: unless the NIC
\* refused a rule or duplicated one, there is a request to serve, a rule that
\* can age, or a reset about to be written.
NoStuckOffloading ==
    \A k \in Keys :
        isOffload[k] = "OFFLOADING" /\ ~refused /\ ~duplicated =>
            \/ Pending(k)
            \/ \E h \in Handles : rule[h] = k
            \/ dpc = "reset" /\ dkey = k

\* The rules that delete_timeout_flows destroys are aged ones, as long as no
\* key has had two rules.
OnlyAgedDestroyedUnlessDuplicated ==
    [][\A h \in Handles :
         Live(h) /\ ~Live(h)' => h \in aged \/ duplicated]_vars

\* What the NIC's rules look like from outside.
Promise == INSTANCE OffloadPromise WITH
    busy      <- {k \in Keys : packetAmount[k] >= PktAmountToOffload},
    requested <- {k \in Keys : Pending(k) \/ Pending(Peer[k])},
    ruled     <- {k \in Keys : \E h \in Handles : rule[h] = k},
    quiet     <- {k \in Keys : \E h \in aged : rule[h] = k},
    broken    <- duplicated

\* Workers, ring, engine and deleter together keep the promise of the README:
\* rules appear only for requested flows, requests come only from directions
\* that have had their packets, and only the rule of a quiet direction is
\* removed, and it alone.
PromiseKept == Promise!Spec

\* A request that got into the ring is answered: its key gets a rule, unless
\* the NIC refuses one.
RequestAnswered ==
    \A k \in Keys :
        (\E i \in 1..Len(flowRulesRing) : flowRulesRing[i] = k)
            ~> (refused \/ \E h \in Handles : rule[h] = k)

\* With a batch that takes all the aged rules at once, every aged rule of
\* ports[0] is destroyed, unless a call of the aging path fails or a key had
\* two rules.
AgedRuleDestroyedUnlessError ==
    \A h \in Handles :
        h \in Reportable ~> (h \notin aged \/ agingError \/ duplicated)

----------------------------------------------------------------------------
(* What the documents say and the code does not do.                        *)

\* src/src/smto_event.c:52 "Delete the timeout flows which are aged.": no
\* rule that has not aged is destroyed.
OnlyAgedDestroyed ==
    [][\A h \in Handles : Live(h) /\ ~Live(h)' => h \in aged]_vars

\* src/README.md:11 "Delete the rte_flow if there is no corresponding packet
\* for 10 seconds.": with no error and no duplicate, an aged rule goes away,
\* whatever the batch size and on either port.
AgedRuleDestroyed ==
    \A h \in Handles :
        h \in aged ~> (h \notin aged \/ agingError \/ duplicated)

\* src/README.md:9 "create an offloading rte_flow after n packets": a flow
\* the worker has stopped asking for has a request pending, a rule or a reset
\* to come; so the next packet can ask again after a refusal.
OffloadingIsPending ==
    \A k \in Keys :
        isOffload[k] = "OFFLOADING" /\ ~duplicated =>
            \/ Pending(k)
            \/ \E h \in Handles : rule[h] = k
            \/ dpc = "reset" /\ dkey = k
=============================================================================
