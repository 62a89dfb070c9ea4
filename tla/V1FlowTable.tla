----------------------------- MODULE V1FlowTable -----------------------------
(***************************************************************************)
(* The flow table of the first version of Smart Offload (src/src/v1).      *)
(*                                                                         *)
(* One worker (process_loop, packet_processing) keeps a struct flow_meta   *)
(* per flow and creates the flow's rule itself, at exactly the fifth       *)
(* packet.  The interrupt thread (delete_timeout_flows) takes the entry    *)
(* out of the table, destroys the rule and frees the struct, while the     *)
(* worker may hold a pointer to it.  There is no lock and no reference     *)
(* count.                                                                  *)
(*                                                                         *)
(* The context of a rule is the key object of the packet that created it.  *)
(* Nobody frees a key object, so a context is named by its key.            *)
(***************************************************************************)
EXTENDS Naturals, FiniteSets

CONSTANTS
    Keys,        \* IPv4 5-tuples
    Metas,       \* addresses a struct flow_meta can have
    Handles,     \* addresses a struct rte_flow can have
    NULL,
    OffloadAt,   \* 5, the packet that makes the rule
    MaxBurst     \* 32, the burst of rte_eth_rx_burst

ASSUME V1BoundAssumption == OffloadAt \in Nat \ {0, 1} /\ MaxBurst \in Nat \ {0}

ASSUME V1NullAssumption == NULL \notin Keys \cup Metas \cup Handles

VARIABLES
    table,      \* flow_hash_map: key -> its flow_meta
    tableAlive, \* flow_hash_map is allocated
    allocated,  \* the flow_metas in use
    amount,     \* packet_amount of a flow_meta, up to OffloadAt + 1
    handle,     \* flow of a flow_meta
    forceQuit,  \* force_quit
    wpc,        \* worker: program counter
    burst,      \* ... packets received and not yet looked at
    wkey, wmeta,\* ... the packet's key and the flow_meta it works on
    created,    \* ... the handle create_offload_rte_flow returned
    rule,       \* NIC: the key matched by the rule of each handle
    aged,       \* NIC: the rules without a packet for the timeout
    armed,      \* NIC: the next rule that ages raises an event
    registered, \* the callback for aged rules
    alarm,      \* EAL: delete_timeout_flows is scheduled
    dpc,        \* delete_timeout_flows: program counter
    dcount,     \* ... timeout_quantity
    todo,       \* ... <<rule, context>> still to look at
    dkey, dmeta,\* ... the context in hand and its flow_meta
    orphans,    \* history: flow_metas whose insertion failed
    refused,    \* history: flow_metas whose rule the NIC refused
    late,       \* history: a packet in the worker's hand, its rule aged
    freedUse,   \* history: a freed flow_meta was read or written
    agingError  \* history: a call of the aging path failed

tableVars  == <<table, allocated, amount, handle>>
workerVars == <<wpc, burst, wkey, wmeta, created>>
nicVars    == <<rule, aged, armed>>
agingVars  == <<alarm, dpc, dcount, todo, dkey, dmeta>>
ghostVars  == <<orphans, refused, late, freedUse, agingError>>
mainVars   == <<tableAlive, forceQuit, registered>>

Live(h) == rule[h] # NULL

TableInit ==
    /\ table = [k \in Keys |-> NULL] /\ tableAlive = FALSE
    /\ allocated = {} /\ orphans = {} /\ refused = {}
    /\ amount = [m \in Metas |-> 0] /\ handle = [m \in Metas |-> NULL]
    /\ forceQuit = FALSE /\ registered = FALSE
    /\ wpc = "off" /\ burst = 0
    /\ wkey = NULL /\ wmeta = NULL /\ created = NULL
    /\ rule = [h \in Handles |-> NULL] /\ aged = {} /\ armed = TRUE
    /\ alarm = FALSE /\ dpc = "idle" /\ dcount = 0
    /\ todo = {} /\ dkey = NULL /\ dmeta = NULL
    /\ late = FALSE /\ freedUse = FALSE /\ agingError = FALSE

----------------------------------------------------------------------------
(* The worker.                                                             *)

\* while (!force_quit): the flag is tested once per burst.
Receive ==
    /\ wpc = "idle" /\ burst = 0 /\ ~forceQuit
    /\ burst' \in 1..MaxBurst
    /\ UNCHANGED <<tableVars, wpc, wkey, wmeta, created, nicVars, agingVars,
                   ghostVars, mainVars>>

\* Mutant: force_quit is not volatile and stays in a register.
LeaveLoop_Hoisted ==
    /\ wpc = "idle" /\ burst = 0 /\ FALSE
    /\ wpc' = "done"
    /\ UNCHANGED <<tableVars, burst, wkey, wmeta, created, nicVars, agingVars,
                   ghostVars, mainVars>>

LeaveLoop ==
    /\ wpc = "idle" /\ burst = 0 /\ forceQuit
    /\ wpc' = "done"
    /\ UNCHANGED <<tableVars, burst, wkey, wmeta, created, nicVars, agingVars,
                   ghostVars, mainVars>>

\* A packet that is neither TCP nor UDP over IPv4.
SkipPacket ==
    /\ wpc = "idle" /\ burst > 0
    /\ burst' = burst - 1
    /\ UNCHANGED <<tableVars, wpc, wkey, wmeta, created, nicVars, agingVars,
                   ghostVars, mainVars>>

\* The packet reaches the worker although the rule of its key has aged (the
\* NIC does not match fragments, packet_processing takes them).
Late(k) == late' = (late \/ \E h \in aged : rule[h] = k)

\* rte_hash_lookup_data finds nothing: create_flow_meta, from zeroed memory.
LookupMiss(k, m) ==
    /\ wpc = "idle" /\ burst > 0
    /\ table[k] = NULL /\ m \in Metas \ allocated
    /\ burst' = burst - 1
    /\ allocated' = allocated \cup {m}
    /\ amount' = [amount EXCEPT ![m] = 1]
    /\ handle' = [handle EXCEPT ![m] = NULL]
    /\ wpc' = "add" /\ wkey' = k /\ wmeta' = m
    /\ Late(k)
    /\ UNCHANGED <<table, created, nicVars, agingVars, orphans, refused,
                   freedUse, agingError, mainVars>>

LookupHit(k) ==
    /\ wpc = "idle" /\ burst > 0
    /\ table[k] # NULL
    /\ burst' = burst - 1
    /\ wpc' = "count" /\ wkey' = k /\ wmeta' = table[k]
    /\ Late(k)
    /\ UNCHANGED <<tableVars, created, nicVars, agingVars, orphans, refused,
                   freedUse, agingError, mainVars>>

PacketDone ==
    /\ wpc' = "idle" /\ wkey' = NULL /\ wmeta' = NULL /\ created' = NULL
    /\ UNCHANGED burst

\* rte_hash_add_key_data.  The table is created for one writer
\* (RW_CONCURRENCY_LF), and the interrupt thread deletes beside the worker:
\* taken as one step, as every call of the table is here.
AddEntry ==
    /\ wpc = "add"
    /\ table' = [table EXCEPT ![wkey] = wmeta]
    /\ PacketDone
    /\ UNCHANGED <<allocated, amount, handle, nicVars, agingVars, ghostVars,
                   mainVars>>

\* rte_hash_add_key_data fails: nobody knows the flow_meta any more.
AddFailed ==
    /\ wpc = "add"
    /\ orphans' = orphans \cup {wmeta}
    /\ PacketDone
    /\ UNCHANGED <<tableVars, nicVars, agingVars, refused, late, freedUse,
                   agingError, mainVars>>

TouchMeta(m) == freedUse' = (freedUse \/ m \notin allocated)

\* The counter after one more packet; what is above OffloadAt is one value.
OneMore(n) == IF n > OffloadAt THEN n ELSE n + 1

\* Mutant: the old value is compared (packet_amount++ == 5).
CountPacket_OldValue ==
    /\ wpc = "count"
    /\ amount' = [amount EXCEPT ![wmeta] = OneMore(@)]
    /\ TouchMeta(wmeta)
    /\ IF amount[wmeta] = OffloadAt
         THEN wpc' = "create" /\ UNCHANGED <<burst, wkey, wmeta, created>>
         ELSE PacketDone
    /\ UNCHANGED <<table, allocated, handle, nicVars, agingVars, orphans,
                   refused, late, agingError, mainVars>>

\* packet_amount++, and the rule at exactly the fifth packet.
CountPacket ==
    /\ wpc = "count"
    /\ amount' = [amount EXCEPT ![wmeta] = OneMore(@)]
    /\ TouchMeta(wmeta)
    /\ IF amount'[wmeta] = OffloadAt
         THEN wpc' = "create" /\ UNCHANGED <<burst, wkey, wmeta, created>>
         ELSE PacketDone
    /\ UNCHANGED <<table, allocated, handle, nicVars, agingVars, orphans,
                   refused, late, agingError, mainVars>>

CreateRule(h) ==
    /\ wpc = "create" /\ ~Live(h)
    /\ rule' = [rule EXCEPT ![h] = wkey]
    /\ created' = h
    /\ wpc' = "store"
    /\ UNCHANGED <<tableVars, burst, wkey, wmeta, aged, armed, agingVars,
                   ghostVars, mainVars>>

\* No rule for the protocol, the device, or from rte_flow_create.
CreateRefused ==
    /\ wpc = "create"
    /\ refused' = refused \cup {wmeta}
    /\ PacketDone
    /\ UNCHANGED <<tableVars, nicVars, agingVars, orphans, late, freedUse,
                   agingError, mainVars>>

\* Mutant: flow_map_data->flow is not assigned.
StoreHandle_Missing ==
    /\ wpc = "store"
    /\ TouchMeta(wmeta)
    /\ PacketDone
    /\ UNCHANGED <<tableVars, nicVars, agingVars, orphans, refused, late,
                   agingError, mainVars>>

StoreHandle ==
    /\ wpc = "store"
    /\ handle' = [handle EXCEPT ![wmeta] = created]
    /\ TouchMeta(wmeta)
    /\ PacketDone
    /\ UNCHANGED <<table, allocated, amount, nicVars, agingVars, orphans,
                   refused, late, agingError, mainVars>>

PacketStep ==
    \/ AddEntry \/ AddFailed \/ CountPacket
    \/ CreateRefused \/ \E h \in Handles : CreateRule(h)
    \/ StoreHandle

Worker ==
    \/ Receive \/ SkipPacket \/ LeaveLoop
    \/ \E k \in Keys : LookupHit(k) \/ \E m \in Metas : LookupMiss(k, m)
    \/ PacketStep

----------------------------------------------------------------------------
(* The NIC and the interrupt thread.                                       *)

\* A rule does not age between its creation and the write of its handle.
InFlight(h) == created = h

\* A rule ages, perhaps while the worker has a packet of its flow in hand: one
\* that the NIC did not match, so that it has not put the aging off.
\* aged_event_callback schedules delete_timeout_flows, or fails to.
Age(h) ==
    /\ Live(h) /\ h \notin aged /\ ~InFlight(h)
    /\ aged' = aged \cup {h}
    /\ armed' = FALSE
    /\ IF armed /\ registered
         THEN \/ alarm' = TRUE /\ UNCHANGED agingError
              \/ agingError' = TRUE /\ UNCHANGED alarm
         ELSE UNCHANGED <<alarm, agingError>>
    /\ late' = (late \/ wkey = rule[h])
    /\ UNCHANGED <<tableVars, workerVars, rule, dpc, dcount, todo, dkey, dmeta,
                   orphans, refused, freedUse, mainVars>>

\* Mutant: a fixed quantity, whatever the NIC answers.
CountAged_FixedQuantity ==
    /\ dpc = "idle" /\ alarm
    /\ alarm' = FALSE /\ armed' = TRUE
    /\ dcount' = IF aged = {} THEN 0 ELSE 1
    /\ dpc' = IF aged = {} THEN "idle" ELSE "fetch"
    /\ UNCHANGED <<tableVars, workerVars, rule, aged, todo, dkey, dmeta,
                   ghostVars, mainVars>>

\* The alarm fires: rte_flow_get_aged_flows with no room, for the quantity.
CountAged ==
    /\ dpc = "idle" /\ alarm
    /\ alarm' = FALSE /\ armed' = TRUE
    /\ dcount' = Cardinality(aged)
    /\ dpc' = IF aged = {} THEN "idle" ELSE "fetch"
    /\ UNCHANGED <<tableVars, workerVars, rule, aged, todo, dkey, dmeta,
                   ghostVars, mainVars>>

\* The same call again, for as many contexts.
FetchAged ==
    /\ dpc = "fetch"
    /\ armed' = TRUE
    /\ \E S \in SUBSET aged :
         /\ Cardinality(S) = dcount
         /\ todo' = {<<h, rule[h]>> : h \in S}
    /\ dpc' = "lookup" /\ dcount' = 0
    /\ UNCHANGED <<tableVars, workerVars, rule, aged, alarm, dkey, dmeta,
                   ghostVars, mainVars>>

\* No memory for the contexts, or not as many of them as were counted (an
\* error of the call included).
FetchFailed ==
    /\ dpc = "fetch"
    /\ agingError' = TRUE
    /\ dpc' = "idle" /\ dcount' = 0
    /\ UNCHANGED <<tableVars, workerVars, nicVars, alarm, todo, dkey, dmeta,
                   orphans, refused, late, freedUse, mainVars>>

\* Mutant: -ENOENT is not tested.
LookupContext_NotTested(p) ==
    /\ dpc = "lookup" /\ p \in todo
    /\ todo' = todo \ {p}
    /\ dkey' = p[2] /\ dmeta' = table[p[2]] /\ dpc' = "delete"
    /\ UNCHANGED <<tableVars, workerVars, nicVars, alarm, dcount, ghostVars,
                   mainVars>>

MoreAged(rest) == dpc' = IF rest = {} THEN "idle" ELSE "lookup"

\* rte_hash_lookup_data on the next context; an unknown key is skipped.
LookupContext(p) ==
    /\ dpc = "lookup" /\ p \in todo
    /\ todo' = todo \ {p}
    /\ IF table[p[2]] = NULL
         THEN MoreAged(todo') /\ UNCHANGED <<dkey, dmeta>>
         ELSE dkey' = p[2] /\ dmeta' = table[p[2]] /\ dpc' = "delete"
    /\ UNCHANGED <<tableVars, workerVars, nicVars, alarm, dcount, ghostVars,
                   mainVars>>

\* Mutant: the entry stays.
DeleteKey_Missing ==
    /\ dpc = "delete"
    /\ dpc' = "position"
    /\ UNCHANGED <<tableVars, workerVars, nicVars, alarm, dcount, todo, dkey,
                   dmeta, ghostVars, mainVars>>

\* rte_hash_del_key: the worker no longer finds the flow.
DeleteKey ==
    /\ dpc = "delete"
    /\ table' = [table EXCEPT ![dkey] = NULL]
    /\ dpc' = "position"
    /\ UNCHANGED <<allocated, amount, handle, workerVars, nicVars, alarm,
                   dcount, todo, dkey, dmeta, ghostVars, mainVars>>

\* rte_hash_free_key_with_position, and the query of the counter, which goes
\* to the log only.
FreePosition ==
    /\ dpc = "position"
    /\ TouchMeta(dmeta)
    /\ dpc' = IF handle[dmeta] = NULL THEN "free" ELSE "destroy"
    /\ UNCHANGED <<tableVars, workerVars, nicVars, alarm, dcount, todo, dkey,
                   dmeta, orphans, refused, late, agingError, mainVars>>

\* Mutant: all the rules of the port go (rte_flow_flush).
DestroyRule_Flush ==
    /\ dpc = "destroy"
    /\ rule' = [h \in Handles |-> NULL]
    /\ aged' = {}
    /\ dpc' = "free"
    /\ UNCHANGED <<tableVars, workerVars, armed, alarm, dcount, todo, dkey,
                   dmeta, ghostVars, mainVars>>

DestroyRule ==
    /\ dpc = "destroy"
    /\ rule' = [rule EXCEPT ![handle[dmeta]] = NULL]
    /\ aged' = aged \ {handle[dmeta]}
    /\ dpc' = "free"
    /\ UNCHANGED <<tableVars, workerVars, armed, alarm, dcount, todo, dkey,
                   dmeta, ghostVars, mainVars>>

DestroyFailed ==
    /\ dpc = "destroy"
    /\ agingError' = TRUE
    /\ dpc' = "free"
    /\ UNCHANGED <<tableVars, workerVars, nicVars, alarm, dcount, todo, dkey,
                   dmeta, orphans, refused, late, freedUse, mainVars>>

\* Mutant: rte_free(flow_data) is left out.
FreeMeta_Missing ==
    /\ dpc = "free"
    /\ dkey' = NULL /\ dmeta' = NULL
    /\ MoreAged(todo)
    /\ UNCHANGED <<tableVars, workerVars, nicVars, alarm, dcount, todo,
                   ghostVars, mainVars>>

\* rte_free, which clears the memory, whoever still points to it.
FreeMeta ==
    /\ dpc = "free"
    /\ allocated' = allocated \ {dmeta}
    /\ amount' = [amount EXCEPT ![dmeta] = 0]
    /\ handle' = [handle EXCEPT ![dmeta] = NULL]
    /\ refused' = refused \ {dmeta}
    /\ dkey' = NULL /\ dmeta' = NULL
    /\ MoreAged(todo)
    /\ UNCHANGED <<table, workerVars, nicVars, alarm, dcount, todo, orphans,
                   late, freedUse, agingError, mainVars>>

DeleteTimeoutFlows ==
    \/ CountAged \/ FetchAged \/ FetchFailed
    \/ \E p \in todo : LookupContext(p)
    \/ DeleteKey \/ FreePosition \/ DestroyRule \/ DestroyFailed \/ FreeMeta
=============================================================================
