----------------------------- MODULE Lifecycle -----------------------------
(***************************************************************************)
(* Starting and stopping Smart Offload: main, init_smto and destroy_smto   *)
(* (src/test/smto_test.c, src/src/smto.c), the lcores they launch, and     *)
(* the aged event they register (src/src/smto_event.c).                    *)
(*                                                                         *)
(* The main lcore acquires the resources one after the other; a failure    *)
(* jumps to the label that releases what is already held.  The labels      *)
(* err5 .. err of init_smto are program counters here, and the release     *)
(* path of err5 and destroy_smto share the calls they have in common.      *)
(* A resource is in "held" from its allocation to its release.             *)
(*                                                                         *)
(* Of the packets and rules only this is kept: whether the flow table has  *)
(* an entry, and whether the NIC has a rule that can age.                  *)
(***************************************************************************)
EXTENDS Naturals, FiniteSets

CONSTANTS
    GeneralQueues,   \* GENERAL_QUEUES_QUANTITY
    MaxPorts,        \* bound: Ethernet devices that may be found
    MaxLcores        \* bound: lcores there may be beside the main one

ASSUME SizeAssumption ==
    /\ GeneralQueues \in Nat \ {0}
    /\ MaxPorts \in Nat
    /\ MaxLcores \in Nat

Lcores == 0..(MaxLcores - 1)

Resources == {"smto_cb", "pkt_mbuf_pool", "port0", "port1", "default_rules",
              "flow_hash_map", "flow_rules_ring", "port_pool", "aged_event",
              "worker_params"}

VARIABLES
    portQuantity,  \* rte_eth_dev_count_avail
    lcoreQuantity, \* rte_lcore_count, without the main lcore
    pc,            \* the main lcore
    held,          \* the resources acquired and not released
    isRunning,     \* smto_cb->is_running
    failing,       \* init_smto is on its way to return an error
    index,         \* the loop variable of the launch loop
    lpc,           \* each lcore: program counter
    param,         \* each lcore: the worker_params entry it was given
    flows,         \* flow_hash_map has an entry
    offloaded,     \* the NIC has a rule that can age
    alarm,         \* delete_timeout_flows is scheduled
    ipc            \* the interrupt thread

vars == <<portQuantity, lcoreQuantity, pc, held, isRunning, failing, index,
          lpc, param, flows, offloaded, alarm, ipc>>

machineVars == <<portQuantity, lcoreQuantity>>
lcoreVars   == <<lpc, param>>
flowVars    == <<flows, offloaded>>
agingVars   == <<alarm, ipc>>

SinglePort == portQuantity = 1

Init ==
    /\ portQuantity \in 0..MaxPorts
    /\ lcoreQuantity \in 0..MaxLcores
    /\ pc = "smto_cb" /\ held = {}
    /\ isRunning = FALSE /\ failing = FALSE /\ index = 0
    /\ lpc = [i \in Lcores |-> "off"]
    /\ param = [i \in Lcores |-> 0]
    /\ flows = FALSE /\ offloaded = FALSE
    /\ alarm = FALSE /\ ipc = "idle"

----------------------------------------------------------------------------
(* init_smto.                                                              *)

\* A call that acquires resources, or fails and jumps to a label.
Try(resources, next, label) ==
    /\ \/ held' = held \cup resources /\ pc' = next /\ UNCHANGED failing
       \/ UNCHANGED held /\ pc' = label /\ failing' = TRUE
    /\ UNCHANGED <<machineVars, isRunning, index, lcoreVars, flowVars,
                   agingVars>>

AllocateControlBlock ==
    pc = "smto_cb" /\ Try({"smto_cb"}, "lcores", "failed")

\* Mutant: the lcore of the flow engine is not counted.
CheckLcores_NoEngine ==
    /\ pc = "lcores"
    /\ IF lcoreQuantity + 1 >= GeneralQueues + 1
         THEN pc' = "ports" /\ UNCHANGED failing
         ELSE pc' = "err" /\ failing' = TRUE
    /\ UNCHANGED <<machineVars, held, isRunning, index, lcoreVars, flowVars,
                   agingVars>>

CheckLcores ==
    /\ pc = "lcores"
    /\ IF lcoreQuantity + 1 >= GeneralQueues + 2
         THEN pc' = "ports" /\ UNCHANGED failing
         ELSE pc' = "err" /\ failing' = TRUE
    /\ UNCHANGED <<machineVars, held, isRunning, index, lcoreVars, flowVars,
                   agingVars>>

CheckPorts ==
    /\ pc = "ports"
    /\ IF portQuantity >= 1
         THEN pc' = "mempool" /\ UNCHANGED failing
         ELSE pc' = "err" /\ failing' = TRUE
    /\ UNCHANGED <<machineVars, held, isRunning, index, lcoreVars, flowVars,
                   agingVars>>

CreateMempool ==
    pc = "mempool" /\ Try({"pkt_mbuf_pool"}, "hairpin", "err")

\* init_port, whose result is ignored, and setup_*_port_hairpin.
SetupHairpin == pc = "hairpin" /\ Try({}, "start0", "err")

StartPort0 ==
    /\ pc = "start0"
    /\ Try({"port0"}, IF SinglePort THEN "link" ELSE "start1", "err")

AssertLinkStatus == pc = "link" /\ Try({}, "jump", "err")

StartPort1 == pc = "start1" /\ Try({"port1"}, "bind", "err")

BindHairpin == pc = "bind" /\ Try({}, "jump", "err")

CreateJumpFlow == pc = "jump" /\ Try({"default_rules"}, "rss", "err")

CreateRssFlow == pc = "rss" /\ Try({}, "hash", "err1")

CreateHashMap == pc = "hash" /\ Try({"flow_hash_map"}, "rules_ring", "err1")

\* rte_calloc and rte_ring_init, which frees the ring again when it fails.
CreateRulesRing ==
    pc = "rules_ring" /\ Try({"flow_rules_ring"}, "pool", "err2")

\* The ring takes exactly the MAX_HASH_ENTRIES - 1 values it is filled with.
CreatePortPool == pc = "pool" /\ Try({"port_pool"}, "register", "err3")

\* Mutant: the failed registration unwinds from the wrong label.
RegisterAgedEvent_WrongLabel ==
    pc = "register" /\ Try({"aged_event"}, "start", "err3")

RegisterAgedEvent == pc = "register" /\ Try({"aged_event"}, "start", "err4")

\* calloc of worker_params, whose result nobody looks at.
StartRunning ==
    /\ pc = "start"
    /\ isRunning' = TRUE
    /\ held' = held \cup {"worker_params"}
    /\ pc' = "launch"
    /\ UNCHANGED <<machineVars, failing, index, lcoreVars, flowVars,
                   agingVars>>

\* It returns NULL: the loop writes the first entry through the pointer.
ParamsOutOfMemory ==
    /\ pc = "start"
    /\ isRunning' = TRUE
    /\ pc' = "crashed"
    /\ UNCHANGED <<machineVars, held, failing, index, lcoreVars, flowVars,
                   agingVars>>

\* What the launch loop does with the lcore of the given index: a worker for
\* each RX queue of each port, then the flow engine.
WorkerQuantity == IF SinglePort THEN GeneralQueues ELSE 2 * GeneralQueues

Role(i) ==
    IF i < WorkerQuantity
      THEN "worker"
      ELSE IF i = WorkerQuantity THEN "engine" ELSE "unused"

\* Mutant: the loop runs once too often.
Launch_OneTooMany ==
    /\ pc = "launch" /\ index <= lcoreQuantity
    /\ index' = index + 1
    /\ UNCHANGED <<machineVars, pc, held, isRunning, failing, lcoreVars,
                   flowVars, agingVars>>

Launch ==
    /\ pc = "launch" /\ index < lcoreQuantity
    /\ param' = IF Role(index) = "worker"
                  THEN [param EXCEPT ![index] = index]
                  ELSE param
    /\ IF Role(index) = "unused"
         THEN UNCHANGED lpc
         ELSE lpc' = [lpc EXCEPT ![index] = "launched"]
    /\ index' = index + 1
    /\ UNCHANGED <<machineVars, pc, held, isRunning, failing, flowVars,
                   agingVars>>

LaunchFailed ==
    /\ pc = "launch" /\ index < lcoreQuantity /\ Role(index) # "unused"
    /\ pc' = "err5" /\ failing' = TRUE
    /\ UNCHANGED <<machineVars, held, isRunning, index, lcoreVars, flowVars,
                   agingVars>>

LaunchDone ==
    /\ pc = "launch" /\ index = lcoreQuantity
    /\ pc' = "running"
    /\ UNCHANGED <<machineVars, held, isRunning, failing, index, lcoreVars,
                   flowVars, agingVars>>

----------------------------------------------------------------------------
(* The error labels of init_smto, and destroy_smto.                        *)

Release(resources, next) ==
    /\ held' = held \ resources
    /\ pc' = next
    /\ UNCHANGED <<machineVars, isRunning, failing, index, lcoreVars,
                   flowVars, agingVars>>

\* err5 frees the parameters before it waits for the lcores.
FreeParamsOnError == pc = "err5" /\ Release({"worker_params"}, "stop")

\* Mutant: destroy_smto frees the parameters first, as err5 does.
Signal_FreesParams == pc = "running" /\ Release({"worker_params"}, "stop")

\* main leaves its busy loop after SIGINT or SIGTERM.
Signal == pc = "running" /\ Release({}, "stop")

\* Mutant: the flag is left alone.
StopRunning_FlagKept ==
    /\ pc = "stop"
    /\ pc' = "cancel"
    /\ UNCHANGED <<machineVars, held, isRunning, failing, index, lcoreVars,
                   flowVars, agingVars>>

StopRunning ==
    /\ pc = "stop"
    /\ isRunning' = FALSE
    /\ pc' = "cancel"
    /\ UNCHANGED <<machineVars, held, failing, index, lcoreVars, flowVars,
                   agingVars>>

\* rte_eal_alarm_cancel: waits for a handler that is running.
CancelAlarm ==
    /\ pc = "cancel" /\ ipc # "handler"
    /\ alarm' = FALSE
    /\ pc' = "unregister"
    /\ UNCHANGED <<machineVars, held, isRunning, failing, index, lcoreVars,
                   flowVars, ipc>>

\* rte_eth_dev_callback_unregister fails while the callback runs; nobody
\* looks at its result.
UnregisterAgedEvent ==
    /\ pc = "unregister"
    /\ Release(IF ipc = "callback" THEN {} ELSE {"aged_event"}, "wait")

Stopped(i) == lpc[i] \in {"off", "done"}

\* Mutant: rte_eal_mp_wait_lcore is left out.
WaitLcores_NoWait ==
    pc = "wait" /\ Release({}, IF failing THEN "err4" ELSE "err2")

WaitLcores ==
    /\ pc = "wait" /\ \A i \in Lcores : Stopped(i)
    /\ Release({}, IF failing THEN "err4" ELSE "err2")

FreePortPool == pc = "err4" /\ Release({"port_pool"}, "err3")

FreeRulesRing == pc = "err3" /\ Release({"flow_rules_ring"}, "err2")

AfterHashMap == IF failing THEN "err1" ELSE "close"

\* Mutant: an entry is no obstacle (rte_hash_iterate with a position).
DestroyEmptyHashMap_AnyEntries ==
    /\ pc = "err2"
    /\ Release({"flow_hash_map"}, AfterHashMap)

DestroyEmptyHashMap ==
    /\ pc = "err2" /\ ~flows
    /\ Release({"flow_hash_map"}, AfterHashMap)

\* With an entry in the table rte_hash_iterate is given a NULL position.  With
\* the library's checks compiled in (RTE_LIBRTE_HASH_DEBUG) it returns
\* -EINVAL, which does not end the loop ...
IterateHashMap == pc = "err2" /\ flows /\ Release({}, "delete")

\* ... rte_hash_del_key is given the NULL key and fails, and so on for ever.
DeleteNullKey == pc = "delete" /\ Release({}, "err2")

\* Without the checks it follows the pointer: the process dies, with whatever
\* the interrupt thread and the NIC were to do for it.
IterateHashMapCrash ==
    /\ pc = "err2" /\ flows
    /\ pc' = "crashed"
    /\ alarm' = FALSE /\ ipc' = "idle" /\ offloaded' = FALSE
    /\ UNCHANGED <<machineVars, held, isRunning, failing, index, lcoreVars,
                   flows>>

FlushDefaultRules == pc = "err1" /\ Release({"default_rules"}, "err")

FreeControlBlockOnError == pc = "err" /\ Release({"smto_cb"}, "failed")

\* rte_flow_flush, rte_eth_dev_stop and rte_eth_dev_close of every port.
ClosePorts ==
    /\ pc = "close"
    /\ offloaded' = FALSE
    /\ held' = held \ {"default_rules", "port0", "port1"}
    /\ pc' = "params"
    /\ UNCHANGED <<machineVars, isRunning, failing, index, lcoreVars, flows,
                   agingVars>>

\* rte_eal_cleanup releases what is in huge pages: the pool and the rings.
\* main calls it once more afterwards, which is left out.
FreeEverything ==
    /\ pc = "params"
    /\ Release({"worker_params", "smto_cb", "pkt_mbuf_pool",
                "flow_rules_ring", "port_pool"}, "exited")

----------------------------------------------------------------------------
(* The launched lcores, and the interrupt thread.                          *)

\* process_loop reads its parameters before anything else.
EnterLoop(i) ==
    /\ lpc[i] = "launched"
    /\ lpc' = [lpc EXCEPT ![i] = "loop"]
    /\ UNCHANGED <<machineVars, pc, held, isRunning, failing, index, param,
                   flowVars, agingVars>>

\* One pass of process_loop.
LearnFlow(i) ==
    /\ lpc[i] = "loop" /\ Role(i) = "worker"
    /\ ~flows /\ flows' = TRUE
    /\ UNCHANGED <<machineVars, pc, held, isRunning, failing, index,
                   lcoreVars, offloaded, agingVars>>

\* One pass of create_flow_loop.
OffloadFlow(i) ==
    /\ lpc[i] = "loop" /\ Role(i) = "engine"
    /\ flows /\ ~offloaded /\ offloaded' = TRUE
    /\ UNCHANGED <<machineVars, pc, held, isRunning, failing, index,
                   lcoreVars, flows, agingVars>>

\* while (smto_cb->is_running)
LeaveLoop(i) ==
    /\ lpc[i] = "loop" /\ ~isRunning
    /\ lpc' = [lpc EXCEPT ![i] = "done"]
    /\ UNCHANGED <<machineVars, pc, held, isRunning, failing, index, param,
                   flowVars, agingVars>>

\* The driver raises RTE_ETH_EVENT_FLOW_AGED.
AgedEvent ==
    /\ ipc = "idle" /\ offloaded /\ "aged_event" \in held
    /\ ipc' = "callback"
    /\ UNCHANGED <<machineVars, pc, held, isRunning, failing, index,
                   lcoreVars, flowVars, alarm>>

SetAlarm ==
    /\ ipc = "callback"
    /\ alarm' \in {alarm, TRUE}
    /\ ipc' = "idle"
    /\ UNCHANGED <<machineVars, pc, held, isRunning, failing, index,
                   lcoreVars, flowVars>>

FireAlarm ==
    /\ ipc = "idle" /\ alarm
    /\ alarm' = FALSE
    /\ ipc' = "handler"
    /\ UNCHANGED <<machineVars, pc, held, isRunning, failing, index,
                   lcoreVars, flowVars>>

HandlerDone ==
    /\ ipc = "handler"
    /\ offloaded' \in {offloaded, FALSE}
    /\ ipc' = "idle"
    /\ UNCHANGED <<machineVars, pc, held, isRunning, failing, index,
                   lcoreVars, flows, alarm>>

----------------------------------------------------------------------------
InitSmto ==
    \/ AllocateControlBlock \/ CheckLcores \/ CheckPorts \/ CreateMempool
    \/ SetupHairpin \/ StartPort0 \/ AssertLinkStatus \/ StartPort1
    \/ BindHairpin \/ CreateJumpFlow \/ CreateRssFlow \/ CreateHashMap
    \/ CreateRulesRing \/ CreatePortPool \/ RegisterAgedEvent \/ StartRunning
    \/ ParamsOutOfMemory \/ Launch \/ LaunchFailed \/ LaunchDone

Stop ==
    \/ FreeParamsOnError \/ StopRunning \/ CancelAlarm \/ UnregisterAgedEvent
    \/ WaitLcores \/ FreePortPool \/ FreeRulesRing \/ DestroyEmptyHashMap
    \/ IterateHashMap \/ DeleteNullKey \/ IterateHashMapCrash
    \/ FlushDefaultRules
    \/ FreeControlBlockOnError \/ ClosePorts \/ FreeEverything

Lcore(i) == EnterLoop(i) \/ LearnFlow(i) \/ OffloadFlow(i) \/ LeaveLoop(i)

Interrupt == AgedEvent \/ SetAlarm \/ FireAlarm \/ HandlerDone

Next == InitSmto \/ Signal \/ Stop \/ Interrupt \/ \E i \in Lcores : Lcore(i)

\* Every thread runs.  The signal, the packets and the aging are the
\* environment's; an lcore that is told to stop does test the flag.
Fairness ==
    /\ WF_vars(InitSmto \/ Stop)
    /\ WF_vars(SetAlarm \/ FireAlarm \/ HandlerDone)
    /\ \A i \in Lcores : WF_vars(EnterLoop(i)) /\ WF_vars(LeaveLoop(i))

Spec == Init /\ [][Next]_vars
FairSpec == Spec /\ Fairness

----------------------------------------------------------------------------
(* What must hold.                                                         *)

\* Every variable has its type.
TypeOK ==
    /\ portQuantity \in 0..MaxPorts
    /\ lcoreQuantity \in 0..MaxLcores
    /\ held \subseteq Resources
    /\ isRunning \in BOOLEAN /\ failing \in BOOLEAN
    /\ index \in 0..lcoreQuantity
    /\ lpc \in [Lcores -> {"off", "launched", "loop", "done"}]
    /\ param \in [Lcores -> Lcores \cup {0}]
    /\ flows \in BOOLEAN /\ offloaded \in BOOLEAN /\ alarm \in BOOLEAN
    /\ ipc \in {"idle", "callback", "handler"}

\* What process_loop and create_flow_loop dereference.
Shared == {"smto_cb", "flow_hash_map", "flow_rules_ring", "port_pool"}

\* A launched lcore finds the control block, the flow table and both rings
\* until it returns, on the error path of a failed launch too.
LcoresFindShared ==
    \A i \in Lcores : lpc[i] \in {"launched", "loop"} => Shared \subseteq held

\* delete_timeout_flows finds the entries it is given, and smto_cb, also when
\* its alarm fires after unregister_aged_event: with an entry in the table
\* destroy_hash_map never gets as far as freeing it.
HandlerFindsEntries ==
    ipc = "handler" => {"smto_cb", "flow_hash_map"} \subseteq held

\* When init_smto has succeeded on one port, every RX queue is polled by
\* exactly one lcore and one lcore runs the flow engine.
SinglePortServed ==
    pc = "running" /\ SinglePort =>
        /\ \A q \in 0..(GeneralQueues - 1) :
              Cardinality({i \in Lcores : /\ lpc[i] # "off"
                                          /\ Role(i) = "worker"
                                          /\ param[i] = q}) = 1
        /\ Cardinality({i \in Lcores :
                          lpc[i] # "off" /\ Role(i) = "engine"}) = 1

\* A failed init_smto gives back everything but the memory pool and the
\* started ports, which the end of the process releases: whatever step fails,
\* the label it jumps to releases what is held by then.
FailedInitReleases ==
    pc = "failed" => held \subseteq {"pkt_mbuf_pool", "port0", "port1"}

\* An lcore that has still to read its parameters finds them, unless err5 is
\* on its way.
ParamsFoundUnlessFailing ==
    \A i \in Lcores :
        lpc[i] = "launched" /\ Role(i) = "worker" /\ ~failing =>
            "worker_params" \in held

\* Shutdown, after a signal or a failed launch, comes to its end as long as no
\* packet has put a flow into the table.
ShutdownCompletesUnlessFlows ==
    pc = "stop" ~> (pc \in {"exited", "failed"} \/ flows)

----------------------------------------------------------------------------
(* What the documents say and the code does not do.                        *)

\* src/include/internal/smto_setup.h:64 "Free the memory of flows in the hash
\* map and free the flow hash map.": destroy_hash_map comes to that.
HashMapFreed == pc = "err2" ~> "flow_hash_map" \notin held
=============================================================================
