------------------------------- MODULE V1Main -------------------------------
(***************************************************************************)
(* The first version of Smart Offload as a whole (src/src/v1): main brings *)
(* the port up, launches the one worker of V1FlowTable, waits for it, and  *)
(* takes the process down while the interrupt thread still runs: the       *)
(* callback for aged rules is never unregistered, its alarm never          *)
(* cancelled.  Every failure of a start-up call goes through smto_exit.    *)
(***************************************************************************)
EXTENDS V1FlowTable

CONSTANT RepeatTimes   \* MAX_REPEAT_TIMES, the polls for the link

ASSUME RepeatAssumption == RepeatTimes \in Nat \ {0}

VARIABLES
    mpc,   \* the main lcore: program counter
    rep    \* rep_cnt of assert_link_status

flowVars == <<tableVars, workerVars, nicVars, agingVars, ghostVars>>
vars     == <<flowVars, mainVars, mpc, rep>>

Init == TableInit /\ mpc = "eal" /\ rep = RepeatTimes

\* The call before which main stands succeeds, or smto_exit is called.
Try(at, next) ==
    /\ mpc = at /\ mpc' \in {next, "exit"}
    /\ UNCHANGED <<flowVars, mainVars, rep>>

\* rte_eal_init and dzlog_init; at least one port and exactly one; as many
\* lcores as queues beside the main one.
StartEnvironment == Try("eal", "ports")
CheckPorts       == Try("ports", "lcores")
CheckLcores      == Try("lcores", "mempool")
CreateMempool    == Try("mempool", "port")
InitPort         == Try("port", "queues")
SetupHairpinQueues == Try("queues", "start")
StartPort        == Try("start", "link")
CreateJumpFlow   == Try("jump", "rss")
CreateRssFlow    == Try("rss", "hash")

LinkUp ==
    /\ mpc = "link" /\ mpc' = "jump" /\ rep' = 0
    /\ UNCHANGED <<flowVars, mainVars>>

\* while (--rep_cnt)
LinkRetry ==
    /\ mpc = "link" /\ rep > 1
    /\ rep' = rep - 1
    /\ UNCHANGED <<flowVars, mainVars, mpc>>

\* The link is down, or its status is unknown: then the message is printed
\* through a pointer that was never set.
LinkTimeout ==
    /\ mpc = "link" /\ rep = 1
    /\ rep' = 0 /\ mpc' \in {"exit", "crashed"}
    /\ UNCHANGED <<flowVars, mainVars>>

CreateHashMap ==
    /\ mpc = "hash"
    /\ \/ tableAlive' = TRUE /\ mpc' = "register"
       \/ UNCHANGED tableAlive /\ mpc' = "exit"
    /\ UNCHANGED <<flowVars, forceQuit, registered, rep>>

RegisterAgedEvent ==
    /\ mpc = "register"
    /\ \/ registered' = TRUE /\ mpc' = "launch"
       \/ UNCHANGED registered /\ mpc' = "exit"
    /\ UNCHANGED <<flowVars, tableAlive, forceQuit, rep>>

\* rte_eal_remote_launch on the one other lcore, which is waiting.
LaunchWorker ==
    /\ mpc = "launch"
    /\ wpc' = "idle" /\ mpc' = "wait"
    /\ UNCHANGED <<tableVars, burst, wkey, wmeta, created, nicVars, agingVars,
                   ghostVars, mainVars, rep>>

WaitLcores ==
    /\ mpc = "wait" /\ wpc = "done"
    /\ mpc' = "count"
    /\ UNCHANGED <<flowVars, mainVars, rep>>

\* Mutant: the table is freed whatever rte_hash_count says.
CountKeys_Ignored ==
    /\ mpc = "count" /\ mpc' = "free"
    /\ UNCHANGED <<flowVars, mainVars, rep>>

\* rte_hash_count counts an entry until its position is given back.  With one
\* rte_hash_iterate gets a NULL position: it follows the pointer, or (with the
\* library's checks compiled in) leaves the NULL key that dump_pkt_info
\* follows.
CountKeys ==
    /\ mpc = "count"
    /\ mpc' = IF dpc = "position" \/ \E k \in Keys : table[k] # NULL
                THEN "crashed" ELSE "free"
    /\ UNCHANGED <<flowVars, mainVars, rep>>

FreeHashMap ==
    /\ mpc = "free"
    /\ tableAlive' = FALSE /\ mpc' = "exit"
    /\ UNCHANGED <<flowVars, forceQuit, registered, rep>>

\* smto_exit: destroy_hairpin, then rte_flow_flush, stop and close of the
\* port, with which its callbacks go ...
CloseEverything ==
    /\ mpc = "exit"
    /\ rule' = [h \in Handles |-> NULL] /\ aged' = {}
    /\ registered' = FALSE
    /\ mpc' = "cleanup"
    /\ UNCHANGED <<tableVars, workerVars, armed, agingVars, ghostVars,
                   tableAlive, forceQuit, rep>>

\* ... then rte_eal_cleanup and rte_exit.
ExitProcess ==
    /\ mpc = "cleanup" /\ mpc' = "exited"
    /\ UNCHANGED <<flowVars, mainVars, rep>>

Main ==
    \/ StartEnvironment \/ CheckPorts \/ CheckLcores \/ CreateMempool
    \/ InitPort \/ SetupHairpinQueues \/ StartPort \/ LinkUp \/ LinkRetry
    \/ LinkTimeout \/ CreateJumpFlow \/ CreateRssFlow \/ CreateHashMap
    \/ RegisterAgedEvent \/ LaunchWorker \/ WaitLcores \/ CountKeys
    \/ FreeHashMap \/ CloseEverything \/ ExitProcess

Ended == mpc \in {"exited", "crashed", "out_of_memory"}

\* SIGINT or SIGTERM, once the handler is installed.
SignalHandler ==
    /\ mpc # "eal" /\ ~Ended /\ ~forceQuit
    /\ forceQuit' = TRUE
    /\ UNCHANGED <<flowVars, tableAlive, registered, mpc, rep>>

\* rte_zmalloc returns NULL for the key or the flow_meta of a packet, and
\* packet_processing follows the pointer.
PacketOutOfMemory ==
    /\ ~Ended /\ wpc = "idle" /\ burst > 0
    /\ mpc' = "out_of_memory"
    /\ UNCHANGED <<flowVars, mainVars, rep>>

\* The same for the parameters aged_event_callback passes on.
EventOutOfMemory(h) ==
    /\ ~Ended /\ armed /\ registered
    /\ Live(h) /\ h \notin aged /\ ~InFlight(h)
    /\ mpc' = "out_of_memory"
    /\ UNCHANGED <<flowVars, mainVars, rep>>

OutOfMemory ==
    PacketOutOfMemory \/ \E h \in Handles : EventOutOfMemory(h)

\* The threads beside main run until the process ends.
Beside(A) == ~Ended /\ A /\ UNCHANGED <<mpc, rep>>

Next ==
    \/ Main \/ SignalHandler \/ OutOfMemory
    \/ Beside(Worker) \/ Beside(DeleteTimeoutFlows)
    \/ \E h \in Handles : Beside(Age(h))

\* What the worker does with packets it has, and its test of force_quit.
WorkOff ==
    \/ SkipPacket \/ LeaveLoop \/ PacketStep
    \/ \E k \in Keys : LookupHit(k) \/ \E m \in Metas : LookupMiss(k, m)

\* Every thread runs; packets, aging and signals are the environment's.
Fairness ==
    /\ WF_vars(Main)
    /\ WF_vars(Beside(WorkOff))
    /\ WF_vars(Beside(DeleteTimeoutFlows))

Spec     == Init /\ [][Next]_vars
FairSpec == Spec /\ Fairness

----------------------------------------------------------------------------
(* What must hold.                                                         *)

Undisturbed == ~late /\ ~agingError

\* Every variable has its type, and the pointers the steps of worker and
\* interrupt thread follow are set.
TypeOK ==
    /\ table \in [Keys -> Metas \cup {NULL}]
    /\ allocated \subseteq Metas
    /\ orphans \subseteq Metas /\ refused \subseteq Metas
    /\ amount \in [Metas -> 0..(OffloadAt + 1)]
    /\ handle \in [Metas -> Handles \cup {NULL}]
    /\ rule \in [Handles -> Keys \cup {NULL}]
    /\ aged \subseteq {h \in Handles : Live(h)}
    /\ burst \in 0..MaxBurst /\ rep \in 0..RepeatTimes
    /\ wpc \in {"off", "idle", "add", "count", "create", "store", "done"}
    /\ dpc \in {"idle", "fetch", "lookup", "delete", "position", "destroy",
                "free"}
    /\ wpc \in {"add", "count", "create", "store"} => wmeta \in Metas
    /\ wpc = "store" => created \in Handles
    /\ dpc \in {"delete", "position", "destroy", "free"} => dmeta \in Metas
    /\ dpc = "destroy" => handle[dmeta] # NULL

\* rte_free(flow_data) in delete_timeout_flows is unsafe without a reference
\* count, yet nobody reads or writes a freed flow_meta unless the worker had a
\* packet of a flow whose rule had aged, before or after it came: the entry
\* leaves the table first, and packet_processing has the pointer for one
\* packet only.
FreedUseOnlyLate == freedUse => late

\* A rule in the NIC can be destroyed: its handle is in the flow_meta of its
\* key, or on its way there, or in the hands of the interrupt thread.
RuleKnown ==
    Undisturbed =>
      \A h \in Handles : Live(h) =>
         \/ created = h /\ wkey = rule[h]
         \/ dmeta # NULL /\ handle[dmeta] = h /\ dkey = rule[h]
         \/ table[rule[h]] # NULL /\ handle[table[rule[h]]] = h

\* No flow_meta is lost, as long as insertions succeed ("need to be free at
\* the end", src/include/v1/flow_meta.h:44): each one in use can be reached
\* from the table or is held by a thread, late packets or not.
MetaReachable ==
    \A m \in allocated :
       m \in orphans \cup {wmeta, dmeta} \cup {table[k] : k \in Keys}

\* The counter is compared for equality with 5, so a flow whose fifth packet
\* made no rule never gets one: it happens only when the NIC refused it, or to
\* a struct freed and used again under a late packet.
BusyFlowOffloaded ==
    ~late =>
      \A k \in Keys : table[k] # NULL /\ amount[table[k]] >= OffloadAt =>
         \/ handle[table[k]] # NULL \/ table[k] \in refused
         \/ wpc \in {"create", "store"} /\ wmeta = table[k]

\* The flow table is there for the worker, and for the interrupt thread when
\* it looks a context up and removes its entry, although main never stops the
\* aging: an aged entry, and a position not given back, keep main from freeing
\* the table.
TableFound ==
    /\ wpc \notin {"off", "done"} => tableAlive
    /\ dpc \in {"delete", "position"} => tableAlive
    /\ dpc = "lookup" /\ Undisturbed => tableAlive

\* Until something goes wrong, a rule that leaves the NIC before the port is
\* closed has aged: delete_timeout_flows destroys the rule of the context it
\* was given, through a handle the worker stored, never another one.
OnlyAgedDestroyed ==
    [][\A h \in Handles :
         Live(h) /\ rule'[h] = NULL /\ Undisturbed => h \in aged \/ mpc = "exit"]_vars

\* As long as rules are aged, the interrupt thread comes to one more of them:
\* also a rule that ages while it is between asking how many and asking which,
\* and one of many that age together, raises or keeps an alarm.
AgedDestroyed == aged # {} ~> (dpc = "destroy" \/ ~Undisturbed \/ Ended)

\* A signal ends the process, whatever main, the worker and the interrupt
\* thread are doing (src/src/v1/main.c:39 "preparing to exit").
ShutdownEnds == forceQuit ~> Ended
=============================================================================
