------------------------------ MODULE V1Proofs ------------------------------
(***************************************************************************)
(* Theorems about the first version, for any flows, addresses and bounds:  *)
(* typing, and that no flow_meta is lost.                                  *)
(***************************************************************************)
EXTENDS V1Main, TLAPS

\* The interrupt thread has a flow_meta in hand; the worker has one it found
\* in the table.
Deleting == dpc \in {"delete", "position", "destroy", "free"}
Counting == wpc \in {"count", "create", "store"}

InTable(m) == \E k \in Keys : table[k] = m

\* What the interrupt thread was told, and what it has in hand: an entry up to
\* its removal from the table, nothing but the pointer after it.
DeleterInv ==
    /\ todo \subseteq Handles \X Keys
    /\ ~Deleting => dmeta = NULL
    /\ Deleting => dkey \in Keys /\ dmeta \in allocated
    /\ dpc = "delete" => table[dkey] = dmeta
    /\ dpc \in {"position", "destroy", "free"} => ~InTable(dmeta)

\* What the worker has in hand: a new flow_meta nobody else knows, or one that
\* is in the table or with the interrupt thread, unless it has been freed.
WorkerInv ==
    /\ wpc \in {"off", "idle", "done"} => wmeta = NULL
    /\ wpc \notin {"off", "idle", "done"} => wkey \in Keys
    /\ wpc = "add" => /\ wmeta \in allocated /\ wmeta # dmeta
                      /\ ~InTable(wmeta) /\ table[wkey] = NULL
    /\ Counting /\ wmeta \in allocated => InTable(wmeta) \/ wmeta = dmeta

\* The table holds flow_metas in use, each under one key.
TableInv ==
    /\ \A k \in Keys : table[k] # NULL => table[k] \in allocated
    /\ \A j, k \in Keys : table[j] = table[k] /\ table[j] # NULL => j = k

\* The worker is launched before main waits for it.
Launched ==
    wpc # "off" => mpc \in {"wait", "count", "free", "exit", "cleanup",
                            "exited", "crashed", "out_of_memory"}

MetaInv == TypeOK /\ DeleterInv /\ WorkerInv /\ TableInv /\ MetaReachable

----------------------------------------------------------------------------
(* The invariant is inductive.                                             *)

\* NULL is no key and no address, and the counter has room for its cap.
LEMMA Distinct ==
    /\ NULL \notin Keys /\ NULL \notin Metas /\ NULL \notin Handles
    /\ OffloadAt \in Nat
    /\ \A n \in 0..(OffloadAt + 1) : OneMore(n) \in 0..(OffloadAt + 1)
    /\ 1 \in 0..(OffloadAt + 1) /\ 0 \in 0..(OffloadAt + 1)
BY V1NullAssumption, V1BoundAssumption DEF OneMore

\* The initial states satisfy the invariant.
LEMMA InitMeta == Init => MetaInv
<1> SUFFICES ASSUME Init PROVE MetaInv
    OBVIOUS
<1>1. TypeOK
  <2>1. 0 \in 0..MaxBurst /\ rep \in 0..RepeatTimes
    BY V1BoundAssumption, RepeatAssumption DEF Init
  <2>2. /\ table \in [Keys -> Metas \cup {NULL}]
        /\ amount \in [Metas -> 0..(OffloadAt + 1)]
        /\ handle \in [Metas -> Handles \cup {NULL}]
        /\ rule \in [Handles -> Keys \cup {NULL}]
    BY Distinct DEF Init, TableInit
  <2> QED
    BY <2>1, <2>2 DEF Init, TableInit, TypeOK
<1>2. DeleterInv /\ WorkerInv /\ TableInv /\ MetaReachable
    BY DEF Init, TableInit, DeleterInv, WorkerInv, TableInv, MetaReachable,
           Deleting, Counting
<1> QED
    BY <1>1, <1>2 DEF MetaInv

\* The worker receives, skips, finds or leaves; the table stays.
LEMMA ReceiveStep ==
    ASSUME MetaInv, Receive \/ SkipPacket \/ LeaveLoop, UNCHANGED rep
    PROVE  MetaInv'
<1> USE Distinct, V1BoundAssumption
    DEF tableVars, workerVars, nicVars, agingVars, ghostVars, mainVars
<1>1. TypeOK'
    BY DEF MetaInv, TypeOK, Receive, SkipPacket, LeaveLoop, Live
<1>2. (DeleterInv /\ WorkerInv)'
    BY DEF MetaInv, DeleterInv, WorkerInv, Deleting, Counting, InTable,
           Receive, SkipPacket, LeaveLoop
<1>3. (TableInv /\ MetaReachable)'
    BY DEF MetaInv, TableInv, MetaReachable, Receive, SkipPacket, LeaveLoop
<1> QED
    BY <1>1, <1>2, <1>3 DEF MetaInv

\* A new flow gets an address that is not in use.
LEMMA LookupMissStep ==
    ASSUME MetaInv, NEW k \in Keys, NEW m \in Metas, LookupMiss(k, m),
           UNCHANGED rep
    PROVE  MetaInv'
<1> USE Distinct, V1BoundAssumption
    DEF LookupMiss, nicVars, agingVars, mainVars
<1>1. TypeOK'
    BY DEF MetaInv, TypeOK, DeleterInv, Deleting, Live
<1>2. DeleterInv'
    BY DEF MetaInv, TypeOK, DeleterInv, Deleting, InTable
<1>3. WorkerInv'
    BY DEF MetaInv, TypeOK, DeleterInv, WorkerInv, TableInv, Deleting,
           Counting, InTable
<1>4. TableInv'
    BY DEF MetaInv, TableInv
<1>5. MetaReachable'
    BY DEF MetaInv, MetaReachable, WorkerInv
<1> QED
    BY <1>1, <1>2, <1>3, <1>4, <1>5 DEF MetaInv

\* A known flow is found.
LEMMA LookupHitStep ==
    ASSUME MetaInv, NEW k \in Keys, LookupHit(k), UNCHANGED rep
    PROVE  MetaInv'
<1> USE Distinct, V1BoundAssumption
    DEF LookupHit, tableVars, nicVars, agingVars, mainVars
<1>1. TypeOK'
    BY DEF MetaInv, TypeOK, Live
<1>2. DeleterInv'
    BY DEF MetaInv, DeleterInv, Deleting, InTable
<1>3. WorkerInv'
    BY DEF MetaInv, WorkerInv, Counting, InTable
<1>4. TableInv'
    BY DEF MetaInv, TableInv
<1>5. MetaReachable'
    BY DEF MetaInv, TypeOK, MetaReachable, WorkerInv
<1> QED
    BY <1>1, <1>2, <1>3, <1>4, <1>5 DEF MetaInv

\* The new flow enters the table.
LEMMA AddEntryStep ==
    ASSUME MetaInv, AddEntry, UNCHANGED rep
    PROVE  MetaInv'
<1> USE Distinct, V1BoundAssumption
    DEF AddEntry, PacketDone, nicVars, agingVars, ghostVars, mainVars
<1>1. TypeOK'
    BY DEF MetaInv, TypeOK, DeleterInv, Deleting, Live
<1>2. DeleterInv'
    BY DEF MetaInv, TypeOK, DeleterInv, WorkerInv, TableInv, Deleting,
           InTable
<1>3. WorkerInv'
    BY DEF MetaInv, TypeOK, DeleterInv, WorkerInv, TableInv, Deleting,
           Counting, InTable
<1>4. TableInv'
    BY DEF MetaInv, TypeOK, WorkerInv, TableInv, InTable
<1>5. MetaReachable'
    BY DEF MetaInv, TypeOK, MetaReachable, DeleterInv, WorkerInv, Counting,
           Deleting, InTable
<1> QED
    BY <1>1, <1>2, <1>3, <1>4, <1>5 DEF MetaInv

\* The new flow does not enter it: an orphan.
LEMMA AddFailedStep ==
    ASSUME MetaInv, AddFailed, UNCHANGED rep
    PROVE  MetaInv'
<1> USE Distinct, V1BoundAssumption
    DEF AddFailed, PacketDone, tableVars, nicVars, agingVars, mainVars
<1>1. TypeOK'
    BY DEF MetaInv, TypeOK, DeleterInv, Deleting, Live
<1>2. DeleterInv'
    BY DEF MetaInv, TypeOK, DeleterInv, WorkerInv, TableInv, Deleting,
           InTable
<1>3. WorkerInv'
    BY DEF MetaInv, TypeOK, DeleterInv, WorkerInv, TableInv, Deleting,
           Counting, InTable
<1>4. TableInv'
    BY DEF MetaInv, TypeOK, WorkerInv, TableInv, InTable
<1>5. MetaReachable'
    BY DEF MetaInv, TypeOK, MetaReachable, DeleterInv, WorkerInv, Counting,
           Deleting, InTable
<1> QED
    BY <1>1, <1>2, <1>3, <1>4, <1>5 DEF MetaInv

\* The packet is counted, in a flow_meta that may be freed.
LEMMA CountStep ==
    ASSUME MetaInv, CountPacket, UNCHANGED rep
    PROVE  MetaInv'
<1> USE Distinct, V1BoundAssumption
    DEF CountPacket, PacketDone, nicVars, agingVars, mainVars
<1>1. TypeOK'
    BY DEF MetaInv, TypeOK, DeleterInv, Deleting, Live
<1>2. DeleterInv'
    BY DEF MetaInv, TypeOK, DeleterInv, WorkerInv, TableInv, Deleting,
           InTable
<1>3. WorkerInv'
    BY DEF MetaInv, TypeOK, DeleterInv, WorkerInv, TableInv, Deleting,
           Counting, InTable
<1>4. TableInv'
    BY DEF MetaInv, TypeOK, WorkerInv, TableInv, InTable
<1>5. MetaReachable'
    BY DEF MetaInv, TypeOK, MetaReachable, DeleterInv, WorkerInv, Counting,
           Deleting, InTable
<1> QED
    BY <1>1, <1>2, <1>3, <1>4, <1>5 DEF MetaInv

\* The NIC makes the rule.
LEMMA CreateStep ==
    ASSUME MetaInv, NEW h \in Handles, CreateRule(h), UNCHANGED rep
    PROVE  MetaInv'
<1> USE Distinct, V1BoundAssumption
    DEF CreateRule, tableVars, agingVars, ghostVars, mainVars
<1>1. TypeOK'
  <2>1. wkey \in Keys /\ rule \in [Handles -> Keys \cup {NULL}]
    BY DEF MetaInv, TypeOK, WorkerInv
  <2>2. rule' \in [Handles -> Keys \cup {NULL}]
    BY <2>1
  <2>3. aged' \subseteq {g \in Handles : Live(g)'}
    BY <2>1 DEF MetaInv, TypeOK, Live
  <2> QED
    BY <2>2, <2>3 DEF MetaInv, TypeOK, Live
<1>2. DeleterInv'
    BY DEF MetaInv, TypeOK, DeleterInv, WorkerInv, TableInv, Deleting,
           InTable
<1>3. WorkerInv'
    BY DEF MetaInv, TypeOK, DeleterInv, WorkerInv, TableInv, Deleting,
           Counting, InTable
<1>4. TableInv'
    BY DEF MetaInv, TypeOK, WorkerInv, TableInv, InTable
<1>5. MetaReachable'
    BY DEF MetaInv, TypeOK, MetaReachable, DeleterInv, WorkerInv, Counting,
           Deleting, InTable
<1> QED
    BY <1>1, <1>2, <1>3, <1>4, <1>5 DEF MetaInv

\* The NIC refuses it.
LEMMA RefusedStep ==
    ASSUME MetaInv, CreateRefused, UNCHANGED rep
    PROVE  MetaInv'
<1> USE Distinct, V1BoundAssumption
    DEF CreateRefused, PacketDone, tableVars, nicVars, agingVars,
        mainVars
<1>1. TypeOK'
    BY DEF MetaInv, TypeOK, DeleterInv, Deleting, Live
<1>2. DeleterInv'
    BY DEF MetaInv, TypeOK, DeleterInv, WorkerInv, TableInv, Deleting,
           InTable
<1>3. WorkerInv'
    BY DEF MetaInv, TypeOK, DeleterInv, WorkerInv, TableInv, Deleting,
           Counting, InTable
<1>4. TableInv'
    BY DEF MetaInv, TypeOK, WorkerInv, TableInv, InTable
<1>5. MetaReachable'
    BY DEF MetaInv, TypeOK, MetaReachable, DeleterInv, WorkerInv, Counting,
           Deleting, InTable
<1> QED
    BY <1>1, <1>2, <1>3, <1>4, <1>5 DEF MetaInv

\* Its handle is stored, in a flow_meta that may be freed.
LEMMA StoreStep ==
    ASSUME MetaInv, StoreHandle, UNCHANGED rep
    PROVE  MetaInv'
<1> USE Distinct, V1BoundAssumption
    DEF StoreHandle, PacketDone, nicVars, agingVars, mainVars
<1>1. TypeOK'
    BY DEF MetaInv, TypeOK, DeleterInv, Deleting, Live
<1>2. DeleterInv'
    BY DEF MetaInv, TypeOK, DeleterInv, WorkerInv, TableInv, Deleting,
           InTable
<1>3. WorkerInv'
    BY DEF MetaInv, TypeOK, DeleterInv, WorkerInv, TableInv, Deleting,
           Counting, InTable
<1>4. TableInv'
    BY DEF MetaInv, TypeOK, WorkerInv, TableInv, InTable
<1>5. MetaReachable'
    BY DEF MetaInv, TypeOK, MetaReachable, DeleterInv, WorkerInv, Counting,
           Deleting, InTable
<1> QED
    BY <1>1, <1>2, <1>3, <1>4, <1>5 DEF MetaInv

\* The interrupt thread is told what has aged, or is not.
LEMMA FetchStep ==
    ASSUME MetaInv, CountAged \/ FetchAged \/ FetchFailed, UNCHANGED rep
    PROVE  MetaInv'
<1> USE Distinct, V1BoundAssumption
    DEF CountAged, FetchAged, FetchFailed, tableVars, workerVars, nicVars,
        ghostVars, mainVars
<1>1. TypeOK'
    BY DEF MetaInv, TypeOK, DeleterInv, TableInv, Deleting, Live
<1>2. DeleterInv'
    BY DEF MetaInv, TypeOK, DeleterInv, WorkerInv, TableInv, Deleting,
           InTable, Live
<1>3. WorkerInv'
    BY DEF MetaInv, TypeOK, DeleterInv, WorkerInv, TableInv, Deleting,
           Counting, InTable
<1>4. TableInv'
    BY DEF MetaInv, TypeOK, DeleterInv, WorkerInv, TableInv, Deleting,
           InTable
<1>5. MetaReachable'
    BY DEF MetaInv, TypeOK, MetaReachable, DeleterInv, WorkerInv, Counting,
           Deleting, InTable
<1> QED
    BY <1>1, <1>2, <1>3, <1>4, <1>5 DEF MetaInv

\* It looks a context up.
LEMMA ContextStep ==
    ASSUME MetaInv, NEW p \in todo, LookupContext(p), UNCHANGED rep
    PROVE  MetaInv'
<1> USE Distinct, V1BoundAssumption
    DEF LookupContext, MoreAged, tableVars, workerVars, nicVars,
        ghostVars, mainVars
<1>1. TypeOK'
    BY DEF MetaInv, TypeOK, DeleterInv, TableInv, Deleting, Live
<1>2. DeleterInv'
    BY DEF MetaInv, TypeOK, DeleterInv, WorkerInv, TableInv, Deleting,
           InTable, Live
<1>3. WorkerInv'
    BY DEF MetaInv, TypeOK, DeleterInv, WorkerInv, TableInv, Deleting,
           Counting, InTable
<1>4. TableInv'
    BY DEF MetaInv, TypeOK, DeleterInv, WorkerInv, TableInv, Deleting,
           InTable
<1>5. MetaReachable'
    BY DEF MetaInv, TypeOK, MetaReachable, DeleterInv, WorkerInv, Counting,
           Deleting, InTable
<1> QED
    BY <1>1, <1>2, <1>3, <1>4, <1>5 DEF MetaInv

\* It takes the entry out of the table.
LEMMA DeleteStep ==
    ASSUME MetaInv, DeleteKey, UNCHANGED rep
    PROVE  MetaInv'
<1> USE Distinct, V1BoundAssumption
    DEF DeleteKey, workerVars, nicVars, ghostVars, mainVars
<1>1. TypeOK'
    BY DEF MetaInv, TypeOK, DeleterInv, TableInv, Deleting, Live
<1>2. DeleterInv'
    BY DEF MetaInv, TypeOK, DeleterInv, WorkerInv, TableInv, Deleting,
           InTable, Live
<1>3. WorkerInv'
    BY DEF MetaInv, TypeOK, DeleterInv, WorkerInv, TableInv, Deleting,
           Counting, InTable
<1>4. TableInv'
    BY DEF MetaInv, TypeOK, DeleterInv, WorkerInv, TableInv, Deleting,
           InTable
<1>5. MetaReachable'
    BY DEF MetaInv, TypeOK, MetaReachable, DeleterInv, WorkerInv, Counting,
           Deleting, InTable
<1> QED
    BY <1>1, <1>2, <1>3, <1>4, <1>5 DEF MetaInv

\* It frees the position of the key, and destroys the rule.
LEMMA PositionStep ==
    ASSUME MetaInv, FreePosition \/ DestroyFailed, UNCHANGED rep
    PROVE  MetaInv'
<1> USE Distinct, V1BoundAssumption
    DEF FreePosition, DestroyFailed, tableVars, workerVars, nicVars,
        mainVars
<1>1. TypeOK'
    BY DEF MetaInv, TypeOK, DeleterInv, TableInv, Deleting, Live
<1>2. DeleterInv'
    BY DEF MetaInv, TypeOK, DeleterInv, WorkerInv, TableInv, Deleting,
           InTable, Live
<1>3. WorkerInv'
    BY DEF MetaInv, TypeOK, DeleterInv, WorkerInv, TableInv, Deleting,
           Counting, InTable
<1>4. TableInv'
    BY DEF MetaInv, TypeOK, DeleterInv, WorkerInv, TableInv, Deleting,
           InTable
<1>5. MetaReachable'
    BY DEF MetaInv, TypeOK, MetaReachable, DeleterInv, WorkerInv, Counting,
           Deleting, InTable
<1> QED
    BY <1>1, <1>2, <1>3, <1>4, <1>5 DEF MetaInv

\* It destroys the rule.
LEMMA DestroyStep ==
    ASSUME MetaInv, DestroyRule, UNCHANGED rep
    PROVE  MetaInv'
<1> USE Distinct, V1BoundAssumption
    DEF DestroyRule, tableVars, workerVars, ghostVars, mainVars
<1>1. TypeOK'
    BY DEF MetaInv, TypeOK, DeleterInv, TableInv, Deleting, Live
<1>2. DeleterInv'
    BY DEF MetaInv, TypeOK, DeleterInv, WorkerInv, TableInv, Deleting,
           InTable, Live
<1>3. WorkerInv'
    BY DEF MetaInv, TypeOK, DeleterInv, WorkerInv, TableInv, Deleting,
           Counting, InTable
<1>4. TableInv'
    BY DEF MetaInv, TypeOK, DeleterInv, WorkerInv, TableInv, Deleting,
           InTable
<1>5. MetaReachable'
    BY DEF MetaInv, TypeOK, MetaReachable, DeleterInv, WorkerInv, Counting,
           Deleting, InTable
<1> QED
    BY <1>1, <1>2, <1>3, <1>4, <1>5 DEF MetaInv

\* It frees the flow_meta.
LEMMA FreeStep ==
    ASSUME MetaInv, FreeMeta, UNCHANGED rep
    PROVE  MetaInv'
<1> USE Distinct, V1BoundAssumption
    DEF FreeMeta, MoreAged, workerVars, nicVars, mainVars
<1>1. TypeOK'
    BY DEF MetaInv, TypeOK, DeleterInv, TableInv, Deleting, Live
<1>2. DeleterInv'
    BY DEF MetaInv, TypeOK, DeleterInv, WorkerInv, TableInv, Deleting,
           InTable, Live
<1>3. WorkerInv'
    BY DEF MetaInv, TypeOK, DeleterInv, WorkerInv, TableInv, Deleting,
           Counting, InTable
<1>4. TableInv'
    BY DEF MetaInv, TypeOK, DeleterInv, WorkerInv, TableInv, Deleting,
           InTable
<1>5. MetaReachable'
    BY DEF MetaInv, TypeOK, MetaReachable, DeleterInv, WorkerInv, Counting,
           Deleting, InTable
<1> QED
    BY <1>1, <1>2, <1>3, <1>4, <1>5 DEF MetaInv

\* A rule ages.
LEMMA AgeStep ==
    ASSUME MetaInv, NEW h \in Handles, Age(h), UNCHANGED rep
    PROVE  MetaInv'
<1> USE Distinct, V1BoundAssumption
    DEF Age, tableVars, workerVars, mainVars
<1>1. TypeOK'
    BY DEF MetaInv, TypeOK, DeleterInv, TableInv, Deleting, Live
<1>2. DeleterInv'
    BY DEF MetaInv, TypeOK, DeleterInv, WorkerInv, TableInv, Deleting,
           InTable, Live
<1>3. WorkerInv'
    BY DEF MetaInv, TypeOK, DeleterInv, WorkerInv, TableInv, Deleting,
           Counting, InTable
<1>4. TableInv'
    BY DEF MetaInv, TypeOK, DeleterInv, WorkerInv, TableInv, Deleting,
           InTable
<1>5. MetaReachable'
    BY DEF MetaInv, TypeOK, MetaReachable, DeleterInv, WorkerInv, Counting,
           Deleting, InTable
<1> QED
    BY <1>1, <1>2, <1>3, <1>4, <1>5 DEF MetaInv

\* Most steps of main leave the worker, the NIC and the interrupt thread alone.
LEMMA MainFrame ==
    ASSUME TypeOK, Main \/ SignalHandler, ~LaunchWorker, ~CloseEverything
    PROVE  UNCHANGED flowVars /\ rep' \in 0..RepeatTimes
<1> USE RepeatAssumption
    DEF flowVars, mainVars, tableVars, workerVars, nicVars, agingVars,
        ghostVars
<1>1. rep \in 0..RepeatTimes
    BY DEF TypeOK
<1>2. CASE LinkUp \/ LinkRetry \/ LinkTimeout
    BY <1>1, <1>2 DEF LinkUp, LinkRetry, LinkTimeout
<1> QED
    BY <1>1, <1>2
    DEF Main, SignalHandler, Try, StartEnvironment, CheckPorts, CheckLcores,
        CreateMempool, InitPort, SetupHairpinQueues, StartPort,
        CreateJumpFlow, CreateRssFlow, CreateHashMap, RegisterAgedEvent,
        WaitLcores, CountKeys, FreeHashMap, ExitProcess

\* A failed allocation ends the process and changes nothing else.
LEMMA OutOfMemoryFrame ==
    ASSUME OutOfMemory
    PROVE  /\ ~Ended /\ mpc' = "out_of_memory"
           /\ UNCHANGED <<flowVars, mainVars, rep>>
<1>1. CASE PacketOutOfMemory
    BY <1>1 DEF PacketOutOfMemory
<1>2. ASSUME NEW h \in Handles, EventOutOfMemory(h)
      PROVE  /\ ~Ended /\ mpc' = "out_of_memory"
             /\ UNCHANGED <<flowVars, mainVars, rep>>
    BY <1>2 DEF EventOutOfMemory
<1> QED
    BY <1>1, <1>2 DEF OutOfMemory

\* main and the signal handler leave the table, and what is in use, alone.
LEMMA MainStep ==
    ASSUME MetaInv, Launched, Main \/ SignalHandler
    PROVE  MetaInv'
<1> USE RepeatAssumption
    DEF flowVars, mainVars, tableVars, workerVars, nicVars, agingVars,
        ghostVars
<1>1. CASE LaunchWorker
  <2>1. wpc = "off" /\ wpc' = "idle" /\ wmeta' = wmeta
    BY <1>1 DEF LaunchWorker, Launched
  <2>2. TypeOK'
    BY <1>1, <2>1 DEF LaunchWorker, MetaInv, TypeOK, Live
  <2>3. (DeleterInv /\ WorkerInv)'
    BY <1>1, <2>1
    DEF LaunchWorker, MetaInv, DeleterInv, WorkerInv, Deleting, Counting,
        InTable
  <2>4. (TableInv /\ MetaReachable)'
    BY <1>1 DEF LaunchWorker, MetaInv, TableInv, MetaReachable
  <2> QED
    BY <2>2, <2>3, <2>4 DEF MetaInv
<1>2. CASE CloseEverything
  <2>1. TypeOK'
    BY <1>2 DEF CloseEverything, MetaInv, TypeOK, Live
  <2>2. (DeleterInv /\ WorkerInv)'
    BY <1>2
    DEF CloseEverything, MetaInv, DeleterInv, WorkerInv, Deleting, Counting,
        InTable
  <2>3. (TableInv /\ MetaReachable)'
    BY <1>2 DEF CloseEverything, MetaInv, TableInv, MetaReachable
  <2> QED
    BY <2>1, <2>2, <2>3 DEF MetaInv
<1>3. ASSUME UNCHANGED flowVars, rep' \in 0..RepeatTimes PROVE MetaInv'
  <2>1. TypeOK'
    BY <1>3 DEF MetaInv, TypeOK, Live
  <2>2. (DeleterInv /\ WorkerInv)'
    BY <1>3
    DEF MetaInv, DeleterInv, WorkerInv, Deleting, Counting, InTable
  <2>3. (TableInv /\ MetaReachable)'
    BY <1>3 DEF MetaInv, TableInv, MetaReachable
  <2> QED
    BY <2>1, <2>2, <2>3 DEF MetaInv
<1>4. ASSUME ~LaunchWorker, ~CloseEverything PROVE MetaInv'
    BY <1>3, <1>4, MainFrame DEF MetaInv
<1> QED
    BY <1>1, <1>2, <1>4

\* Every step keeps the order of launch and wait.
LEMMA LaunchedStep ==
    ASSUME MetaInv, Launched, [Next]_vars
    PROVE  Launched'
<1> USE DEF Launched, flowVars, workerVars, mainVars
<1>1. CASE Main
  <2>1. CASE wpc = "off"
    BY <1>1, <2>1
    DEF Main, Try, StartEnvironment, CheckPorts, CheckLcores, CreateMempool,
        InitPort, SetupHairpinQueues, StartPort, LinkUp, LinkRetry,
        LinkTimeout, CreateJumpFlow, CreateRssFlow, CreateHashMap,
        RegisterAgedEvent, LaunchWorker, WaitLcores, CountKeys, FreeHashMap,
        CloseEverything, ExitProcess
  <2>2. CASE wpc # "off"
    BY <1>1, <2>2
    DEF Main, Try, StartEnvironment, CheckPorts, CheckLcores, CreateMempool,
        InitPort, SetupHairpinQueues, StartPort, LinkUp, LinkRetry,
        LinkTimeout, CreateJumpFlow, CreateRssFlow, CreateHashMap,
        RegisterAgedEvent, LaunchWorker, WaitLcores, CountKeys, FreeHashMap,
        CloseEverything, ExitProcess
  <2> QED
    BY <2>1, <2>2
<1>2. CASE SignalHandler
    BY <1>2 DEF SignalHandler
<1>3. CASE Beside(Worker)
  <2>1. mpc' = mpc /\ wpc # "off"
    BY <1>3
    DEF Beside, Worker, PacketStep, Receive, SkipPacket, LeaveLoop,
        LookupHit, LookupMiss, AddEntry, AddFailed, CountPacket,
        CreateRefused, CreateRule, StoreHandle
  <2> QED
    BY <2>1
<1>4. CASE Beside(DeleteTimeoutFlows)
    BY <1>4
    DEF Beside, DeleteTimeoutFlows, CountAged, FetchAged, FetchFailed,
        LookupContext, DeleteKey, FreePosition, DestroyRule, DestroyFailed,
        FreeMeta
<1>5. ASSUME NEW h \in Handles, Beside(Age(h)) PROVE Launched'
    BY <1>5 DEF Beside, Age
<1>6. CASE OutOfMemory
    BY <1>6, OutOfMemoryFrame
<1>7. CASE UNCHANGED vars
    BY <1>7 DEF vars
<1> QED
    BY <1>1, <1>2, <1>3, <1>4, <1>5, <1>6, <1>7 DEF Next

\* Every step keeps flow_metas where somebody knows them.
LEMMA MetaStep ==
    ASSUME MetaInv, Launched, [Next]_vars
    PROVE  MetaInv'
<1>1. CASE Main \/ SignalHandler
    BY <1>1, MainStep
<1>2. CASE Beside(Worker)
  <2>1. UNCHANGED rep /\ Worker
    BY <1>2 DEF Beside
  <2> QED
    BY <2>1, ReceiveStep, LookupMissStep, LookupHitStep, AddEntryStep,
       AddFailedStep, CountStep, CreateStep, RefusedStep, StoreStep
    DEF Worker, PacketStep
<1>3. CASE Beside(DeleteTimeoutFlows)
  <2>1. UNCHANGED rep /\ DeleteTimeoutFlows
    BY <1>3 DEF Beside
  <2> QED
    BY <2>1, FetchStep, ContextStep, DeleteStep, PositionStep, DestroyStep,
       FreeStep
    DEF DeleteTimeoutFlows
<1>4. ASSUME NEW h \in Handles, Beside(Age(h)) PROVE MetaInv'
    BY <1>4, AgeStep DEF Beside
<1>5. CASE UNCHANGED vars \/ OutOfMemory
  <2> USE <1>5, OutOfMemoryFrame
      DEF vars, flowVars, tableVars, workerVars, nicVars, agingVars,
          ghostVars, mainVars
  <2>1. TypeOK'
    BY DEF MetaInv, TypeOK, Live
  <2>2. (DeleterInv /\ WorkerInv)'
    BY DEF MetaInv, DeleterInv, WorkerInv, Deleting, Counting, InTable
  <2>3. (TableInv /\ MetaReachable)'
    BY DEF MetaInv, TableInv, MetaReachable
  <2> QED
    BY <2>1, <2>2, <2>3 DEF MetaInv
<1> QED
    BY <1>1, <1>2, <1>3, <1>4, <1>5 DEF Next

\* The invariant holds in every reachable state.
LEMMA MetaInvariant == Spec => [](MetaInv /\ Launched)
<1>1. Init => Launched
    BY DEF Init, TableInit, Launched
<1>2. MetaInv /\ Launched /\ [Next]_vars => (MetaInv /\ Launched)'
    BY MetaStep, LaunchedStep
<1> QED
    BY InitMeta, <1>1, <1>2, PTL DEF Spec

----------------------------------------------------------------------------
(* What follows.                                                           *)

\* Type correctness; the interrupt thread never destroys through a handle of
\* NULL, though the worker clears and stores handles beside it.
THEOREM V1Typing == Spec => []TypeOK
BY MetaInvariant, PTL DEF MetaInv

\* Every flow_meta in use is in the table or in the hands of a thread, or its
\* insertion had failed.
THEOREM NoMetaLost == Spec => []MetaReachable
BY MetaInvariant, PTL DEF MetaInv
=============================================================================
