--------------------------- MODULE LifecycleProofs ---------------------------
(***************************************************************************)
(* The inductive invariant of Lifecycle: what is held, and what has been   *)
(* launched, at each program counter of the main lcore.                    *)
(***************************************************************************)
EXTENDS Lifecycle, FiniteSetTheorems, TLAPS

\* The program counters between a launch and the wait for the lcores.
Serving == {"launch", "running", "err5", "stop", "cancel", "unregister",
            "wait"}

Ending == {"err4", "err3", "err2", "delete", "crashed"}

\* From the check of the lcores to the last launch.
Starting == {"ports", "mempool", "hairpin", "start0", "link", "start1",
             "bind", "jump", "rss", "hash", "rules_ring", "pool", "register",
             "start", "launch"}

\* What is held at least.
Acquired ==
    /\ pc \notin {"smto_cb", "failed", "exited"} => "smto_cb" \in held
    /\ pc \in Serving \cup Ending
              \cup {"rules_ring", "pool", "register", "start"} =>
          "flow_hash_map" \in held
    /\ pc \in Serving \cup {"err4", "err3", "pool", "register", "start"} =>
          "flow_rules_ring" \in held
    /\ pc \in Serving \cup {"err4", "register", "start"} =>
          "port_pool" \in held
    /\ pc \in Serving /\ ~failing => "worker_params" \in held

\* What is no longer held, or not yet, where a failure unwinds from or to.
Lacks(resources) == held \cap resources = {}

Late == {"aged_event", "worker_params"}

Released ==
    /\ pc = "smto_cb" => held = {}
    /\ pc \in {"lcores", "ports", "mempool", "hairpin", "start0", "link",
               "start1", "bind", "jump", "err"} =>
         Lacks(Late \cup {"port_pool", "flow_rules_ring", "flow_hash_map",
                          "default_rules"})
    /\ pc \in {"rss", "hash", "err1"} =>
         Lacks(Late \cup {"port_pool", "flow_rules_ring", "flow_hash_map"})
    /\ pc \in {"rules_ring"} \/ (failing /\ pc \in {"err2", "delete"}) =>
         Lacks(Late \cup {"port_pool", "flow_rules_ring"})
    /\ pc \in {"pool", "err3"} => Lacks(Late \cup {"port_pool"})
    /\ pc \in {"register", "err4"} \/ (failing /\ pc = "wait") => Lacks(Late)
    /\ failing /\ pc \in {"stop", "cancel", "unregister"} =>
         Lacks({"worker_params"})
    /\ pc = "failed" =>
         Lacks(Late \cup {"port_pool", "flow_rules_ring", "flow_hash_map",
                          "default_rules", "smto_cb"})

\* Which program counters the error path has.
Failing ==
    /\ failing => pc \in Ending \cup {"err5", "stop", "cancel", "unregister",
                                      "wait", "err1", "err", "failed"}
    /\ pc \in {"err5", "err4", "err3", "err1", "err", "failed"} => failing
    /\ failing => index <= WorkerQuantity

\* The launched lcores are the first ones; they run while main serves or
\* waits; each worker was given the parameters of its own index.
Launched ==
    /\ pc \in Serving \/ \A i \in Lcores : Stopped(i)
    /\ pc \in Starting \cup {"running"} => lcoreQuantity >= GeneralQueues + 1
    /\ pc \in {"smto_cb", "lcores"} \cup (Starting \ {"launch"}) => index = 0
    /\ pc = "running" => index = lcoreQuantity
    /\ \A i \in Lcores :
         /\ lpc[i] # "off" => i < index
         /\ i < index /\ Role(i) # "unused" => lpc[i] # "off"
         /\ i < index /\ Role(i) = "worker" => param[i] = i

\* A flow keeps main from freeing the table; without one nothing can age.
FlowsKeepTable ==
    /\ flows => pc \in Serving \cup Ending
    /\ offloaded \/ alarm \/ ipc # "idle" => flows /\ index > WorkerQuantity

IInv == TypeOK /\ Acquired /\ Released /\ Failing /\ Launched /\ FlowsKeepTable

----------------------------------------------------------------------------
(* The invariant is inductive.                                             *)

\* The initial states satisfy the invariant.
LEMMA InitInv == Init => IInv
<1> SUFFICES ASSUME Init PROVE IInv
  OBVIOUS
<1>1. TypeOK
  <2>1. portQuantity \in 0..MaxPorts /\ lcoreQuantity \in 0..MaxLcores
    BY DEF Init
  <2>2. index \in 0..lcoreQuantity
    BY <2>1, SizeAssumption DEF Init
  <2>3. /\ lpc \in [Lcores -> {"off", "launched", "loop", "done"}]
        /\ param \in [Lcores -> Lcores \cup {0}]
    BY DEF Init
  <2>4. /\ held \subseteq Resources /\ isRunning \in BOOLEAN
        /\ failing \in BOOLEAN
    BY DEF Init
  <2>5. /\ flows \in BOOLEAN /\ offloaded \in BOOLEAN /\ alarm \in BOOLEAN
        /\ ipc \in {"idle", "callback", "handler"}
    BY DEF Init
  <2> QED
    BY <2>1, <2>2, <2>3, <2>4, <2>5 DEF TypeOK
<1>2. Acquired /\ Released /\ FlowsKeepTable
  BY DEF Init, Acquired, Released, FlowsKeepTable, Serving, Ending, Lacks
<1>3. Failing
  BY DEF Init, Failing, Ending
<1>4. Launched
  BY SizeAssumption DEF Init, Launched, Serving, Starting, Stopped, Lcores
<1> QED
  BY <1>1, <1>2, <1>3, <1>4 DEF IInv

\* Every step keeps the types.
LEMMA TypeStep == IInv /\ [Next]_vars => TypeOK'
<1> SUFFICES ASSUME IInv, [Next]_vars PROVE TypeOK'
  OBVIOUS
<1> USE SizeAssumption DEF IInv, TypeOK, Resources, Lcores, machineVars,
     lcoreVars, flowVars, agingVars
<1>1. CASE AllocateControlBlock
  BY <1>1 DEF AllocateControlBlock, Try
<1>2. CASE CreateMempool
  BY <1>2 DEF CreateMempool, Try
<1>3. CASE SetupHairpin
  BY <1>3 DEF SetupHairpin, Try
<1>4. CASE StartPort0
  BY <1>4 DEF StartPort0, Try
<1>5. CASE AssertLinkStatus
  BY <1>5 DEF AssertLinkStatus, Try
<1>6. CASE StartPort1
  BY <1>6 DEF StartPort1, Try
<1>7. CASE BindHairpin
  BY <1>7 DEF BindHairpin, Try
<1>8. CASE CreateJumpFlow
  BY <1>8 DEF CreateJumpFlow, Try
<1>9. CASE CreateRssFlow
  BY <1>9 DEF CreateRssFlow, Try
<1>10. CASE CreateHashMap
  BY <1>10 DEF CreateHashMap, Try
<1>11. CASE CreateRulesRing
  BY <1>11 DEF CreateRulesRing, Try
<1>12. CASE CreatePortPool
  BY <1>12 DEF CreatePortPool, Try
<1>13. CASE RegisterAgedEvent
  BY <1>13 DEF RegisterAgedEvent, Try
<1>14. CASE CheckLcores
  BY <1>14 DEF CheckLcores
<1>15. CASE CheckPorts
  BY <1>15 DEF CheckPorts
<1>16. CASE StartRunning
  BY <1>16 DEF StartRunning
<1>17. CASE Launch
  BY <1>17 DEF Launch
<1>18. CASE LaunchFailed
  BY <1>18 DEF LaunchFailed
<1>19. CASE LaunchDone
  BY <1>19 DEF LaunchDone
<1>20. CASE FreeParamsOnError
  BY <1>20 DEF FreeParamsOnError, Release
<1>21. CASE UnregisterAgedEvent
  BY <1>21 DEF UnregisterAgedEvent, Release
<1>22. CASE WaitLcores
  BY <1>22 DEF WaitLcores, Release
<1>23. CASE FreePortPool
  BY <1>23 DEF FreePortPool, Release
<1>24. CASE FreeRulesRing
  BY <1>24 DEF FreeRulesRing, Release
<1>25. CASE DestroyEmptyHashMap
  BY <1>25 DEF DestroyEmptyHashMap, Release, AfterHashMap
<1>26. CASE IterateHashMap
  BY <1>26 DEF IterateHashMap, Release
<1>27. CASE DeleteNullKey
  BY <1>27 DEF DeleteNullKey, Release
<1>28. CASE FlushDefaultRules
  BY <1>28 DEF FlushDefaultRules, Release
<1>29. CASE FreeControlBlockOnError
  BY <1>29 DEF FreeControlBlockOnError, Release
<1>30. CASE FreeEverything
  BY <1>30 DEF FreeEverything, Release
<1>31. CASE Signal
  BY <1>31 DEF Signal, Release
<1>32. CASE StopRunning
  BY <1>32 DEF StopRunning
<1>33. CASE CancelAlarm
  BY <1>33 DEF CancelAlarm
<1>34. CASE IterateHashMapCrash
  BY <1>34 DEF IterateHashMapCrash
<1>35. CASE ClosePorts
  BY <1>35 DEF ClosePorts
<1>36. ASSUME NEW i \in Lcores, EnterLoop(i) PROVE TypeOK'
  BY <1>36 DEF EnterLoop
<1>37. ASSUME NEW i \in Lcores, LearnFlow(i) PROVE TypeOK'
  BY <1>37 DEF LearnFlow
<1>38. ASSUME NEW i \in Lcores, OffloadFlow(i) PROVE TypeOK'
  BY <1>38 DEF OffloadFlow
<1>39. ASSUME NEW i \in Lcores, LeaveLoop(i) PROVE TypeOK'
  BY <1>39 DEF LeaveLoop
<1>40. CASE AgedEvent
  BY <1>40 DEF AgedEvent
<1>41. CASE SetAlarm
  BY <1>41 DEF SetAlarm
<1>42. CASE FireAlarm
  BY <1>42 DEF FireAlarm
<1>43. CASE HandlerDone
  BY <1>43 DEF HandlerDone
<1>44. CASE ParamsOutOfMemory
  BY <1>44 DEF ParamsOutOfMemory
<1>45. CASE UNCHANGED vars
  BY <1>45 DEF vars
<1> QED
  BY <1>1, <1>2, <1>3, <1>4, <1>5, <1>6, <1>7, <1>8, <1>9, <1>10, <1>11,
       <1>12, <1>13, <1>14, <1>15, <1>16, <1>17, <1>18, <1>19, <1>20, <1>21,
       <1>22, <1>23, <1>24, <1>25, <1>26, <1>27, <1>28, <1>29, <1>30, <1>31,
       <1>32, <1>33, <1>34, <1>35, <1>36, <1>37, <1>38, <1>39, <1>40, <1>41,
       <1>42, <1>43, <1>44, <1>45
  DEF Next, InitSmto, Stop, Interrupt, Lcore

\* Every step keeps what is held at least.
LEMMA AcquiredStep == IInv /\ [Next]_vars => Acquired'
<1> SUFFICES ASSUME IInv, [Next]_vars PROVE Acquired'
  OBVIOUS
<1> USE DEF IInv, Acquired, Failing, FlowsKeepTable, Serving, Ending,
     machineVars, flowVars
<1>1. CASE AllocateControlBlock
  BY <1>1 DEF AllocateControlBlock, Try
<1>2. CASE CreateMempool
  BY <1>2 DEF CreateMempool, Try
<1>3. CASE SetupHairpin
  BY <1>3 DEF SetupHairpin, Try
<1>4. CASE StartPort0
  BY <1>4 DEF StartPort0, Try
<1>5. CASE AssertLinkStatus
  BY <1>5 DEF AssertLinkStatus, Try
<1>6. CASE StartPort1
  BY <1>6 DEF StartPort1, Try
<1>7. CASE BindHairpin
  BY <1>7 DEF BindHairpin, Try
<1>8. CASE CreateJumpFlow
  BY <1>8 DEF CreateJumpFlow, Try
<1>9. CASE CreateRssFlow
  BY <1>9 DEF CreateRssFlow, Try
<1>10. CASE CreateHashMap
  BY <1>10 DEF CreateHashMap, Try
<1>11. CASE CreateRulesRing
  BY <1>11 DEF CreateRulesRing, Try
<1>12. CASE CreatePortPool
  BY <1>12 DEF CreatePortPool, Try
<1>13. CASE RegisterAgedEvent
  BY <1>13 DEF RegisterAgedEvent, Try
<1>14. CASE CheckLcores
  BY <1>14 DEF CheckLcores
<1>15. CASE CheckPorts
  BY <1>15 DEF CheckPorts
<1>16. CASE StartRunning
  BY <1>16 DEF StartRunning
<1>17. CASE Launch
  BY <1>17 DEF Launch
<1>18. CASE LaunchFailed
  BY <1>18 DEF LaunchFailed
<1>19. CASE LaunchDone
  BY <1>19 DEF LaunchDone
<1>20. CASE FreeParamsOnError
  BY <1>20 DEF FreeParamsOnError, Release
<1>21. CASE UnregisterAgedEvent
  BY <1>21 DEF UnregisterAgedEvent, Release
<1>22. CASE WaitLcores
  BY <1>22 DEF WaitLcores, Release
<1>23. CASE FreePortPool
  BY <1>23 DEF FreePortPool, Release
<1>24. CASE FreeRulesRing
  BY <1>24 DEF FreeRulesRing, Release
<1>25. CASE DestroyEmptyHashMap
  BY <1>25 DEF DestroyEmptyHashMap, Release, AfterHashMap
<1>26. CASE IterateHashMap
  BY <1>26 DEF IterateHashMap, Release
<1>27. CASE DeleteNullKey
  BY <1>27 DEF DeleteNullKey, Release
<1>28. CASE FlushDefaultRules
  BY <1>28 DEF FlushDefaultRules, Release
<1>29. CASE FreeControlBlockOnError
  BY <1>29 DEF FreeControlBlockOnError, Release
<1>30. CASE FreeEverything
  BY <1>30 DEF FreeEverything, Release
<1>31. CASE Signal
  BY <1>31 DEF Signal, Release
<1>32. CASE StopRunning
  BY <1>32 DEF StopRunning
<1>33. CASE CancelAlarm
  BY <1>33 DEF CancelAlarm
<1>34. CASE IterateHashMapCrash
  BY <1>34 DEF IterateHashMapCrash
<1>35. CASE ClosePorts
  BY <1>35 DEF ClosePorts
<1>36. ASSUME NEW i \in Lcores, EnterLoop(i) PROVE Acquired'
  BY <1>36 DEF EnterLoop
<1>37. ASSUME NEW i \in Lcores, LearnFlow(i) PROVE Acquired'
  BY <1>37 DEF LearnFlow
<1>38. ASSUME NEW i \in Lcores, OffloadFlow(i) PROVE Acquired'
  BY <1>38 DEF OffloadFlow
<1>39. ASSUME NEW i \in Lcores, LeaveLoop(i) PROVE Acquired'
  BY <1>39 DEF LeaveLoop
<1>40. CASE AgedEvent
  BY <1>40 DEF AgedEvent
<1>41. CASE SetAlarm
  BY <1>41 DEF SetAlarm
<1>42. CASE FireAlarm
  BY <1>42 DEF FireAlarm
<1>43. CASE HandlerDone
  BY <1>43 DEF HandlerDone
<1>44. CASE ParamsOutOfMemory
  BY <1>44 DEF ParamsOutOfMemory
<1>45. CASE UNCHANGED vars
  BY <1>45 DEF vars
<1> QED
  BY <1>1, <1>2, <1>3, <1>4, <1>5, <1>6, <1>7, <1>8, <1>9, <1>10, <1>11,
       <1>12, <1>13, <1>14, <1>15, <1>16, <1>17, <1>18, <1>19, <1>20, <1>21,
       <1>22, <1>23, <1>24, <1>25, <1>26, <1>27, <1>28, <1>29, <1>30, <1>31,
       <1>32, <1>33, <1>34, <1>35, <1>36, <1>37, <1>38, <1>39, <1>40, <1>41,
       <1>42, <1>43, <1>44, <1>45
  DEF Next, InitSmto, Stop, Interrupt, Lcore

\* Every step keeps to the error path once it is taken.
LEMMA FailingStep == IInv /\ [Next]_vars => Failing'
<1> SUFFICES ASSUME IInv, [Next]_vars PROVE Failing'
  OBVIOUS
<1> USE SizeAssumption DEF IInv, TypeOK, Failing, Launched, Starting,
     WorkerQuantity, SinglePort, Role, Serving, Ending, machineVars,
     lcoreVars
<1>1. CASE AllocateControlBlock
  BY <1>1 DEF AllocateControlBlock, Try
<1>2. CASE CreateMempool
  BY <1>2 DEF CreateMempool, Try
<1>3. CASE SetupHairpin
  BY <1>3 DEF SetupHairpin, Try
<1>4. CASE StartPort0
  BY <1>4 DEF StartPort0, Try
<1>5. CASE AssertLinkStatus
  BY <1>5 DEF AssertLinkStatus, Try
<1>6. CASE StartPort1
  BY <1>6 DEF StartPort1, Try
<1>7. CASE BindHairpin
  BY <1>7 DEF BindHairpin, Try
<1>8. CASE CreateJumpFlow
  BY <1>8 DEF CreateJumpFlow, Try
<1>9. CASE CreateRssFlow
  BY <1>9 DEF CreateRssFlow, Try
<1>10. CASE CreateHashMap
  BY <1>10 DEF CreateHashMap, Try
<1>11. CASE CreateRulesRing
  BY <1>11 DEF CreateRulesRing, Try
<1>12. CASE CreatePortPool
  BY <1>12 DEF CreatePortPool, Try
<1>13. CASE RegisterAgedEvent
  BY <1>13 DEF RegisterAgedEvent, Try
<1>14. CASE CheckLcores
  BY <1>14 DEF CheckLcores
<1>15. CASE CheckPorts
  BY <1>15 DEF CheckPorts
<1>16. CASE StartRunning
  BY <1>16 DEF StartRunning
<1>17. CASE Launch
  BY <1>17 DEF Launch
<1>18. CASE LaunchFailed
  BY <1>18 DEF LaunchFailed
<1>19. CASE LaunchDone
  BY <1>19 DEF LaunchDone
<1>20. CASE FreeParamsOnError
  BY <1>20 DEF FreeParamsOnError, Release
<1>21. CASE UnregisterAgedEvent
  BY <1>21 DEF UnregisterAgedEvent, Release
<1>22. CASE WaitLcores
  BY <1>22 DEF WaitLcores, Release
<1>23. CASE FreePortPool
  BY <1>23 DEF FreePortPool, Release
<1>24. CASE FreeRulesRing
  BY <1>24 DEF FreeRulesRing, Release
<1>25. CASE DestroyEmptyHashMap
  BY <1>25 DEF DestroyEmptyHashMap, Release, AfterHashMap
<1>26. CASE IterateHashMap
  BY <1>26 DEF IterateHashMap, Release
<1>27. CASE DeleteNullKey
  BY <1>27 DEF DeleteNullKey, Release
<1>28. CASE FlushDefaultRules
  BY <1>28 DEF FlushDefaultRules, Release
<1>29. CASE FreeControlBlockOnError
  BY <1>29 DEF FreeControlBlockOnError, Release
<1>30. CASE FreeEverything
  BY <1>30 DEF FreeEverything, Release
<1>31. CASE Signal
  BY <1>31 DEF Signal, Release
<1>32. CASE StopRunning
  BY <1>32 DEF StopRunning
<1>33. CASE CancelAlarm
  BY <1>33 DEF CancelAlarm
<1>34. CASE IterateHashMapCrash
  BY <1>34 DEF IterateHashMapCrash
<1>35. CASE ClosePorts
  BY <1>35 DEF ClosePorts
<1>36. ASSUME NEW i \in Lcores, EnterLoop(i) PROVE Failing'
  BY <1>36 DEF EnterLoop
<1>37. ASSUME NEW i \in Lcores, LearnFlow(i) PROVE Failing'
  BY <1>37 DEF LearnFlow
<1>38. ASSUME NEW i \in Lcores, OffloadFlow(i) PROVE Failing'
  BY <1>38 DEF OffloadFlow
<1>39. ASSUME NEW i \in Lcores, LeaveLoop(i) PROVE Failing'
  BY <1>39 DEF LeaveLoop
<1>40. CASE AgedEvent
  BY <1>40 DEF AgedEvent
<1>41. CASE SetAlarm
  BY <1>41 DEF SetAlarm
<1>42. CASE FireAlarm
  BY <1>42 DEF FireAlarm
<1>43. CASE HandlerDone
  BY <1>43 DEF HandlerDone
<1>44. CASE ParamsOutOfMemory
  BY <1>44 DEF ParamsOutOfMemory
<1>45. CASE UNCHANGED vars
  BY <1>45 DEF vars
<1> QED
  BY <1>1, <1>2, <1>3, <1>4, <1>5, <1>6, <1>7, <1>8, <1>9, <1>10, <1>11,
       <1>12, <1>13, <1>14, <1>15, <1>16, <1>17, <1>18, <1>19, <1>20, <1>21,
       <1>22, <1>23, <1>24, <1>25, <1>26, <1>27, <1>28, <1>29, <1>30, <1>31,
       <1>32, <1>33, <1>34, <1>35, <1>36, <1>37, <1>38, <1>39, <1>40, <1>41,
       <1>42, <1>43, <1>44, <1>45
  DEF Next, InitSmto, Stop, Interrupt, Lcore

\* Every step keeps what is no longer held.
LEMMA ReleasedStep == IInv /\ [Next]_vars => Released'
<1> SUFFICES ASSUME IInv, [Next]_vars PROVE Released'
  OBVIOUS
<1> USE SizeAssumption DEF IInv, TypeOK, Released, Failing, FlowsKeepTable,
     Serving, Ending, Late, Lacks, WorkerQuantity, SinglePort, machineVars,
     agingVars
<1>1. CASE AllocateControlBlock
  BY <1>1 DEF AllocateControlBlock, Try
<1>2. CASE CreateMempool
  BY <1>2 DEF CreateMempool, Try
<1>3. CASE SetupHairpin
  BY <1>3 DEF SetupHairpin, Try
<1>4. CASE StartPort0
  BY <1>4 DEF StartPort0, Try
<1>5. CASE AssertLinkStatus
  BY <1>5 DEF AssertLinkStatus, Try
<1>6. CASE StartPort1
  BY <1>6 DEF StartPort1, Try
<1>7. CASE BindHairpin
  BY <1>7 DEF BindHairpin, Try
<1>8. CASE CreateJumpFlow
  BY <1>8 DEF CreateJumpFlow, Try
<1>9. CASE CreateRssFlow
  BY <1>9 DEF CreateRssFlow, Try
<1>10. CASE CreateHashMap
  BY <1>10 DEF CreateHashMap, Try
<1>11. CASE CreateRulesRing
  BY <1>11 DEF CreateRulesRing, Try
<1>12. CASE CreatePortPool
  BY <1>12 DEF CreatePortPool, Try
<1>13. CASE RegisterAgedEvent
  BY <1>13 DEF RegisterAgedEvent, Try
<1>14. CASE CheckLcores
  BY <1>14 DEF CheckLcores
<1>15. CASE CheckPorts
  BY <1>15 DEF CheckPorts
<1>16. CASE StartRunning
  BY <1>16 DEF StartRunning
<1>17. CASE Launch
  BY <1>17 DEF Launch
<1>18. CASE LaunchFailed
  BY <1>18 DEF LaunchFailed
<1>19. CASE LaunchDone
  BY <1>19 DEF LaunchDone
<1>20. CASE FreeParamsOnError
  BY <1>20 DEF FreeParamsOnError, Release
<1>21. CASE UnregisterAgedEvent
  BY <1>21 DEF UnregisterAgedEvent, Release
<1>22. CASE WaitLcores
  BY <1>22 DEF WaitLcores, Release
<1>23. CASE FreePortPool
  BY <1>23 DEF FreePortPool, Release
<1>24. CASE FreeRulesRing
  BY <1>24 DEF FreeRulesRing, Release
<1>25. CASE DestroyEmptyHashMap
  BY <1>25 DEF DestroyEmptyHashMap, Release, AfterHashMap
<1>26. CASE IterateHashMap
  BY <1>26 DEF IterateHashMap, Release
<1>27. CASE DeleteNullKey
  BY <1>27 DEF DeleteNullKey, Release
<1>28. CASE FlushDefaultRules
  BY <1>28 DEF FlushDefaultRules, Release
<1>29. CASE FreeControlBlockOnError
  BY <1>29 DEF FreeControlBlockOnError, Release
<1>30. CASE FreeEverything
  BY <1>30 DEF FreeEverything, Release
<1>31. CASE Signal
  BY <1>31 DEF Signal, Release
<1>32. CASE StopRunning
  BY <1>32 DEF StopRunning
<1>33. CASE CancelAlarm
  BY <1>33 DEF CancelAlarm
<1>34. CASE IterateHashMapCrash
  BY <1>34 DEF IterateHashMapCrash
<1>35. CASE ClosePorts
  BY <1>35 DEF ClosePorts
<1>36. ASSUME NEW i \in Lcores, EnterLoop(i) PROVE Released'
  BY <1>36 DEF EnterLoop
<1>37. ASSUME NEW i \in Lcores, LearnFlow(i) PROVE Released'
  BY <1>37 DEF LearnFlow
<1>38. ASSUME NEW i \in Lcores, OffloadFlow(i) PROVE Released'
  BY <1>38 DEF OffloadFlow
<1>39. ASSUME NEW i \in Lcores, LeaveLoop(i) PROVE Released'
  BY <1>39 DEF LeaveLoop
<1>40. CASE AgedEvent
  BY <1>40 DEF AgedEvent
<1>41. CASE SetAlarm
  BY <1>41 DEF SetAlarm
<1>42. CASE FireAlarm
  BY <1>42 DEF FireAlarm
<1>43. CASE HandlerDone
  BY <1>43 DEF HandlerDone
<1>44. CASE ParamsOutOfMemory
  BY <1>44 DEF ParamsOutOfMemory
<1>45. CASE UNCHANGED vars
  BY <1>45 DEF vars
<1> QED
  BY <1>1, <1>2, <1>3, <1>4, <1>5, <1>6, <1>7, <1>8, <1>9, <1>10, <1>11,
       <1>12, <1>13, <1>14, <1>15, <1>16, <1>17, <1>18, <1>19, <1>20, <1>21,
       <1>22, <1>23, <1>24, <1>25, <1>26, <1>27, <1>28, <1>29, <1>30, <1>31,
       <1>32, <1>33, <1>34, <1>35, <1>36, <1>37, <1>38, <1>39, <1>40, <1>41,
       <1>42, <1>43, <1>44, <1>45
  DEF Next, InitSmto, Stop, Interrupt, Lcore

\* Every step keeps the launched lcores in order.
LEMMA LaunchedStep == IInv /\ [Next]_vars => Launched'
<1> SUFFICES ASSUME IInv, [Next]_vars PROVE Launched'
  OBVIOUS
<1> USE SizeAssumption DEF IInv, TypeOK, Launched, Failing, Stopped,
     Serving, Ending, Starting, Lcores, WorkerQuantity, SinglePort, Role,
     machineVars, lcoreVars
<1>1. CASE AllocateControlBlock
  BY <1>1 DEF AllocateControlBlock, Try
<1>2. CASE CreateMempool
  BY <1>2 DEF CreateMempool, Try
<1>3. CASE SetupHairpin
  BY <1>3 DEF SetupHairpin, Try
<1>4. CASE StartPort0
  BY <1>4 DEF StartPort0, Try
<1>5. CASE AssertLinkStatus
  BY <1>5 DEF AssertLinkStatus, Try
<1>6. CASE StartPort1
  BY <1>6 DEF StartPort1, Try
<1>7. CASE BindHairpin
  BY <1>7 DEF BindHairpin, Try
<1>8. CASE CreateJumpFlow
  BY <1>8 DEF CreateJumpFlow, Try
<1>9. CASE CreateRssFlow
  BY <1>9 DEF CreateRssFlow, Try
<1>10. CASE CreateHashMap
  BY <1>10 DEF CreateHashMap, Try
<1>11. CASE CreateRulesRing
  BY <1>11 DEF CreateRulesRing, Try
<1>12. CASE CreatePortPool
  BY <1>12 DEF CreatePortPool, Try
<1>13. CASE RegisterAgedEvent
  BY <1>13 DEF RegisterAgedEvent, Try
<1>14. CASE CheckLcores
  BY <1>14 DEF CheckLcores
<1>15. CASE CheckPorts
  BY <1>15 DEF CheckPorts
<1>16. CASE StartRunning
  BY <1>16 DEF StartRunning
<1>17. CASE Launch
  BY <1>17 DEF Launch
<1>18. CASE LaunchFailed
  BY <1>18 DEF LaunchFailed
<1>19. CASE LaunchDone
  BY <1>19 DEF LaunchDone
<1>20. CASE FreeParamsOnError
  BY <1>20 DEF FreeParamsOnError, Release
<1>21. CASE UnregisterAgedEvent
  BY <1>21 DEF UnregisterAgedEvent, Release
<1>22. CASE WaitLcores
  BY <1>22 DEF WaitLcores, Release
<1>23. CASE FreePortPool
  BY <1>23 DEF FreePortPool, Release
<1>24. CASE FreeRulesRing
  BY <1>24 DEF FreeRulesRing, Release
<1>25. CASE DestroyEmptyHashMap
  BY <1>25 DEF DestroyEmptyHashMap, Release, AfterHashMap
<1>26. CASE IterateHashMap
  BY <1>26 DEF IterateHashMap, Release
<1>27. CASE DeleteNullKey
  BY <1>27 DEF DeleteNullKey, Release
<1>28. CASE FlushDefaultRules
  BY <1>28 DEF FlushDefaultRules, Release
<1>29. CASE FreeControlBlockOnError
  BY <1>29 DEF FreeControlBlockOnError, Release
<1>30. CASE FreeEverything
  BY <1>30 DEF FreeEverything, Release
<1>31. CASE Signal
  BY <1>31 DEF Signal, Release
<1>32. CASE StopRunning
  BY <1>32 DEF StopRunning
<1>33. CASE CancelAlarm
  BY <1>33 DEF CancelAlarm
<1>34. CASE IterateHashMapCrash
  BY <1>34 DEF IterateHashMapCrash
<1>35. CASE ClosePorts
  BY <1>35 DEF ClosePorts
<1>36. ASSUME NEW i \in Lcores, EnterLoop(i) PROVE Launched'
  BY <1>36 DEF EnterLoop
<1>37. ASSUME NEW i \in Lcores, LearnFlow(i) PROVE Launched'
  BY <1>37 DEF LearnFlow
<1>38. ASSUME NEW i \in Lcores, OffloadFlow(i) PROVE Launched'
  BY <1>38 DEF OffloadFlow
<1>39. ASSUME NEW i \in Lcores, LeaveLoop(i) PROVE Launched'
  BY <1>39 DEF LeaveLoop
<1>40. CASE AgedEvent
  BY <1>40 DEF AgedEvent
<1>41. CASE SetAlarm
  BY <1>41 DEF SetAlarm
<1>42. CASE FireAlarm
  BY <1>42 DEF FireAlarm
<1>43. CASE HandlerDone
  BY <1>43 DEF HandlerDone
<1>44. CASE ParamsOutOfMemory
  BY <1>44 DEF ParamsOutOfMemory
<1>45. CASE UNCHANGED vars
  BY <1>45 DEF vars
<1> QED
  BY <1>1, <1>2, <1>3, <1>4, <1>5, <1>6, <1>7, <1>8, <1>9, <1>10, <1>11,
       <1>12, <1>13, <1>14, <1>15, <1>16, <1>17, <1>18, <1>19, <1>20, <1>21,
       <1>22, <1>23, <1>24, <1>25, <1>26, <1>27, <1>28, <1>29, <1>30, <1>31,
       <1>32, <1>33, <1>34, <1>35, <1>36, <1>37, <1>38, <1>39, <1>40, <1>41,
       <1>42, <1>43, <1>44, <1>45
  DEF Next, InitSmto, Stop, Interrupt, Lcore

\* Every step keeps the table while there is a flow.
LEMMA FlowsStep == IInv /\ [Next]_vars => FlowsKeepTable'
<1> SUFFICES ASSUME IInv, [Next]_vars PROVE FlowsKeepTable'
  OBVIOUS
<1> USE SizeAssumption DEF IInv, TypeOK, Launched, FlowsKeepTable, Stopped,
     Serving, Ending, Lcores, WorkerQuantity, SinglePort, Role, machineVars,
     flowVars, agingVars
<1>1. CASE AllocateControlBlock
  BY <1>1 DEF AllocateControlBlock, Try
<1>2. CASE CreateMempool
  BY <1>2 DEF CreateMempool, Try
<1>3. CASE SetupHairpin
  BY <1>3 DEF SetupHairpin, Try
<1>4. CASE StartPort0
  BY <1>4 DEF StartPort0, Try
<1>5. CASE AssertLinkStatus
  BY <1>5 DEF AssertLinkStatus, Try
<1>6. CASE StartPort1
  BY <1>6 DEF StartPort1, Try
<1>7. CASE BindHairpin
  BY <1>7 DEF BindHairpin, Try
<1>8. CASE CreateJumpFlow
  BY <1>8 DEF CreateJumpFlow, Try
<1>9. CASE CreateRssFlow
  BY <1>9 DEF CreateRssFlow, Try
<1>10. CASE CreateHashMap
  BY <1>10 DEF CreateHashMap, Try
<1>11. CASE CreateRulesRing
  BY <1>11 DEF CreateRulesRing, Try
<1>12. CASE CreatePortPool
  BY <1>12 DEF CreatePortPool, Try
<1>13. CASE RegisterAgedEvent
  BY <1>13 DEF RegisterAgedEvent, Try
<1>14. CASE CheckLcores
  BY <1>14 DEF CheckLcores
<1>15. CASE CheckPorts
  BY <1>15 DEF CheckPorts
<1>16. CASE StartRunning
  BY <1>16 DEF StartRunning
<1>17. CASE Launch
  BY <1>17 DEF Launch
<1>18. CASE LaunchFailed
  BY <1>18 DEF LaunchFailed
<1>19. CASE LaunchDone
  BY <1>19 DEF LaunchDone
<1>20. CASE FreeParamsOnError
  BY <1>20 DEF FreeParamsOnError, Release
<1>21. CASE UnregisterAgedEvent
  BY <1>21 DEF UnregisterAgedEvent, Release
<1>22. CASE WaitLcores
  BY <1>22 DEF WaitLcores, Release
<1>23. CASE FreePortPool
  BY <1>23 DEF FreePortPool, Release
<1>24. CASE FreeRulesRing
  BY <1>24 DEF FreeRulesRing, Release
<1>25. CASE DestroyEmptyHashMap
  BY <1>25 DEF DestroyEmptyHashMap, Release, AfterHashMap
<1>26. CASE IterateHashMap
  BY <1>26 DEF IterateHashMap, Release
<1>27. CASE DeleteNullKey
  BY <1>27 DEF DeleteNullKey, Release
<1>28. CASE FlushDefaultRules
  BY <1>28 DEF FlushDefaultRules, Release
<1>29. CASE FreeControlBlockOnError
  BY <1>29 DEF FreeControlBlockOnError, Release
<1>30. CASE FreeEverything
  BY <1>30 DEF FreeEverything, Release
<1>31. CASE Signal
  BY <1>31 DEF Signal, Release
<1>32. CASE StopRunning
  BY <1>32 DEF StopRunning
<1>33. CASE CancelAlarm
  BY <1>33 DEF CancelAlarm
<1>34. CASE IterateHashMapCrash
  BY <1>34 DEF IterateHashMapCrash
<1>35. CASE ClosePorts
  BY <1>35 DEF ClosePorts
<1>36. ASSUME NEW i \in Lcores, EnterLoop(i) PROVE FlowsKeepTable'
  BY <1>36 DEF EnterLoop
<1>37. ASSUME NEW i \in Lcores, LearnFlow(i) PROVE FlowsKeepTable'
  BY <1>37 DEF LearnFlow
<1>38. ASSUME NEW i \in Lcores, OffloadFlow(i) PROVE FlowsKeepTable'
  BY <1>38 DEF OffloadFlow
<1>39. ASSUME NEW i \in Lcores, LeaveLoop(i) PROVE FlowsKeepTable'
  BY <1>39 DEF LeaveLoop
<1>40. CASE AgedEvent
  BY <1>40 DEF AgedEvent
<1>41. CASE SetAlarm
  BY <1>41 DEF SetAlarm
<1>42. CASE FireAlarm
  BY <1>42 DEF FireAlarm
<1>43. CASE HandlerDone
  BY <1>43 DEF HandlerDone
<1>44. CASE ParamsOutOfMemory
  BY <1>44 DEF ParamsOutOfMemory
<1>45. CASE UNCHANGED vars
  BY <1>45 DEF vars
<1> QED
  BY <1>1, <1>2, <1>3, <1>4, <1>5, <1>6, <1>7, <1>8, <1>9, <1>10, <1>11,
       <1>12, <1>13, <1>14, <1>15, <1>16, <1>17, <1>18, <1>19, <1>20, <1>21,
       <1>22, <1>23, <1>24, <1>25, <1>26, <1>27, <1>28, <1>29, <1>30, <1>31,
       <1>32, <1>33, <1>34, <1>35, <1>36, <1>37, <1>38, <1>39, <1>40, <1>41,
       <1>42, <1>43, <1>44, <1>45
  DEF Next, InitSmto, Stop, Interrupt, Lcore

\* The invariant holds in every reachable state.
LEMMA Invariance == Spec => []IInv
<1>1. IInv /\ [Next]_vars => IInv'
  BY TypeStep, AcquiredStep, FailingStep, ReleasedStep, LaunchedStep,
     FlowsStep
  DEF IInv
<1> QED
  BY InitInv, <1>1, PTL DEF Spec

----------------------------------------------------------------------------
(* What follows.                                                           *)

\* Type correctness of start and stop, for any numbers of ports, lcores and
\* queues (the variables of src/src/smto.c and the threads it launches).
THEOREM Typing == Spec => []TypeOK
BY Invariance, PTL DEF IInv

\* process_loop and create_flow_loop never outlive what they dereference, on
\* the way of destroy_smto and on that of a failed init_smto.
THEOREM SharedOutlivesLcores == Spec => []LcoresFindShared
<1>1. IInv => LcoresFindShared
  BY DEF IInv, Acquired, Launched, Stopped, LcoresFindShared, Shared, Serving
<1> QED
  BY Invariance, <1>1, PTL

\* delete_timeout_flows finds smto_cb and the entries, also when it runs
\* after unregister_aged_event: a rule that ages is of a flow, and a flow
\* keeps destroy_hash_map from freeing the table.
THEOREM TableOutlivesHandler == Spec => []HandlerFindsEntries
<1>1. IInv => HandlerFindsEntries
  BY DEF IInv, Acquired, FlowsKeepTable, HandlerFindsEntries, Serving, Ending
<1> QED
  BY Invariance, <1>1, PTL

\* Whatever step of init_smto fails, the label it jumps to releases what is
\* held by then.
THEOREM UnwindingComplete == Spec => []FailedInitReleases
<1>1. IInv => FailedInitReleases
  BY DEF IInv, TypeOK, Released, FailedInitReleases, Lacks, Late, Resources
<1> QED
  BY Invariance, <1>1, PTL

\* A worker finds its parameters unless a launch failed.
THEOREM ParamsOutliveLaunch == Spec => []ParamsFoundUnlessFailing
<1>1. IInv => ParamsFoundUnlessFailing
  BY DEF IInv, Acquired, Launched, Stopped, ParamsFoundUnlessFailing, Serving
<1> QED
  BY Invariance, <1>1, PTL

\* On one port the launch loop gives every RX queue to exactly one lcore and
\* starts exactly one flow engine, with any number of lcores to spare.
THEOREM QueuesServed == Spec => []SinglePortServed
<1>1. ASSUME IInv PROVE SinglePortServed
  <2> SUFFICES ASSUME pc = "running", SinglePort PROVE SinglePortServed
    BY DEF SinglePortServed
  <2>1. /\ WorkerQuantity = GeneralQueues
        /\ index = lcoreQuantity /\ lcoreQuantity >= GeneralQueues + 1
        /\ lcoreQuantity \in 0..MaxLcores
    BY <1>1 DEF IInv, TypeOK, Launched, WorkerQuantity
  <2>2. ASSUME NEW q \in 0..(GeneralQueues - 1)
        PROVE  {i \in Lcores : lpc[i] # "off" /\ Role(i) = "worker"
                               /\ param[i] = q} = {q}
    BY <1>1, <2>1, <2>2, SizeAssumption
    DEF IInv, TypeOK, Launched, Role, Lcores
  <2>3. {i \in Lcores : lpc[i] # "off" /\ Role(i) = "engine"}
          = {GeneralQueues}
    BY <1>1, <2>1, SizeAssumption DEF IInv, TypeOK, Launched, Role, Lcores
  <2> QED
    BY <2>2, <2>3, FS_Singleton DEF SinglePortServed
<1> QED
  BY Invariance, <1>1, PTL
==============================================================================
