-------------------------- MODULE FlowOffloadProofs ---------------------------
(***************************************************************************)
(* The inductive invariant of FlowOffload, and the theorems that follow.   *)
(***************************************************************************)
EXTENDS FlowOffload, SequenceTheorems, TLAPS

\* A flow one of whose directions has had the packets it takes.
Reached(k) ==
    \/ packetAmount[k] >= PktAmountToOffload
    \/ packetAmount[Peer[k]] >= PktAmountToOffload

\* Whatever is on its way to the NIC, or back from it, belongs to a flow that
\* has reached the threshold; a flow nobody has seen has counted nothing.
ThresholdInv ==
    /\ \A i \in 1..Len(flowRulesRing) : Reached(flowRulesRing[i])
    /\ \A i \in 1..Len(batch) : Reached(batch[i])
    /\ \A w \in Workers : wpc[w] = "enqueue" => Reached(wkey[w])
    /\ \A h \in Handles : Live(h) => Reached(rule[h])
    /\ \A p \in todo : Reached(p[2])
    /\ \A k \in Outbound \ known :
         packetAmount[k] = 0 /\ packetAmount[Peer[k]] = 0
    /\ \A k \in known \ Outbound : Peer[k] \in known

\* While no key has had two rules, a handle leads from an entry to its rule
\* and back, except where the engine or the deleter is at work.
HandleInv ==
    /\ epc = "mark" => flow[Target] = created
    /\ staleUse => duplicated
    /\ ~duplicated =>
         /\ \A h \in Handles : Live(h) =>
              flow[rule[h]] = h \/ (created = h /\ epc = "store")
         /\ created # NULL => rule[created] = Target /\ created \notin aged
         /\ \A g, h \in Handles : Live(g) /\ rule[g] = rule[h] => g = h
         /\ \A p \in todo :
              p[1] \in aged /\ rule[p[1]] = p[2] /\ port[p[1]] = 0
         /\ dpc = "destroy" =>
              /\ HandleFits(dkey)
              /\ flow[dkey] \in aged
              /\ \A p \in todo : p[2] # dkey

\* The engine has yet to decide on the own rule of a request for k.
Requested(k) ==
    \/ \E i \in 1..Len(flowRulesRing) : flowRulesRing[i] = k
    \/ \E i \in 2..Len(batch) : batch[i] = k
    \/ epc = "create" /\ side = "own" /\ Head(batch) = k

HasRule(k) == \E h \in Handles : rule[h] = k
HasYoungRule(k) == \E h \in Handles \ aged : rule[h] = k
Resetting(k) == dpc = "reset" /\ dkey = k

\* An OFFLOADING entry, and one a worker is about to mark OFFLOADING, is
\* still to be decided on or has its rule.
StatusInv ==
    ~refused /\ ~duplicated =>
        /\ \A k \in Keys : isOffload[k] = "OFFLOADING" =>
             Requested(k) \/ HasRule(k) \/ Resetting(k)
        /\ \A w \in Workers, k \in Keys : wpc[w] = "mark" /\ wkey[w] = k =>
             Requested(k) \/ HasYoungRule(k)

----------------------------------------------------------------------------
(* Typing.                                                                 *)

\* A capped count stays below its cap.
LEMMA AtMostType ==
    ASSUME NEW n \in Nat, NEW bound \in Nat
    PROVE  /\ AtMost(n, bound) \in 0..bound
           /\ AtMost(n, bound) <= n
           /\ n >= bound => AtMost(n, bound) = bound
           /\ n <= bound => AtMost(n, bound) = n
BY DEF AtMost

\* The engine works on an entry whenever it has a burst in hand.
LEMMA TargetType == TypeOK /\ batch # <<>> => Target \in Keys
BY PeerAssumption DEF TypeOK, Target

\* A sequence is empty just when its length is 0.
LEMMA EmptyIff == \A s \in Seq(Keys) : s = <<>> <=> Len(s) = 0
BY EmptySeq

\* The initial states have their types.
LEMMA InitType == Init => TypeOK
<1> SUFFICES ASSUME Init PROVE TypeOK
    OBVIOUS
<1>1. /\ known \subseteq Keys
      /\ packetAmount \in [Keys -> 0..PktAmountToOffload]
      /\ flow \in [Keys -> Handles \cup {NULL}]
      /\ flowRulesRing \in Seq(Keys) /\ batch \in Seq(Keys)
    BY BoundAssumption DEF Init
<1>2. isOffload \in [Keys -> OffloadStatus]
    BY DEF Init, OffloadStatus
<1>3. /\ wpc \in [Workers -> {"idle", "enqueue", "mark"}]
      /\ wkey \in [Workers -> Keys \cup {NULL}]
      /\ \A w \in Workers : wpc[w] # "idle" => wkey[w] \in Keys
    BY DEF Init
<1>4. /\ mode \in Modes
      /\ rule \in [Handles -> Keys \cup {NULL}]
      /\ port \in [Handles -> {0, 1}]
      /\ \A h \in Handles : port[h] = 1 =>
            rule[h] # NULL /\ mode = "DOUBLE_PORT_MODE"
      /\ aged \subseteq {h \in Handles : rule[h] # NULL}
    BY DEF Init
<1> QED
    BY <1>1, <1>2, <1>3, <1>4 DEF Init, TypeOK

\* After NextRequest of create_flow_loop the burst is a sequence of entries,
\* and the engine is idle just when it is empty.
LEMMA NextRequestType ==
    ASSUME TypeOK, batch # <<>>, NextRequest
    PROVE  /\ batch' \in Seq(Keys)
           /\ side' = "own"
           /\ epc' \in {"idle", "create"}
           /\ epc' = "idle" <=> batch' = <<>>
<1>1. /\ Tail(batch) \in Seq(Keys)
      /\ Len(Tail(batch)) = Len(batch) - 1
      /\ Len(batch) \in Nat
    BY HeadTailProperties DEF TypeOK
<1>2. Tail(batch) = <<>> <=> Len(Tail(batch)) = 0
    BY <1>1, EmptyIff
<1> QED
    BY <1>1, <1>2 DEF NextRequest

\* TypeOK by the threads the variables belong to: of most steps all but one
\* part is framed.
WorkerType ==
    /\ wpc \in [Workers -> {"idle", "enqueue", "mark"}]
    /\ wkey \in [Workers -> Keys \cup {NULL}]
    /\ \A w \in Workers : wpc[w] # "idle" => wkey[w] \in Keys

EngineType ==
    /\ epc \in {"idle", "create", "store", "mark"}
    /\ batch \in Seq(Keys)
    /\ epc = "idle" <=> batch = <<>>
    /\ side \in {"own", "peer"}
    /\ created \in Handles \cup {NULL}
    /\ epc \in {"store", "mark"} <=> created # NULL

NicType ==
    /\ mode \in Modes
    /\ rule \in [Handles -> Keys \cup {NULL}]
    /\ port \in [Handles -> {0, 1}]
    /\ \A h \in Handles :
         port[h] = 1 => rule[h] # NULL /\ mode = "DOUBLE_PORT_MODE"
    /\ aged \subseteq {h \in Handles : rule[h] # NULL}
    /\ armed \in BOOLEAN

EntryType ==
    /\ known \subseteq Keys
    /\ packetAmount \in [Keys -> 0..PktAmountToOffload]
    /\ isOffload \in [Keys -> OffloadStatus]
    /\ flow \in [Keys -> Handles \cup {NULL}]

AgingType ==
    /\ alarm \in BOOLEAN
    /\ dpc \in {"idle", "next", "destroy", "reset"}
    /\ todo \subseteq Handles \X Keys
    /\ dkey \in Keys \cup {NULL}
    /\ dpc \in {"destroy", "reset"} <=> dkey # NULL
    /\ dpc = "destroy" => flow[dkey] # NULL

GhostType ==
    /\ refused \in BOOLEAN /\ duplicated \in BOOLEAN
    /\ staleUse \in BOOLEAN /\ agingError \in BOOLEAN

AllTypes ==
    /\ WorkerType /\ EngineType /\ NicType
    /\ EntryType /\ AgingType /\ GhostType
    /\ flowRulesRing \in Seq(Keys)

\* The type invariant is the parts together.
LEMMA TypeParts == (TypeOK <=> AllTypes) /\ (TypeOK <=> AllTypes)'
BY DEF TypeOK, AllTypes, WorkerType, EngineType, NicType, EntryType,
       AgingType, GhostType

\* The parts no thread touches keep their types.
LEMMA TypeFrame ==
    /\ EngineType /\ UNCHANGED engineVars => EngineType'
    /\ NicType /\ UNCHANGED nicVars => NicType'
    /\ EntryType /\ UNCHANGED entryVars => EntryType'
    /\ AgingType /\ UNCHANGED <<flow, agingVars>> => AgingType'
    /\ GhostType /\ UNCHANGED ghostVars => GhostType'
    /\ WorkerType /\ UNCHANGED workerVars => WorkerType'
BY DEF WorkerType, EngineType, NicType, EntryType, AgingType, GhostType,
       workerVars, engineVars, nicVars, entryVars, agingVars, ghostVars

\* Every step keeps the types.
LEMMA TypeStep == TypeOK /\ [Next]_vars => TypeOK'
<1> SUFFICES ASSUME TypeOK, [Next]_vars
             PROVE  TypeOK'
    OBVIOUS
<1> USE PeerAssumption, QueueAssumption, NullAssumption, BoundAssumption
<1>1. ASSUME NEW w \in Workers, NEW k \in Keys, NewFlow(w, k)
      PROVE  TypeOK'
    <2>1. known' \subseteq Keys
        BY <1>1 DEF NewFlow, TypeOK
    <2>2. packetAmount' \in [Keys -> 0..PktAmountToOffload]
        <3>1. 1 \in 0..PktAmountToOffload
            OBVIOUS
        <3> QED
            BY <1>1, <3>1 DEF NewFlow, TypeOK
    <2> QED
        BY <1>1, <2>1, <2>2 DEF NewFlow, TypeOK, workerVars, engineVars,
                                nicVars, agingVars, ghostVars
<1>2. ASSUME NEW w \in Workers, NEW k \in Keys, CountPacket(w, k)
      PROVE  TypeOK'
    <2>1. packetAmount' \in [Keys -> 0..PktAmountToOffload]
        <3>1. packetAmount[k] + 1 \in Nat
            BY DEF TypeOK
        <3>2. AtMost(packetAmount[k] + 1, PktAmountToOffload)
                \in 0..PktAmountToOffload
            BY <3>1, AtMostType
        <3> QED
            BY <1>2, <3>2 DEF CountPacket, TypeOK
    <2>2. /\ wpc' \in [Workers -> {"idle", "enqueue", "mark"}]
          /\ wkey' \in [Workers -> Keys \cup {NULL}]
          /\ \A v \in Workers : wpc'[v] # "idle" => wkey'[v] \in Keys
        <3>1. CASE UNCHANGED workerVars
            BY <3>1 DEF TypeOK, workerVars
        <3>2. CASE /\ wpc' = [wpc EXCEPT ![w] = "enqueue"]
                   /\ wkey' = [wkey EXCEPT ![w] = k]
            BY <3>2 DEF TypeOK
        <3> QED
            BY <1>2, <3>1, <3>2 DEF CountPacket
    <2> QED
        BY <1>2, <2>1, <2>2 DEF CountPacket, TypeOK, engineVars, nicVars,
                                agingVars, ghostVars
<1>3. ASSUME NEW w \in Workers, Enqueue(w)
      PROVE  TypeOK'
    <2>1. /\ wpc' \in [Workers -> {"idle", "enqueue", "mark"}]
          /\ wkey' \in [Workers -> Keys \cup {NULL}]
          /\ \A v \in Workers : wpc'[v] # "idle" => wkey'[v] \in Keys
        <3>1. CASE wpc' = [wpc EXCEPT ![w] = "mark"] /\ UNCHANGED wkey
            BY <1>3, <3>1 DEF Enqueue, TypeOK
        <3>2. CASE /\ wpc' = [wpc EXCEPT ![w] = "idle"]
                   /\ wkey' = [wkey EXCEPT ![w] = NULL]
            BY <3>2 DEF TypeOK
        <3> QED
            BY <1>3, <3>1, <3>2 DEF Enqueue
    <2>2. flowRulesRing' \in Seq(Keys)
        <3>1. wkey[w] \in Keys
            BY <1>3 DEF Enqueue, TypeOK
        <3>2. Append(flowRulesRing, wkey[w]) \in Seq(Keys)
            BY <3>1, AppendProperties DEF TypeOK
        <3> QED
            BY <1>3, <3>2 DEF Enqueue, TypeOK
    <2>3. UNCHANGED <<entryVars, engineVars, nicVars, agingVars, ghostVars>>
        BY <1>3 DEF Enqueue
    <2>4. UNCHANGED <<flow, agingVars>>
        BY <2>3 DEF entryVars
    <2> QED
        BY <2>1, <2>2, <2>3, <2>4, TypeParts, TypeFrame DEF AllTypes, WorkerType
<1>4. ASSUME NEW w \in Workers, MarkOffloading(w)
      PROVE  TypeOK'
    BY <1>4 DEF MarkOffloading, TypeOK, OffloadStatus, engineVars, nicVars,
                agingVars, ghostVars
<1>5. CASE DequeueBurst
    <2>1. /\ batch' \in Seq(Keys) /\ batch' # <<>>
          /\ flowRulesRing' \in Seq(Keys)
        <3>1. Len(flowRulesRing) \in Nat \ {0}
            BY <1>5 DEF DequeueBurst, TypeOK
        <3>2. AtMost(Len(flowRulesRing), BurstSize) \in 1..Len(flowRulesRing)
            BY <3>1 DEF AtMost
        <3> QED
            BY <1>5, <3>1, <3>2 DEF DequeueBurst, TypeOK
    <2> QED
        BY <1>5, <2>1 DEF DequeueBurst, TypeOK, entryVars, workerVars,
                          nicVars, agingVars, ghostVars
<1>6. ASSUME NEW h \in Handles, CreateRule(h)
      PROVE  TypeOK'
    <2>1. Target \in Keys
        BY <1>6, TargetType DEF CreateRule, TypeOK
    <2>2. /\ rule' \in [Handles -> Keys \cup {NULL}]
          /\ aged' \subseteq {g \in Handles : rule'[g] # NULL}
        BY <1>6, <2>1 DEF CreateRule, TypeOK, Live
    <2> QED
        BY <1>6, <2>1, <2>2
        DEF CreateRule, TypeOK, entryVars, workerVars, agingVars
<1>7. CASE CreateRefused
    <2>1. Target \in Keys /\ batch # <<>>
        BY <1>7, TargetType DEF CreateRefused, TypeOK
    <2>2. isOffload' \in [Keys -> OffloadStatus]
        BY <1>7, <2>1 DEF CreateRefused, TypeOK, OffloadStatus
    <2> QED
        BY <1>7, <2>1, <2>2, NextRequestType
        DEF CreateRefused, TypeOK, workerVars, nicVars, agingVars
<1>8. CASE StoreHandle
    <2>1. Target \in Keys
        BY <1>8, TargetType DEF StoreHandle, TypeOK
    <2>2. created \in Handles
        BY <1>8 DEF StoreHandle, TypeOK
    <2>3. flow' \in [Keys -> Handles \cup {NULL}]
        BY <1>8, <2>1, <2>2 DEF StoreHandle, TypeOK
    <2>4. dpc' = "destroy" => flow'[dkey'] # NULL
        BY <1>8, <2>1, <2>2 DEF StoreHandle, TypeOK, agingVars
    <2> QED
        BY <1>8, <2>1, <2>3, <2>4 DEF StoreHandle, TypeOK, workerVars,
                                      nicVars, agingVars, ghostVars
<1>9. CASE MarkOffloaded
    <2>1. Target \in Keys /\ batch # <<>>
        BY <1>9, TargetType DEF MarkOffloaded, TypeOK
    <2>2. isOffload' \in [Keys -> OffloadStatus]
        BY <1>9, <2>1 DEF MarkOffloaded, TypeOK, OffloadStatus
    <2>3. CASE side = "own"
        BY <1>9, <2>1, <2>2, <2>3
        DEF MarkOffloaded, TypeOK, workerVars, nicVars, agingVars, ghostVars
    <2>4. CASE side # "own"
        <3>1. EngineType'
            BY <1>9, <2>1, <2>4, NextRequestType
            DEF MarkOffloaded, EngineType
        <3>2. EntryType'
            BY <1>9, <2>2 DEF MarkOffloaded, EntryType, TypeOK
        <3>3. UNCHANGED <<flow, flowRulesRing, workerVars, nicVars, agingVars,
                          ghostVars>>
            BY <1>9 DEF MarkOffloaded
        <3> QED
            BY <3>1, <3>2, <3>3, TypeParts, TypeFrame DEF AllTypes
    <2> QED
        BY <2>3, <2>4
<1>10. ASSUME NEW h \in Handles, Age(h)
       PROVE  TypeOK'
    <2>1. aged' \subseteq {g \in Handles : rule'[g] # NULL}
        BY <1>10 DEF Age, Live, TypeOK
    <2>2. /\ armed' \in BOOLEAN /\ alarm' \in BOOLEAN
          /\ agingError' \in BOOLEAN
        BY <1>10 DEF Age, TypeOK
    <2> QED
        BY <1>10, <2>1, <2>2
        DEF Age, TypeOK, entryVars, workerVars, engineVars
<1>11. CASE GetAgedFlows
    <2>1. PICK S \in SUBSET aged :
            /\ todo' = {<<h, rule[h]>> : h \in S}
            /\ dpc' = IF S = {} THEN "idle" ELSE "next"
        BY <1>11 DEF GetAgedFlows, Reportable
    <2>2. todo' \subseteq Handles \X Keys
        <3>1. \A h \in S : h \in Handles /\ rule[h] \in Keys
            BY DEF TypeOK, Live
        <3> QED
            BY <2>1, <3>1
    <2> QED
        BY <1>11, <2>1, <2>2 DEF GetAgedFlows, TypeOK, entryVars, workerVars,
                                 engineVars, ghostVars
<1>12. CASE GetAgedError
    BY <1>12 DEF GetAgedError, TypeOK, entryVars, workerVars, engineVars,
                 nicVars
<1>13. ASSUME NEW p \in todo, QueryCounter(p)
       PROVE  TypeOK'
    <2>1. p[2] \in Keys
        BY DEF TypeOK
    <2>2. packetAmount' \in [Keys -> 0..PktAmountToOffload]
        <3>1. \A hits \in 0..PktAmountToOffload :
                AtMost(packetAmount[p[2]] + hits, PktAmountToOffload)
                    \in 0..PktAmountToOffload
            <4>1. \A hits \in 0..PktAmountToOffload :
                    packetAmount[p[2]] + hits \in Nat
                BY <2>1 DEF TypeOK
            <4> QED
                BY <4>1, AtMostType
        <3>2. CASE packetAmount' = packetAmount
            BY <3>2 DEF TypeOK
        <3>3. ASSUME NEW hits \in 0..PktAmountToOffload,
                     packetAmount' = [packetAmount EXCEPT
                        ![p[2]] = AtMost(@ + hits, PktAmountToOffload)]
              PROVE  packetAmount' \in [Keys -> 0..PktAmountToOffload]
            BY <2>1, <3>1, <3>3 DEF TypeOK
        <3> QED
            BY <1>13, <3>2, <3>3 DEF QueryCounter
    <2>3. /\ UNCHANGED <<known, isOffload, flow, flowRulesRing, workerVars,
                         engineVars, nicVars, alarm, refused, duplicated,
                         agingError>>
          /\ todo' \subseteq todo
        BY <1>13 DEF QueryCounter
    <2>4. /\ dpc' \in {"idle", "next", "destroy", "reset"}
          /\ dkey' \in Keys \cup {NULL}
          /\ dpc' \in {"destroy", "reset"} <=> dkey' # NULL
          /\ dpc' = "destroy" => flow[dkey'] # NULL
          /\ staleUse' \in BOOLEAN
        <3>1. CASE flow[p[2]] = NULL
            BY <1>13, <3>1 DEF QueryCounter, MoreAged, TypeOK
        <3>2. CASE flow[p[2]] # NULL
            <4>1. /\ dpc' = "destroy" /\ dkey' = p[2]
                  /\ staleUse' = (staleUse \/ ~HandleFits(p[2]))
                BY <1>13, <3>2 DEF QueryCounter
            <4> QED
                BY <2>1, <3>2, <4>1 DEF TypeOK
        <3> QED
            BY <3>1, <3>2
    <2> QED
        <3>1. EntryType'
            BY <2>2, <2>3 DEF TypeOK, EntryType
        <3>2. AgingType' /\ GhostType'
            BY <2>3, <2>4 DEF TypeOK, AgingType, GhostType
        <3> QED
            BY <2>3, <3>1, <3>2, TypeParts, TypeFrame DEF AllTypes
<1>14. CASE DestroyRule
    <2>1. dkey \in Keys /\ flow[dkey] \in Handles
        BY <1>14 DEF DestroyRule, TypeOK
    <2>2. /\ rule' \in [Handles -> Keys \cup {NULL}]
          /\ aged' \subseteq {g \in Handles : rule'[g] # NULL}
        BY <1>14, <2>1 DEF DestroyRule, TypeOK, Live
    <2> QED
        BY <1>14, <2>1, <2>2 DEF DestroyRule, TypeOK, entryVars, workerVars,
                           engineVars
<1>15. CASE DestroyFailed
    BY <1>15 DEF DestroyFailed, MoreAged, TypeOK, entryVars, workerVars,
                 engineVars, nicVars
<1>16. CASE ResetStatus
    BY <1>16 DEF ResetStatus, MoreAged, TypeOK, OffloadStatus, workerVars,
                 engineVars, nicVars, ghostVars
<1>17. CASE UNCHANGED vars
    BY <1>17 DEF vars, TypeOK, entryVars, workerVars, engineVars, nicVars,
                 agingVars, ghostVars
<1> QED
    BY <1>1, <1>2, <1>3, <1>4, <1>5, <1>6, <1>7, <1>8, <1>9, <1>10, <1>11,
       <1>12, <1>13, <1>14, <1>15, <1>16, <1>17
    DEF Next, Worker, Engine, DeleteTimeoutFlows

\* Type correctness, for any flows, workers, queues and rule addresses.
THEOREM Typing == Spec => []TypeOK
BY InitType, TypeStep, PTL DEF Spec

----------------------------------------------------------------------------
(* Sequences.                                                              *)

\* rte_ring_dequeue_burst loses no entry and invents none: what was in the
\* ring is in the burst or still in the ring, and the converse.
LEMMA DequeueElements ==
    ASSUME TypeOK, DequeueBurst
    PROVE  /\ \A i \in 1..Len(batch') :
                 \E j \in 1..Len(flowRulesRing) : batch'[i] = flowRulesRing[j]
           /\ \A i \in 1..Len(flowRulesRing') :
                 \E j \in 1..Len(flowRulesRing) :
                    flowRulesRing'[i] = flowRulesRing[j]
           /\ \A j \in 1..Len(flowRulesRing) :
                 \/ \E i \in 1..Len(batch') : batch'[i] = flowRulesRing[j]
                 \/ \E i \in 1..Len(flowRulesRing') :
                       flowRulesRing'[i] = flowRulesRing[j]
           /\ batch' \in Seq(Keys) /\ batch' # <<>>
           /\ flowRulesRing' \in Seq(Keys)
<1> DEFINE L == Len(flowRulesRing)
           n == AtMost(L, BurstSize)
<1>1. L \in Nat \ {0}
    BY EmptySeq DEF DequeueBurst, TypeOK
<1>2. n \in 1..L
    BY <1>1, BoundAssumption DEF AtMost
<1>3. \A i \in 1..L : flowRulesRing[i] \in Keys
    BY DEF TypeOK
<1>4. /\ batch' = SubSeq(flowRulesRing, 1, n)
      /\ flowRulesRing' = SubSeq(flowRulesRing, n + 1, L)
    BY DEF DequeueBurst
<1> HIDE DEF L, n
<1>5. /\ batch' \in Seq(Keys)
      /\ Len(batch') = n
      /\ \A i \in 1..n : batch'[i] = flowRulesRing[i]
    <2>1. \A i \in 1..n : flowRulesRing[i] \in Keys
        BY <1>1, <1>2, <1>3
    <2>2. /\ SubSeq(flowRulesRing, 1, n) \in Seq(Keys)
          /\ Len(SubSeq(flowRulesRing, 1, n)) = IF 1 <= n THEN n-1+1 ELSE 0
          /\ \A i \in 1..n-1+1 :
                SubSeq(flowRulesRing, 1, n)[i] = flowRulesRing[1+i-1]
        BY <1>1, <1>2, <2>1, SubSeqProperties
    <2> QED
        BY <1>1, <1>2, <1>4, <2>2
<1>6. /\ flowRulesRing' \in Seq(Keys)
      /\ Len(flowRulesRing') = L - n
      /\ \A i \in 1..L-n : flowRulesRing'[i] = flowRulesRing[n+i]
    <2>1. \A i \in n+1..L : flowRulesRing[i] \in Keys
        BY <1>1, <1>2, <1>3
    <2>2. /\ SubSeq(flowRulesRing, n+1, L) \in Seq(Keys)
          /\ Len(SubSeq(flowRulesRing, n+1, L)) =
                IF n+1 <= L THEN L-(n+1)+1 ELSE 0
          /\ \A i \in 1..L-(n+1)+1 :
                SubSeq(flowRulesRing, n+1, L)[i] = flowRulesRing[(n+1)+i-1]
        BY <1>1, <1>2, <2>1, SubSeqProperties
    <2> QED
        BY <1>1, <1>2, <1>4, <2>2
<1>7. \A j \in 1..L : j \in 1..n \/ j - n \in 1..L-n
    BY <1>1, <1>2
<1>8. \A j \in 1..L :
        \/ \E i \in 1..Len(batch') : batch'[i] = flowRulesRing[j]
        \/ \E i \in 1..Len(flowRulesRing') : flowRulesRing'[i] = flowRulesRing[j]
    <2> TAKE j \in 1..L
    <2>1. CASE j \in 1..n
        BY <1>5, <2>1
    <2>2. CASE j - n \in 1..L-n
        <3>1. n + (j - n) = j
            BY <1>1, <1>2
        <3> QED
            BY <1>6, <2>2, <3>1
    <2> QED
        BY <1>7, <2>1, <2>2
<1>9. \A i \in 1..n : i \in 1..L
    BY <1>1, <1>2
<1>10. \A i \in 1..L-n : n + i \in 1..L
    BY <1>1, <1>2
<1>11. batch' # <<>>
    BY <1>2, <1>5, EmptySeq
<1> QED
    BY <1>5, <1>6, <1>8, <1>9, <1>10, <1>11 DEF L

\* NextRequest drops the head of the burst and nothing else.
LEMMA NextRequestElements ==
    ASSUME TypeOK, batch # <<>>, NextRequest
    PROVE  /\ Len(batch) \in Nat \ {0}
           /\ Len(batch') = Len(batch) - 1
           /\ \A i \in 1..Len(batch') :
                 i + 1 \in 2..Len(batch) /\ batch'[i] = batch[i+1]
           /\ \A i \in 2..Len(batch) :
                 i - 1 \in 1..Len(batch') /\ batch'[i-1] = batch[i]
<1>1. /\ Len(batch) \in Nat \ {0}
      /\ Len(batch') = Len(batch) - 1
      /\ \A i \in 1..Len(batch') : batch'[i] = batch[i+1]
    BY HeadTailProperties, EmptySeq DEF TypeOK, NextRequest
<1>2. \A i \in 1..Len(batch') : i + 1 \in 2..Len(batch)
    BY <1>1
<1>3. \A i \in 2..Len(batch) : i - 1 \in 1..Len(batch') /\ (i - 1) + 1 = i
    BY <1>1
<1> QED
    BY <1>1, <1>2, <1>3

\* The head of the burst is its first entry.
LEMMA HeadIsFirst ==
    ASSUME TypeOK, batch # <<>>
    PROVE  /\ Head(batch) = batch[1] /\ Head(batch) \in Keys
           /\ Len(batch) \in Nat \ {0}
BY EmptySeq DEF TypeOK

\* rte_ring_enqueue adds one entry and keeps the others.
LEMMA AppendElements ==
    ASSUME TypeOK, NEW k \in Keys, flowRulesRing' = Append(flowRulesRing, k)
    PROVE  /\ \A i \in 1..Len(flowRulesRing') :
                 \/ flowRulesRing'[i] = k
                 \/ i \in 1..Len(flowRulesRing) /\ flowRulesRing'[i] = flowRulesRing[i]
           /\ \A i \in 1..Len(flowRulesRing) :
                 /\ i \in 1..Len(flowRulesRing')
                 /\ flowRulesRing'[i] = flowRulesRing[i]
           /\ \E i \in 1..Len(flowRulesRing') : flowRulesRing'[i] = k
<1>1. /\ Len(flowRulesRing) \in Nat
      /\ Len(flowRulesRing') = Len(flowRulesRing) + 1
      /\ \A i \in 1..Len(flowRulesRing) : flowRulesRing'[i] = flowRulesRing[i]
      /\ flowRulesRing'[Len(flowRulesRing) + 1] = k
    BY AppendProperties DEF TypeOK
<1>2. \A i \in 1..Len(flowRulesRing') :
        i \in 1..Len(flowRulesRing) \/ i = Len(flowRulesRing) + 1
    BY <1>1
<1>3. /\ Len(flowRulesRing) + 1 \in 1..Len(flowRulesRing')
      /\ \A i \in 1..Len(flowRulesRing) : i \in 1..Len(flowRulesRing')
    BY <1>1
<1> QED
    BY <1>1, <1>2, <1>3

----------------------------------------------------------------------------
(* The threshold.                                                          *)

\* The two directions of a flow have reached the threshold together.
LEMMA ReachedPeer ==
    ASSUME NEW k \in Keys, Reached(k)
    PROVE  Reached(Peer[k])
BY PeerAssumption DEF Reached

\* The flow the engine is at has reached the threshold.
LEMMA TargetReached ==
    ASSUME TypeOK, ThresholdInv, batch # <<>>
    PROVE  Reached(Target)
<1>1. Reached(Head(batch)) /\ Head(batch) \in Keys
    BY HeadIsFirst DEF ThresholdInv
<1> QED
    BY <1>1, ReachedPeer DEF Target

\* A count that does not fall keeps what has been reached.
LEMMA ReachedGrows ==
    ASSUME TypeOK, TypeOK',
           \A k \in Keys : packetAmount[k] <= packetAmount'[k]
    PROVE  \A k \in Keys : Reached(k) => Reached(k)'
<1>1. \A k \in Keys : /\ packetAmount[k] \in Nat /\ packetAmount'[k] \in Nat
                      /\ Peer[k] \in Keys
    BY PeerAssumption, BoundAssumption DEF TypeOK
<1>2. PktAmountToOffload \in Nat
    BY BoundAssumption
<1>3. \A k \in Keys : packetAmount[k] >= PktAmountToOffload =>
                        packetAmount'[k] >= PktAmountToOffload
    BY <1>1, <1>2
<1> QED
    BY <1>1, <1>3 DEF Reached

\* At the start nothing is requested and no rule exists.
LEMMA InitThreshold == Init => ThresholdInv
BY PeerAssumption DEF Init, ThresholdInv, Live

\* Every step keeps ThresholdInv.
LEMMA ThresholdStep ==
    TypeOK /\ TypeOK' /\ ThresholdInv /\ [Next]_vars => ThresholdInv'
<1> SUFFICES ASSUME TypeOK, TypeOK', ThresholdInv, [Next]_vars
             PROVE  ThresholdInv'
    OBVIOUS
<1> DEFINE Ring  == \A i \in 1..Len(flowRulesRing) : Reached(flowRulesRing[i])
           Burst == \A i \in 1..Len(batch) : Reached(batch[i])
           Asked == \A w \in Workers : wpc[w] = "enqueue" => Reached(wkey[w])
           Rules == \A h \in Handles : Live(h) => Reached(rule[h])
           Old   == \A p \in todo : Reached(p[2])
           New   == \A k \in Outbound \ known :
                      packetAmount[k] = 0 /\ packetAmount[Peer[k]] = 0
           Pairs == \A k \in known \ Outbound : Peer[k] \in known
<1> USE PeerAssumption
<1>0. /\ \A i \in 1..Len(flowRulesRing) : flowRulesRing[i] \in Keys
      /\ \A i \in 1..Len(batch) : batch[i] \in Keys
      /\ \A w \in Workers : wpc[w] = "enqueue" => wkey[w] \in Keys
      /\ \A h \in Handles : Live(h) => rule[h] \in Keys
      /\ \A p \in todo : p[2] \in Keys
      /\ \A k \in Keys : packetAmount[k] \in 0..PktAmountToOffload
      /\ PktAmountToOffload \in Nat \ {0}
  <2>1. AllTypes
    BY TypeParts
  <2>2. /\ \A i \in 1..Len(flowRulesRing) : flowRulesRing[i] \in Keys
        /\ \A i \in 1..Len(batch) : batch[i] \in Keys
    BY <2>1 DEF AllTypes, EngineType
  <2>3. \A w \in Workers : wpc[w] = "enqueue" => wkey[w] \in Keys
    BY <2>1 DEF AllTypes, WorkerType
  <2>4. \A h \in Handles : Live(h) => rule[h] \in Keys
    BY <2>1 DEF AllTypes, NicType, Live
  <2>5. \A p \in todo : p[2] \in Keys
    BY <2>1 DEF AllTypes, AgingType
  <2>6. \A k \in Keys : packetAmount[k] \in 0..PktAmountToOffload
    BY <2>1 DEF AllTypes, EntryType
  <2> QED
    BY <2>2, <2>3, <2>4, <2>5, <2>6, BoundAssumption
<1>1. ASSUME NEW w \in Workers, NEW k \in Keys, NewFlow(w, k)
      PROVE  ThresholdInv'
    <2>1. /\ packetAmount[k] = 0 /\ packetAmount' = [packetAmount EXCEPT ![k] = 1]
          /\ k \in Outbound /\ known \subseteq known' /\ k \in known'
          /\ known' \subseteq known \cup {k, Peer[k]}
          /\ UNCHANGED <<flowRulesRing, batch, wpc, wkey, rule, todo>>
        BY <1>1 DEF NewFlow, ThresholdInv, workerVars, engineVars, nicVars,
                    agingVars
    <2>2. \A j \in Keys : packetAmount[j] <= packetAmount'[j]
        BY <2>1, <1>0 DEF TypeOK
    <2>3. \A j \in Keys : Reached(j) => Reached(j)'
        BY <2>2, ReachedGrows
    <2>4. Ring' /\ Burst' /\ Asked' /\ Rules' /\ Old'
        BY <2>1, <2>3, <1>0 DEF ThresholdInv, Live
    <2>5. New'
        <3> SUFFICES ASSUME NEW j \in Outbound \ known'
                     PROVE  packetAmount'[j] = 0 /\ packetAmount'[Peer[j]] = 0
            OBVIOUS
        <3>1. j # k /\ Peer[j] # k /\ j \in Keys /\ Peer[j] \in Keys
            BY <2>1
        <3> QED
            BY <2>1, <3>1 DEF ThresholdInv, TypeOK
    <2>6. Pairs'
        <3> SUFFICES ASSUME NEW j \in known' \ Outbound
                     PROVE  Peer[j] \in known'
            OBVIOUS
        <3>1. CASE j \in known
            BY <2>1, <3>1 DEF ThresholdInv
        <3>2. CASE j = Peer[k]
            BY <2>1, <3>2
        <3> QED
            BY <2>1, <3>1, <3>2
    <2> QED
        BY <2>4, <2>5, <2>6 DEF ThresholdInv
<1>2. ASSUME NEW w \in Workers, NEW k \in Keys, CountPacket(w, k)
      PROVE  ThresholdInv'
    <2>1. /\ packetAmount' = [packetAmount EXCEPT
                               ![k] = AtMost(@ + 1, PktAmountToOffload)]
          /\ k \in known
          /\ UNCHANGED <<known, flowRulesRing, batch, rule, todo>>
        BY <1>2 DEF CountPacket, engineVars, nicVars, agingVars
    <2>2. \A j \in Keys : packetAmount[j] <= packetAmount'[j]
        BY <2>1, <1>0 DEF TypeOK, AtMost
    <2>3. \A j \in Keys : Reached(j) => Reached(j)'
        BY <2>2, ReachedGrows
    <2>4. Ring' /\ Burst' /\ Rules' /\ Old'
        BY <2>1, <2>3, <1>0 DEF ThresholdInv, Live
    <2>5. Asked'
        <3>1. CASE UNCHANGED workerVars
            BY <2>3, <3>1, <1>0 DEF ThresholdInv, workerVars
        <3>2. CASE /\ packetAmount'[k] >= PktAmountToOffload
                   /\ wpc' = [wpc EXCEPT ![w] = "enqueue"]
                   /\ wkey' = [wkey EXCEPT ![w] = k]
            <4>1. Reached(k)'
                BY <3>2 DEF Reached
            <4> QED
                BY <2>3, <3>2, <4>1, <1>0 DEF ThresholdInv, TypeOK
        <3> QED
            BY <1>2, <3>1, <3>2 DEF CountPacket
    <2>6. New' /\ Pairs'
        <3>1. \A j \in Outbound \ known : j # k /\ Peer[j] # k
            BY <2>1 DEF ThresholdInv
        <3> QED
            BY <2>1, <3>1 DEF ThresholdInv, TypeOK
    <2> QED
        BY <2>4, <2>5, <2>6 DEF ThresholdInv
<1>3. ASSUME NEW w \in Workers, Enqueue(w)
      PROVE  ThresholdInv'
    <2>1. UNCHANGED <<known, packetAmount, batch, rule, todo>>
        BY <1>3 DEF Enqueue, entryVars, engineVars, nicVars, agingVars
    <2>2. \A j \in Keys : Reached(j)' <=> Reached(j)
        BY <2>1 DEF Reached
    <2>3. Burst' /\ Rules' /\ Old' /\ New' /\ Pairs'
        BY <2>1, <2>2, <1>0 DEF ThresholdInv, Live
    <2>4. Asked'
        <3>1. \A v \in Workers : wpc'[v] = "enqueue" =>
                wpc[v] = "enqueue" /\ wkey'[v] = wkey[v]
            <4>1. CASE wpc' = [wpc EXCEPT ![w] = "mark"] /\ UNCHANGED wkey
                BY <4>1 DEF TypeOK
            <4>2. CASE /\ wpc' = [wpc EXCEPT ![w] = "idle"]
                       /\ wkey' = [wkey EXCEPT ![w] = NULL]
                BY <4>2 DEF TypeOK
            <4> QED
                BY <1>3, <4>1, <4>2 DEF Enqueue
        <3> QED
            BY <2>2, <3>1, <1>0 DEF ThresholdInv
    <2>5. Ring'
        <3>1. CASE UNCHANGED flowRulesRing
            BY <2>2, <3>1, <1>0 DEF ThresholdInv
        <3>2. CASE flowRulesRing' = Append(flowRulesRing, wkey[w])
            <4>1. wkey[w] \in Keys /\ Reached(wkey[w])
                BY <1>3, <1>0 DEF Enqueue, ThresholdInv
            <4> QED
                BY <2>2, <3>2, <4>1, <1>0, AppendElements DEF ThresholdInv
        <3> QED
            BY <1>3, <3>1, <3>2 DEF Enqueue
    <2> QED
        BY <2>3, <2>4, <2>5 DEF ThresholdInv
<1>4. ASSUME NEW w \in Workers, MarkOffloading(w)
      PROVE  ThresholdInv'
    <2>1. UNCHANGED <<known, packetAmount, flowRulesRing, batch, rule, todo>>
        BY <1>4 DEF MarkOffloading, engineVars, nicVars, agingVars
    <2>2. Asked'
        BY <1>4, <2>1, <1>0 DEF MarkOffloading, ThresholdInv, TypeOK, Reached
    <2> QED
        BY <2>1, <2>2 DEF ThresholdInv, Reached, Live
<1>5. CASE DequeueBurst
    <2>1. UNCHANGED <<known, packetAmount, wpc, wkey, rule, todo>>
        BY <1>5 DEF DequeueBurst, entryVars, workerVars, nicVars, agingVars
    <2>2. Ring' /\ Burst'
        <3>1. \A k \in Keys : Reached(k) => Reached(k)'
            BY <2>1 DEF Reached
        <3>2. /\ \A i \in 1..Len(batch') :
                    \E j \in 1..Len(flowRulesRing) :
                        batch'[i] = flowRulesRing[j]
              /\ \A i \in 1..Len(flowRulesRing') :
                    \E j \in 1..Len(flowRulesRing) :
                        flowRulesRing'[i] = flowRulesRing[j]
            BY <1>5, DequeueElements
        <3> QED
            BY <3>1, <3>2, <1>0 DEF ThresholdInv
    <2> QED
        BY <2>1, <2>2 DEF ThresholdInv, Reached, Live
<1>6. ASSUME NEW h \in Handles, CreateRule(h)
      PROVE  ThresholdInv'
    <2>1. /\ UNCHANGED <<known, packetAmount, flowRulesRing, batch, wpc, wkey,
                         todo>>
          /\ rule' = [rule EXCEPT ![h] = Target]
        BY <1>6 DEF CreateRule, entryVars, workerVars, agingVars
    <2>2. Reached(Target)
        BY <1>6, TargetReached DEF CreateRule, TypeOK
    <2>3. Rules'
        BY <2>1, <2>2 DEF ThresholdInv, Reached, Live, TypeOK
    <2> QED
        BY <2>1, <2>3 DEF ThresholdInv, Reached
<1>7. ASSUME CreateRefused \/ MarkOffloaded
      PROVE  ThresholdInv'
    <2>1. /\ UNCHANGED <<known, packetAmount, flowRulesRing, wpc, wkey, rule,
                         todo>>
          /\ batch # <<>> /\ (NextRequest \/ UNCHANGED batch)
        BY <1>7 DEF CreateRefused, MarkOffloaded, TypeOK, workerVars, nicVars,
                    agingVars
    <2>2. Burst'
        <3>1. CASE NextRequest
            <4>1. /\ \A i \in 2..Len(batch) : i \in 1..Len(batch)
                  /\ \A i \in 1..Len(batch') :
                        i + 1 \in 2..Len(batch) /\ batch'[i] = batch[i+1]
                BY <2>1, <3>1, HeadIsFirst, NextRequestElements
            <4>2. \A i \in 1..Len(batch) : Reached(batch[i])
                BY DEF ThresholdInv
            <4> QED
                BY <2>1, <4>1, <4>2 DEF Reached
        <3>2. CASE UNCHANGED batch
            BY <2>1, <3>2 DEF ThresholdInv, Reached
        <3> QED
            BY <2>1, <3>1, <3>2
    <2> QED
        BY <2>1, <2>2 DEF ThresholdInv, Reached, Live
<1>8. CASE StoreHandle
    BY <1>8 DEF StoreHandle, ThresholdInv, Reached, Live, workerVars, nicVars,
                agingVars
<1>9. ASSUME NEW h \in Handles, Age(h)
      PROVE  ThresholdInv'
    BY <1>9 DEF Age, ThresholdInv, Reached, Live, entryVars, workerVars,
                engineVars
<1>10. CASE GetAgedFlows
    <2>1. UNCHANGED <<known, packetAmount, flowRulesRing, batch, wpc, wkey,
                      rule>>
        BY <1>10 DEF GetAgedFlows, entryVars, workerVars, engineVars
    <2>2. Old'
        <3>1. PICK S \in SUBSET aged : todo' = {<<h, rule[h]>> : h \in S}
            BY <1>10 DEF GetAgedFlows, Reportable
        <3>2. \A h \in S : Reached(rule[h])
            BY DEF ThresholdInv, Live, TypeOK
        <3> QED
            BY <2>1, <3>1, <3>2 DEF Reached
    <2> QED
        BY <2>1, <2>2 DEF ThresholdInv, Reached, Live
<1>11. CASE GetAgedError
    BY <1>11 DEF GetAgedError, ThresholdInv, Reached, Live, entryVars,
                 workerVars, engineVars, nicVars
<1>12. ASSUME NEW p \in todo, QueryCounter(p)
       PROVE  ThresholdInv'
    <2>1. /\ UNCHANGED <<known, flowRulesRing, batch, wpc, wkey, rule>>
          /\ todo' \subseteq todo
        BY <1>12 DEF QueryCounter, workerVars, engineVars, nicVars
    <2>2. \/ UNCHANGED packetAmount
          \/ \E hits \in 0..PktAmountToOffload :
               packetAmount' = [packetAmount EXCEPT
                          ![p[2]] = AtMost(@ + hits, PktAmountToOffload)]
        BY <1>12 DEF QueryCounter
    <2>3. \A j \in Keys : /\ packetAmount[j] <= packetAmount'[j]
                          /\ j # p[2] => packetAmount[j] = packetAmount'[j]
        <3>1. CASE UNCHANGED packetAmount
            BY <3>1, <1>0
        <3>2. ASSUME NEW hits \in 0..PktAmountToOffload,
                     packetAmount' = [packetAmount EXCEPT
                          ![p[2]] = AtMost(@ + hits, PktAmountToOffload)]
              PROVE  \A j \in Keys :
                        /\ packetAmount[j] <= packetAmount'[j]
                        /\ j # p[2] => packetAmount[j] = packetAmount'[j]
            BY <3>2, <1>0 DEF TypeOK, AtMost
        <3> QED
            BY <2>2, <3>1, <3>2
    <2>4. \A j \in Keys : Reached(j) => Reached(j)'
        BY <2>3, ReachedGrows
    <2>5. Ring' /\ Burst' /\ Asked' /\ Rules' /\ Old' /\ Pairs'
        BY <2>1, <2>4, <1>0 DEF ThresholdInv, Live
    <2>6. New'
        <3> SUFFICES ASSUME NEW j \in Outbound \ known
                     PROVE  packetAmount'[j] = 0 /\ packetAmount'[Peer[j]] = 0
            BY <2>1
        <3>1. /\ j \in Keys /\ Peer[j] \in Keys
              /\ packetAmount[j] = 0 /\ packetAmount[Peer[j]] = 0
            BY DEF ThresholdInv
        <3>2. ~Reached(j) /\ ~Reached(Peer[j])
            BY <3>1, <1>0 DEF Reached
        <3>3. p[2] # j /\ p[2] # Peer[j]
            BY <3>2 DEF ThresholdInv
        <3> QED
            BY <2>3, <3>1, <3>3
    <2> QED
        BY <2>5, <2>6 DEF ThresholdInv
<1>13. CASE DestroyRule
    <2>1. /\ UNCHANGED <<known, packetAmount, flowRulesRing, batch, wpc, wkey,
                         todo>>
          /\ \A h \in Handles : rule'[h] = rule[h] \/ rule'[h] = NULL
        BY <1>13 DEF DestroyRule, TypeOK, entryVars, workerVars, engineVars
    <2> QED
        BY <2>1 DEF ThresholdInv, Reached, Live
<1>14. CASE DestroyFailed
    BY <1>14 DEF DestroyFailed, ThresholdInv, Reached, Live, entryVars,
                 workerVars, engineVars, nicVars
<1>15. CASE ResetStatus
    BY <1>15 DEF ResetStatus, ThresholdInv, Reached, Live, workerVars,
                 engineVars, nicVars
<1>16. CASE UNCHANGED vars
    BY <1>16 DEF vars, ThresholdInv, Reached, Live, entryVars, workerVars,
                 engineVars, nicVars, agingVars
<1> QED
    BY <1>1, <1>2, <1>3, <1>4, <1>5, <1>6, <1>7, <1>8, <1>9, <1>10, <1>11,
       <1>12, <1>13, <1>14, <1>15, <1>16
    DEF Next, Worker, Engine, DeleteTimeoutFlows

\* No rule exists for a flow below PKT_AMOUNT_TO_OFFLOAD (the test of
\* packet_processing), whatever the interleaving and the sizes.
THEOREM ThresholdRespected == Spec => []OffloadOnlyAfterThreshold
<1>1. Spec => []ThresholdInv
    BY InitThreshold, ThresholdStep, Typing, PTL DEF Spec
<1>2. ThresholdInv => OffloadOnlyAfterThreshold
    BY DEF ThresholdInv, OffloadOnlyAfterThreshold, Reached
<1> QED
    BY <1>1, <1>2, PTL

----------------------------------------------------------------------------
(* The handles.                                                            *)

\* At the start no entry has a handle.
LEMMA InitHandle == Init => HandleInv /\ OffloadedHasRule
BY NullAssumption DEF Init, HandleInv, OffloadedHasRule, Live

\* Every step keeps the handle invariant, and the status is backed by it.
LEMMA HandleStep ==
    TypeOK /\ TypeOK' /\ HandleInv /\ OffloadedHasRule /\ [Next]_vars
        => HandleInv' /\ OffloadedHasRule'
<1> SUFFICES ASSUME TypeOK, TypeOK', HandleInv, OffloadedHasRule, [Next]_vars
             PROVE  HandleInv' /\ OffloadedHasRule'
    OBVIOUS
<1> USE NullAssumption
<1>1. ASSUME UNCHANGED <<isOffload, flow, engineVars, rule, port, aged, dpc,
                         todo, dkey, duplicated, staleUse>>
      PROVE  HandleInv' /\ OffloadedHasRule'
    BY <1>1 DEF HandleInv, HandleFits, OffloadedHasRule, Live, Target, engineVars
<1>2. ASSUME NEW w \in Workers, NEW k \in Keys,
             NewFlow(w, k) \/ CountPacket(w, k)
      PROVE  HandleInv' /\ OffloadedHasRule'
    BY <1>2, <1>1 DEF NewFlow, CountPacket, nicVars, agingVars, ghostVars
<1>3. ASSUME NEW w \in Workers, Enqueue(w)
      PROVE  HandleInv' /\ OffloadedHasRule'
    BY <1>3, <1>1 DEF Enqueue, entryVars, nicVars, agingVars, ghostVars
<1>4. ASSUME NEW w \in Workers, MarkOffloading(w)
      PROVE  HandleInv' /\ OffloadedHasRule'
    <2>1. UNCHANGED <<flow, engineVars, rule, port, aged, dpc, todo, dkey,
                      duplicated, staleUse>>
        BY <1>4 DEF MarkOffloading, nicVars, agingVars, ghostVars
    <2>2. HandleInv'
        BY <2>1 DEF HandleInv, HandleFits, Live, Target, engineVars
    <2>3. \A k \in Keys : isOffload'[k] = "OFFLOAD_SUCCESS" =>
                            isOffload[k] = "OFFLOAD_SUCCESS"
        BY <1>4 DEF MarkOffloading, TypeOK
    <2> QED
        BY <2>1, <2>2, <2>3 DEF OffloadedHasRule
<1>5. CASE DequeueBurst
    <2>1. /\ UNCHANGED <<isOffload, flow, created, rule, port, aged, dpc, todo, dkey,
                         duplicated, staleUse>>
          /\ epc' = "create" /\ created = NULL
        BY <1>5 DEF DequeueBurst, TypeOK, entryVars, nicVars, agingVars,
                    ghostVars
    <2> QED
        BY <2>1 DEF HandleInv, HandleFits, OffloadedHasRule, Live, TypeOK
<1>6. ASSUME NEW h \in Handles, CreateRule(h)
      PROVE  HandleInv' /\ OffloadedHasRule'
    <2>1. /\ UNCHANGED <<isOffload, flow, batch, side, aged, dpc, todo, dkey,
                         staleUse>>
          /\ rule' = [rule EXCEPT ![h] = Target]
          /\ \A g \in Handles : g # h => port'[g] = port[g]
          /\ rule[h] = NULL /\ h \notin aged /\ h # NULL
          /\ created = NULL /\ created' = h /\ epc' = "store"
          /\ duplicated' = (duplicated \/ \E g \in Handles : rule[g] = Target)
          /\ Target' = Target /\ Target \in Keys /\ Target # NULL
        BY <1>6, TargetType
        DEF CreateRule, TypeOK, Live, Target, entryVars, agingVars
    <2>2. /\ duplicated => duplicated'
          /\ staleUse' => duplicated'
          /\ epc' # "mark"
        BY <2>1 DEF HandleInv, HandleFits
    <2> SUFFICES ASSUME ~duplicated'
                 PROVE  HandleInv' /\ OffloadedHasRule'
        BY <2>2 DEF HandleInv, HandleFits, OffloadedHasRule
    <2>3. ~duplicated /\ \A g \in Handles : rule[g] # Target
        BY <2>1
    <2>4. \A g \in Handles : g # h => rule'[g] = rule[g]
        BY <2>1 DEF TypeOK
    <2>5. rule'[h] = Target
        BY <2>1 DEF TypeOK
    <2>6. \A g \in Handles : Live(g)' =>
            flow'[rule'[g]] = g \/ (created' = g /\ epc' = "store")
        BY <2>1, <2>3, <2>4, <2>5 DEF HandleInv, HandleFits, Live
    <2>7. rule'[created'] = Target' /\ created' \notin aged'
        BY <2>1, <2>5
    <2>8. \A f, g \in Handles : Live(f)' /\ rule'[f] = rule'[g] => f = g
        BY <2>1, <2>3, <2>4, <2>5 DEF HandleInv, HandleFits, Live
    <2>9. \A p \in todo' : p[1] \in aged' /\ rule'[p[1]] = p[2] /\ port'[p[1]] = 0
        BY <2>1, <2>3, <2>4 DEF HandleInv, HandleFits, TypeOK
    <2>10. dpc' = "destroy" =>
              /\ HandleFits(dkey)'
              /\ flow'[dkey'] \in aged'
              /\ \A p \in todo' : p[2] # dkey'
        BY <2>1, <2>3, <2>4 DEF HandleInv, HandleFits, TypeOK
    <2>11. OffloadedHasRule'
        <3>1. \A k \in Keys : flow[k] # NULL /\ rule[flow[k]] = k =>
                                flow[k] # h /\ rule'[flow[k]] = k
            BY <2>1, <2>4 DEF TypeOK
        <3> QED
            BY <2>1, <2>3, <3>1 DEF OffloadedHasRule
    <2> QED
        BY <2>2, <2>6, <2>7, <2>8, <2>9, <2>10, <2>11 DEF HandleInv, HandleFits
<1>7. CASE CreateRefused
    <2>1. /\ UNCHANGED <<flow, created, rule, port, aged, dpc, todo, dkey,
                         duplicated, staleUse>>
          /\ created = NULL /\ epc' \in {"idle", "create"}
        BY <1>7 DEF CreateRefused, NextRequest, TypeOK, nicVars, agingVars
    <2>2. HandleInv'
        BY <2>1 DEF HandleInv, HandleFits, Live, TypeOK
    <2>3. \A k \in Keys : isOffload'[k] = "OFFLOAD_SUCCESS" =>
                            isOffload[k] = "OFFLOAD_SUCCESS"
        BY <1>7 DEF CreateRefused, TypeOK
    <2> QED
        BY <2>1, <2>2, <2>3 DEF OffloadedHasRule
<1>8. CASE StoreHandle
    <2>1. /\ UNCHANGED <<isOffload, batch, side, created, rule, port, aged, dpc,
                         todo, dkey, duplicated, staleUse>>
          /\ flow' = [flow EXCEPT ![Target] = created]
          /\ epc = "store" /\ epc' = "mark"
          /\ Target' = Target /\ Target \in Keys
          /\ created \in Handles
        BY <1>8, TargetType
        DEF StoreHandle, TypeOK, Target, nicVars, agingVars, ghostVars
    <2>2. flow'[Target'] = created' /\ (staleUse' => duplicated')
        BY <2>1 DEF HandleInv, HandleFits, TypeOK
    <2> SUFFICES ASSUME ~duplicated
                 PROVE  HandleInv' /\ OffloadedHasRule'
        BY <2>1, <2>2 DEF HandleInv, HandleFits, OffloadedHasRule
    <2>3. rule[created] = Target /\ created \notin aged /\ created # NULL
        BY <2>1 DEF HandleInv, HandleFits
    <2>4. \A k \in Keys : k # Target => flow'[k] = flow[k]
        BY <2>1 DEF TypeOK
    <2>5. \A g \in Handles : Live(g)' => flow'[rule'[g]] = g
        <3> SUFFICES ASSUME NEW g \in Handles, Live(g)
                     PROVE  flow'[rule[g]] = g
            BY <2>1 DEF Live
        <3>1. CASE rule[g] = Target
            BY <2>1, <2>2, <2>3, <3>1 DEF HandleInv, HandleFits
        <3>2. CASE rule[g] # Target
            BY <2>1, <2>3, <2>4, <3>2 DEF HandleInv, HandleFits, Live, TypeOK
        <3> QED
            BY <3>1, <3>2
    <2>6. dpc' = "destroy" =>
              /\ HandleFits(dkey)'
              /\ flow'[dkey'] \in aged'
              /\ \A p \in todo' : p[2] # dkey'
        <3> SUFFICES ASSUME dpc = "destroy"
                     PROVE  dkey # Target
            BY <2>1, <2>4 DEF HandleInv, HandleFits, TypeOK
        <3>1. /\ flow[dkey] \in Handles /\ Live(flow[dkey])
              /\ rule[flow[dkey]] = dkey /\ flow[dkey] \in aged
            BY DEF HandleInv, HandleFits, TypeOK, Live
        <3> QED
            BY <2>1, <2>3, <3>1 DEF HandleInv, HandleFits
    <2>7. OffloadedHasRule'
        BY <2>1, <2>2, <2>3, <2>4 DEF OffloadedHasRule
    <2>8. /\ created' # NULL => rule'[created'] = Target' /\ created' \notin aged'
          /\ \A g, h \in Handles : Live(g)' /\ rule'[g] = rule'[h] => g = h
          /\ \A p \in todo' : p[1] \in aged' /\ rule'[p[1]] = p[2] /\ port'[p[1]] = 0
        BY <2>1 DEF HandleInv, HandleFits, Live
    <2> QED
        BY <2>2, <2>5, <2>6, <2>7, <2>8 DEF HandleInv, HandleFits
<1>9. CASE MarkOffloaded
    <2>1. /\ UNCHANGED <<flow, rule, port, aged, dpc, todo, dkey, duplicated,
                         staleUse>>
          /\ epc = "mark" /\ created # NULL /\ created' = NULL
          /\ epc' \in {"idle", "create"}
          /\ isOffload' = [isOffload EXCEPT ![Target] = "OFFLOAD_SUCCESS"]
        BY <1>9 DEF MarkOffloaded, NextRequest, TypeOK, nicVars, agingVars,
                    ghostVars
    <2>2. HandleInv'
        BY <2>1 DEF HandleInv, HandleFits, Live
    <2>3. \A k \in Keys : k # Target /\ isOffload'[k] = "OFFLOAD_SUCCESS" =>
                            isOffload[k] = "OFFLOAD_SUCCESS"
        BY <2>1 DEF TypeOK
    <2>4. ~duplicated => flow[Target] = created /\ rule[created] = Target
        BY <2>1 DEF HandleInv, HandleFits
    <2> QED
        BY <2>1, <2>2, <2>3, <2>4 DEF OffloadedHasRule
<1>10. ASSUME NEW h \in Handles, Age(h)
       PROVE  HandleInv' /\ OffloadedHasRule'
    <2>1. /\ UNCHANGED <<isOffload, flow, engineVars, rule, port, dpc, todo, dkey,
                         duplicated, staleUse>>
          /\ aged' = aged \cup {h} /\ h # created
        BY <1>10 DEF Age, InFlight, entryVars
    <2> QED
        BY <2>1 DEF HandleInv, HandleFits, OffloadedHasRule, Live, Target, engineVars
<1>11. CASE GetAgedFlows
    <2>1. /\ UNCHANGED <<isOffload, flow, engineVars, rule, port, aged, dkey,
                         duplicated, staleUse>>
          /\ dpc = "idle" /\ dpc' \in {"idle", "next"}
        BY <1>11 DEF GetAgedFlows, entryVars, ghostVars
    <2>2. \A p \in todo' : p[1] \in aged' /\ rule'[p[1]] = p[2] /\ port'[p[1]] = 0
        BY <1>11 DEF GetAgedFlows, Reportable
    <2> QED
        BY <2>1, <2>2 DEF HandleInv, HandleFits, OffloadedHasRule, Live, Target, engineVars
<1>12. CASE GetAgedError
    BY <1>12, <1>1 DEF GetAgedError, entryVars, nicVars
<1>13. ASSUME NEW p \in todo, QueryCounter(p)
       PROVE  HandleInv' /\ OffloadedHasRule'
    <2>1. /\ UNCHANGED <<isOffload, flow, engineVars, rule, port, aged, duplicated>>
          /\ dpc = "next" /\ todo' = todo \ {p}
          /\ dpc' \in {"idle", "next", "destroy"}
          /\ dpc' = "destroy" => dkey' = p[2]
          /\ staleUse' => staleUse \/ ~HandleFits(p[2])
          /\ p[1] \in Handles /\ p[2] \in Keys
          /\ \A q \in todo : q = <<q[1], q[2]>> /\ q[1] \in Handles
        BY <1>13 DEF QueryCounter, MoreAged, TypeOK, nicVars
    <2>2. OffloadedHasRule'
        BY <2>1 DEF OffloadedHasRule
    <2>3. CASE duplicated
        BY <2>1, <2>3, <2>2 DEF HandleInv, HandleFits, Target, engineVars
    <2>4. CASE ~duplicated
        <3>1. p[1] \in aged /\ rule[p[1]] = p[2] /\ port[p[1]] = 0 /\ Live(p[1])
            BY <2>1, <2>4 DEF HandleInv, HandleFits, Live
        <3>2. flow[p[2]] = p[1]
            BY <2>1, <2>4, <3>1 DEF HandleInv, HandleFits
        <3>3. \A q \in todo' : q[2] # p[2]
            BY <2>1, <2>4, <3>1 DEF HandleInv, HandleFits
        <3>4. staleUse' => duplicated'
            BY <2>1, <3>1, <3>2 DEF HandleInv, HandleFits
        <3> QED
            BY <2>1, <2>2, <3>1, <3>2, <3>3, <3>4
            DEF HandleInv, HandleFits, Live, Target, engineVars
    <2> QED
        BY <2>3, <2>4
<1>14. CASE DestroyRule
    <2>1. /\ UNCHANGED <<isOffload, flow, engineVars, dkey, todo, duplicated>>
          /\ dpc = "destroy" /\ dpc' = "reset"
          /\ rule' = [rule EXCEPT ![flow[dkey]] = NULL]
          /\ port' = [port EXCEPT ![flow[dkey]] = 0]
          /\ aged' = aged \ {flow[dkey]}
          /\ staleUse' => staleUse \/ ~HandleFits(dkey)
          /\ dkey \in Keys /\ flow[dkey] \in Handles
        BY <1>14 DEF DestroyRule, TypeOK, entryVars
    <2>2. CASE duplicated
        BY <2>1, <2>2 DEF HandleInv, HandleFits, OffloadedHasRule, Target, engineVars
    <2>3. CASE ~duplicated
        <3>1. /\ rule[flow[dkey]] = dkey /\ flow[dkey] \in aged
              /\ \A p \in todo : p[2] # dkey
            BY <2>1, <2>3 DEF HandleInv, HandleFits
        <3>2. \A g \in Handles :
                /\ g # flow[dkey] => rule'[g] = rule[g] /\ port'[g] = port[g]
                /\ rule'[flow[dkey]] = NULL
            BY <2>1 DEF TypeOK
        <3>3. created # flow[dkey]
            BY <2>1, <2>3, <3>1 DEF HandleInv, HandleFits
        <3>4. \A p \in todo' : p[1] \in aged' /\ rule'[p[1]] = p[2] /\ port'[p[1]] = 0
            <4> SUFFICES ASSUME NEW p \in todo
                         PROVE  p[1] \in aged' /\ rule'[p[1]] = p[2] /\ port'[p[1]] = 0
                BY <2>1
            <4>1. p[1] \in aged /\ rule[p[1]] = p[2] /\ port[p[1]] = 0 /\ p[1] \in Handles
                BY <2>3 DEF HandleInv, HandleFits, TypeOK
            <4>2. p[1] # flow[dkey]
                BY <3>1, <4>1
            <4> QED
                BY <2>1, <3>2, <4>1, <4>2
        <3>5. OffloadedHasRule'
            <4>1. \A k \in Keys : k # dkey /\ flow[k] # NULL /\ rule[flow[k]] = k
                                    => rule'[flow[k]] = k
                BY <3>1, <3>2 DEF TypeOK
            <4> QED
                BY <2>1, <4>1 DEF OffloadedHasRule
        <3>6. \A g \in Handles : Live(g)' => Live(g) /\ g # flow[dkey]
            BY <3>2 DEF Live
        <3>7. \A g \in Handles : Live(g)' =>
                flow'[rule'[g]] = g \/ (created' = g /\ epc' = "store")
            BY <2>1, <2>3, <3>2, <3>6 DEF HandleInv, HandleFits, engineVars
        <3>8. created' # NULL => rule'[created'] = Target' /\ created' \notin aged'
            BY <2>1, <2>3, <3>2, <3>3 DEF HandleInv, HandleFits, Target, engineVars, TypeOK
        <3>9. \A g, h \in Handles : Live(g)' /\ rule'[g] = rule'[h] => g = h
            <4> SUFFICES ASSUME NEW g \in Handles, NEW h \in Handles,
                                Live(g)', rule'[g] = rule'[h]
                         PROVE  g = h
                OBVIOUS
            <4>1. Live(h)'
                BY DEF Live
            <4> QED
                BY <2>3, <3>2, <3>6, <4>1 DEF HandleInv, HandleFits
        <3>10. /\ staleUse' => duplicated'
               /\ epc' = "mark" => flow'[Target'] = created'
            BY <2>1, <3>1 DEF HandleInv, HandleFits, Target, engineVars
        <3> QED
            BY <2>1, <3>4, <3>5, <3>7, <3>8, <3>9, <3>10 DEF HandleInv, HandleFits
    <2> QED
        BY <2>2, <2>3
<1>15. CASE DestroyFailed
    <2>1. /\ UNCHANGED <<isOffload, flow, engineVars, rule, port, aged, todo,
                         duplicated>>
          /\ dpc = "destroy" /\ dpc' \in {"idle", "next"}
          /\ staleUse' => staleUse \/ ~HandleFits(dkey)
        BY <1>15 DEF DestroyFailed, MoreAged, entryVars, nicVars
    <2> QED
        BY <2>1 DEF HandleInv, HandleFits, OffloadedHasRule, Live, Target, engineVars
<1>16. CASE ResetStatus
    <2>1. /\ UNCHANGED <<flow, engineVars, rule, port, aged, todo, duplicated,
                         staleUse>>
          /\ dpc = "reset" /\ dpc' \in {"idle", "next"}
          /\ isOffload' = [isOffload EXCEPT ![dkey] = "NOT_OFFLOAD"]
        BY <1>16 DEF ResetStatus, MoreAged, nicVars, ghostVars
    <2>2. HandleInv'
        BY <2>1 DEF HandleInv, HandleFits, Live, Target, engineVars
    <2>3. \A k \in Keys : isOffload'[k] = "OFFLOAD_SUCCESS" =>
                            isOffload[k] = "OFFLOAD_SUCCESS" /\ k # dkey
        BY <2>1 DEF TypeOK
    <2> QED
        BY <2>1, <2>2, <2>3 DEF OffloadedHasRule
<1>17. CASE UNCHANGED vars
    BY <1>17, <1>1 DEF vars, entryVars, nicVars, agingVars, ghostVars
<1> QED
    BY <1>2, <1>3, <1>4, <1>5, <1>6, <1>7, <1>8, <1>9, <1>10, <1>11, <1>12,
       <1>13, <1>14, <1>15, <1>16, <1>17
    DEF Next, Worker, Engine, DeleteTimeoutFlows

\* The handle invariant holds in every reachable state.
LEMMA HandleInvariant == Spec => [](HandleInv /\ OffloadedHasRule)
<1>1. TypeOK /\ TypeOK' /\ (HandleInv /\ OffloadedHasRule) /\ [Next]_vars
        => (HandleInv /\ OffloadedHasRule)'
    BY HandleStep
<1> QED
    BY <1>1, InitHandle, Typing, PTL DEF Spec

\* The handle delete_timeout_flows uses is that of the entry's live rule, and
\* of a rule on its port, until a rule is duplicated.
THEOREM HandlesTrustworthy == Spec => []NoStaleHandle
<1>1. HandleInv => NoStaleHandle
    BY DEF HandleInv, NoStaleHandle
<1> QED
    BY <1>1, HandleInvariant, PTL

\* A live rule can be found again, from its entry or in the engine's hand, so
\* no rule is out of the aging path's reach, until a rule is duplicated.
THEOREM RulesRecorded == Spec => []NoLostRule
<1>1. HandleInv => NoLostRule
    BY DEF HandleInv, NoLostRule
<1> QED
    BY <1>1, HandleInvariant, PTL

\* An entry that create_flow_loop has marked OFFLOAD_SUCCESS has its rule,
\* until a rule is duplicated.
THEOREM OffloadedIsBacked == Spec => []OffloadedHasRule
BY HandleInvariant, PTL

\* Until a rule is duplicated, rte_flow_destroy is only called for a rule that
\* the NIC has reported as aged.
THEOREM DestroysOnlyAged == Spec => OnlyAgedDestroyedUnlessDuplicated
<1> DEFINE A == \A h \in Handles : Live(h) /\ ~Live(h)' => h \in aged \/ duplicated
<1>1. TypeOK /\ HandleInv /\ [Next]_vars => A
    <2> SUFFICES ASSUME TypeOK, HandleInv, [Next]_vars,
                        NEW h \in Handles, Live(h), ~Live(h)', ~duplicated
                 PROVE  h \in aged
        OBVIOUS
    <2>1. rule' # rule
        BY DEF Live
    <2>2. ASSUME NEW g \in Handles, CreateRule(g)
          PROVE  FALSE
        <3>1. Target # NULL
            BY <2>2, TargetType, NullAssumption DEF CreateRule, TypeOK
        <3> QED
            BY <2>2, <3>1 DEF CreateRule, Live, TypeOK
    <2>3. CASE DestroyRule
        BY <2>3 DEF DestroyRule, HandleInv, Live, TypeOK
    <2> QED
        BY <2>1, <2>2, <2>3
        DEF Next, Worker, Engine, DeleteTimeoutFlows, NewFlow, CountPacket,
            Enqueue, MarkOffloading, DequeueBurst, CreateRefused, StoreHandle,
            MarkOffloaded, Age, GetAgedFlows, GetAgedError, QueryCounter,
            DestroyFailed, ResetStatus, vars, nicVars
<1>2. TypeOK /\ HandleInv /\ [Next]_vars => [A]_vars
    BY <1>1
<1> QED
    BY <1>2, Typing, HandleInvariant, PTL
    DEF Spec, OnlyAgedDestroyedUnlessDuplicated

----------------------------------------------------------------------------
(* The status.                                                             *)

\* At the start no entry is OFFLOADING.
LEMMA InitStatus == Init => StatusInv
BY DEF Init, StatusInv

\* How the engine's own steps move a request on.
LEMMA RequestedEngine ==
    ASSUME TypeOK, TypeOK', NEW k \in Keys, Requested(k)
    PROVE  /\ DequeueBurst => Requested(k)'
           /\ MarkOffloaded => Requested(k)'
           /\ StoreHandle => Requested(k)'
           /\ \A h \in Handles : CreateRule(h) =>
                Requested(k)' \/ (Target = k /\ side = "own")
<1>1. ASSUME DequeueBurst
      PROVE  Requested(k)'
    <2>1. batch = <<>> /\ epc' = "create" /\ side' = "own" /\ Len(batch) = 0
        BY <1>1, EmptySeq DEF DequeueBurst, TypeOK
    <2>2. PICK j \in 1..Len(flowRulesRing) : flowRulesRing[j] = k
        BY <1>1, <2>1 DEF Requested, DequeueBurst
    <2>3. CASE \E i \in 1..Len(flowRulesRing') : flowRulesRing'[i] = k
        BY <2>3 DEF Requested
    <2>4. CASE \E i \in 1..Len(batch') : batch'[i] = k
        <3>1. PICK i \in 1..Len(batch') : batch'[i] = k
            BY <2>4
        <3>2. batch' \in Seq(Keys) /\ batch' # <<>> /\ Len(batch') \in Nat
            BY <1>1, DequeueElements
        <3>3. CASE i = 1
            <4>1. Head(batch') = batch'[1]
                BY <3>2
            <4> QED
                BY <2>1, <3>1, <3>3, <4>1 DEF Requested
        <3>4. CASE i # 1
            <4>1. i \in 2..Len(batch')
                BY <3>2, <3>4
            <4> QED
                BY <3>1, <4>1 DEF Requested
        <3> QED
            BY <3>3, <3>4
    <2> QED
        BY <1>1, <2>2, <2>3, <2>4, DequeueElements
<1>2. ASSUME MarkOffloaded
      PROVE  Requested(k)'
    <2>1. UNCHANGED flowRulesRing /\ epc = "mark" /\ batch # <<>>
        BY <1>2 DEF MarkOffloaded, TypeOK
    <2>2. CASE UNCHANGED batch
        BY <2>1, <2>2 DEF Requested
    <2>3. CASE NextRequest
        <3>1. CASE \E i \in 1..Len(flowRulesRing) : flowRulesRing[i] = k
            BY <2>1, <3>1 DEF Requested
        <3>2. CASE \E i \in 2..Len(batch) : batch[i] = k
            <4>1. PICK i \in 2..Len(batch) : batch[i] = k
                BY <3>2
            <4>2. /\ i - 1 \in 1..Len(batch') /\ batch'[i-1] = k
                  /\ Len(batch) \in Nat /\ Len(batch') = Len(batch) - 1
                BY <2>1, <2>3, <4>1, NextRequestElements
            <4>3. CASE i = 2
                <5>1. Len(batch) # 1 /\ batch' # <<>> /\ batch' \in Seq(Keys)
                    <6>1. batch' \in Seq(Keys)
                        BY DEF TypeOK
                    <6>2. Len(batch) # 1 /\ Len(batch') # 0
                        BY <4>1, <4>2, <4>3
                    <6> QED
                        BY <6>1, <6>2, EmptyIff
                <5>2. epc' = "create" /\ side' = "own"
                    BY <2>3, <5>1 DEF NextRequest
                <5>3. Head(batch') = batch'[1]
                    BY <5>1
                <5> QED
                    BY <4>2, <4>3, <5>2, <5>3 DEF Requested
            <4>4. CASE i # 2
                <5>1. i - 1 \in 2..Len(batch')
                    BY <4>1, <4>2, <4>4
                <5> QED
                    BY <4>2, <5>1 DEF Requested
            <4> QED
                BY <4>3, <4>4
        <3> QED
            BY <2>1, <3>1, <3>2 DEF Requested
    <2> QED
        BY <1>2, <2>2, <2>3 DEF MarkOffloaded
<1>3. ASSUME StoreHandle
      PROVE  Requested(k)'
    BY <1>3 DEF StoreHandle, Requested
<1>4. ASSUME NEW h \in Handles, CreateRule(h)
      PROVE  Requested(k)' \/ (Target = k /\ side = "own")
    BY <1>4 DEF CreateRule, Requested, Target
<1> QED
    BY <1>1, <1>2, <1>3, <1>4

\* Every step keeps StatusInv.
LEMMA StatusStep ==
    TypeOK /\ TypeOK' /\ HandleInv /\ StatusInv /\ [Next]_vars => StatusInv'
<1> SUFFICES ASSUME TypeOK, TypeOK', HandleInv, StatusInv, [Next]_vars,
                    ~refused', ~duplicated'
             PROVE  StatusInv'
    BY DEF StatusInv
<1> DEFINE Mark(w, k) == wpc[w] = "mark" /\ wkey[w] = k
           \* What a step must not do, key by key and worker by worker.
           KeepsStatus == \A k \in Keys : isOffload'[k] = "OFFLOADING" =>
                /\ isOffload[k] = "OFFLOADING"
                /\ HasRule(k) => HasRule(k)' \/ Resetting(k)'
                /\ Resetting(k) => Resetting(k)'
           KeepsMark == \A w \in Workers, k \in Keys : Mark(w, k)' =>
                /\ Mark(w, k)
                /\ HasYoungRule(k) => HasYoungRule(k)'
           KeepsRequest == \A k \in Keys :
                Requested(k) => Requested(k)' \/ HasYoungRule(k)'
<1>1. ~refused /\ ~duplicated
    <2>1. CASE UNCHANGED <<refused, duplicated>>
        BY <2>1
    <2>2. CASE CreateRefused
        BY <2>2 DEF CreateRefused
    <2>3. ASSUME NEW h \in Handles, CreateRule(h)
          PROVE  ~refused /\ ~duplicated
        BY <2>3 DEF CreateRule
    <2> QED
        BY <2>1, <2>2, <2>3
        DEF Next, Worker, Engine, DeleteTimeoutFlows, NewFlow, CountPacket,
            Enqueue, MarkOffloading, DequeueBurst, StoreHandle, MarkOffloaded,
            Age, GetAgedFlows, GetAgedError, QueryCounter, DestroyRule,
            DestroyFailed, ResetStatus, vars, ghostVars
<1>2. /\ \A k \in Keys : isOffload[k] = "OFFLOADING" =>
            Requested(k) \/ HasRule(k) \/ Resetting(k)
      /\ \A w \in Workers, k \in Keys : Mark(w, k) =>
            Requested(k) \/ HasYoungRule(k)
    BY <1>1 DEF StatusInv
<1>3. \A k \in Keys : HasYoungRule(k)' => HasRule(k)'
    BY DEF HasYoungRule, HasRule
<1>4. ASSUME KeepsStatus, KeepsMark, KeepsRequest
      PROVE  StatusInv'
    BY <1>2, <1>3, <1>4 DEF StatusInv
<1>5. ASSUME UNCHANGED <<flowRulesRing, engineVars>>
      PROVE  KeepsRequest
    BY <1>5 DEF Requested, engineVars
<1>6. ASSUME UNCHANGED <<isOffload, rule>>, dpc # "reset"
      PROVE  KeepsStatus
    BY <1>6 DEF HasRule, Resetting
<1>7. ASSUME UNCHANGED <<workerVars, rule, aged>>
      PROVE  KeepsMark
    BY <1>7 DEF HasYoungRule, workerVars
<1>8. ASSUME UNCHANGED <<isOffload, rule, dpc, dkey>>
      PROVE  KeepsStatus
    BY <1>8 DEF HasRule, Resetting
<1> HIDE DEF KeepsStatus, KeepsMark, KeepsRequest
<1>9. ASSUME NEW w \in Workers, NEW k \in Keys,
             NewFlow(w, k) \/ CountPacket(w, k)
      PROVE  StatusInv'
    <2>1. UNCHANGED <<isOffload, flowRulesRing, engineVars, rule, aged, dpc,
                      dkey>>
        BY <1>9 DEF NewFlow, CountPacket, nicVars, agingVars
    <2>2. \A v \in Workers, j \in Keys : Mark(v, j)' => Mark(v, j)
        BY <1>9 DEF NewFlow, CountPacket, TypeOK, workerVars
    <2>3. KeepsMark
        BY <2>1, <2>2 DEF KeepsMark, HasYoungRule
    <2> QED
        BY <1>4, <1>5, <1>8, <2>1, <2>3
<1>10. ASSUME NEW w \in Workers, Enqueue(w)
       PROVE  StatusInv'
    <2>1. UNCHANGED <<isOffload, engineVars, rule, aged, dpc, dkey>>
        BY <1>10 DEF Enqueue, entryVars, nicVars, agingVars
    <2>2. wkey[w] \in Keys
        BY <1>10 DEF Enqueue, TypeOK
    <2>3. KeepsStatus
        BY <1>8, <2>1
    <2>4. CASE flowRulesRing' = Append(flowRulesRing, wkey[w])
        <3>1. /\ \A i \in 1..Len(flowRulesRing) :
                    /\ i \in 1..Len(flowRulesRing')
                    /\ flowRulesRing'[i] = flowRulesRing[i]
              /\ \E i \in 1..Len(flowRulesRing') : flowRulesRing'[i] = wkey[w]
            BY <2>2, <2>4, AppendElements
        <3>2. \A j \in Keys : Requested(j) => Requested(j)'
            BY <2>1, <3>1 DEF Requested, engineVars
        <3>3. Requested(wkey[w])' \/ wkey[w] # wkey'[w]
            BY <3>1 DEF Requested
        <3>4. \A v \in Workers, j \in Keys : Mark(v, j)' =>
                Mark(v, j) \/ (v = w /\ j = wkey[w])
            BY <1>10 DEF Enqueue, TypeOK
        <3>5. \E i \in 1..Len(flowRulesRing') : flowRulesRing'[i] = wkey[w]
            BY <3>1
        <3>6. \A j \in Keys : j = wkey[w] => Requested(j)'
            BY <3>5 DEF Requested
        <3>7. \A j \in Keys : HasYoungRule(j) => HasYoungRule(j)'
            BY <2>1 DEF HasYoungRule
        <3>8. \A v \in Workers, j \in Keys : Mark(v, j)' =>
                Requested(j)' \/ HasYoungRule(j)'
            BY <1>2, <3>2, <3>4, <3>6, <3>7
        <3>9. \A j \in Keys : isOffload'[j] = "OFFLOADING" =>
                (Requested(j) \/ HasRule(j) \/ Resetting(j))'
            BY <1>2, <2>3, <3>2 DEF KeepsStatus
        <3> QED
            BY <3>8, <3>9 DEF StatusInv
    <2>5. CASE /\ UNCHANGED flowRulesRing
               /\ wpc' = [wpc EXCEPT ![w] = "idle"]
               /\ wkey' = [wkey EXCEPT ![w] = NULL]
        <3>1. \A v \in Workers, j \in Keys : Mark(v, j)' => Mark(v, j)
            BY <2>5 DEF TypeOK
        <3>2. KeepsMark
            BY <2>1, <3>1 DEF KeepsMark, HasYoungRule
        <3> QED
            BY <1>4, <1>5, <2>1, <2>3, <2>5, <3>2
    <2> QED
        BY <1>10, <2>4, <2>5 DEF Enqueue
<1>11. ASSUME NEW w \in Workers, MarkOffloading(w)
       PROVE  StatusInv'
    <2>1. UNCHANGED <<flowRulesRing, engineVars, rule, aged, dpc, dkey>>
        BY <1>11 DEF MarkOffloading, nicVars, agingVars
    <2>2. \A j \in Keys : /\ Requested(j) => Requested(j)'
                          /\ HasRule(j) => HasRule(j)'
                          /\ HasYoungRule(j) => HasYoungRule(j)'
                          /\ Resetting(j) => Resetting(j)'
                          /\ HasYoungRule(j) => HasRule(j)
        BY <2>1 DEF Requested, HasRule, HasYoungRule, Resetting, engineVars
    <2>3. \A v \in Workers, j \in Keys : Mark(v, j)' => Mark(v, j)
        BY <1>11 DEF MarkOffloading, TypeOK
    <2>4. \A j \in Keys : isOffload'[j] = "OFFLOADING" =>
            isOffload[j] = "OFFLOADING" \/ Mark(w, j)
        BY <1>11 DEF MarkOffloading, TypeOK
    <2> QED
        BY <1>2, <2>2, <2>3, <2>4 DEF StatusInv
<1>12. ASSUME DequeueBurst \/ StoreHandle \/ MarkOffloaded
       PROVE  StatusInv'
    <2>1. UNCHANGED <<workerVars, rule, aged, dpc, dkey>>
        BY <1>12 DEF DequeueBurst, StoreHandle, MarkOffloaded, nicVars,
                     agingVars
    <2>2. \A k \in Keys : isOffload'[k] = "OFFLOADING" =>
                            isOffload[k] = "OFFLOADING"
        BY <1>12 DEF DequeueBurst, StoreHandle, MarkOffloaded, TypeOK,
                     entryVars
    <2>3. KeepsStatus
        BY <2>1, <2>2 DEF KeepsStatus, HasRule, Resetting
    <2>4. KeepsRequest
        BY <1>12, RequestedEngine DEF KeepsRequest
    <2> QED
        BY <1>4, <1>7, <2>1, <2>3, <2>4
<1>13. ASSUME NEW h \in Handles, CreateRule(h)
       PROVE  StatusInv'
    <2>1. /\ UNCHANGED <<isOffload, workerVars, aged, dpc, dkey>>
          /\ rule' = [rule EXCEPT ![h] = Target]
          /\ rule[h] = NULL /\ h \notin aged
        BY <1>13 DEF CreateRule, Live, TypeOK, entryVars, agingVars
    <2>2. \A g \in Handles : rule[g] # NULL => rule'[g] = rule[g]
        BY <2>1 DEF TypeOK
    <2>3. rule'[h] = Target
        BY <2>1 DEF TypeOK
    <2>4. \A k \in Keys : /\ HasRule(k) => HasRule(k)'
                          /\ HasYoungRule(k) => HasYoungRule(k)'
                          /\ k = Target => HasYoungRule(k)'
        BY <2>1, <2>2, <2>3, NullAssumption DEF HasRule, HasYoungRule
    <2>5. KeepsStatus
        BY <2>1, <2>4 DEF KeepsStatus, Resetting
    <2>6. KeepsMark
        BY <2>1, <2>4 DEF KeepsMark, workerVars
    <2>7. KeepsRequest
        BY <1>13, <2>4, RequestedEngine DEF KeepsRequest
    <2> QED
        BY <1>4, <2>5, <2>6, <2>7
<1>14. CASE CreateRefused
    BY <1>14 DEF CreateRefused
<1>15. ASSUME NEW h \in Handles, Age(h)
       PROVE  StatusInv'
    <2>1. /\ UNCHANGED <<isOffload, flowRulesRing, workerVars, engineVars, rule,
                         dpc, dkey>>
          /\ aged' = aged \cup {h}
          /\ \A w \in Workers : wpc[w] = "mark" => wkey[w] # rule[h]
        BY <1>15 DEF Age, InFlight, entryVars
    <2>2. KeepsMark
        BY <2>1 DEF KeepsMark, HasYoungRule, workerVars
    <2> QED
        BY <1>4, <1>5, <1>8, <2>1, <2>2
<1>16. ASSUME GetAgedFlows \/ GetAgedError \/ DestroyFailed
       PROVE  StatusInv'
    <2>1. /\ UNCHANGED <<isOffload, flowRulesRing, workerVars, engineVars, rule,
                         aged>>
          /\ dpc # "reset"
        BY <1>16 DEF GetAgedFlows, GetAgedError, DestroyFailed, entryVars,
                     nicVars
    <2> QED
        BY <1>4, <1>5, <1>6, <1>7, <2>1
<1>17. ASSUME NEW p \in todo, QueryCounter(p)
       PROVE  StatusInv'
    <2>1. /\ UNCHANGED <<isOffload, flowRulesRing, workerVars, engineVars, rule,
                         aged>>
          /\ dpc # "reset"
        BY <1>17 DEF QueryCounter, nicVars
    <2> QED
        BY <1>4, <1>5, <1>6, <1>7, <2>1
<1>18. CASE DestroyRule
    <2>1. /\ UNCHANGED <<isOffload, flowRulesRing, workerVars, engineVars, dkey>>
          /\ dpc = "destroy" /\ dpc' = "reset"
          /\ rule' = [rule EXCEPT ![flow[dkey]] = NULL]
          /\ aged' = aged \ {flow[dkey]}
        BY <1>18 DEF DestroyRule, entryVars
    <2>2. rule[flow[dkey]] = dkey /\ flow[dkey] \in aged
        BY <1>1, <2>1 DEF HandleInv, HandleFits
    <2>3. \A g \in Handles : g # flow[dkey] => rule'[g] = rule[g]
        BY <2>1 DEF TypeOK
    <2>4. KeepsStatus
        BY <2>1, <2>2, <2>3 DEF KeepsStatus, HasRule, Resetting
    <2>5. KeepsMark
        BY <2>1, <2>2, <2>3 DEF KeepsMark, HasYoungRule, workerVars
    <2> QED
        BY <1>4, <1>5, <2>1, <2>4, <2>5
<1>19. CASE ResetStatus
    <2>1. /\ UNCHANGED <<flowRulesRing, workerVars, engineVars, rule, aged>>
          /\ isOffload' = [isOffload EXCEPT ![dkey] = "NOT_OFFLOAD"]
        BY <1>19 DEF ResetStatus, nicVars
    <2>2. \A k \in Keys : isOffload'[k] = "OFFLOADING" =>
                            isOffload[k] = "OFFLOADING" /\ k # dkey
        BY <2>1 DEF TypeOK
    <2>3. KeepsStatus
        BY <2>1, <2>2 DEF KeepsStatus, HasRule, Resetting
    <2> QED
        BY <1>4, <1>5, <1>7, <2>1, <2>3
<1>20. CASE UNCHANGED vars
    <2>1. UNCHANGED <<isOffload, flowRulesRing, workerVars, engineVars, rule,
                      aged, dpc, dkey>>
        BY <1>20 DEF vars, entryVars, nicVars, agingVars
    <2> QED
        BY <1>4, <1>5, <1>7, <1>8, <2>1
<1> QED
    BY <1>9, <1>10, <1>11, <1>12, <1>13, <1>14, <1>15, <1>16, <1>17, <1>18,
       <1>19, <1>20
    DEF Next, Worker, Engine, DeleteTimeoutFlows

\* Marking an entry OFFLOADING after it was put into the ring is safe as long
\* as the NIC refuses no rule and no rule is duplicated: the request is still
\* to be served, or its rule is there to age.
THEOREM OffloadingNeverStuck == Spec => []NoStuckOffloading
<1>1. Spec => []StatusInv
    <2>1. Spec => [](TypeOK /\ HandleInv)
        BY Typing, HandleInvariant, PTL
    <2>2. TypeOK /\ HandleInv /\ (TypeOK /\ HandleInv)' /\ StatusInv
            /\ [Next]_vars => StatusInv'
        BY StatusStep
    <2> QED
        BY <2>1, <2>2, InitStatus, PTL DEF Spec
<1>2. TypeOK /\ StatusInv => NoStuckOffloading
    <2> SUFFICES ASSUME TypeOK, StatusInv, ~refused, ~duplicated,
                        NEW k \in Keys, isOffload[k] = "OFFLOADING"
                 PROVE  \/ Pending(k)
                        \/ \E h \in Handles : rule[h] = k
                        \/ dpc = "reset" /\ dkey = k
        BY DEF NoStuckOffloading
    <2>1. Requested(k) => Pending(k)
        <3>1. CASE \E i \in 1..Len(flowRulesRing) : flowRulesRing[i] = k
            BY <3>1 DEF Pending
        <3>2. CASE \E i \in 2..Len(batch) : batch[i] = k
            <4>1. \A i \in 2..Len(batch) : i \in 1..Len(batch)
                BY DEF TypeOK
            <4> QED
                BY <3>2, <4>1 DEF Pending
        <3>3. CASE epc = "create" /\ Head(batch) = k
            <4>1. batch # <<>>
                BY <3>3 DEF TypeOK
            <4>2. batch[1] = k /\ 1 \in 1..Len(batch)
                BY <3>3, <4>1, HeadIsFirst
            <4> QED
                BY <4>2 DEF Pending
        <3> QED
            BY <3>1, <3>2, <3>3 DEF Requested
    <2> QED
        BY <2>1 DEF StatusInv, HasRule, Resetting
<1> QED
    BY <1>1, <1>2, Typing, PTL
=============================================================================
