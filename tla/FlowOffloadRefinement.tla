------------------------ MODULE FlowOffloadRefinement ------------------------
(***************************************************************************)
(* FlowOffload implements OffloadPromise, for every value of the           *)
(* constants.  The mapping is that of FlowOffload!Promise; each step of a  *)
(* thread is a step of the promise or a stutter.                           *)
(***************************************************************************)
EXTENDS FlowOffloadProofs

Busy  == {k \in Keys : packetAmount[k] >= PktAmountToOffload}
Asked == {k \in Keys : Pending(k) \/ Pending(Peer[k])}
Ruled == {k \in Keys : \E h \in Handles : rule[h] = k}
Quiet == {k \in Keys : \E h \in aged : rule[h] = k}

\* A worker has an entry in hand only once the entry itself, and not just its
\* flow, has reached the threshold.
HandInv == \A w \in Workers : wpc[w] = "enqueue" => wkey[w] \in Busy

\* No worker starts with an entry in hand.
LEMMA InitHand == Init => HandInv
BY DEF Init, HandInv

\* Every step keeps it so: only the test of the entry puts one in hand.
LEMMA HandStep ==
    TypeOK /\ TypeOK' /\ ThresholdInv /\ HandInv /\ [Next]_vars => HandInv'
<1> SUFFICES ASSUME TypeOK, TypeOK', ThresholdInv, HandInv, [Next]_vars
             PROVE  HandInv'
    OBVIOUS
<1> USE BoundAssumption
<1>0. \A k \in Keys : packetAmount[k] \in Nat /\ packetAmount'[k] \in Nat
    BY DEF TypeOK
<1>1. ASSUME UNCHANGED <<packetAmount, workerVars>>
      PROVE  HandInv'
    BY <1>1 DEF HandInv, Busy, workerVars
<1>2. ASSUME NEW w \in Workers, NEW k \in Keys, NewFlow(w, k)
      PROVE  HandInv'
    <2>1. /\ packetAmount[k] = 0 /\ UNCHANGED workerVars
          /\ packetAmount' = [packetAmount EXCEPT ![k] = 1]
        BY <1>2 DEF NewFlow, ThresholdInv
    <2> QED
        BY <1>0, <2>1 DEF HandInv, Busy, workerVars, TypeOK
<1>3. ASSUME NEW w \in Workers, NEW k \in Keys, CountPacket(w, k)
      PROVE  HandInv'
    <2>1. packetAmount' = [packetAmount EXCEPT
                             ![k] = AtMost(@ + 1, PktAmountToOffload)]
        BY <1>3 DEF CountPacket
    <2>2. \A j \in Keys : packetAmount'[j] >= packetAmount[j]
        BY <1>0, <2>1 DEF AtMost, TypeOK
    <2>3. Busy \subseteq Busy'
        BY <1>0, <2>2 DEF Busy
    <2>4. CASE UNCHANGED workerVars
        BY <2>3, <2>4 DEF HandInv, workerVars
    <2>5. CASE /\ packetAmount'[k] >= PktAmountToOffload
               /\ wpc' = [wpc EXCEPT ![w] = "enqueue"]
               /\ wkey' = [wkey EXCEPT ![w] = k]
        <3>1. k \in Busy'
            BY <2>5 DEF Busy
        <3> QED
            BY <2>3, <2>5, <3>1 DEF HandInv, TypeOK
    <2> QED
        BY <1>3, <2>4, <2>5 DEF CountPacket
<1>4. ASSUME NEW w \in Workers, Worker(w)
      PROVE  HandInv'
    <2>1. UNCHANGED packetAmount
        BY <1>4 DEF Worker, Enqueue, MarkOffloading, entryVars
    <2>2. \A v \in Workers : wpc'[v] = "enqueue" =>
            wpc[v] = "enqueue" /\ wkey'[v] = wkey[v]
        BY <1>4 DEF Worker, Enqueue, MarkOffloading, TypeOK
    <2> QED
        BY <2>1, <2>2 DEF HandInv, Busy
<1>5. CASE Engine
    BY <1>1, <1>5 DEF Engine, DequeueBurst, StoreHandle, MarkOffloaded,
                      CreateRefused, CreateRule, entryVars
<1>6. ASSUME NEW h \in Handles, Age(h)
      PROVE  HandInv'
    BY <1>1, <1>6 DEF Age, entryVars
<1>7. ASSUME NEW p \in todo, QueryCounter(p)
      PROVE  HandInv'
    <2>1. \A j \in Keys : packetAmount'[j] >= packetAmount[j]
        <3>1. CASE UNCHANGED packetAmount
            BY <1>0, <3>1
        <3>2. ASSUME NEW hits \in 0..PktAmountToOffload,
                     packetAmount' = [packetAmount EXCEPT
                        ![p[2]] = AtMost(@ + hits, PktAmountToOffload)]
              PROVE  \A j \in Keys : packetAmount'[j] >= packetAmount[j]
            BY <1>0, <3>2 DEF AtMost, TypeOK
        <3> QED
            BY <1>7, <3>1, <3>2 DEF QueryCounter
    <2>2. Busy \subseteq Busy'
        BY <1>0, <2>1 DEF Busy
    <2> QED
        BY <1>7, <2>2 DEF QueryCounter, HandInv, workerVars
<1>8. ASSUME GetAgedFlows \/ GetAgedError \/ DestroyRule \/ DestroyFailed
             \/ ResetStatus
      PROVE  HandInv'
    BY <1>1, <1>8 DEF GetAgedFlows, GetAgedError, DestroyRule, DestroyFailed,
                      ResetStatus, entryVars
<1>9. CASE UNCHANGED vars
    BY <1>1, <1>9 DEF vars, entryVars
<1> QED
    BY <1>2, <1>3, <1>4, <1>5, <1>6, <1>7, <1>8, <1>9
    DEF Next, DeleteTimeoutFlows

----------------------------------------------------------------------------
(* What is asked for.                                                      *)

\* A request that gets into the ring asks for the rules of its flow.
LEMMA AskedEnqueue ==
    ASSUME TypeOK, NEW k \in Keys, UNCHANGED batch,
           flowRulesRing' = Append(flowRulesRing, k)
    PROVE  Asked' = Asked \cup {k, Peer[k]}
<1>1. \A j \in Keys : Pending(j)' <=> Pending(j) \/ j = k
    BY AppendElements DEF Pending
<1>2. \A j \in Keys : Peer[j] \in Keys /\ (Peer[j] = k <=> j = Peer[k])
    BY PeerAssumption
<1> QED
    BY <1>1, <1>2 DEF Asked

\* Taking a burst out of the ring changes nothing of what is asked for.
LEMMA AskedDequeue ==
    ASSUME TypeOK, DequeueBurst
    PROVE  Asked' = Asked
<1>1. batch = <<>> /\ Len(batch) = 0
    BY EmptySeq DEF DequeueBurst, TypeOK
<1>2. /\ \A i \in 1..Len(batch') :
            \E j \in 1..Len(flowRulesRing) : batch'[i] = flowRulesRing[j]
      /\ \A i \in 1..Len(flowRulesRing') :
            \E j \in 1..Len(flowRulesRing) :
                flowRulesRing'[i] = flowRulesRing[j]
      /\ \A j \in 1..Len(flowRulesRing) :
            \/ \E i \in 1..Len(batch') : batch'[i] = flowRulesRing[j]
            \/ \E i \in 1..Len(flowRulesRing') :
                  flowRulesRing'[i] = flowRulesRing[j]
    BY DequeueElements
<1>3. ASSUME NEW k \in Keys, Pending(k) PROVE Pending(k)'
  <2>1. PICK j \in 1..Len(flowRulesRing) : flowRulesRing[j] = k
    BY <1>1, <1>3 DEF Pending
  <2>2. CASE \E i \in 1..Len(batch') : batch'[i] = flowRulesRing[j]
    BY <2>1, <2>2 DEF Pending
  <2>3. CASE \E i \in 1..Len(flowRulesRing') :
                 flowRulesRing'[i] = flowRulesRing[j]
    BY <2>1, <2>3 DEF Pending
  <2> QED
    BY <1>2, <2>2, <2>3
<1>4. ASSUME NEW k \in Keys, Pending(k)' PROVE Pending(k)
  <2>1. CASE \E i \in 1..Len(batch') : batch'[i] = k
    BY <1>2, <2>1 DEF Pending
  <2>2. CASE \E i \in 1..Len(flowRulesRing') : flowRulesRing'[i] = k
    BY <1>2, <2>2 DEF Pending
  <2> QED
    BY <1>4, <2>1, <2>2 DEF Pending
<1> QED
    BY <1>3, <1>4, PeerAssumption DEF Asked

\* The request the engine leaves behind is answered, unless it is pending a
\* second time.
LEMMA AskedNext ==
    ASSUME TypeOK, batch # <<>>, NextRequest, UNCHANGED flowRulesRing
    PROVE  \/ Asked' = Asked
           \/ \E k \in Keys : Asked' = Asked \ {k, Peer[k]}
<1>1. PICK b \in Keys : b = batch[1] /\ Len(batch) \in Nat \ {0}
    BY HeadIsFirst
<1>2. /\ \A i \in 1..Len(batch') :
            i + 1 \in 2..Len(batch) /\ batch'[i] = batch[i+1]
      /\ \A i \in 2..Len(batch) :
            i - 1 \in 1..Len(batch') /\ batch'[i-1] = batch[i]
    BY NextRequestElements
<1>3. \A k \in Keys : Pending(k)' => Pending(k)
    <2>1. \A i \in 2..Len(batch) : i \in 1..Len(batch)
        BY <1>1
    <2> QED
        BY <1>2, <2>1 DEF Pending
<1>4. \A k \in Keys : Pending(k) => Pending(k)' \/ k = b
    <2>1. \A i \in 1..Len(batch) : i = 1 \/ i \in 2..Len(batch)
        BY <1>1
    <2> QED
        BY <1>1, <1>2, <2>1 DEF Pending
<1>5. \A k \in Keys : Peer[k] \in Keys /\ Peer[Peer[k]] = k
    BY PeerAssumption
<1>6. CASE Pending(b)' \/ Pending(Peer[b])'
    <2>1. b \in Asked' /\ Peer[b] \in Asked'
        BY <1>1, <1>5, <1>6 DEF Asked
    <2> QED
        BY <1>1, <1>3, <1>4, <1>5, <2>1 DEF Asked
<1>7. CASE ~Pending(b)' /\ ~Pending(Peer[b])'
    <2>1. b \notin Asked' /\ Peer[b] \notin Asked'
        BY <1>1, <1>5, <1>7 DEF Asked
    <2>2. \A k \in Keys : k \notin {b, Peer[b]} => (k \in Asked' <=> k \in Asked)
        BY <1>1, <1>3, <1>4, <1>5 DEF Asked
    <2>3. Asked' = Asked \ {b, Peer[b]}
        BY <2>1, <2>2 DEF Asked
    <2> QED
        BY <1>1, <2>3
<1> QED
    BY <1>6, <1>7

\* What the engine is at is asked for.
LEMMA TargetAsked ==
    ASSUME TypeOK, batch # <<>>
    PROVE  Target \in Asked
<1>1. Head(batch) = batch[1] /\ Head(batch) \in Keys /\ 1 \in 1..Len(batch)
    BY HeadIsFirst
<1>2. Pending(Head(batch))
    BY <1>1 DEF Pending
<1> QED
    BY <1>1, <1>2, PeerAssumption DEF Asked, Target

----------------------------------------------------------------------------
(* The steps.                                                              *)

\* The initial states are initial states of the promise.
LEMMA InitPromise == Init => Promise!Init
<1> SUFFICES ASSUME Init PROVE Promise!Init
    OBVIOUS
<1>1. \A k \in Keys : packetAmount[k] = 0
    BY DEF Init
<1>2. {k \in Keys : packetAmount[k] >= PktAmountToOffload} = {}
    BY <1>1, BoundAssumption
<1>3. Len(<<>>) = 0
    OBVIOUS
<1>4. \A k : ~Pending(k)
    BY <1>3 DEF Init, Pending
<1>5. \A k \in Keys, h \in Handles : rule[h] # k
    BY NullAssumption DEF Init
<1> QED
    BY <1>2, <1>4, <1>5 DEF Init, Promise!Init

\* A step that changes none of the five is a stutter of the promise.
LEMMA PromiseStutter ==
    ASSUME Busy' = Busy, Asked' = Asked, Ruled' = Ruled, Quiet' = Quiet,
           UNCHANGED duplicated
    PROVE  UNCHANGED Promise!vars
BY DEF Promise!vars, Busy, Asked, Ruled, Quiet

\* The five follow the variables they are made of.
LEMMA PromiseUnchanged ==
    /\ UNCHANGED packetAmount => Busy' = Busy
    /\ UNCHANGED <<flowRulesRing, batch>> => Asked' = Asked
    /\ UNCHANGED rule => Ruled' = Ruled
    /\ UNCHANGED <<rule, aged>> => Quiet' = Quiet
BY DEF Busy, Asked, Ruled, Quiet, Pending

\* A count that goes up at one key makes at most that key busy.
LEMMA BusyGrows ==
    ASSUME TypeOK, TypeOK', NEW k \in Keys,
           packetAmount'[k] >= packetAmount[k],
           \A j \in Keys \ {k} : packetAmount'[j] = packetAmount[j]
    PROVE  Busy' = Busy \/ Busy' = Busy \cup {k}
<1>1. /\ packetAmount[k] \in Nat /\ packetAmount'[k] \in Nat
      /\ PktAmountToOffload \in Nat
    BY BoundAssumption DEF TypeOK
<1> QED
    BY <1>1 DEF Busy

\* The history of a second rule is never forgotten.
LEMMA DuplicatedStays ==
    ASSUME TypeOK, TypeOK', [Next]_vars, duplicated
    PROVE  duplicated'
BY DEF Next, Worker, Engine, DeleteTimeoutFlows, NewFlow, CountPacket,
       Enqueue, MarkOffloading, DequeueBurst, CreateRule, CreateRefused,
       StoreHandle, MarkOffloaded, Age, GetAgedFlows, GetAgedError,
       QueryCounter, DestroyRule, DestroyFailed, ResetStatus, vars, ghostVars

\* A count going up is a Reach or a stutter.
LEMMA ReachStep ==
    ASSUME TypeOK, TypeOK', NEW k \in Keys,
           packetAmount'[k] >= packetAmount[k],
           \A j \in Keys \ {k} : packetAmount'[j] = packetAmount[j],
           UNCHANGED <<flowRulesRing, batch, rule, aged, duplicated>>
    PROVE  [Promise!Next]_(Promise!vars)
<1>1. Asked' = Asked /\ Ruled' = Ruled /\ Quiet' = Quiet
    BY PromiseUnchanged
<1>2. CASE Busy' = Busy
    BY <1>1, <1>2, PromiseStutter
<1>3. CASE Busy' = Busy \cup {k}
    <2>1. Promise!Reach(k)
        BY <1>1, <1>3 DEF Promise!Reach, Busy, Asked, Ruled, Quiet
    <2> QED
        BY <2>1 DEF Promise!Next
<1> QED
    BY <1>2, <1>3, BusyGrows

\* Every step of the threads and the NIC is a step of the promise.
LEMMA PromiseStep ==
    TypeOK /\ TypeOK' /\ HandleInv /\ ThresholdInv /\ HandInv /\ [Next]_vars
        => [Promise!Next]_(Promise!vars)
<1> SUFFICES ASSUME TypeOK, TypeOK', HandleInv, ThresholdInv, HandInv,
                    [Next]_vars
             PROVE  [Promise!Next]_(Promise!vars)
    OBVIOUS
<1> USE NullAssumption
<1>0. CASE duplicated
    <2>1. duplicated' = TRUE
        BY <1>0, DuplicatedStays DEF TypeOK
    <2>2. Promise!Broken
        BY <1>0, <2>1 DEF Promise!Broken
    <2> QED
        BY <2>2 DEF Promise!Next
<1> SUFFICES ASSUME ~duplicated
             PROVE  [Promise!Next]_(Promise!vars)
    BY <1>0
<1>1. ASSUME UNCHANGED <<packetAmount, flowRulesRing, batch, rule, aged,
                         duplicated>>
      PROVE  [Promise!Next]_(Promise!vars)
    BY <1>1, PromiseUnchanged, PromiseStutter
<1>2. ASSUME NEW w \in Workers, NEW k \in Keys, NewFlow(w, k)
      PROVE  [Promise!Next]_(Promise!vars)
    <2>1. /\ packetAmount[k] = 0
          /\ packetAmount' = [packetAmount EXCEPT ![k] = 1]
          /\ UNCHANGED <<flowRulesRing, batch, rule, aged, duplicated>>
        BY <1>2 DEF NewFlow, ThresholdInv, engineVars, nicVars, ghostVars
    <2>2. /\ packetAmount'[k] >= packetAmount[k]
          /\ \A j \in Keys \ {k} : packetAmount'[j] = packetAmount[j]
        BY <2>1 DEF TypeOK
    <2> QED
        BY <2>1, <2>2, ReachStep
<1>3. ASSUME NEW w \in Workers, NEW k \in Keys, CountPacket(w, k)
      PROVE  [Promise!Next]_(Promise!vars)
    <2>1. /\ packetAmount' = [packetAmount EXCEPT
                                ![k] = AtMost(@ + 1, PktAmountToOffload)]
          /\ UNCHANGED <<flowRulesRing, batch, rule, aged, duplicated>>
        BY <1>3 DEF CountPacket, engineVars, nicVars, ghostVars
    <2>2. /\ packetAmount'[k] >= packetAmount[k]
          /\ \A j \in Keys \ {k} : packetAmount'[j] = packetAmount[j]
        BY <2>1, BoundAssumption DEF TypeOK, AtMost
    <2> QED
        BY <2>1, <2>2, ReachStep
<1>4. ASSUME NEW w \in Workers, Enqueue(w)
      PROVE  [Promise!Next]_(Promise!vars)
    <2>1. UNCHANGED <<packetAmount, batch, rule, aged, duplicated>>
        BY <1>4 DEF Enqueue, entryVars, engineVars, nicVars, ghostVars
    <2>2. CASE flowRulesRing' = Append(flowRulesRing, wkey[w])
        <3>1. PICK k \in Keys : k = wkey[w] /\ k \in Busy
            BY <1>4 DEF Enqueue, HandInv, Busy
        <3>2. /\ Busy' = Busy /\ Ruled' = Ruled /\ Quiet' = Quiet
              /\ Asked' = Asked \cup {k, Peer[k]}
            BY <2>1, <2>2, <3>1, AskedEnqueue, PromiseUnchanged
        <3>3. Promise!Request(k)
            BY <2>1, <3>1, <3>2
            DEF Promise!Request, Busy, Asked, Ruled, Quiet
        <3> QED
            BY <3>3 DEF Promise!Next
    <2>3. CASE UNCHANGED flowRulesRing
        BY <1>1, <2>1, <2>3
    <2> QED
        BY <1>4, <2>2, <2>3 DEF Enqueue
<1>5. ASSUME NEW w \in Workers, MarkOffloading(w)
      PROVE  [Promise!Next]_(Promise!vars)
    BY <1>1, <1>5 DEF MarkOffloading, engineVars, nicVars, ghostVars
<1>6. CASE DequeueBurst
    <2>1. UNCHANGED <<packetAmount, rule, aged, duplicated>>
        BY <1>6 DEF DequeueBurst, entryVars, nicVars, ghostVars
    <2> QED
        BY <1>6, <2>1, AskedDequeue, PromiseUnchanged, PromiseStutter
<1>7. ASSUME NEW h \in Handles, CreateRule(h)
      PROVE  [Promise!Next]_(Promise!vars)
    <2>1. /\ UNCHANGED <<packetAmount, flowRulesRing, batch, aged>>
          /\ rule' = [rule EXCEPT ![h] = Target] /\ rule[h] = NULL
          /\ duplicated' = (duplicated \/ \E g \in Handles : rule[g] = Target)
          /\ h \notin aged
        BY <1>7 DEF CreateRule, Live, TypeOK, entryVars
    <2>2. PICK k \in Keys : k = Target /\ k \in Asked
        BY <1>7, TargetType, TargetAsked DEF CreateRule, TypeOK
    <2>3. /\ Busy' = Busy /\ Asked' = Asked
          /\ Ruled' = Ruled \cup {k}
          /\ Quiet' = Quiet
        <3>1. /\ rule'[h] = k
              /\ \A g \in Handles : g # h => rule'[g] = rule[g]
            BY <2>1, <2>2 DEF TypeOK
        <3>2. Ruled' = Ruled \cup {k}
            BY <2>1, <2>2, <3>1 DEF Ruled
        <3>3. Quiet' = Quiet
            BY <2>1, <3>1 DEF Quiet, TypeOK
        <3> QED
            BY <2>1, <3>2, <3>3, PromiseUnchanged
    <2>4. CASE k \in Ruled
        <3>1. duplicated' = TRUE
            BY <2>1, <2>2, <2>4 DEF Ruled
        <3>2. Promise!Break
            BY <2>2, <2>4, <3>1 DEF Promise!Break, Asked, Ruled
        <3> QED
            BY <3>2 DEF Promise!Next
    <2>5. CASE k \notin Ruled
        <3>1. UNCHANGED duplicated
            BY <2>1, <2>2, <2>5 DEF Ruled, TypeOK
        <3>2. Promise!Offload(k)
            BY <2>2, <2>3, <2>5, <3>1
            DEF Promise!Offload, Busy, Asked, Ruled, Quiet
        <3> QED
            BY <3>2 DEF Promise!Next
    <2> QED
        BY <2>4, <2>5
<1>8. ASSUME CreateRefused \/ MarkOffloaded
      PROVE  [Promise!Next]_(Promise!vars)
    <2>1. /\ UNCHANGED <<packetAmount, flowRulesRing, rule, aged, duplicated>>
          /\ batch # <<>> /\ (NextRequest \/ UNCHANGED batch)
        BY <1>8 DEF CreateRefused, MarkOffloaded, TypeOK, nicVars, ghostVars
    <2>2. CASE UNCHANGED batch
        BY <1>1, <2>1, <2>2
    <2>3. CASE NextRequest
        <3>1. Busy' = Busy /\ Ruled' = Ruled /\ Quiet' = Quiet
            BY <2>1, PromiseUnchanged
        <3>2. CASE Asked' = Asked
            BY <2>1, <3>1, <3>2, PromiseStutter
        <3>3. ASSUME NEW k \in Keys, Asked' = Asked \ {k, Peer[k]}
              PROVE  [Promise!Next]_(Promise!vars)
            <4>1. Promise!Answer(k)
                BY <2>1, <3>1, <3>3
                DEF Promise!Answer, Busy, Asked, Ruled, Quiet
            <4> QED
                BY <4>1 DEF Promise!Next
        <3> QED
            BY <2>1, <2>3, <3>2, <3>3, AskedNext
    <2> QED
        BY <2>1, <2>2, <2>3
<1>9. CASE StoreHandle
    BY <1>1, <1>9 DEF StoreHandle, nicVars, ghostVars
<1>10. ASSUME NEW h \in Handles, Age(h)
       PROVE  [Promise!Next]_(Promise!vars)
    <2>1. /\ UNCHANGED <<packetAmount, flowRulesRing, batch, rule, duplicated>>
          /\ aged' = aged \cup {h}
        BY <1>10 DEF Age, entryVars, engineVars
    <2>2. PICK k \in Keys : k = rule[h]
        BY <1>10 DEF Age, Live, TypeOK
    <2>3. /\ Busy' = Busy /\ Asked' = Asked /\ Ruled' = Ruled
          /\ Quiet' = Quiet \cup {k} /\ k \in Ruled
        BY <2>1, <2>2, PromiseUnchanged DEF Quiet, Ruled
    <2>4. Promise!Expire(k)
        BY <2>1, <2>3 DEF Promise!Expire, Busy, Asked, Ruled, Quiet
    <2> QED
        BY <2>4 DEF Promise!Next
<1>11. ASSUME GetAgedFlows \/ GetAgedError \/ DestroyFailed \/ ResetStatus
       PROVE  [Promise!Next]_(Promise!vars)
    BY <1>1, <1>11 DEF GetAgedFlows, GetAgedError, DestroyFailed, ResetStatus,
                       entryVars, engineVars, nicVars, ghostVars
<1>12. ASSUME NEW p \in todo, QueryCounter(p)
       PROVE  [Promise!Next]_(Promise!vars)
    <2>1. UNCHANGED <<flowRulesRing, batch, rule, aged, duplicated>>
        BY <1>12 DEF QueryCounter, engineVars, nicVars
    <2>2. p[2] \in Keys
        BY DEF TypeOK
    <2>3. CASE UNCHANGED packetAmount
        BY <1>1, <2>1, <2>3
    <2>4. ASSUME NEW hits \in 0..PktAmountToOffload,
                 packetAmount' = [packetAmount EXCEPT
                        ![p[2]] = AtMost(@ + hits, PktAmountToOffload)]
          PROVE  [Promise!Next]_(Promise!vars)
        <3>1. /\ packetAmount'[p[2]] >= packetAmount[p[2]]
              /\ \A j \in Keys \ {p[2]} : packetAmount'[j] = packetAmount[j]
            BY <2>2, <2>4, BoundAssumption DEF TypeOK, AtMost
        <3> QED
            BY <2>1, <2>2, <3>1, ReachStep
    <2> QED
        BY <1>12, <2>3, <2>4 DEF QueryCounter
<1>13. CASE DestroyRule
    <2>1. /\ UNCHANGED <<packetAmount, flowRulesRing, batch, duplicated>>
          /\ rule' = [rule EXCEPT ![flow[dkey]] = NULL]
          /\ aged' = aged \ {flow[dkey]}
        BY <1>13 DEF DestroyRule, entryVars, engineVars
    <2>2. PICK k \in Keys, h \in Handles :
            k = dkey /\ h = flow[dkey] /\ rule[h] = k /\ h \in aged
        BY <1>13 DEF DestroyRule, HandleInv, HandleFits, TypeOK
    <2>3. /\ rule'[h] = NULL
          /\ \A g \in Handles : g # h => rule'[g] = rule[g] /\ rule[g] # k
        <3>1. \A g \in Handles : rule[g] = k => g = h
            BY <2>2 DEF HandleInv, Live
        <3> QED
            BY <2>1, <2>2, <3>1 DEF TypeOK
    <2>4. Ruled' = Ruled \ {k}
        BY <2>2, <2>3 DEF Ruled
    <2>5. Quiet' = Quiet \ {k} /\ k \in Quiet
        <3>1. aged' = aged \ {h} /\ aged \subseteq Handles
            BY <2>1, <2>2 DEF TypeOK
        <3>2. \A j \in Keys \ {k} :
                (\E g \in aged' : rule'[g] = j) <=> (\E g \in aged : rule[g] = j)
            BY <2>2, <2>3, <3>1
        <3>3. ~(\E g \in aged' : rule'[g] = k) /\ (\E g \in aged : rule[g] = k)
            BY <2>2, <2>3, <3>1
        <3> QED
            BY <3>2, <3>3 DEF Quiet
    <2>6. Promise!Remove(k)
        BY <2>1, <2>4, <2>5, PromiseUnchanged
        DEF Promise!Remove, Busy, Asked, Ruled, Quiet
    <2> QED
        BY <2>6 DEF Promise!Next
<1>14. CASE UNCHANGED vars
    BY <1>1, <1>14 DEF vars, entryVars, engineVars, nicVars, ghostVars
<1> QED
    BY <1>2, <1>3, <1>4, <1>5, <1>6, <1>7, <1>8, <1>9, <1>10, <1>11, <1>12,
       <1>13, <1>14
    DEF Next, Worker, Engine, DeleteTimeoutFlows

\* Workers, ring, engine and deleter keep the promise of the README, for any
\* flows, queues, sizes and port modes: rules appear only where a direction
\* with its n packets asked for them, and until a direction has two rules only
\* a quiet one is removed, and it alone.
THEOREM PromiseImplemented == Spec => PromiseKept
<1>1. Spec => [](TypeOK /\ HandleInv /\ ThresholdInv)
    <2>1. Spec => []ThresholdInv
        BY InitThreshold, ThresholdStep, Typing, PTL DEF Spec
    <2> QED
        BY <2>1, Typing, HandleInvariant, PTL
<1>2. Spec => []HandInv
    BY <1>1, InitHand, HandStep, PTL DEF Spec
<1>3. (TypeOK /\ HandleInv /\ ThresholdInv) /\ TypeOK' /\ HandInv /\ [Next]_vars
        => [Promise!Next]_(Promise!vars)
    BY PromiseStep
<1>4. Init => Promise!Init
    BY InitPromise
<1> QED
    BY <1>1, <1>2, <1>3, <1>4, Typing, PTL DEF Spec, PromiseKept, Promise!Spec
=============================================================================
