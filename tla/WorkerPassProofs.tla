-------------------------- MODULE WorkerPassProofs --------------------------
(***************************************************************************)
(* Theorems about WorkerPass, for any burst size, any buffers, any width   *)
(* of the counter and any number of packets.                               *)
(***************************************************************************)
EXTENDS WorkerPass, TLAPS

\* What the variables hold.
PassType ==
    /\ owned \subseteq Mbufs /\ badRelease \in BOOLEAN
    /\ wpc \in {"rx", "process", "count", "free"}
    /\ mbufs \in [Slots -> Mbufs \cup {NULL}]
    /\ nb_rx \in 0..MaxBulkSize /\ nb_tx \in 0..MaxBulkSize
    /\ packet_index \in Nat
    /\ wtmp \in Nat /\ packet_amount \in Nat
    /\ slow \in Nat /\ fast \in Nat /\ hits \in Nat
    /\ ruled \in BOOLEAN
    /\ dpc \in {"idle", "read", "write", "destroy"}
    /\ dhits \in Nat /\ dtmp \in Nat
    /\ overlap \in BOOLEAN /\ disturbed \in BOOLEAN

\* The mbufs of the slots from one index up to another, that one excluded.
In(first, last) == {mbufs[s] : s \in {t \in Slots : first <= t /\ t < last}}

\* The worker owns what is in the slots it has still to send or to free, and
\* no two of these slots hold the same mbuf.
OwnedInv ==
    /\ ~badRelease
    /\ wpc = "rx" => owned = {}
    /\ wpc \in {"process", "count"} => owned = In(0, nb_rx)
    /\ wpc = "free" => owned = In(nb_tx, nb_rx)
    /\ wpc # "rx" =>
         \A s, t \in Slots :
             s < nb_rx /\ t < nb_rx /\ mbufs[s] = mbufs[t] => s = t

\* Whatever either thread has read, and the hits the rule has yet to report,
\* are packets the flow has had.
CountInv ==
    ~disturbed /\ slow + fast < CounterModulus =>
        /\ packet_amount + Pending <= slow + fast
        /\ wpc = "count" => wtmp + Pending <= slow + fast
        /\ dpc \in {"read", "write"} => ruled /\ dhits = hits
        /\ dpc = "write" => dtmp + dhits <= slow + fast

\* As long as no two updates have overlapped, what either thread has read of
\* packet_amount is what it still holds, so that its write loses nothing.
ExactInv ==
    ~overlap /\ ~disturbed =>
        /\ (packet_amount + Pending) % CounterModulus
             = (slow + fast) % CounterModulus
        /\ wpc = "count" => wtmp = packet_amount
        /\ dpc \in {"read", "write"} => ruled /\ dhits = hits
        /\ dpc = "write" => dtmp = packet_amount

PassInv == PassType /\ OwnedInv /\ CountInv /\ ExactInv

----------------------------------------------------------------------------
(* The arithmetic of a counter that wraps.                                 *)

\* A number is its quotient times the modulus and its remainder.
LEMMA Division ==
    \A n \in Nat :
        /\ n % CounterModulus \in 0..(CounterModulus - 1)
        /\ n \div CounterModulus \in Nat
        /\ n = (n \div CounterModulus) * CounterModulus
                  + (n % CounterModulus)
<1> TAKE n \in Nat
<1>1. n % CounterModulus \in 0..(CounterModulus - 1)
  BY PassAssumption
<1>2. n \div CounterModulus \in Nat
  BY PassAssumption
<1>3. n = CounterModulus * (n \div CounterModulus) + (n % CounterModulus)
  <2>1. \A a, b \in Nat : b > 0 => a = b * (a \div b) + (a % b)
    OBVIOUS
  <2> QED
    BY <2>1, PassAssumption
<1>4. CounterModulus * (n \div CounterModulus)
        = (n \div CounterModulus) * CounterModulus
  BY <1>2, PassAssumption
<1> QED
  BY <1>1, <1>2, <1>3, <1>4

\* Multiplication keeps the order.
LEMMA ProductGrows == \A x, y, m \in Nat : x <= y => x * m <= y * m
OBVIOUS

\* The remainder is determined.
LEMMA RemainderUnique ==
    ASSUME NEW p \in Nat, NEW q \in Nat,
           NEW r \in 0..(CounterModulus - 1),
           NEW s \in 0..(CounterModulus - 1),
           p * CounterModulus + r = q * CounterModulus + s
    PROVE  r = s
<1>1. /\ CounterModulus \in Nat
      /\ p * CounterModulus \in Nat /\ q * CounterModulus \in Nat
      /\ (p + 1) * CounterModulus = p * CounterModulus + CounterModulus
      /\ (q + 1) * CounterModulus = q * CounterModulus + CounterModulus
  BY PassAssumption
<1>2. CASE p < q
  <2>1. (p + 1) * CounterModulus <= q * CounterModulus
    BY <1>2, ProductGrows, PassAssumption
  <2> QED
    BY <2>1, <1>1
<1>3. CASE q < p
  <2>1. (q + 1) * CounterModulus <= p * CounterModulus
    BY <1>3, ProductGrows, PassAssumption
  <2> QED
    BY <2>1, <1>1
<1>4. CASE p = q
  BY <1>4, <1>1
<1> QED
  BY <1>2, <1>3, <1>4

\* The two ways of dividing a + b, put together.
LEMMA SumOfParts ==
    ASSUME NEW a \in Nat, NEW b \in Nat, NEW pm \in Nat, NEW qm \in Nat,
           NEW sm \in Nat, NEW rest \in Nat, NEW t \in Nat, NEW u \in Nat,
           a = pm + rest, rest + b = qm + t, a + b = sm + u
    PROVE  (pm + qm) + t = sm + u
OBVIOUS

\* Adding to a counter that has wrapped is adding and then wrapping.
LEMMA WrapThenAdd ==
    ASSUME NEW a \in Nat, NEW b \in Nat
    PROVE  ((a % CounterModulus) + b) % CounterModulus
             = (a + b) % CounterModulus
<1> DEFINE rest == a % CounterModulus
           p    == a \div CounterModulus
           q    == (rest + b) \div CounterModulus
           s    == (a + b) \div CounterModulus
<1>1. /\ rest \in Nat /\ rest + b \in Nat /\ a + b \in Nat
      /\ CounterModulus \in Nat
  BY Division, PassAssumption
<1>2. a = p * CounterModulus + rest /\ p \in Nat
  BY Division
<1> HIDE DEF rest
<1>3. /\ rest + b = q * CounterModulus + ((rest + b) % CounterModulus)
      /\ q \in Nat /\ (rest + b) % CounterModulus \in 0..(CounterModulus - 1)
  BY Division, <1>1
<1>4. /\ a + b = s * CounterModulus + ((a + b) % CounterModulus)
      /\ s \in Nat /\ (a + b) % CounterModulus \in 0..(CounterModulus - 1)
  BY Division, <1>1
<1> HIDE DEF p, q, s
<1>5. /\ (p + q) * CounterModulus = p * CounterModulus + q * CounterModulus
      /\ p * CounterModulus \in Nat /\ q * CounterModulus \in Nat
      /\ s * CounterModulus \in Nat /\ p + q \in Nat
      /\ (rest + b) % CounterModulus \in Nat
      /\ (a + b) % CounterModulus \in Nat
  BY <1>1, <1>2, <1>3, <1>4
<1>6. (p + q) * CounterModulus + ((rest + b) % CounterModulus)
        = s * CounterModulus + ((a + b) % CounterModulus)
  <2> DEFINE pm == p * CounterModulus
             qm == q * CounterModulus
             sm == s * CounterModulus
             t  == (rest + b) % CounterModulus
             u  == (a + b) % CounterModulus
  <2>1. /\ pm \in Nat /\ qm \in Nat /\ sm \in Nat /\ t \in Nat /\ u \in Nat
        /\ a = pm + rest /\ rest + b = qm + t /\ a + b = sm + u
        /\ (p + q) * CounterModulus = pm + qm
    BY <1>1, <1>2, <1>3, <1>4, <1>5
  <2> HIDE DEF pm, qm, sm, t, u
  <2>2. (pm + qm) + t = sm + u
    BY <1>1, <2>1, SumOfParts
  <2> QED
    BY <2>1, <2>2 DEF sm, t, u
<1>7. (rest + b) % CounterModulus = (a + b) % CounterModulus
  BY <1>3, <1>4, <1>5, <1>6, RemainderUnique
<1> QED
  BY <1>7 DEF rest

\* Two counts that agree modulo the width still do after one more packet.
LEMMA OneMoreAgrees ==
    ASSUME NEW a \in Nat, NEW b \in Nat,
           a % CounterModulus = b % CounterModulus
    PROVE  (a + 1) % CounterModulus = (b + 1) % CounterModulus
BY WrapThenAdd

----------------------------------------------------------------------------
(* The invariant is inductive.                                             *)

\* A count below the modulus is stored as it is.
LEMMA Stored ==
    /\ \A n \in Nat : n % CounterModulus \in Nat
    /\ \A n \in Nat : n < CounterModulus => n % CounterModulus = n
BY PassAssumption

\* A sum of counts that only grow.
LEMMA SumGrows ==
    ASSUME NEW a \in Nat, NEW b \in Nat, NEW c \in Nat, NEW d \in Nat,
           NEW bound \in Nat, a <= c, b <= d, c + d < bound
    PROVE  a + b < bound
OBVIOUS

\* The initial states satisfy the invariant, whatever nb_tx is.
LEMMA InitPass == Init => PassInv
<1> SUFFICES ASSUME Init PROVE PassInv
    OBVIOUS
<1>1. PassType
  <2>1. 0 \in 0..MaxBulkSize
    BY PassAssumption
  <2>2. mbufs \in [Slots -> Mbufs \cup {NULL}]
    BY DEF Init
  <2> QED
    BY <2>1, <2>2 DEF Init, PassType
<1>2. OwnedInv
    BY DEF Init, OwnedInv
<1>3. CountInv
    BY DEF Init, CountInv, Pending
<1>4. ExactInv
    BY DEF Init, ExactInv, Pending
<1> QED
    BY <1>1, <1>2, <1>3, <1>4 DEF PassInv

\* Every step keeps the types.
LEMMA PassTypeStep ==
    ASSUME PassType, [Next]_vars
    PROVE  PassType'
<1> USE DEF PassType, mbufVars, nicVars, agingVars
<1>1. CASE RxBurst
  <2>1. /\ owned' \subseteq Mbufs /\ nb_rx' \in 0..MaxBulkSize
        /\ wpc' \in {"process", "free"}
    BY <1>1 DEF RxBurst
  <2>2. mbufs' \in [Slots -> Mbufs \cup {NULL}]
    BY <1>1, PassAssumption DEF RxBurst, Slots
  <2>3. /\ packet_index' = 0
        /\ UNCHANGED <<badRelease, nb_tx, wtmp, packet_amount, slow, nicVars,
                       agingVars, overlap, disturbed>>
    BY <1>1 DEF RxBurst
  <2> QED
    BY <2>1, <2>2, <2>3
<1>2. CASE OtherPacket
    BY <1>2 DEF OtherPacket
<1>3. CASE ReadCount
    BY <1>3 DEF ReadCount
<1>4. CASE WriteCount
    BY <1>4, Stored DEF WriteCount
<1>5. CASE TxBurst
  <2>1. nb_tx' \in 0..MaxBulkSize
    BY <1>5, PassAssumption DEF TxBurst
  <2> QED
    BY <1>5, <2>1 DEF TxBurst, ReleaseSlots
<1>6. CASE FreeUnsent
    BY <1>6 DEF FreeUnsent, ReleaseSlots
<1>7. CASE CreateRule
    BY <1>7 DEF CreateRule
<1>8. CASE HitRule
    BY <1>8 DEF HitRule
<1>9. CASE QueryCounter \/ QueryFailed \/ ReadAmount
    BY <1>9 DEF QueryCounter, QueryFailed, ReadAmount
<1>10. CASE WriteAmount
    BY <1>10, Stored DEF WriteAmount
<1>11. CASE DestroyRule
    BY <1>11 DEF DestroyRule
<1>12. CASE DestroyFailed
    BY <1>12 DEF DestroyFailed
<1>13. CASE UNCHANGED vars
    BY <1>13 DEF vars
<1> QED
    BY <1>1, <1>2, <1>3, <1>4, <1>5, <1>6, <1>7, <1>9, <1>10, <1>11,
       <1>13, <1>8, <1>12
    DEF Next, Worker, DeleteTimeoutFlows

\* Every step keeps the account of the mbufs.
LEMMA OwnedStep ==
    ASSUME PassType, OwnedInv, [Next]_vars
    PROVE  OwnedInv'
<1> USE DEF PassType
<1>1. CASE RxBurst
  <2>0. PICK n \in 0..MaxBulkSize :
            \E got \in [0..(n - 1) -> Mbufs \ owned] :
            /\ \A a, b \in 0..(n - 1) : got[a] = got[b] => a = b
            /\ owned' = owned \cup {got[a] : a \in 0..(n - 1)}
            /\ mbufs' = [s \in Slots |-> IF s < n THEN got[s] ELSE mbufs[s]]
            /\ nb_rx' = n
            /\ wpc' = IF n > 0 THEN "process" ELSE "free"
    BY <1>1 DEF RxBurst
  <2>1. PICK got \in [0..(n - 1) -> Mbufs \ owned] :
            /\ \A a, b \in 0..(n - 1) : got[a] = got[b] => a = b
            /\ owned' = owned \cup {got[a] : a \in 0..(n - 1)}
            /\ mbufs' = [s \in Slots |-> IF s < n THEN got[s] ELSE mbufs[s]]
            /\ nb_rx' = n
            /\ wpc' = IF n > 0 THEN "process" ELSE "free"
    BY <2>0
  <2>2. \A s \in Slots : s < n => s \in 0..(n - 1) /\ mbufs'[s] = got[s]
    BY <2>1, PassAssumption DEF Slots
  <2>3. \A a \in 0..(n - 1) : a \in Slots /\ a < n
    BY PassAssumption DEF Slots
  <2>4. owned' = In(0, n)'
    BY <1>1, <2>1, <2>2, <2>3 DEF RxBurst, OwnedInv, In, Slots
  <2>5. \A s, t \in Slots : s < n /\ t < n /\ mbufs'[s] = mbufs'[t] => s = t
    BY <2>1, <2>2
  <2>6. n = 0 => owned' = {} /\ In(nb_tx, n)' = {}
    BY <1>1, <2>1, <2>4, PassAssumption DEF RxBurst, In, Slots
  <2>7. nb_rx' = n /\ wpc' = IF n > 0 THEN "process" ELSE "free"
    BY <2>1
  <2>8. nb_tx' = nb_tx /\ ~badRelease'
    BY <1>1 DEF RxBurst, OwnedInv
  <2>9. CASE n > 0
    BY <2>4, <2>5, <2>7, <2>8, <2>9 DEF OwnedInv
  <2>10. CASE n = 0
    <3>1. wpc' = "free" /\ owned' = {} /\ nb_rx' = n
      BY <2>6, <2>7, <2>10
    <3>2. owned' = In(nb_tx, nb_rx)'
      BY <2>6, <2>10, <3>1 DEF In
    <3> QED
      BY <2>5, <2>8, <3>1, <3>2 DEF OwnedInv
  <2> QED
    BY <2>9, <2>10
<1>2. CASE TxBurst
  <2>1. /\ wpc = "process" /\ wpc' = "free"
        /\ nb_tx' \in 0..nb_rx /\ UNCHANGED <<mbufs, nb_rx>>
        /\ owned' = owned \ {mbufs[s] : s \in 0..(nb_tx' - 1)}
        /\ badRelease' = (badRelease
                          \/ \E s \in 0..(nb_tx' - 1) : mbufs[s] \notin owned)
    BY <1>2 DEF TxBurst, ReleaseSlots
  <2>2. \A s \in 0..(nb_tx' - 1) : s \in Slots /\ 0 <= s /\ s < nb_rx
    BY <2>1, PassAssumption DEF Slots
  <2>3. \A s \in Slots : s \in Nat
    BY DEF Slots
  <2>4. ~badRelease'
    BY <2>1, <2>2 DEF OwnedInv, In
  <2>5. owned' = In(nb_tx, nb_rx)'
    BY <2>1, <2>2, <2>3 DEF OwnedInv, In
  <2> QED
    BY <2>1, <2>4, <2>5 DEF OwnedInv
<1>3. CASE FreeUnsent
  <2>1. In(nb_tx, nb_rx)
            = {mbufs[s] : s \in {t \in Slots : nb_tx <= t /\ t < nb_rx}}
    BY DEF In
  <2> QED
    BY <1>3, <2>1 DEF FreeUnsent, ReleaseSlots, OwnedInv
<1>4. CASE OtherPacket \/ ReadCount \/ WriteCount
    BY <1>4 DEF OtherPacket, ReadCount, WriteCount, OwnedInv, In, mbufVars
<1>5. CASE CreateRule \/ HitRule \/ DeleteTimeoutFlows \/ UNCHANGED vars
  <2>1. UNCHANGED <<mbufVars, wpc>>
    BY <1>5
    DEF CreateRule, HitRule, DeleteTimeoutFlows, QueryCounter, QueryFailed,
        ReadAmount, WriteAmount, DestroyRule, DestroyFailed, vars, mbufVars
  <2> QED
    BY <2>1 DEF OwnedInv, In, mbufVars
<1> QED
    BY <1>1, <1>2, <1>3, <1>4, <1>5 DEF Next, Worker

\* Every step keeps the counts within the packets there were.
LEMMA CountStep ==
    ASSUME PassType, PassType', CountInv, [Next]_vars
    PROVE  CountInv'
<1> SUFFICES ASSUME ~disturbed', slow' + fast' < CounterModulus
             PROVE  CountInv'
    BY DEF CountInv
<1>1. slow <= slow' /\ fast <= fast'
  <2>1. CASE WriteCount
    BY <2>1 DEF WriteCount, nicVars, PassType
  <2>2. CASE HitRule
    BY <2>2 DEF HitRule, PassType
  <2>3. CASE UNCHANGED <<slow, fast>>
    BY <2>3 DEF PassType
  <2> QED
    BY <2>1, <2>2, <2>3
    DEF Next, Worker, DeleteTimeoutFlows, RxBurst, OtherPacket, ReadCount,
        TxBurst, FreeUnsent, CreateRule, QueryCounter, QueryFailed,
        ReadAmount, WriteAmount, DestroyRule, DestroyFailed, vars, nicVars
<1>2. slow + fast < CounterModulus
  <2>1. /\ slow \in Nat /\ fast \in Nat /\ slow' \in Nat /\ fast' \in Nat
        /\ CounterModulus \in Nat
    BY PassAssumption DEF PassType
  <2> QED
    BY <1>1, <2>1, SumGrows
<1>3. ~disturbed
    BY DEF Next, Worker, DeleteTimeoutFlows, RxBurst, OtherPacket, ReadCount,
           WriteCount, TxBurst, FreeUnsent, CreateRule, HitRule,
           QueryCounter, QueryFailed, ReadAmount, WriteAmount, DestroyRule,
           DestroyFailed, vars
<1>4. ~disturbed /\ slow + fast < CounterModulus
    BY <1>2, <1>3
<1> USE <1>4 DEF PassType, CountInv, Pending, nicVars, agingVars
<1>5. CASE RxBurst \/ OtherPacket \/ ReadCount \/ TxBurst \/ FreeUnsent
    BY <1>5 DEF RxBurst, OtherPacket, ReadCount, TxBurst, FreeUnsent
<1>6. CASE WriteCount
  <2>1. wtmp + 1 \in Nat /\ wtmp + 1 < CounterModulus
    BY <1>6, PassAssumption DEF WriteCount
  <2>2. packet_amount' = wtmp + 1
    BY <1>6, <2>1, Stored DEF WriteCount
  <2> QED
    BY <1>6, <2>2 DEF WriteCount
<1>7. CASE CreateRule
    BY <1>7 DEF CreateRule
<1>8. CASE HitRule
  <2>1. /\ dpc = "idle" /\ dpc' = "idle" /\ ruled /\ ruled'
        /\ hits' = hits + 1 /\ fast' = fast + 1
        /\ UNCHANGED <<wpc, wtmp, packet_amount, slow>>
    BY <1>8 DEF HitRule
  <2>2. /\ packet_amount + hits <= slow + fast
        /\ wpc = "count" => wtmp + hits <= slow + fast
    BY <2>1
  <2> QED
    BY <2>1, <2>2
<1>9. CASE QueryCounter \/ ReadAmount
    BY <1>9 DEF QueryCounter, ReadAmount
<1>10. CASE QueryFailed \/ DestroyFailed
    BY <1>10 DEF QueryFailed, DestroyFailed
<1>11. CASE WriteAmount
  <2>1. dtmp + dhits \in Nat /\ dtmp + dhits < CounterModulus
    BY <1>11, PassAssumption DEF WriteAmount
  <2>2. packet_amount' = dtmp + dhits
    BY <1>11, <2>1, Stored DEF WriteAmount
  <2> QED
    BY <1>11, <2>2 DEF WriteAmount
<1>12. CASE DestroyRule
    BY <1>12 DEF DestroyRule
<1>13. CASE UNCHANGED vars
    BY <1>13 DEF vars
<1> QED
    BY <1>5, <1>6, <1>7, <1>9, <1>10, <1>11, <1>12, <1>13, <1>8
    DEF Next, Worker, DeleteTimeoutFlows

\* Every step keeps the account of the packets exact, until two updates
\* overlap.
LEMMA ExactStep ==
    ASSUME PassType, PassType', ExactInv, [Next]_vars
    PROVE  ExactInv'
<1> SUFFICES ASSUME ~overlap', ~disturbed'
             PROVE  ExactInv'
    BY DEF ExactInv
<1>1. (overlap => overlap') /\ (disturbed => disturbed')
  <2>1. CASE WriteCount
    BY <2>1 DEF WriteCount
  <2>2. CASE WriteAmount
    BY <2>2 DEF WriteAmount
  <2>3. ASSUME ~WriteCount, ~WriteAmount
        PROVE  overlap' = overlap
    BY <2>3
    DEF Next, Worker, DeleteTimeoutFlows, RxBurst, OtherPacket, ReadCount,
        TxBurst, FreeUnsent, CreateRule, HitRule, QueryCounter, QueryFailed,
        ReadAmount, DestroyRule, DestroyFailed, vars
  <2>4. disturbed => disturbed'
    BY DEF Next, Worker, DeleteTimeoutFlows, RxBurst, OtherPacket, ReadCount,
           WriteCount, TxBurst, FreeUnsent, CreateRule, HitRule,
           QueryCounter, QueryFailed, ReadAmount, WriteAmount, DestroyRule,
           DestroyFailed, vars
  <2> QED
    BY <2>1, <2>2, <2>3, <2>4
<1>2. /\ (packet_amount + Pending) % CounterModulus
            = (slow + fast) % CounterModulus
      /\ wpc = "count" => wtmp = packet_amount
      /\ dpc \in {"read", "write"} => ruled /\ dhits = hits
      /\ dpc = "write" => dtmp = packet_amount
    BY <1>1 DEF ExactInv
<1>3. /\ packet_amount \in Nat /\ slow \in Nat /\ fast \in Nat
      /\ hits \in Nat /\ Pending \in Nat /\ CounterModulus \in Nat
    BY PassAssumption DEF PassType, Pending
<1>4. CASE RxBurst \/ OtherPacket \/ ReadCount \/ TxBurst \/ FreeUnsent
    BY <1>2, <1>4
    DEF RxBurst, OtherPacket, ReadCount, TxBurst, FreeUnsent, ExactInv,
        Pending, nicVars, agingVars
<1>5. CASE WriteCount
  <2>1. /\ packet_amount' = (packet_amount + 1) % CounterModulus
        /\ Pending' = Pending /\ slow' = slow + 1 /\ fast' = fast
        /\ wpc' = "process" /\ dpc # "write"
        /\ UNCHANGED <<ruled, hits, dpc, dhits, dtmp>>
    BY <1>2, <1>5 DEF WriteCount, Pending, nicVars, agingVars
  <2>2. (packet_amount' + Pending') % CounterModulus
          = ((packet_amount + 1) + Pending) % CounterModulus
    <3>1. packet_amount + 1 \in Nat
      BY <1>3
    <3>2. (((packet_amount + 1) % CounterModulus) + Pending) % CounterModulus
            = ((packet_amount + 1) + Pending) % CounterModulus
      BY <1>3, <3>1, WrapThenAdd
    <3> QED
      BY <2>1, <3>2
  <2>3. /\ (packet_amount + 1) + Pending = (packet_amount + Pending) + 1
        /\ (slow + 1) + fast = (slow + fast) + 1
        /\ packet_amount + Pending \in Nat /\ slow + fast \in Nat
    BY <1>3
  <2>4. ((packet_amount + Pending) + 1) % CounterModulus
          = ((slow + fast) + 1) % CounterModulus
    BY <1>2, <2>3, OneMoreAgrees
  <2>5. (packet_amount' + Pending') % CounterModulus
          = (slow' + fast') % CounterModulus
    BY <2>1, <2>2, <2>3, <2>4
  <2> QED
    BY <1>2, <2>1, <2>5 DEF ExactInv
<1>6. CASE HitRule
  <2>1. /\ dpc = "idle" /\ Pending' = Pending + 1
        /\ fast' = fast + 1
        /\ UNCHANGED <<wpc, wtmp, packet_amount, slow, dpc>>
    BY <1>6 DEF HitRule, Pending, agingVars
  <2>2. /\ packet_amount + (Pending + 1) = (packet_amount + Pending) + 1
        /\ slow + (fast + 1) = (slow + fast) + 1
        /\ packet_amount + Pending \in Nat /\ slow + fast \in Nat
    BY <1>3
  <2>3. ((packet_amount + Pending) + 1) % CounterModulus
          = ((slow + fast) + 1) % CounterModulus
    BY <1>2, <2>2, OneMoreAgrees
  <2>4. (packet_amount' + Pending') % CounterModulus
          = (slow' + fast') % CounterModulus
    BY <2>1, <2>2, <2>3
  <2> QED
    BY <1>2, <2>1, <2>4 DEF ExactInv
<1>7. CASE QueryCounter \/ QueryFailed \/ ReadAmount \/ DestroyFailed
    BY <1>2, <1>7
    DEF QueryCounter, QueryFailed, ReadAmount, DestroyFailed, ExactInv,
        Pending, nicVars
<1>8. CASE WriteAmount
  <2>1. /\ packet_amount' = (packet_amount + Pending) % CounterModulus
        /\ Pending' = 0 /\ UNCHANGED <<slow, fast>>
        /\ wpc' # "count" /\ dpc' = "destroy"
    BY <1>2, <1>8 DEF WriteAmount, Pending, nicVars
  <2>2. packet_amount' + Pending' = packet_amount'
    BY <2>1 DEF PassType
  <2>3. ((packet_amount + Pending) % CounterModulus) % CounterModulus
          = (packet_amount + Pending) % CounterModulus
    <3>1. (packet_amount + Pending) % CounterModulus \in 0..(CounterModulus - 1)
      BY <1>3, Division
    <3> QED
      BY <1>3, <3>1, Stored
  <2>4. (packet_amount' + Pending') % CounterModulus
          = (slow' + fast') % CounterModulus
    BY <1>2, <2>1, <2>2, <2>3
  <2> QED
    BY <2>1, <2>4 DEF ExactInv
<1>9. CASE CreateRule \/ DestroyRule
  <2>1. /\ Pending' = Pending /\ dpc' = "idle"
        /\ UNCHANGED <<wpc, wtmp, packet_amount, slow, fast>>
    BY <1>9 DEF CreateRule, DestroyRule, Pending, agingVars
  <2> QED
    BY <1>2, <2>1 DEF ExactInv
<1>10. CASE UNCHANGED vars
    BY <1>2, <1>10 DEF vars, ExactInv, Pending
<1> QED
    BY <1>4, <1>5, <1>6, <1>7, <1>8, <1>9, <1>10
    DEF Next, Worker, DeleteTimeoutFlows

\* The invariant holds in every reachable state.
LEMMA PassInvariant == Spec => []PassInv
<1>1. PassInv /\ [Next]_vars => PassInv'
    BY PassTypeStep, OwnedStep, CountStep, ExactStep DEF PassInv
<1> QED
    BY InitPass, <1>1, PTL DEF Spec

----------------------------------------------------------------------------
(* What follows.                                                           *)

\* process_loop sends or frees every mbuf it has received exactly once,
\* whatever rte_eth_tx_burst accepts and whatever nb_tx holds in a pass that
\* has received nothing.
THEOREM EveryMbufOnce == Spec => []MbufsAccounted
<1>1. PassInv => MbufsAccounted
    BY DEF PassInv, OwnedInv, MbufsAccounted
<1> QED
    BY PassInvariant, <1>1, PTL

\* packet_amount counts every packet of the flow, modulo its width, unless an
\* update of the worker and one of the interrupt thread overlap or a call of
\* the driver fails or comes late: the overlap is the only race there is.
THEOREM ExactUnlessOverlap == Spec => []CountExact
<1>1. PassInv => CountExact
    BY DEF PassInv, ExactInv, CountExact
<1> QED
    BY PassInvariant, <1>1, PTL

\* The unlocked updates of packet_amount never count a packet twice.
THEOREM NeverOverstated == Spec => []CountNeverOverstated
<1>1. PassInv => CountNeverOverstated
    BY DEF PassInv, PassType, CountInv, CountNeverOverstated, Pending
<1> QED
    BY PassInvariant, <1>1, PTL
=============================================================================
